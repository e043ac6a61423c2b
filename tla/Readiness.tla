------------------------------- MODULE Readiness -------------------------------
(*****************************************************************************)
(* The readiness probe of the gateway: createReadinessChecker in             *)
(* artifacts/api-gateway/src/readiness.ts, with its pool of one database     *)
(* client.                                                                   *)
(*                                                                           *)
(* Node runs one callback at a time.  A probe asks the Python service and    *)
(* the database side by side; its AbortController fires at the deadline and  *)
(* when the process drains.  A client is handed back exactly once, and       *)
(* destroyed when a query may still be running on it.                        *)
(*****************************************************************************)
EXTENDS Naturals

CONSTANT MaxLate   \* bound of the model: abandoned connect() calls
ASSUME MaxLateAssumption == MaxLate \in Nat

VARIABLES
  draining,  \* setDraining or close was called
  cached,    \* the answer kept for two seconds
  probe,     \* inFlight: a probe runs
  aborted,   \* its signal
  python,    \* GET /api/healthz of this probe
  step,      \* checkDatabase of this probe: the call it waits for
  ledger,    \* the migration id it read
  slot,      \* the only client of the pool
  dirty,     \* that client is inside a transaction
  late,      \* connect() calls whose probe is over
  closing    \* close()

vars == <<draining, cached, probe, aborted, python, step, ledger, slot, dirty,
          late, closing>>
database == <<step, ledger, slot, dirty, late>>

Steps == {"connect", "begin", "select", "ledger", "rollback", "done"}
Using == {"begin", "select", "ledger", "rollback"}

\* Types; a client that is out belongs to the step that uses it.
TypeOK ==
  /\ draining \in BOOLEAN
  /\ cached \in {"none", "yes", "no"}
  /\ probe \in BOOLEAN
  /\ aborted \in BOOLEAN
  /\ python \in {"pending", "up", "down"}
  /\ step \in Steps
  /\ ledger \in {"none", "current", "other"}
  /\ slot \in {"empty", "idle", "out"}
  /\ dirty \in BOOLEAN
  /\ late \in 0 .. MaxLate
  /\ closing \in {"no", "waiting", "ending", "closed"}

Init ==
  /\ draining = FALSE /\ cached = "none"
  /\ probe = FALSE /\ aborted = FALSE
  /\ python = "pending" /\ step = "done" /\ ledger = "none"
  /\ slot = "empty" /\ dirty = FALSE /\ late = 0
  /\ closing = "no"

-----------------------------------------------------------------------------
(* checkReadiness.                                                           *)

\* Neither cached nor in flight: a new probe.
Start ==
  /\ ~draining /\ cached = "none" /\ ~probe
  /\ late < MaxLate
  /\ probe' = TRUE /\ aborted' = FALSE
  /\ python' = "pending" /\ step' = "connect" /\ ledger' = "none"
  /\ UNCHANGED <<draining, cached, slot, dirty, late, closing>>

Healthz(answer) ==
  /\ probe /\ python = "pending"
  /\ answer = "up" => ~aborted
  /\ python' = answer
  /\ UNCHANGED <<draining, cached, probe, aborted, database, closing>>

\* Broken variant: the migration found is not compared with the release.
SettleUncompared ==
  /\ probe /\ python # "pending" /\ step = "done"
  /\ cached' = IF python = "up" /\ ledger # "none" THEN "yes" ELSE "no"
  /\ probe' = FALSE
  /\ UNCHANGED <<draining, aborted, python, database, closing>>

\* Promise.all is settled: the answer is cached and the probe is over.
Settle ==
  /\ probe /\ python # "pending" /\ step = "done"
  /\ cached' = IF python = "up" /\ ledger = "current" THEN "yes" ELSE "no"
  /\ probe' = FALSE
  /\ UNCHANGED <<draining, aborted, python, database, closing>>

\* Two seconds pass.
Expire ==
  /\ cached # "none"
  /\ cached' = "none"
  /\ UNCHANGED <<draining, probe, aborted, python, database, closing>>

-----------------------------------------------------------------------------
(* checkDatabase.                                                            *)

\* The pool hands out its client, an idle one or a new connection.
Connected ==
  /\ probe /\ ~aborted /\ step = "connect" /\ slot # "out" /\ closing # "closed"
  /\ slot' = "out" /\ step' = "begin"
  /\ UNCHANGED <<draining, cached, probe, aborted, python, ledger, dirty, late, closing>>

ConnectFails ==
  /\ probe /\ step = "connect"
  /\ step' = "done"
  /\ UNCHANGED <<draining, cached, probe, aborted, python, ledger, slot, dirty,
                 late, closing>>

\* A query of the probe succeeds.
Queried(found) ==
  /\ probe /\ ~aborted /\ step \in {"begin", "select", "ledger"}
  /\ dirty' = TRUE
  /\ step' = CASE step = "begin" -> "select"
               [] step = "select" -> "ledger"
               [] step = "ledger" -> "rollback"
  /\ ledger' = IF step = "ledger" THEN found ELSE ledger
  /\ UNCHANGED <<draining, cached, probe, aborted, python, slot, late, closing>>

\* Broken variant: after a failed query the client is handed back as it is.
QueryFailsUnrolled ==
  /\ probe /\ ~aborted /\ step \in {"begin", "select", "ledger"}
  /\ step' = "done" /\ slot' = "idle"
  /\ UNCHANGED <<draining, cached, probe, aborted, python, ledger, dirty, late, closing>>

\* A query fails, by itself or by statement_timeout: whatever was begun is rolled
\* back; if nothing was begun the client goes back at once.
QueryFails ==
  /\ probe /\ ~aborted /\ step \in {"begin", "select", "ledger"}
  /\ IF dirty THEN step' = "rollback" /\ UNCHANGED slot
              ELSE step' = "done" /\ slot' = "idle"
  /\ UNCHANGED <<draining, cached, probe, aborted, python, ledger, dirty, late, closing>>

\* ROLLBACK answers: the client is released, or destroyed if it failed.
RolledBack(worked) ==
  /\ probe /\ ~aborted /\ step = "rollback"
  /\ step' = "done" /\ dirty' = FALSE
  /\ slot' = IF worked THEN "idle" ELSE "empty"
  /\ ledger' = IF worked THEN ledger ELSE "none"
  /\ UNCHANGED <<draining, cached, probe, aborted, python, late, closing>>

\* Broken variant: only the promise is given up, not the client.
AbortedKeeping ==
  /\ step' = "done" /\ ledger' = "none"
  /\ late' = IF step = "connect" THEN late + 1 ELSE late
  /\ UNCHANGED <<slot, dirty>>

\* Broken variant: a probe that waits for connect() goes on waiting.
AbortedConnecting ==
  IF step = "connect" THEN UNCHANGED database
  ELSE /\ step' = "done" /\ ledger' = "none"
       /\ IF step \in Using THEN slot' = "empty" /\ dirty' = FALSE
                            ELSE UNCHANGED <<slot, dirty>>
       /\ UNCHANGED late

\* What the abort event does to the database side of a running probe: a client
\* in use is destroyed, a connect() that is under way is abandoned. The release
\* metadata read along with it is not loaded either, so no ledger row matches.
AbortedDatabase ==
  /\ step' = "done" /\ ledger' = "none"
  /\ IF step \in Using THEN slot' = "empty" /\ dirty' = FALSE
                       ELSE UNCHANGED <<slot, dirty>>
  /\ late' = IF step = "connect" THEN late + 1 ELSE late

\* controller.abort(): the Python side fails too, unless it has answered.
Abort ==
  IF probe /\ ~aborted
  THEN /\ aborted' = TRUE
       /\ python' = IF python = "pending" THEN "down" ELSE python
       /\ AbortedDatabase
  ELSE UNCHANGED <<aborted, python, database>>

\* Broken variant: the deadline is given to the fetch only.
DeadlinePython ==
  /\ probe /\ ~aborted /\ python = "pending"
  /\ python' = "down"
  /\ UNCHANGED <<draining, cached, probe, aborted, database, closing>>

\* The deadline of the probe.
Deadline ==
  /\ probe /\ ~aborted
  /\ Abort
  /\ UNCHANGED <<draining, cached, probe, closing>>

\* An abandoned connect() ends: its client is destroyed at once, or it failed or
\* ran into connectionTimeoutMillis.
LateConnect ==
  /\ late > 0
  /\ late' = late - 1
  /\ \/ slot # "out" /\ slot' = "empty"
     \/ UNCHANGED slot
  /\ UNCHANGED <<draining, cached, probe, aborted, python, step, ledger, dirty, closing>>

-----------------------------------------------------------------------------
(* setDraining and close, called by shutdownGateway in index.ts.             *)

\* Broken variant: the answer of the last two seconds is kept.
ShutdownCached ==
  /\ closing = "no"
  /\ draining' = TRUE /\ closing' = "waiting"
  /\ Abort
  /\ UNCHANGED <<cached, probe>>

Shutdown ==
  /\ closing = "no"
  /\ draining' = TRUE /\ cached' = "none" /\ closing' = "waiting"
  /\ Abort
  /\ UNCHANGED probe

\* await inFlight, then pool.end().
EndPool ==
  /\ closing = "waiting" /\ ~probe
  /\ closing' = "ending"
  /\ UNCHANGED <<draining, cached, probe, aborted, python, database>>

\* The pool has ended when its client is back; an idle one is disconnected.
Closed ==
  /\ closing = "ending" /\ slot # "out" /\ late = 0
  /\ closing' = "closed"
  /\ slot' = "empty"
  /\ UNCHANGED <<draining, cached, probe, aborted, python, step, ledger, dirty, late>>

Callbacks ==
  \/ Settle \/ ConnectFails \/ LateConnect \/ Deadline \/ EndPool \/ Closed

Next ==
  \/ Start \/ Expire \/ Connected \/ QueryFails \/ Callbacks \/ Shutdown
  \/ \E answer \in {"up", "down"} : Healthz(answer)
  \/ \E found \in {"none", "current", "other"} : Queried(found)
  \/ \E worked \in BOOLEAN : RolledBack(worked)

Spec == Init /\ [][Next]_vars

\* Timers fire and settled promises continue; neither the Python service nor the
\* database has to answer anything.
FairSpec ==
  /\ Spec
  /\ WF_vars(Settle) /\ WF_vars(Deadline) /\ WF_vars(LateConnect)
  /\ WF_vars(EndPool) /\ WF_vars(Closed)

-----------------------------------------------------------------------------
(* Properties.                                                               *)

\* The pool never holds a client inside a transaction (the next probe would run
\* in the snapshot of an earlier one), and a client that is out is used by the
\* probe that runs, so none is lost.
PoolIsSound ==
  /\ slot # "out" => ~dirty
  /\ slot = "out" => probe /\ ~aborted /\ step \in Using

\* A positive answer comes from a probe that saw both sides and ended before its
\* deadline.  From the drain on none is stored: neither one kept from before it
\* nor that of the probe that it cut short, whose promise settles later.
ReadyWasMeasured ==
  /\ [][cached' = "yes" /\ cached # "yes" =>
         python = "up" /\ ledger = "current" /\ ~aborted]_vars
  /\ [](draining => cached # "yes")

\* Every probe comes to an end, so that the next caller gets a new answer, and so
\* does close(), although nothing the probe asked ever answers.
ProbesEnd ==
  /\ probe ~> ~probe
  /\ closing = "waiting" ~> closing = "closed"

=============================================================================
