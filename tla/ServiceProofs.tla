------------------------------ MODULE ServiceProofs ------------------------------
(*****************************************************************************)
(* Proofs about Service and the readiness probe inside it, for any deadlines *)
(* with Graceful < Patience and any number of requests and late connects:    *)
(* the probe's client is never lost or left in a transaction, a positive     *)
(* answer was measured, process.exit(0) means drained, and the gateway ends  *)
(* before the supervisor would kill it.                                      *)
(*****************************************************************************)
EXTENDS Service, TLAPS

-----------------------------------------------------------------------------
(* The probe.                                                                *)

\* A step that needs the client has it, a probe that was aborted knows no
\* ledger row, a connect() that is under way may still be abandoned, and the drain
\* dropped the answer and aborted the probe.
ProbeOK ==
  /\ probe /\ step \in Using => slot = "out"
  /\ probe /\ aborted => ledger = "none" /\ step = "done"
  /\ probe /\ step = "connect" => late < MaxLate
  /\ draining => cached # "yes" /\ (probe => aborted)

\* When the checker is closed nothing of it is left.
ClosedOK ==
  /\ closing \in {"ending", "closed"} => ~probe
  /\ closing = "closed" => slot = "empty" /\ late = 0

ProbeInv == TypeOK /\ PoolIsSound /\ ProbeOK /\ ClosedOK

LEMMA StartInv ==
  ASSUME ProbeInv, Start, closing = "no"
  PROVE  ProbeInv'
<1>1. TypeOK'
  BY DEF ProbeInv, TypeOK, Start, Steps
<1>2. PoolIsSound' /\ ProbeOK' /\ ClosedOK'
  BY DEF ProbeInv, TypeOK, Start, PoolIsSound, ProbeOK, ClosedOK, Using
<1> QED BY <1>1, <1>2 DEF ProbeInv

LEMMA AnswerInv ==
  ASSUME ProbeInv, \/ Settle \/ Expire \/ EndPool
                   \/ \E answer \in {"up", "down"} : Healthz(answer)
  PROVE  ProbeInv'
<1>1. CASE Settle
  BY <1>1 DEF ProbeInv, TypeOK, PoolIsSound, ProbeOK, ClosedOK, Settle, database, Using
<1>2. CASE Expire \/ EndPool
  BY <1>2 DEF ProbeInv, TypeOK, PoolIsSound, ProbeOK, ClosedOK, Expire, EndPool, database
<1>3. ASSUME NEW answer \in {"up", "down"}, Healthz(answer) PROVE ProbeInv'
  BY <1>3 DEF ProbeInv, TypeOK, PoolIsSound, ProbeOK, ClosedOK, Healthz, database
<1> QED BY <1>1, <1>2, <1>3

LEMMA DatabaseInv ==
  ASSUME ProbeInv,
         \/ Connected \/ ConnectFails \/ QueryFails \/ LateConnect \/ Closed
         \/ \E found \in {"none", "current", "other"} : Queried(found)
         \/ \E worked \in BOOLEAN : RolledBack(worked)
  PROVE  ProbeInv'
<1>1. CASE Connected \/ ConnectFails
  BY <1>1 DEF ProbeInv, TypeOK, PoolIsSound, ProbeOK, ClosedOK, Connected, ConnectFails, Steps, Using
<1>2. CASE QueryFails
  BY <1>2 DEF ProbeInv, TypeOK, PoolIsSound, ProbeOK, ClosedOK, QueryFails, Steps, Using
<1>3. CASE LateConnect
  BY <1>3, MaxLateAssumption
  DEF ProbeInv, TypeOK, PoolIsSound, ProbeOK, ClosedOK, LateConnect, Using
<1>4. CASE Closed
  BY <1>4 DEF ProbeInv, TypeOK, PoolIsSound, ProbeOK, ClosedOK, Closed, Using
<1>5. ASSUME NEW found \in {"none", "current", "other"}, Queried(found) PROVE ProbeInv'
  BY <1>5 DEF ProbeInv, TypeOK, PoolIsSound, ProbeOK, ClosedOK, Queried, Steps, Using
<1>6. ASSUME NEW worked \in BOOLEAN, RolledBack(worked) PROVE ProbeInv'
  BY <1>6 DEF ProbeInv, TypeOK, PoolIsSound, ProbeOK, ClosedOK, RolledBack, Steps, Using
<1> QED BY <1>1, <1>2, <1>3, <1>4, <1>5, <1>6

\* Aborting keeps the pool sound at every step of the probe.
LEMMA AbortInv ==
  ASSUME ProbeInv, Abort, UNCHANGED probe,
         draining' \in BOOLEAN, cached' \in {"none", "yes", "no"},
         draining' => cached' # "yes",
         closing' \in {"no", "waiting", "ending", "closed"},
         closing' = closing \/ closing' = "waiting"
  PROVE  ProbeInv'
<1>1. CASE ~(probe /\ ~aborted)
  BY <1>1 DEF ProbeInv, TypeOK, PoolIsSound, ProbeOK, ClosedOK, Abort, database, Using
<1>2. CASE probe /\ ~aborted
  <2>1. /\ aborted' = TRUE /\ python' \in {"pending", "up", "down"}
        /\ step' = "done" /\ ledger' = "none"
        /\ slot' = (IF step \in Using THEN "empty" ELSE slot)
        /\ dirty' = (IF step \in Using THEN FALSE ELSE dirty)
        /\ late' = (IF step = "connect" THEN late + 1 ELSE late)
    BY <1>2 DEF Abort, AbortedDatabase, ProbeInv, TypeOK
  <2>2. late' \in 0 .. MaxLate
    BY <1>2, <2>1, MaxLateAssumption DEF ProbeInv, TypeOK, ProbeOK
  <2>3. TypeOK'
    BY <2>1, <2>2 DEF ProbeInv, TypeOK, Steps
  <2>4. PoolIsSound' /\ ProbeOK' /\ ClosedOK'
    BY <1>2, <2>1 DEF ProbeInv, PoolIsSound, ProbeOK, ClosedOK, Using
  <2> QED BY <2>3, <2>4 DEF ProbeInv
<1> QED BY <1>1, <1>2

LEMMA ShutdownInv ==
  ASSUME ProbeInv, Shutdown
  PROVE  ProbeInv'
<1>1. Abort /\ UNCHANGED probe /\ draining' = TRUE /\ cached' = "none" /\ closing' = "waiting"
  BY DEF Shutdown
<1>2. /\ draining' \in BOOLEAN /\ cached' \in {"none", "yes", "no"}
      /\ closing' \in {"no", "waiting", "ending", "closed"}
      /\ cached' # "yes"
  BY <1>1
<1> QED BY <1>1, <1>2, AbortInv

LEMMA GoneInv ==
  ASSUME ProbeInv, Gone
  PROVE  ProbeInv'
<1>1. late' \in 0 .. MaxLate
  BY MaxLateAssumption DEF Gone
<1>2. ~probe' /\ ~dirty'
  BY DEF Gone
<1>3. TypeOK'
  BY <1>1, <1>2 DEF Gone, ProbeInv, TypeOK, Steps
<1>4. PoolIsSound' /\ ProbeOK' /\ ClosedOK'
  BY <1>2 DEF Gone, PoolIsSound, ProbeOK, ClosedOK
<1> QED BY <1>3, <1>4 DEF ProbeInv

-----------------------------------------------------------------------------
(* The service.                                                              *)

\* Types of the supervisor and its children.
ServiceTypeOK ==
  /\ sup \in {"spawning", "watching", "waiting", "exited"}
  /\ stopping \in BOOLEAN
  /\ child \in [Children -> {"none", "running", "exited"}]
  /\ killed \subseteq Children
  /\ elapsed \in Nat /\ timer \in Nat /\ http \in Nat
  /\ shutting \in BOOLEAN /\ drained \in BOOLEAN

\* No time passes before the gateway has handled the SIGTERM, and then none
\* beyond its deadline, so that it never reaches the supervisor's.
InTime ==
  /\ sup \in {"spawning", "watching"} => elapsed = 0 /\ ~shutting
  /\ Running("gateway") /\ ~shutting => elapsed = 0
  /\ Running("gateway") /\ shutting => timer = Graceful /\ elapsed <= timer

\* A checker that closes starts no probe, in a gateway that runs.
Draining ==
  /\ child["gateway"] = "none" => closing = "no"
  /\ Running("gateway") /\ closing # "no" => draining

\* The inductive invariant.
IInv == ProbeInv /\ ServiceTypeOK /\ InTime /\ Draining /\ GatewayEndsItself

LEMMA InitInv == ServiceInit => IInv
<1> SUFFICES ASSUME ServiceInit PROVE IInv
  OBVIOUS
<1>1. ProbeInv
  <2>1. late \in 0 .. MaxLate
    BY MaxLateAssumption DEF ServiceInit, Init
  <2>2. ~probe /\ ~dirty
    BY DEF ServiceInit, Init
  <2>3. TypeOK
    BY <2>1, <2>2 DEF ServiceInit, Init, TypeOK, Steps
  <2>4. PoolIsSound /\ ProbeOK /\ ClosedOK
    BY <2>2 DEF ServiceInit, Init, PoolIsSound, ProbeOK, ClosedOK
  <2> QED BY <2>3, <2>4 DEF ProbeInv
<1>2. ServiceTypeOK
  <2>1. child \in [Children -> {"none", "running", "exited"}] /\ killed \subseteq Children
    BY DEF ServiceInit
  <2> QED BY <2>1 DEF ServiceInit, ServiceTypeOK
<1>3. InTime /\ Draining /\ GatewayEndsItself
  BY DEF ServiceInit, Init, InTime, Draining, GatewayEndsItself, Running, Children
<1> QED BY <1>1, <1>2, <1>3 DEF IInv

\* Steps of the supervisor, and of requests, that leave the probe alone.
LEMMA SupervisorInv ==
  ASSUME IInv, \/ Signal \/ Terminate \/ Exit \/ Request \/ Answer \/ Tick
               \/ \E c \in Children : Spawn(c)
  PROVE  IInv'
<1>1. UNCHANGED vars
  BY DEF Signal, Terminate, Exit, Request, Answer, Tick, Spawn
<1>2. ProbeInv'
  BY <1>1 DEF IInv, ProbeInv, TypeOK, PoolIsSound, ProbeOK, ClosedOK, vars
<1>3. CASE Signal \/ Terminate \/ Exit \/ Request \/ Answer
  <2>1. UNCHANGED <<child, killed, elapsed, shutting, timer, drained>>
    BY <1>3 DEF Signal, Terminate, Exit, Request, Answer, process
  <2>2. ServiceTypeOK'
    <3>1. http' \in Nat
      BY <1>3 DEF IInv, ServiceTypeOK, Signal, Terminate, Exit, Request, Answer, process
    <3>2. sup' \in {"spawning", "watching", "waiting", "exited"} /\ stopping' \in BOOLEAN
      BY <1>3 DEF IInv, ServiceTypeOK, Signal, Terminate, Exit, Request, Answer
    <3> QED BY <2>1, <3>1, <3>2 DEF IInv, ServiceTypeOK
  <2>3. sup' \in {"spawning", "watching"} => sup \in {"spawning", "watching"}
    BY <1>3 DEF Signal, Terminate, Exit, Request, Answer
  <2>4. InTime' /\ Draining' /\ GatewayEndsItself'
    BY <1>1, <2>1, <2>3 DEF IInv, InTime, Draining, GatewayEndsItself, Running, vars
  <2> QED BY <1>2, <2>2, <2>4 DEF IInv
<1>4. CASE Tick
  BY <1>1, <1>2, <1>4
  DEF IInv, ServiceTypeOK, InTime, Draining, GatewayEndsItself, Running, vars, process, Tick
<1>5. ASSUME NEW c \in Children, Spawn(c) PROVE IInv'
  <2>1. /\ sup = "spawning" /\ sup' \in {"spawning", "watching"}
        /\ child[c] = "none" /\ child' = [child EXCEPT ![c] = "running"]
        /\ UNCHANGED <<stopping, killed, elapsed, process>>
    BY <1>5 DEF Spawn
  <2>2. ServiceTypeOK' /\ InTime' /\ GatewayEndsItself'
    BY <2>1 DEF IInv, ServiceTypeOK, InTime, GatewayEndsItself, Running, process, Children
  <2>3. Draining'
    BY <1>1, <2>1 DEF IInv, Draining, Running, vars, ServiceTypeOK, Children
  <2> QED BY <1>2, <2>2, <2>3 DEF IInv
<1> QED BY <1>3, <1>4, <1>5

\* The gateway is never alive at the supervisor's deadline.
LEMMA GatewayIsInTime ==
  ASSUME IInv, Running("gateway")
  PROVE  elapsed < Patience
BY ServiceAssumption DEF IInv, InTime, ServiceTypeOK

\* A child ends, in one way or another.
LEMMA EndsInv ==
  ASSUME IInv, NEW c \in Children, Running(c), Ends(c),
         UNCHANGED <<sup, stopping, elapsed, shutting, timer>>,
         killed' \subseteq Children, "gateway" \notin killed', drained' \in BOOLEAN
  PROVE  IInv'
<1>1. /\ child' = [child EXCEPT ![c] = "exited"] /\ http' \in {0, http}
      /\ c # "gateway" => UNCHANGED vars
  BY DEF Ends
<1>2. ProbeInv'
  <2>1. CASE c = "gateway"
    BY <2>1, GoneInv DEF Ends, IInv
  <2>2. CASE c # "gateway"
    BY <1>1, <2>2 DEF IInv, ProbeInv, TypeOK, PoolIsSound, ProbeOK, ClosedOK, vars
  <2> QED BY <2>1, <2>2
<1>3. ServiceTypeOK' /\ InTime' /\ GatewayEndsItself'
  BY <1>1 DEF IInv, ServiceTypeOK, InTime, GatewayEndsItself, Running, Children
<1>4. Draining'
  BY <1>1 DEF IInv, Draining, Running, ServiceTypeOK, vars, Children
<1> QED BY <1>2, <1>3, <1>4 DEF IInv

LEMMA ChildInv ==
  ASSUME IInv, Drained \/ GatewayDeadline \/ \E c \in Children : Kill(c) \/ Leave(c)
  PROVE  IInv'
<1>1. "gateway" \notin killed /\ killed \subseteq Children /\ drained \in BOOLEAN
  BY DEF IInv, GatewayEndsItself, ServiceTypeOK
<1>2. CASE Drained \/ GatewayDeadline
  BY <1>1, <1>2, EndsInv DEF Drained, GatewayDeadline, Children
<1>3. ASSUME NEW c \in Children, Leave(c) PROVE IInv'
  BY <1>1, <1>3, EndsInv DEF Leave
<1>4. ASSUME NEW c \in Children, Kill(c) PROVE IInv'
  <2>1. c # "gateway"
    BY <1>4, GatewayIsInTime, ServiceAssumption DEF Kill, IInv, ServiceTypeOK
  <2> QED BY <1>1, <1>4, <2>1, EndsInv DEF Kill
<1> QED BY <1>2, <1>3, <1>4

LEMMA HandleTermInv ==
  ASSUME IInv, HandleTerm
  PROVE  IInv'
<1>1. ProbeInv'
  BY ShutdownInv DEF HandleTerm, IInv
<1>2. elapsed = 0 /\ timer' = Graceful /\ shutting' = TRUE
  BY ServiceAssumption DEF HandleTerm, IInv, InTime
<1>3. ServiceTypeOK' /\ InTime' /\ GatewayEndsItself'
  BY <1>2, ServiceAssumption
  DEF HandleTerm, IInv, ServiceTypeOK, InTime, GatewayEndsItself, Running
<1>4. Draining'
  BY DEF HandleTerm, Shutdown, Draining, Running
<1> QED BY <1>1, <1>3, <1>4 DEF IInv

LEMMA ProbingInv ==
  ASSUME IInv, Probing
  PROVE  IInv'
<1>1. Running("gateway") /\ Next /\ UNCHANGED service /\ ~Shutdown
  BY DEF Probing, Shutdown
<1>2. ProbeInv'
  <2>1. CASE Start
    BY <1>1, <2>1, StartInv DEF IInv, Draining, Start
  <2>2. CASE Deadline
    BY <2>2, AbortInv DEF Deadline, IInv, ProbeInv, TypeOK, ProbeOK
  <2> QED BY <1>1, <2>1, <2>2, AnswerInv, DatabaseInv DEF IInv, Next, Callbacks
<1>3. ServiceTypeOK' /\ InTime' /\ GatewayEndsItself'
  BY <1>1 DEF IInv, ServiceTypeOK, InTime, GatewayEndsItself, Running, service
<1>4. Draining'
  BY <1>1 DEF IInv, Draining, Running, service, Next, Callbacks, Start, Expire, Connected,
     QueryFails, Settle, ConnectFails, LateConnect, Deadline, EndPool, Closed, Healthz,
     Queried, RolledBack
<1> QED BY <1>2, <1>3, <1>4 DEF IInv

LEMMA NextInv == IInv /\ [ServiceNext]_all => IInv'
<1> SUFFICES ASSUME IInv, [ServiceNext]_all PROVE IInv'
  OBVIOUS
<1>1. CASE UNCHANGED all
  BY <1>1 DEF IInv, ProbeInv, TypeOK, PoolIsSound, ProbeOK, ClosedOK, ServiceTypeOK, InTime,
     Draining, GatewayEndsItself, Running, all, vars, service
<1> QED BY <1>1, SupervisorInv, ChildInv, HandleTermInv, ProbingInv DEF ServiceNext

-----------------------------------------------------------------------------

\* The inductive invariant holds in every reachable state.
THEOREM Invariance == ServiceSpec => []IInv
BY InitInv, NextInv, PTL DEF ServiceSpec

\* The probe, the supervisor and its children stay well typed.
THEOREM TypeCorrect == ServiceSpec => [](TypeOK /\ ServiceTypeOK)
<1>1. IInv => TypeOK /\ ServiceTypeOK
  BY DEF IInv, ProbeInv
<1> QED BY <1>1, Invariance, PTL

\* The pool never holds a client inside a transaction, and a client that is out
\* belongs to the probe that runs, wherever a deadline or the drain cuts it.
THEOREM PoolSound == ServiceSpec => []PoolIsSound
<1>1. IInv => PoolIsSound
  BY DEF IInv, ProbeInv
<1> QED BY <1>1, Invariance, PTL

\* However requests, the probe and the worker use up the time, the gateway ends
\* by its own deadline and is never killed, as long as Graceful < Patience.
THEOREM EndsItself == ServiceSpec => []GatewayEndsItself
<1>1. IInv => GatewayEndsItself
  BY DEF IInv
<1> QED BY <1>1, Invariance, PTL

\* A positive answer comes from a probe that saw both sides and was not cut short,
\* and none is stored from the drain on.
THEOREM Measured == ServiceSpec => ReadyWasMeasured
<1>1. IInv /\ [ServiceNext]_all =>
        [cached' = "yes" /\ cached # "yes" =>
           python = "up" /\ ledger = "current" /\ ~aborted]_vars
  <2> SUFFICES ASSUME IInv, [ServiceNext]_all, cached' = "yes", cached # "yes"
               PROVE  python = "up" /\ ledger = "current" /\ ~aborted
    OBVIOUS
  <2>1. Settle
    <3>1. Probing
      BY DEF ServiceNext, all, vars, Signal, Terminate, Exit, Request, Answer, HandleTerm,
         Shutdown, Drained, GatewayDeadline, Tick, Spawn, Kill, Leave, Ends, Gone
    <3> QED BY <3>1 DEF Probing, Next, Callbacks, Start, Expire, Connected, QueryFails,
        ConnectFails, LateConnect, Deadline, EndPool, Closed, Shutdown, Healthz, Queried,
        RolledBack
  <2> QED BY <2>1 DEF Settle, IInv, ProbeInv, ProbeOK
<1>2. IInv => (draining => cached # "yes")
  BY DEF IInv, ProbeInv, ProbeOK
<1> QED BY <1>1, <1>2, Invariance, PTL DEF ServiceSpec, ReadyWasMeasured

\* process.exit(0) cuts off no request, no probe and no database client.
THEOREM DrainedExit == ServiceSpec => ExitsDrained
<1>1. IInv /\ [ServiceNext]_all =>
        [drained' /\ ~drained => http = 0 /\ ~probe /\ slot = "empty" /\ late = 0]_all
  <2> SUFFICES ASSUME IInv, [ServiceNext]_all, drained', ~drained
               PROVE  http = 0 /\ ~probe /\ slot = "empty" /\ late = 0
    OBVIOUS
  <2>1. Drained
    BY DEF ServiceNext, all, service, process, Signal, Terminate, Exit, Request, Answer,
       HandleTerm, GatewayDeadline, Probing, Tick, Spawn, Kill, Leave
  <2> QED BY <2>1 DEF Drained, IInv, ProbeInv, ClosedOK
<1> QED BY <1>1, Invariance, PTL DEF ServiceSpec, ExitsDrained

=============================================================================
