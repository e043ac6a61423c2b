------------------------------ MODULE RateLimiter ------------------------------
(*****************************************************************************)
(* The gateway's per-process limiter: artifacts/api-gateway/src/             *)
(* request-controls.ts.  It counts the calls of a key in a window that       *)
(* starts with the key's first call and keeps a bounded table of windows.    *)
(* The clock is Date.now, which the host may set back.                       *)
(*                                                                           *)
(* entries is the table; now is the clock; setBack says whether the clock    *)
(* was ever set back; grants and promises record what callers were told.     *)
(*****************************************************************************)
EXTENDS Integers, Sequences, FiniteSets

CONSTANTS
  Keys,
  Limit,        \* the number of calls each key may make in a window
  Window,       \* WINDOW_MS, in ticks of the clock
  Second,       \* ticks in a second, the unit of Retry-After
  MaxEntries,   \* MAX_ENTRIES
  MaxTime       \* bound on the clock

ASSUME LimiterAssumption ==
  /\ Limit \in [Keys -> Nat \ {0}]
  /\ Window \in Nat \ {0}
  /\ Second \in Nat \ {0}
  /\ MaxEntries \in Nat \ {0}
  /\ MaxTime \in Nat

VARIABLES entries, now, setBack, grants, promises

limiterVars == <<entries, now, setBack, grants, promises>>

Entry == [count : Nat, startedAt : Nat]

\* Types of the table, the clock and the history of calls let in (promises is
\* read by RetryAfterHonest alone).
LimiterTypeOK ==
  /\ DOMAIN entries \subseteq Keys
  /\ entries \in [DOMAIN entries -> Entry]
  /\ now \in Nat
  /\ setBack \in BOOLEAN
  /\ grants \in [Keys -> Seq(Nat)]

LimiterInit ==
  /\ entries = << >>
  /\ now = 0
  /\ setBack = FALSE
  /\ grants = [k \in Keys |-> << >>]
  /\ promises = {}

-----------------------------------------------------------------------------

Expired(e, t) == t - e.startedAt >= Window

\* A window counts until it is over, or until the clock is before its start.
Counts(table, k, t) ==
  /\ k \in DOMAIN table
  /\ t >= table[k].startedAt
  /\ ~Expired(table[k], t)

SecondsUntilReset(startedAt, t) ==
  LET s == (startedAt + Window - t + Second - 1) \div Second IN
  IF s < 1 THEN 1 ELSE s

Only(table, S) == [j \in DOMAIN table \cap S |-> table[j]]

\* Broken variant: a full table is not pruned.
RoomUnpruned(table, k, t) == Only(table, Keys \ {k})

\* The table an entry for k is added to: without k, and pruned when it is full.
Room(table, k, t) ==
  LET rest == Only(table, Keys \ {k}) IN
  IF Cardinality(DOMAIN rest) >= MaxEntries
  THEN Only(rest, {j \in DOMAIN rest : ~Expired(rest[j], t)})
  ELSE rest

With(table, k, e) ==
  [j \in DOMAIN table \cup {k} |-> IF j = k THEN e ELSE table[j]]

\* The soonest end of a window in a full table, at most a window away.
FirstReset(table, t) ==
  LET ends == {SecondsUntilReset(table[j].startedAt, t) : j \in DOMAIN table}
                \cup {SecondsUntilReset(t, t)} IN
  CHOOSE s \in ends : \A e \in ends : s <= e

Granted(table)        == [allowed |-> TRUE, retryAfter |-> 0, table |-> table]
Refused(table, after) == [allowed |-> FALSE, retryAfter |-> after, table |-> table]

\* Broken variant: a full window is restarted at its last call.
TakeSliding(table, k, t) ==
  IF Counts(table, k, t)
  THEN IF table[k].count >= Limit[k]
       THEN Refused(table, SecondsUntilReset(table[k].startedAt, t))
       ELSE Granted(With(table, k, [count |-> 1, startedAt |-> t]))
  ELSE LET room == Room(table, k, t) IN
       IF Cardinality(DOMAIN room) >= MaxEntries
       THEN Refused(room, FirstReset(room, t))
       ELSE Granted(With(room, k, [count |-> 1, startedAt |-> t]))

\* take(key, limit)
Take(table, k, t) ==
  IF Counts(table, k, t)
  THEN IF table[k].count >= Limit[k]
       THEN Refused(table, SecondsUntilReset(table[k].startedAt, t))
       ELSE Granted(With(table, k, [table[k] EXCEPT !.count = @ + 1]))
  ELSE LET room == Room(table, k, t) IN
       IF Cardinality(DOMAIN room) >= MaxEntries
       THEN Refused(room, FirstReset(room, t))
       ELSE Granted(With(room, k, [count |-> 1, startedAt |-> t]))

-----------------------------------------------------------------------------

\* What a caller is told: calls for the keys taken were let in, and when the
\* result is a refusal, it came from the window of k.  A promise stands until
\* somebody is let in or the clock is set back, and none is made while a window
\* of the table starts after the clock.
Remember(taken, k, result) ==
  /\ grants' = [j \in Keys |-> IF j \in taken /\ ~setBack
                               THEN Append(grants[j], now) ELSE grants[j]]
  /\ promises' = IF result.allowed \/ \E j \in DOMAIN entries : entries[j].startedAt > now
                 THEN {}
                 ELSE {[key |-> k, at |-> now + result.retryAfter * Second]}

\* One call of take for k.
Call(k) ==
  LET result == Take(entries, k, now) IN
  /\ entries' = result.table
  /\ Remember(IF result.allowed THEN {k} ELSE {}, k, result)
  /\ UNCHANGED <<now, setBack>>

Tick ==
  /\ now < MaxTime
  /\ now' = now + 1
  /\ UNCHANGED <<entries, setBack, grants, promises>>

\* Once is enough: the history of the calls ends here.
SetClockBack ==
  /\ ~setBack
  /\ \E t \in 0 .. now - 1 : now' = t
  /\ setBack' = TRUE
  /\ grants' = [k \in Keys |-> << >>]
  /\ promises' = {}
  /\ UNCHANGED entries

LimiterNext == (\E k \in Keys : Call(k)) \/ Tick \/ SetClockBack

LimiterSpec == LimiterInit /\ [][LimiterNext]_limiterVars

-----------------------------------------------------------------------------

\* The table never outgrows its capacity.
TableBounded == Cardinality(DOMAIN entries) <= MaxEntries

\* As long as the clock is not set back, no span as long as a window ever holds
\* twice a key's limit of calls, wherever it starts: two windows touch at most
\* at their ends.
SlidingBudget ==
  \A k \in Keys : \A i \in 1 .. Len(grants[k]) :
    i + 2 * Limit[k] - 1 <= Len(grants[k]) =>
      grants[k][i + 2 * Limit[k] - 1] - grants[k][i] >= Window

\* Retry-After is honest: a refused caller that waits as long as it was told,
\* while nobody else is let in, is let in.
RetryAfterHonest ==
  \A p \in promises : now >= p.at => Take(entries, p.key, now).allowed

=============================================================================
