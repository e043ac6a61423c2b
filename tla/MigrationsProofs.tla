---------------------------- MODULE MigrationsProofs ----------------------------
(*****************************************************************************)
(* Proofs about Migrations, for any number of concurrent runs and any length *)
(* of the ledger.  What a run checked under the advisory lock still holds    *)
(* when its session commits, because a session that can still commit holds   *)
(* the lock; what it compared still holds because it holds the SHARE locks.  *)
(*****************************************************************************)
EXTENDS Migrations, TLAPS

Open(r, steps) == session[r] = "open" /\ pc[r] \in steps

\* The session of r can still commit, with what its client has found so far:
\* the lock, the release it starts from, and everything applied.
Holding(r) == session[r] = "commit" \/ Open(r, {"before", "read", "apply", "commit"})
Checked(r) == session[r] = "commit" \/ Open(r, {"read", "apply", "commit"})
Ready(r)   == session[r] = "commit" \/ Open(r, {"commit"})

Base(r) == 1 .. From[command[r]]
Rest(r) == (From[command[r]] + 1) .. To[command[r]]

Phases(r) ==
  /\ pc[r] = "new" => session[r] = "none" /\ done[r] = {} /\ journal[r] = {}
  /\ pc[r] # "new" => command[r] \in Commands
  /\ pc[r] = "new" => command[r] = None
  /\ Open(r, {"lock", "before", "read"}) => done[r] = {}

Locking(r) ==
  /\ Holding(r) => lock = r
  /\ Checked(r) => schema = Base(r)
  /\ Checked(r) /\ command[r] = "journey" => r \in shared /\ rows = before[r]

Applying(r) ==
  /\ Open(r, {"apply"}) => pending[r] \cup done[r] = Rest(r)
  /\ Ready(r) => done[r] = Rest(r)

Journaling(r) ==
  command[r] \in Journaled =>
    /\ Checked(r) \/ session[r] = "committed" => "before" \in journal[r]
    /\ Ready(r) \/ session[r] = "committed" => "verified" \in journal[r]
    /\ "committed" \in journal[r] => session[r] = "committed"

Sound(r) == Phases(r) /\ Locking(r) /\ Applying(r) /\ Journaling(r)

\* The inductive invariant.
IInv == TypeOK /\ ledger = schema /\ \A r \in Runs : Sound(r)

-----------------------------------------------------------------------------

\* What the four commands start from and end at.
LEMMA Releases ==
  ASSUME NEW c \in Commands
  PROVE  From[c] \in Nat /\ To[c] \in Nat /\ From[c] <= To[c]
BY MigrationsAssumption DEF Commands, From, To

\* A release and the migrations after it are the next release.
LEMMA Whole ==
  ASSUME NEW c \in Commands
  PROVE  (1 .. From[c]) \cup ((From[c] + 1) .. To[c]) = 1 .. To[c]
BY Releases

\* A run that a step leaves alone stays sound when the lock, the schema and the
\* rows are left to it.
LEMMA Frame ==
  ASSUME NEW r \in Runs, Sound(r),
         command'[r] = command[r], pc'[r] = pc[r], session'[r] = session[r],
         pending'[r] = pending[r], done'[r] = done[r], before'[r] = before[r],
         journal'[r] = journal[r],
         Holding(r) => lock' = lock,
         Checked(r) => schema' = schema,
         Checked(r) /\ command[r] = "journey" => rows' = rows /\ r \in shared'
  PROVE  Sound(r)'
<1>1. /\ Holding(r)' <=> Holding(r)
      /\ Checked(r)' <=> Checked(r)
      /\ Ready(r)' <=> Ready(r)
      /\ \A S : Open(r, S)' <=> Open(r, S)
  BY DEF Holding, Checked, Ready, Open
<1>2. Base(r)' = Base(r) /\ Rest(r)' = Rest(r)
  BY DEF Base, Rest
<1>3. Checked(r) => Holding(r)
  BY DEF Checked, Holding, Open
<1>4. Phases(r)'
  BY <1>1 DEF Sound, Phases, Open
<1>5. Locking(r)'
  BY <1>1, <1>2, <1>3 DEF Sound, Locking
<1>6. Applying(r)'
  BY <1>1, <1>2 DEF Sound, Applying, Open
<1>7. Journaling(r)'
  BY <1>1 DEF Sound, Journaling
<1> QED BY <1>4, <1>5, <1>6, <1>7 DEF Sound

LEMMA InitInv == Init => IInv
<1> SUFFICES ASSUME Init PROVE IInv
  OBVIOUS
<1>1. TypeOK
  <2>1. \A c \in Commands : From[c] \in Nat
    BY Releases
  <2>2. schema \in SUBSET Nat
    BY <2>1 DEF Init
  <2> QED BY <2>2 DEF Init, TypeOK, Commands, Steps
<1>2. ASSUME NEW r \in Runs PROVE Sound(r)
  BY DEF Init, Sound, Phases, Locking, Applying, Journaling, Holding, Checked,
         Ready, Open, Commands, Journaled
<1> QED BY <1>1, <1>2 DEF IInv, Init

-----------------------------------------------------------------------------
\* One lemma per step.

LEMMA StartInv ==
  ASSUME IInv, NEW r \in Runs, NEW c \in Commands, Start(r, c)
  PROVE  IInv'
<1>1. TypeOK'
  BY DEF IInv, TypeOK, Start, tables, client, Steps
<1>2. Sound(r)'
  BY DEF IInv, TypeOK, Start, tables, client, Sound, Phases, Locking, Applying,
         Journaling, Holding, Checked, Ready, Open
<1>3. ASSUME NEW q \in Runs, q # r PROVE Sound(q)'
  BY <1>3, Frame DEF IInv, TypeOK, Start, tables, client, Locking, Sound
<1> QED BY <1>1, <1>2, <1>3 DEF IInv, Start, tables

LEMMA LockInv ==
  ASSUME IInv, NEW r \in Runs, Lock(r)
  PROVE  IInv'
<1>1. TypeOK'
  BY DEF IInv, TypeOK, Lock, At, tables, client, Steps
<1>2. Sound(r)'
  BY DEF IInv, TypeOK, Lock, At, tables, client, Sound, Phases, Locking, Applying,
         Journaling, Holding, Checked, Ready, Open
<1>3. ASSUME NEW q \in Runs, q # r PROVE Sound(q)'
  <2>1. ~Holding(q) /\ ~Checked(q)
    BY MigrationsAssumption DEF IInv, Sound, Locking, Lock, Holding, Checked, Open
  <2> QED BY <1>3, <2>1, Frame DEF IInv, TypeOK, Lock, At, tables, client
<1> QED BY <1>1, <1>2, <1>3 DEF IInv, Lock, tables

LEMMA NoteType ==
  ASSUME TypeOK, NEW r \in Runs,
         NEW e \in {"before", "verified", "committed", "failed"}, Note(r, e)
  PROVE  /\ journal' \in [Runs -> SUBSET {"before", "verified", "committed", "failed"}]
         /\ \A q \in Runs \ {r} : journal'[q] = journal[q]
         /\ journal'[r] = IF command[r] \in Journaled THEN journal[r] \cup {e} ELSE journal[r]
BY DEF TypeOK, Note

LEMMA BeforeInv ==
  ASSUME IInv, NEW r \in Runs, Before(r)
  PROVE  IInv'
<1>0. TypeOK /\ Note(r, "before")
  BY DEF IInv, Before
<1>1. TypeOK'
  <2>1. shared' \in SUBSET Runs /\ before' \in [Runs -> {0, 1}]
    BY <1>0 DEF TypeOK, Before
  <2>2. pc' \in [Runs -> Steps \cup {"new", "ended"}]
    BY <1>0 DEF TypeOK, Before, Steps
  <2>3. journal' \in [Runs -> SUBSET {"before", "verified", "committed", "failed"}]
    BY <1>0, NoteType
  <2> QED BY <1>0, <2>1, <2>2, <2>3 DEF TypeOK, Before, tables
<1>2. Sound(r)'
  <2>1. Sound(r) /\ At(r, "before") /\ command'[r] = command[r] /\ command[r] \in Commands
        /\ session'[r] = "open" /\ pc'[r] = "read" /\ done'[r] = done[r]
    BY <1>0 DEF IInv, TypeOK, Before, At, Sound, Phases
  <2>2. Phases(r)'
    BY <2>1 DEF Sound, Phases, Open, At
  <2>3. Locking(r)'
    <3>1. lock' = r
      BY <2>1 DEF Sound, Locking, Holding, Open, At, Before
    <3>2. schema' = Base(r)'
      BY <2>1 DEF IInv, Before, tables, Base
    <3>3. command[r] = "journey" => r \in shared' /\ rows' = before'[r]
      BY <1>0 DEF Before, tables, TypeOK
    <3> QED BY <2>1, <3>1, <3>2, <3>3 DEF Locking
  <2>4. Applying(r)'
    BY <2>1 DEF Applying, Ready, Open
  <2>5. Journaling(r)'
    BY <1>0, <2>1, NoteType DEF Sound, Journaling, Ready, Open, At, Checked
  <2> QED BY <2>2, <2>3, <2>4, <2>5 DEF Sound
<1>3. ASSUME NEW q \in Runs, q # r PROVE Sound(q)'
  BY <1>0, <1>3, Frame, NoteType DEF IInv, TypeOK, Before, At, tables, Sound, Locking
<1> QED BY <1>1, <1>2, <1>3 DEF IInv, Before, tables

LEMMA ReadInv ==
  ASSUME IInv, NEW r \in Runs, Read(r)
  PROVE  IInv'
<1>0. Sound(r) /\ At(r, "read") /\ command[r] \in Commands /\ TypeOK
  BY DEF IInv, Read, At, Sound, Phases
<1>1. pending'[r] = Rest(r) /\ Rest(r) \in SUBSET Nat
  <2>1. ledger = 1 .. From[command[r]]
    BY <1>0 DEF IInv, Sound, Locking, Checked, Open, At, Base
  <2>2. pending'[r] = 1 .. To[command[r]] \ ledger
    BY <1>0 DEF Read, TypeOK
  <2> QED BY <1>0, <2>1, <2>2, Releases DEF Rest
<1>2. TypeOK'
  BY <1>0, <1>1 DEF TypeOK, Read, At, tables, locks, Steps, Rest
<1>3. Sound(r)'
  <2>1. session'[r] = "open" /\ pc'[r] = "apply" /\ command' = command /\ done' = done
        /\ UNCHANGED <<tables, locks, before, journal>>
    BY <1>0 DEF TypeOK, Read, At, locks
  <2>2. Phases(r)'
    BY <1>0, <2>1 DEF Phases, Open
  <2>3. Locking(r)'
    BY <1>0, <2>1 DEF Sound, Locking, Holding, Checked, Open, At, Base, tables, locks
  <2>4. Applying(r)'
    BY <1>0, <1>1, <2>1 DEF Sound, Phases, Applying, Ready, Open, At, Rest
  <2>5. Journaling(r)'
    BY <1>0, <2>1 DEF Sound, Journaling, Checked, Ready, Open, At
  <2> QED BY <2>2, <2>3, <2>4, <2>5 DEF Sound
<1>4. ASSUME NEW q \in Runs, q # r PROVE Sound(q)'
  BY <1>0, <1>4, Frame DEF IInv, TypeOK, Read, At, tables, locks, Sound, Locking
<1> QED BY <1>2, <1>3, <1>4 DEF IInv, Read, tables

LEMMA ApplyInv ==
  ASSUME IInv, NEW r \in Runs, Apply(r)
  PROVE  IInv'
<1>0. Sound(r) /\ At(r, "apply") /\ TypeOK
  BY DEF IInv, Apply
<1>1. PICK m \in pending[r] : /\ pending' = [pending EXCEPT ![r] = @ \ {m}]
                              /\ done' = [done EXCEPT ![r] = @ \cup {m}]
  BY DEF Apply
<1>2. TypeOK'
  BY <1>0, <1>1 DEF TypeOK, Apply, tables, locks
<1>3. Sound(r)'
  <2>1. session'[r] = "open" /\ pc'[r] = "apply" /\ UNCHANGED <<command, tables, locks, before, journal>>
        /\ pending'[r] = pending[r] \ {m} /\ done'[r] = done[r] \cup {m}
    BY <1>0, <1>1 DEF TypeOK, Apply, At, locks
  <2>2. Phases(r)'
    BY <1>0, <2>1 DEF Sound, Phases, Open, At, Apply
  <2>3. Locking(r)'
    BY <1>0, <2>1 DEF Sound, Locking, Holding, Checked, Open, At, Base, tables, locks
  <2>4. Applying(r)'
    BY <1>0, <2>1 DEF Sound, Applying, Ready, Open, At, Rest
  <2>5. Journaling(r)'
    BY <1>0, <2>1 DEF Sound, Journaling, Checked, Ready, Open, At
  <2> QED BY <2>2, <2>3, <2>4, <2>5 DEF Sound
<1>4. ASSUME NEW q \in Runs, q # r PROVE Sound(q)'
  BY <1>0, <1>1, <1>4, Frame DEF IInv, TypeOK, Apply, At, tables, locks, Sound, Locking
<1> QED BY <1>2, <1>3, <1>4 DEF IInv, Apply, tables

LEMMA AfterInv ==
  ASSUME IInv, NEW r \in Runs, After(r)
  PROVE  IInv'
<1>0. Sound(r) /\ At(r, "apply") /\ TypeOK /\ Note(r, "verified")
  BY DEF IInv, After
<1>1. TypeOK'
  BY <1>0, NoteType DEF TypeOK, After, tables, locks, client, Steps
<1>2. Sound(r)'
  <2>1. session'[r] = "open" /\ pc'[r] = "commit" /\ UNCHANGED <<command, tables, locks, client>>
    BY <1>0 DEF TypeOK, After, At, locks
  <2>2. Phases(r)'
    BY <1>0, <2>1 DEF Sound, Phases, Open, At
  <2>3. Locking(r)'
    BY <1>0, <2>1 DEF Sound, Locking, Holding, Checked, Open, At, Base, tables, locks, client
  <2>4. Applying(r)'
    BY <1>0, <2>1 DEF Sound, Applying, Ready, Open, At, Rest, client, After
  <2>5. Journaling(r)'
    BY <1>0, <2>1, NoteType DEF Sound, Journaling, Checked, Ready, Open, At
  <2> QED BY <2>2, <2>3, <2>4, <2>5 DEF Sound
<1>3. ASSUME NEW q \in Runs, q # r PROVE Sound(q)'
  BY <1>0, <1>3, Frame, NoteType DEF IInv, TypeOK, After, At, tables, locks, client, Sound, Locking
<1> QED BY <1>1, <1>2, <1>3 DEF IInv, After, tables

LEMMA CommitInv ==
  ASSUME IInv, NEW r \in Runs, Commit(r)
  PROVE  IInv'
<1>0. Sound(r) /\ At(r, "commit") /\ TypeOK
  BY DEF IInv, Commit
<1>1. TypeOK'
  BY <1>0 DEF TypeOK, Commit, tables, client, Steps
<1>2. Sound(r)'
  <2>1. session'[r] = "commit" /\ pc'[r] = "committing"
        /\ UNCHANGED <<command, tables, lock, shared, client, journal>>
    BY <1>0 DEF TypeOK, Commit
  <2>2. Phases(r)'
    BY <1>0, <2>1 DEF Sound, Phases, Open, At
  <2>3. Locking(r)'
    BY <1>0, <2>1 DEF Sound, Locking, Holding, Checked, Open, At, Base, tables, client
  <2>4. Applying(r)'
    BY <1>0, <2>1 DEF Sound, Applying, Ready, Open, At, Rest, client
  <2>5. Journaling(r)'
    BY <1>0, <2>1 DEF Sound, Journaling, Checked, Ready, Open, At
  <2> QED BY <2>2, <2>3, <2>4, <2>5 DEF Sound
<1>3. ASSUME NEW q \in Runs, q # r PROVE Sound(q)'
  BY <1>0, <1>3, Frame DEF IInv, TypeOK, Commit, At, tables, client, Sound, Locking
<1> QED BY <1>1, <1>2, <1>3 DEF IInv, Commit, tables

\* The end of the client, with or without an entry in its journal.
LEMMA EndInv ==
  ASSUME IInv, NEW r \in Runs, pc[r] \in Steps,
         pc' = [pc EXCEPT ![r] = "ended"],
         UNCHANGED <<tables, locks, client, command>>,
         \/ Note(r, "failed") \/ UNCHANGED journal
         \/ Note(r, "committed") /\ session[r] = "committed"
  PROVE  IInv'
<1>0. Sound(r) /\ TypeOK
  BY DEF IInv
<1>1. journal' \in [Runs -> SUBSET {"before", "verified", "committed", "failed"}]
      /\ (\A q \in Runs \ {r} : journal'[q] = journal[q])
      /\ journal[r] \subseteq journal'[r]
      /\ ("committed" \in journal'[r] => "committed" \in journal[r] \/ session[r] = "committed")
  <2>1. CASE Note(r, "failed")
    BY <1>0, <2>1, NoteType DEF TypeOK
  <2>2. CASE UNCHANGED journal
    BY <1>0, <2>2 DEF TypeOK
  <2>3. CASE Note(r, "committed") /\ session[r] = "committed"
    BY <1>0, <2>3, NoteType DEF TypeOK
  <2> QED BY <2>1, <2>2, <2>3
<1>2. TypeOK'
  BY <1>0, <1>1 DEF TypeOK, tables, locks, client, Steps
<1>3. Sound(r)'
  <2>1. session'[r] = session[r] /\ pc'[r] = "ended"
    BY <1>0 DEF TypeOK, locks
  <2>2. Phases(r)'
    BY <1>0, <2>1 DEF Sound, Phases, Open, Steps
  <2>3. Locking(r)'
    BY <1>0, <2>1 DEF Sound, Locking, Holding, Checked, Open, Base, tables, locks, client
  <2>4. Applying(r)'
    BY <1>0, <2>1 DEF Sound, Applying, Ready, Open, Rest, client
  <2>5. Journaling(r)'
    BY <1>0, <1>1, <2>1 DEF Sound, Journaling, Checked, Ready, Open
  <2> QED BY <2>2, <2>3, <2>4, <2>5 DEF Sound
<1>4. ASSUME NEW q \in Runs, q # r PROVE Sound(q)'
  BY <1>0, <1>1, <1>4, Frame DEF IInv, TypeOK, tables, locks, client, Sound, Locking
<1> QED BY <1>2, <1>3, <1>4 DEF IInv, tables

LEMMA RolledBackInv ==
  ASSUME IInv, NEW r \in Runs, RolledBack(r)
  PROVE  IInv'
<1>0. Sound(r) /\ TypeOK
  BY DEF IInv
<1>1. TypeOK'
  BY <1>0 DEF TypeOK, RolledBack, Released, tables, client
<1>2. Sound(r)'
  BY <1>0 DEF TypeOK, RolledBack, Released, tables, client, Sound, Phases, Locking,
              Applying, Journaling, Holding, Checked, Ready, Open
<1>3. ASSUME NEW q \in Runs, q # r PROVE Sound(q)'
  <2>1. Holding(q) => lock' = lock
    BY <1>3 DEF IInv, Sound, Locking, RolledBack, Released
  <2> QED BY <1>0, <1>3, <2>1, Frame DEF IInv, TypeOK, RolledBack, Released, tables, client, Sound, Locking
<1> QED BY <1>1, <1>2, <1>3 DEF IInv, RolledBack, tables

\* A session that commits turns the release its command starts from into the
\* release it ends at.
LEMMA CommittedStep ==
  ASSUME IInv, NEW r \in Runs, Committed(r)
  PROVE  /\ command[r] \in Commands
         /\ schema = 1 .. From[command[r]]
         /\ schema' = 1 .. To[command[r]]
         /\ ledger' = schema'
<1>1. Sound(r) /\ session[r] = "commit"
  BY DEF IInv, Committed
<1>2. command[r] \in Commands
  BY <1>1 DEF Sound, Phases
<1>3. schema = 1 .. From[command[r]] /\ done[r] = Rest(r)
  BY <1>1 DEF Sound, Locking, Applying, Checked, Ready, Base
<1>4. schema' = schema \cup done[r] /\ ledger' = ledger \cup done[r]
  BY DEF Committed
<1> QED BY <1>2, <1>3, <1>4, Whole DEF Rest, IInv

LEMMA CommittedInv ==
  ASSUME IInv, NEW r \in Runs, Committed(r)
  PROVE  IInv'
<1>0. Sound(r) /\ TypeOK
  BY DEF IInv
<1>1. TypeOK'
  BY <1>0 DEF TypeOK, Committed, Released, client
<1>2. Sound(r)'
  <2>1. session'[r] = "committed" /\ session[r] = "commit" /\ UNCHANGED <<command, pc, client, journal>>
    BY <1>0 DEF TypeOK, Committed
  <2> QED BY <1>0, <2>1 DEF client, Sound, Phases, Locking, Applying, Journaling,
                            Holding, Checked, Ready, Open
<1>3. ASSUME NEW q \in Runs, q # r PROVE Sound(q)'
  <2>1. ~Holding(q) /\ ~Checked(q)
    BY <1>0, <1>3 DEF IInv, Sound, Locking, Committed, Holding, Checked, Open
  <2> QED BY <1>0, <1>3, <2>1, Frame DEF IInv, TypeOK, Committed, Released, client
<1> QED BY <1>1, <1>2, <1>3, CommittedStep DEF IInv

LEMMA WriteInv ==
  ASSUME IInv, Write
  PROVE  IInv'
<1>1. TypeOK'
  BY DEF IInv, TypeOK, Write, locks, client
<1>2. ASSUME NEW q \in Runs PROVE Sound(q)'
  BY Frame DEF IInv, Write, locks, client, Sound, Locking
<1> QED BY <1>1, <1>2 DEF IInv, Write

LEMMA NextInv == IInv /\ [Next]_vars => IInv'
<1> SUFFICES ASSUME IInv, [Next]_vars PROVE IInv'
  OBVIOUS
<1>1. CASE UNCHANGED vars
  <2>1. TypeOK'
    BY <1>1 DEF vars, tables, locks, client, IInv, TypeOK
  <2>2. ASSUME NEW q \in Runs PROVE Sound(q)'
    BY <1>1, Frame DEF vars, tables, locks, client, IInv, Sound, Locking
  <2> QED BY <1>1, <2>1, <2>2 DEF IInv, vars, tables
<1>2. CASE Write
  BY <1>2, WriteInv
<1>3. ASSUME NEW r \in Runs, Step(r) PROVE IInv'
  <2>1. CASE \E c \in Commands : Start(r, c)
    BY <2>1, StartInv
  <2>2. CASE Lock(r) \/ Before(r) \/ Read(r) \/ Apply(r) \/ After(r) \/ Commit(r)
    BY <2>2, LockInv, BeforeInv, ReadInv, ApplyInv, AfterInv, CommitInv
  <2>3. CASE Finish(r)
    BY <2>3, EndInv DEF Finish, Steps
  <2>4. CASE GiveUp(r)
    BY <2>4, EndInv DEF GiveUp
  <2>5. CASE Committed(r) \/ RolledBack(r)
    BY <2>5, CommittedInv, RolledBackInv
  <2> QED BY <1>3, <2>1, <2>2, <2>3, <2>4, <2>5 DEF Step
<1> QED BY <1>1, <1>2, <1>3 DEF Next

-----------------------------------------------------------------------------

\* The inductive invariant holds in every reachable state.
THEOREM Invariance == Spec => []IInv
BY InitInv, NextInv, PTL DEF Spec

\* The tables, locks and journals of the migration commands stay well typed.
THEOREM TypeCorrect == Spec => []TypeOK
<1>1. IInv => TypeOK
  BY DEF IInv
<1> QED BY <1>1, Invariance, PTL

\* An operator may trust the journal of an upgrade, and the ledger tells the
\* schema, however many commands run and wherever they fail.
THEOREM JournalsAreHonest == Spec => []JournalIsHonest
<1>1. IInv => JournalIsHonest
  BY DEF IInv, Sound, Journaling, JournalIsHonest
<1> QED BY <1>1, Invariance, PTL

\* The rows a journey compared are the rows it commits on.
THEOREM RowsKept == Spec => RowsAreKept
<1>1. IInv /\ [Next]_vars =>
        [\A r \in Runs :
           command[r] = "journey" /\ session[r] = "commit" /\ session'[r] = "committed"
             => rows = before[r] /\ rows' = before[r]]_vars
  <2> SUFFICES ASSUME IInv, Next, NEW r \in Runs, command[r] = "journey",
                      session[r] = "commit", session'[r] = "committed"
               PROVE  rows = before[r] /\ rows' = before[r]
    OBVIOUS
  <2>1. rows = before[r] /\ r \in shared
    BY DEF IInv, Sound, Locking, Checked
  <2>2. ~Write
    BY <2>1 DEF Write
  <2>3. rows' = rows
    BY <2>2 DEF Next, Step, Start, Lock, Before, Read, Apply, After, Commit, Finish,
                GiveUp, Committed, RolledBack, tables
  <2> QED BY <2>1, <2>3
<1> QED BY <1>1, Invariance, PTL DEF Spec, RowsAreKept

\* The migration commands implement SchemaSteps.
THEOREM Refinement == Spec => ImplementsSchemaSteps
<1>1. Init => Promise!Init
  BY DEF Init, Promise!Init
<1>2. IInv /\ [Next]_vars => [Promise!Next]_schema
  <2> SUFFICES ASSUME IInv, [Next]_vars PROVE Promise!Next \/ schema' = schema
    OBVIOUS
  <2>1. ASSUME NEW r \in Runs, Committed(r) PROVE Promise!Next
    <3>1. Promise!Upgrade(command[r]) /\ command[r] \in Commands
      BY <2>1, CommittedStep DEF Promise!Upgrade
    <3> QED BY <3>1 DEF Promise!Next
  <2>2. CASE \A r \in Runs : ~Committed(r)
    BY <2>2 DEF Next, Step, Start, Lock, Before, Read, Apply, After, Commit, Finish,
                GiveUp, RolledBack, Write, vars, tables
  <2> QED BY <2>1, <2>2
<1> QED BY <1>1, <1>2, Invariance, PTL DEF Spec, ImplementsSchemaSteps, Promise!Spec

=============================================================================
