------------------------------ MODULE Migrations ------------------------------
(*****************************************************************************)
(* The commands an operator changes the database schema with: bootstrap on   *)
(* an empty database, and the upgrades 0003 -> 0005 (journey), 0005 -> 0006  *)
(* (trust) and 0006 -> 0007 (notifications), each around                     *)
(* runMigrationTransaction of lib/db/tools/migration-runner.mjs.             *)
(*                                                                           *)
(* A run is two parties.  The client reads, applies and keeps a journal that *)
(* is synced after every entry; the session of the server holds the          *)
(* transaction and its locks.  Either can fail on its own, and the session   *)
(* may commit after the client has given up.  PostgreSQL reads committed     *)
(* rows only, a new snapshot for every statement.                            *)
(*****************************************************************************)
EXTENDS Integers

CONSTANTS
  Runs,  \* executions of a command
  Tail,  \* the number of migrations in database/migrations/ledger.json
  None

Commands == {"bootstrap", "journey", "trust", "notifications"}
Journaled == Commands \ {"bootstrap"}
From == [bootstrap |-> 0, journey |-> 3, trust |-> 5, notifications |-> 6]
To == [bootstrap |-> Tail, journey |-> 5, trust |-> 6, notifications |-> 7]

ASSUME MigrationsAssumption == Tail \in Nat /\ Tail > 6 /\ None \notin Runs

VARIABLES
  schema,   \* the migrations whose effects are committed
  ledger,   \* the ordinals committed to mentor_connect_schema_migrations
  rows,     \* the content of the old tables, as far as a fingerprint tells
  lock,     \* the session that holds the advisory lock
  command,  \* of each run
  pc,       \* the call its client waits for
  session,  \* its server session: none, open, commit (received) or committed
  shared,   \* the runs whose session holds SHARE locks on the old tables
  pending,  \* the migrations its client found pending
  done,     \* those it applied inside the transaction
  before,   \* the fingerprint it took
  journal   \* its audit file

tables == <<schema, ledger, rows>>
locks == <<lock, session, shared>>
client == <<pending, done, before>>
vars == <<tables, locks, client, command, pc, journal>>

Steps == {"lock", "before", "read", "apply", "commit", "committing"}

\* Types of the tables, the locks, the clients and their journals.
TypeOK ==
  /\ schema \in SUBSET Nat /\ ledger \in SUBSET Nat /\ rows \in {0, 1}
  /\ lock \in Runs \cup {None}
  /\ command \in [Runs -> Commands \cup {None}]
  /\ pc \in [Runs -> Steps \cup {"new", "ended"}]
  /\ session \in [Runs -> {"none", "open", "commit", "committed"}]
  /\ shared \in SUBSET Runs
  /\ pending \in [Runs -> SUBSET Nat]
  /\ done \in [Runs -> SUBSET Nat]
  /\ before \in [Runs -> {0, 1}]
  /\ journal \in [Runs -> SUBSET {"before", "verified", "committed", "failed"}]

Init ==
  /\ schema \in {1 .. n : n \in {From[c] : c \in Commands}}
  /\ ledger = schema
  /\ rows = 0
  /\ lock = None
  /\ command = [r \in Runs |-> None]
  /\ pc = [r \in Runs |-> "new"]
  /\ session = [r \in Runs |-> "none"]
  /\ shared = {}
  /\ pending = [r \in Runs |-> {}]
  /\ done = [r \in Runs |-> {}]
  /\ before = [r \in Runs |-> 0]
  /\ journal = [r \in Runs |-> {}]

Note(r, entry) ==
  journal' = IF command[r] \in Journaled
             THEN [journal EXCEPT ![r] = @ \cup {entry}] ELSE journal

-----------------------------------------------------------------------------
(* The client: runMigrationTransaction with the hooks of its command.        *)

\* The operator starts a command; BEGIN and the settings succeed.
Start(r, c) ==
  /\ pc[r] = "new"
  /\ command' = [command EXCEPT ![r] = c]
  /\ pc' = [pc EXCEPT ![r] = "lock"]
  /\ session' = [session EXCEPT ![r] = "open"]
  /\ UNCHANGED <<tables, lock, shared, client, journal>>

At(r, step) == pc[r] = step /\ session[r] = "open"

\* pg_advisory_xact_lock.
Lock(r) ==
  /\ At(r, "lock") /\ lock = None
  /\ lock' = r
  /\ pc' = [pc EXCEPT ![r] = "before"]
  /\ UNCHANGED <<tables, session, shared, client, command, journal>>

\* Broken variant: the tables are fingerprinted without the SHARE locks.
BeforeUnlocked(r) ==
  /\ At(r, "before")
  /\ ledger = 1 .. From[command[r]]
  /\ before' = [before EXCEPT ![r] = rows]
  /\ Note(r, "before")
  /\ pc' = [pc EXCEPT ![r] = "read"]
  /\ UNCHANGED <<tables, locks, pending, done, command>>

\* beforeApply: the ledger is exactly the release the command starts from (for
\* bootstrap: the database is empty); the journey locks the old tables against
\* writers and takes their fingerprint.
Before(r) ==
  /\ At(r, "before")
  /\ ledger = 1 .. From[command[r]]
  /\ IF command[r] = "journey"
     THEN /\ shared' = shared \cup {r}
          /\ before' = [before EXCEPT ![r] = rows]
     ELSE UNCHANGED <<shared, before>>
  /\ Note(r, "before")
  /\ pc' = [pc EXCEPT ![r] = "read"]
  /\ UNCHANGED <<tables, lock, session, pending, done, command>>

\* The ledger is read again and must be a prefix of the command's migrations.
Read(r) ==
  /\ At(r, "read")
  /\ ledger \subseteq 1 .. To[command[r]]
  /\ pending' = [pending EXCEPT ![r] = 1 .. To[command[r]] \ ledger]
  /\ pc' = [pc EXCEPT ![r] = "apply"]
  /\ UNCHANGED <<tables, locks, done, before, command, journal>>

\* Broken variant: every migration is a transaction of its own.
ApplyAlone(r) ==
  /\ At(r, "apply")
  /\ \E m \in pending[r] :
       /\ \A other \in pending[r] : m <= other
       /\ m \notin schema \cup ledger
       /\ schema' = schema \cup {m} /\ ledger' = ledger \cup {m}
       /\ pending' = [pending EXCEPT ![r] = @ \ {m}]
  /\ UNCHANGED <<rows, locks, done, before, command, pc, journal>>

\* The next pending migration and its row. Its DDL fails on a schema that has it,
\* its row on a ledger that has it.
Apply(r) ==
  /\ At(r, "apply")
  /\ \E m \in pending[r] :
       /\ \A other \in pending[r] : m <= other
       /\ m \notin schema \cup ledger
       /\ pending' = [pending EXCEPT ![r] = @ \ {m}]
       /\ done' = [done EXCEPT ![r] = @ \cup {m}]
  /\ UNCHANGED <<tables, locks, before, command, pc, journal>>

\* Broken variant: the journal already says what the COMMIT is to bring about.
AfterCommitted(r) ==
  /\ At(r, "apply") /\ pending[r] = {}
  /\ command[r] = "journey" => rows = before[r]
  /\ Note(r, "committed")
  /\ pc' = [pc EXCEPT ![r] = "commit"]
  /\ UNCHANGED <<tables, locks, client, command>>

\* afterApply: grants and checks; the journey compares the fingerprints.
After(r) ==
  /\ At(r, "apply") /\ pending[r] = {}
  /\ command[r] = "journey" => rows = before[r]
  /\ Note(r, "verified")
  /\ pc' = [pc EXCEPT ![r] = "commit"]
  /\ UNCHANGED <<tables, locks, client, command>>

Commit(r) ==
  /\ At(r, "commit")
  /\ pc' = [pc EXCEPT ![r] = "committing"]
  /\ session' = [session EXCEPT ![r] = "commit"]
  /\ UNCHANGED <<tables, lock, shared, client, command, journal>>

\* The COMMIT is acknowledged.
Finish(r) ==
  /\ pc[r] = "committing" /\ session[r] = "committed"
  /\ Note(r, "committed")
  /\ pc' = [pc EXCEPT ![r] = "ended"]
  /\ UNCHANGED <<tables, locks, client, command>>

\* Broken variant: nothing ends a call the server does not answer.
GiveUpAnswered(r) ==
  /\ pc[r] \in Steps /\ session[r] = "none"
  /\ Note(r, "failed") \/ UNCHANGED journal
  /\ pc' = [pc EXCEPT ![r] = "ended"]
  /\ UNCHANGED <<tables, locks, client, command>>

\* A call fails, a check is not met, or the deadline of two minutes ends the
\* connection; "failed-or-unconfirmed" is written if the journal still can be.
GiveUp(r) ==
  /\ pc[r] \in Steps
  /\ Note(r, "failed") \/ UNCHANGED journal
  /\ pc' = [pc EXCEPT ![r] = "ended"]
  /\ UNCHANGED <<tables, locks, client, command>>

-----------------------------------------------------------------------------
(* The server, and the application.                                          *)

Released(r) ==
  /\ lock' = IF lock = r THEN None ELSE lock
  /\ shared' = shared \ {r}

\* The session gets to the COMMIT it has received.
Committed(r) ==
  /\ session[r] = "commit"
  /\ schema' = schema \cup done[r]
  /\ ledger' = ledger \cup done[r]
  /\ session' = [session EXCEPT ![r] = "committed"]
  /\ Released(r)
  /\ UNCHANGED <<rows, client, command, pc, journal>>

\* The session ends without a COMMIT: its client left, or it was terminated.
RolledBack(r) ==
  /\ session[r] \in {"open", "commit"}
  /\ session' = [session EXCEPT ![r] = "none"]
  /\ Released(r)
  /\ UNCHANGED <<tables, client, command, pc, journal>>

\* The application, which is not stopped, writes to an old table.
Write ==
  /\ shared = {}
  /\ rows' = 1 - rows
  /\ UNCHANGED <<schema, ledger, locks, client, command, pc, journal>>

Step(r) ==
  \/ \E c \in Commands : Start(r, c)
  \/ Lock(r) \/ Before(r) \/ Read(r) \/ Apply(r) \/ After(r) \/ Commit(r)
  \/ Finish(r) \/ GiveUp(r) \/ Committed(r) \/ RolledBack(r)

Next == Write \/ \E r \in Runs : Step(r)

Spec == Init /\ [][Next]_vars

\* The upgrades end by their deadline; bootstrap has none.  PostgreSQL ends the
\* session of a client that has left, by statement_timeout at the latest.
FairSpec ==
  /\ Spec
  /\ \A r \in Runs :
       /\ WF_vars(command[r] \in Journaled /\ GiveUp(r))
       /\ WF_vars(pc[r] = "ended" /\ (Committed(r) \/ RolledBack(r)))

-----------------------------------------------------------------------------
(* Properties.                                                               *)

Promise == INSTANCE SchemaSteps WITH applied <- schema

\* The detailed specification implements the abstract one: whatever fails, and
\* whoever runs at the same time, the committed schema goes from the release a
\* command starts from to the one it ends at (migration-runner.mjs 55-117).
ImplementsSchemaSteps == Promise!Spec

\* What an operator may conclude from a journal and the ledger: the ledger tells
\* the schema; an upgrade that took effect has journaled its checks; one whose
\* journal says "committed" took effect, and one that says "failed" may or may not
\* have ("failed-or-unconfirmed", upgrade-journey.mjs 116-121).
JournalIsHonest ==
  /\ ledger = schema
  /\ \A r \in Runs : command[r] \in Journaled =>
       /\ session[r] = "committed" => {"before", "verified"} \subseteq journal[r]
       /\ "committed" \in journal[r] => session[r] = "committed"

\* The journey commits on exactly the rows it found and compared, although the
\* application goes on writing (upgrade-journey.mjs 76-90).
RowsAreKept ==
  [][\A r \in Runs :
       command[r] = "journey" /\ session[r] = "commit" /\ session'[r] = "committed"
         => rows = before[r] /\ rows' = before[r]]_vars

\* An upgrade never keeps the advisory lock: the next one can run, whatever the
\* client, the connection or the server does.
LockIsFreed ==
  \A r \in Runs :
    lock = r /\ command[r] \in Journaled ~> lock # r

=============================================================================
