------------------------------ MODULE Publication ------------------------------
(*****************************************************************************)
(* POST /requests and the alerts that follow it: create_request in           *)
(* Python/routers/requests.py and Python/auto_match.py.                      *)
(*                                                                           *)
(* create_request holds an advisory lock per author: Submit takes it and     *)
(* looks for the key and for equal content, Commit writes what that calls    *)
(* for, Rollback gives up.  The call then runs auto_match_request in a       *)
(* second transaction that holds the row lock of the request: Rank reads and *)
(* ranks, Recheck locks the recipients and reads the blocks again, Deliver   *)
(* inserts and commits.  Other calls run between these steps, and the        *)
(* process may die at each of them (Fail).  A client that got no answer      *)
(* sends the same key again.                                                 *)
(*****************************************************************************)
EXTENDS Naturals, FiniteSets

CONSTANTS
  Users,       \* accounts
  Requests,    \* request ids; a serial id is used at most once
  Keys,        \* clientRequestId values
  Contents,    \* payload hashes of validated bodies
  Offers,      \* those whose role is mentor: nobody is alerted about them
  Calls,       \* POST /requests calls served at the same time
  None,        \* NULL: no account, request, key or hash
  TopMatches   \* TOP_MATCHES

ASSUME NoneAssumption == None \notin Users \cup Requests \cup Keys \cup Contents
ASSUME OffersAssumption == Offers \subseteq Contents
ASSUME TopMatchesAssumption == TopMatches \in Nat
ASSUME UsersAssumption == IsFiniteSet(Users)

VARIABLES
  state,      \* requests.status, or the row does not exist (yet or any more)
  author,     \* requests.author_id
  content,    \* requests.payload_hash
  fresh,      \* requests created within the last five minutes
  key,        \* request_submission_keys of each author
  alerts,     \* recipients of the request_match notifications of a request
  summary,    \* requests with a request_match_summary notification
  standing,   \* has_student_access and users.role of each account
  blocked,    \* pairs {a, b} with a block in either direction
  draft,      \* what each uncommitted create_request transaction has read
  call,       \* what each committed POST /requests is doing
  answered,   \* auxiliary: the request an author's key was last answered with
  overtaken   \* auxiliary: calls that read the blocks before a newer block

vars == <<state, author, content, fresh, key, alerts, summary,
          standing, blocked, draft, call, answered, overtaken>>
rows == <<state, author, content, fresh, key>>
notifications == <<alerts, summary>>
accounts == <<standing, blocked>>

Standing == {"outsider", "mentee", "mentor"}
Binding  == [request : Requests, hash : Contents]
Unbound  == [request |-> None]
Phase    == {"committed", "ranked", "rechecked"}
Call     == [phase : Phase, request : Requests, chosen : SUBSET Users]
Idle     == [phase |-> "idle"]
Draft    == [author : Users, key : Keys \cup {None}, content : Contents,
             request : Requests \cup {None}, bound : BOOLEAN]
NoDraft  == [author |-> None, request |-> None]

\* Types of the tables and of the running calls.
TypeOK ==
  /\ state \in [Requests -> {"unused", "open", "inactive", "deleted"}]
  /\ author \in [Requests -> Users \cup {None}]
  /\ content \in [Requests -> Contents \cup {None}]
  /\ fresh \subseteq Requests
  /\ key \in [Users -> [Keys -> Binding \cup {Unbound}]]
  /\ alerts \in [Requests -> SUBSET Users]
  /\ summary \subseteq Requests
  /\ standing \in [Users -> Standing]
  /\ blocked \subseteq {{a, b} : a, b \in Users}
  /\ \A u \in Users : {u} \notin blocked
  /\ draft \in [Calls -> Draft \cup {NoDraft}]
  /\ call \in [Calls -> Call \cup {Idle}]
  /\ answered \in [Users -> [Keys -> Requests \cup {None}]]
  /\ overtaken \subseteq Calls

Exists(r) == state[r] \in {"open", "inactive"}

\* Row locks: create_request locks the request it found, auto_match_request
\* its request, the author (FOR SHARE), and from Recheck on the recipients.
Locked(r) == \E c \in Calls :
  \/ draft[c].request = r
  \/ call[c].phase \in {"ranked", "rechecked"} /\ call[c].request = r

\* Broken variant: the recipients are read without a lock.
OnlyAuthorShared(u) == \E c \in Calls : /\ call[c].phase \in {"ranked", "rechecked"}
                                        /\ author[call[c].request] = u

Shared(u) == \E c \in Calls :
  /\ call[c].phase \in {"ranked", "rechecked"}
  /\ \/ author[call[c].request] = u
     \/ call[c].phase = "rechecked" /\ u \in call[c].chosen

Init ==
  /\ state = [r \in Requests |-> "unused"]
  /\ author = [r \in Requests |-> None]
  /\ content = [r \in Requests |-> None]
  /\ fresh = {}
  /\ key = [u \in Users |-> [k \in Keys |-> Unbound]]
  /\ alerts = [r \in Requests |-> {}]
  /\ summary = {}
  /\ standing \in [Users -> Standing]
  /\ blocked = {}
  /\ draft = [c \in Calls |-> NoDraft]
  /\ call = [c \in Calls |-> Idle]
  /\ answered = [u \in Users |-> [k \in Keys |-> None]]
  /\ overtaken = {}

-----------------------------------------------------------------------------
(* create_request.                                                           *)

\* The key k of a, when the client sent one and it is bound.
BoundTo(a, k) == IF k = None THEN Unbound ELSE key[a][k]

\* The author's own requests with the same content in the last five minutes.
Coalescing(a, h) ==
  {r \in fresh : Exists(r) /\ author[r] = a /\ content[r] = h}

\* Broken variant: only clients without keys are protected from repeating.
FoundUnkeyed(a, k, h) ==
  IF BoundTo(a, k) # Unbound THEN {BoundTo(a, k).request}
  ELSE IF k # None \/ Coalescing(a, h) = {} THEN {None}
  ELSE Coalescing(a, h)

\* What create_request finds published already: the request of the key, or
\* equal content within five minutes, whatever its key.
Found(a, k, h) ==
  IF BoundTo(a, k) # Unbound THEN {BoundTo(a, k).request}
  ELSE IF Coalescing(a, h) = {} THEN {None}
  ELSE Coalescing(a, h)

\* Broken variant: submissions of an author are not serialized.
AuthorUnlocked(a) == TRUE

\* pg_advisory_xact_lock: one uncommitted submission of an author.
AuthorFree(a) == \A c \in Calls : draft[c].author # a

\* A key that was sent with other content is refused (409), which changes
\* nothing and has no step.
Submit(c, a, k, h) ==
  /\ draft[c] = NoDraft /\ call[c] = Idle
  /\ standing[a] # "outsider"
  /\ AuthorFree(a)
  /\ BoundTo(a, k) # Unbound => BoundTo(a, k).hash = h
  /\ \E r \in Found(a, k, h) :
       /\ r # None => ~Locked(r)
       /\ draft' = [draft EXCEPT ![c] =
            [author |-> a, key |-> k, content |-> h, request |-> r,
             bound |-> BoundTo(a, k) # Unbound]]
  /\ UNCHANGED <<rows, notifications, accounts, call, answered, overtaken>>

\* A missing district or tag, an exception, or the end of the process.
Rollback(c) ==
  /\ draft[c] # NoDraft
  /\ draft' = [draft EXCEPT ![c] = NoDraft]
  /\ UNCHANGED <<rows, notifications, accounts, call, answered, overtaken>>

\* The draft of c commits with the answer r, and c goes on to auto-match it.
Answer(c, r) ==
  LET a == draft[c].author  k == draft[c].key IN
    /\ draft' = [draft EXCEPT ![c] = NoDraft]
    /\ call' = [call EXCEPT ![c] =
                  [phase |-> "committed", request |-> r, chosen |-> {}]]
    /\ answered' = IF k = None THEN answered ELSE [answered EXCEPT ![a][k] = r]
    /\ UNCHANGED <<notifications, accounts, overtaken>>

\* Broken variant: a replay is answered from the table and not matched again.
ReplayUnmatched(c) ==
  /\ draft[c] # NoDraft /\ draft[c].bound
  /\ draft' = [draft EXCEPT ![c] = NoDraft]
  /\ UNCHANGED <<rows, notifications, accounts, call, answered, overtaken>>

\* A key seen before answers its own request.
Replay(c) ==
  /\ draft[c] # NoDraft /\ draft[c].bound
  /\ Answer(c, draft[c].request)
  /\ UNCHANGED rows

\* Broken variant: a coalesced alias is answered but not stored.
BindNothing(c, r) == BoundTo(draft[c].author, draft[c].key) = Unbound /\ UNCHANGED key

\* The key of the draft of c is stored for r; it is a primary key.
Bind(c, r) ==
  LET a == draft[c].author  k == draft[c].key IN
    /\ BoundTo(a, k) = Unbound
    /\ key' = IF k = None THEN key
              ELSE [key EXCEPT ![a][k] = [request |-> r, hash |-> draft[c].content]]

\* The same publication under another key, or without one.
Coalesce(c) ==
  /\ draft[c] # NoDraft /\ ~draft[c].bound /\ draft[c].request # None
  /\ Bind(c, draft[c].request)
  /\ Answer(c, draft[c].request)
  /\ UNCHANGED <<state, author, content, fresh>>

Insert(c, r) ==
  /\ draft[c] # NoDraft /\ draft[c].request = None
  /\ state[r] = "unused"
  /\ state' = [state EXCEPT ![r] = "open"]
  /\ author' = [author EXCEPT ![r] = draft[c].author]
  /\ content' = [content EXCEPT ![r] = draft[c].content]
  /\ fresh' = fresh \cup {r}
  /\ Bind(c, r)
  /\ Answer(c, r)

Commit(c) == Replay(c) \/ Coalesce(c) \/ \E r \in Requests : Insert(c, r)

\* Five minutes pass.
Age(r) ==
  /\ r \in fresh
  /\ fresh' = fresh \ {r}
  /\ UNCHANGED <<state, author, content, key, notifications, accounts, draft, call,
                 answered, overtaken>>

-----------------------------------------------------------------------------
(* auto_match_request.                                                       *)

\* A mentee's open request by an author in good standing, not announced yet.
Matchable(r) ==
  /\ state[r] = "open"
  /\ content[r] \notin Offers
  /\ standing[author[r]] # "outsider"
  /\ r \notin summary

\* Mentors the author may be matched with; how they rank is left open.
Candidates(r) ==
  {u \in Users : /\ standing[u] = "mentor"
                 /\ u # author[r]
                 /\ {author[r], u} \notin blocked}

Finish(c) ==
  /\ call' = [call EXCEPT ![c] = Idle]
  /\ overtaken' = overtaken \ {c}

\* Another call delivered, or the request cannot be matched (any more).
Skip(c) ==
  /\ call[c].phase = "committed"
  /\ ~Locked(call[c].request)
  /\ ~Matchable(call[c].request)
  /\ Finish(c)
  /\ UNCHANGED <<rows, notifications, accounts, draft, answered>>

Rank(c) ==
  LET r == call[c].request IN
    /\ call[c].phase = "committed"
    /\ ~Locked(r)
    /\ Matchable(r)
    /\ \E S \in SUBSET Candidates(r) :
         /\ Cardinality(S) <= TopMatches
         /\ call' = [call EXCEPT ![c] = [@ EXCEPT !.phase = "ranked", !.chosen = S]]
    /\ UNCHANGED <<rows, notifications, accounts, draft, answered, overtaken>>

\* Broken variant: the blocks are not read again.
RecheckStanding(c) ==
  /\ call[c].phase = "ranked"
  /\ call' = [call EXCEPT ![c] =
       [@ EXCEPT !.phase = "rechecked",
                 !.chosen = {u \in @ : standing[u] = "mentor"}]]
  /\ UNCHANGED <<rows, notifications, accounts, draft, answered, overtaken>>

\* Ineligible and blocked recipients are skipped; the rest stay locked.
Recheck(c) ==
  /\ call[c].phase = "ranked"
  /\ call' = [call EXCEPT ![c] =
       [@ EXCEPT !.phase = "rechecked",
                 !.chosen = call[c].chosen \cap Candidates(call[c].request)]]
  /\ UNCHANGED <<rows, notifications, accounts, draft, answered, overtaken>>

\* Broken variant: the alerts commit without the author's summary.
DeliverUnmarked(c) ==
  LET r == call[c].request IN
    /\ call[c].phase = "rechecked"
    /\ alerts' = [alerts EXCEPT ![r] = @ \cup call[c].chosen]
    /\ UNCHANGED summary
    /\ Finish(c)
    /\ UNCHANGED <<rows, accounts, draft, answered>>

\* The alerts and the marker commit together.
Deliver(c) ==
  LET r == call[c].request IN
    /\ call[c].phase = "rechecked"
    /\ alerts' = [alerts EXCEPT ![r] = @ \cup call[c].chosen]
    /\ summary' = summary \cup {r}
    /\ Finish(c)
    /\ UNCHANGED <<rows, accounts, draft, answered>>

\* An exception, which is logged and swallowed, or the end of the process: the
\* matching transaction is rolled back, the publication stays.
Fail(c) ==
  /\ call[c] # Idle
  /\ Finish(c)
  /\ UNCHANGED <<rows, notifications, accounts, draft, answered>>

-----------------------------------------------------------------------------
(* What other handlers do to the same rows.                                  *)

\* PATCH of the status, and an accepted application (see Mentorship).
SetState(r, s) ==
  /\ Exists(r) /\ ~Locked(r) /\ s # state[r]
  /\ s \in {"open", "inactive"}
  /\ state' = [state EXCEPT ![r] = s]
  /\ UNCHANGED <<author, content, fresh, key, notifications, accounts, draft, call,
                 answered, overtaken>>

\* DELETE: keys and notifications go with the row (ON DELETE CASCADE).
Delete(r) ==
  /\ Exists(r) /\ ~Locked(r)
  /\ state' = [state EXCEPT ![r] = "deleted"]
  /\ author' = [author EXCEPT ![r] = None]
  /\ content' = [content EXCEPT ![r] = None]
  /\ fresh' = fresh \ {r}
  /\ key' = [u \in Users |-> [k \in Keys |->
               IF key[u][k].request = r THEN Unbound ELSE key[u][k]]]
  /\ alerts' = [alerts EXCEPT ![r] = {}]
  /\ summary' = summary \ {r}
  /\ UNCHANGED <<accounts, draft, call, answered, overtaken>>

\* PATCH /users of the role, verification, administrator rights: an UPDATE waits
\* for readers that hold the row FOR SHARE.
SetStanding(u, s) ==
  /\ ~Shared(u) /\ s # standing[u]
  /\ standing' = [standing EXCEPT ![u] = s]
  /\ UNCHANGED <<rows, notifications, blocked, draft, call, answered, overtaken>>

Block(a, b) ==
  /\ a # b /\ {a, b} \notin blocked
  /\ blocked' = blocked \cup {{a, b}}
  /\ overtaken' = overtaken \cup
       {c \in Calls : call[c].phase = "rechecked" /\ author[call[c].request] \in {a, b}}
  /\ UNCHANGED <<rows, notifications, standing, draft, call, answered>>

Unblock(a, b) ==
  /\ {a, b} \in blocked
  /\ blocked' = blocked \ {{a, b}}
  /\ UNCHANGED <<rows, notifications, standing, draft, call, answered, overtaken>>

-----------------------------------------------------------------------------

Publish ==
  \/ \E c \in Calls, a \in Users, k \in Keys \cup {None}, h \in Contents :
       Submit(c, a, k, h)
  \/ \E c \in Calls : Commit(c) \/ Rollback(c)

Match(c) == Skip(c) \/ Rank(c) \/ Recheck(c) \/ Deliver(c)

Next ==
  \/ Publish
  \/ \E c \in Calls : Match(c) \/ Fail(c)
  \/ \E r \in Requests : Age(r) \/ Delete(r)
  \/ \E r \in Requests, s \in {"open", "inactive"} : SetState(r, s)
  \/ \E u \in Users, s \in Standing : SetStanding(u, s)
  \/ \E a, b \in Users : Block(a, b) \/ Unblock(a, b)

Spec == Init /\ [][Next]_vars

-----------------------------------------------------------------------------
(* The promise of OnceOnly, seen by the clients and in the tables.           *)

StillMeant(r) == IF r # None /\ Exists(r) THEN r ELSE None

Promise == INSTANCE OnceOnly WITH
  Audiences <- {S \in SUBSET Users : Cardinality(S) <= TopMatches},
  owner     <- author,
  meaning   <- [a \in Users |-> [k \in Keys |-> StillMeant(answered[a][k])]],
  sent      <- summary,
  audience  <- alerts

\* Retries, lost answers, coalesced aliases, concurrent calls and failures in
\* the middle of matching never give a key a second request, or a request a
\* second batch of alerts.
ImplementsOnceOnly == Promise!Spec

-----------------------------------------------------------------------------
(* Properties.                                                               *)

\* A stored key names a request that exists, by the same author and with the
\* content the key was stored for, whichever of publication, coalescing and
\* deletion came in between.
KeyNamesItsRequest ==
  \A a \in Users, k \in Keys : key[a][k] # Unbound =>
    /\ Exists(key[a][k].request)
    /\ author[key[a][k].request] = a
    /\ content[key[a][k].request] = key[a][k].hash

\* No author has two requests with equal content from the same five minutes,
\* whatever keys and however many calls they came with.
NoDuplicatePublication ==
  \A r, r2 \in fresh : author[r] = author[r2] /\ content[r] = content[r2] => r = r2

\* Mentors who were alerted have a completed delivery behind them: a failure
\* leaves the alerts and the author's summary both, or neither.
AlertsAreSummarised == \A r \in Requests : alerts[r] # {} => r \in summary

\* An alert reaches an account that is a mentor in good standing when it is
\* committed, about a request whose author is in good standing, although the
\* ranking was read two steps before.
AlertsReachMentors ==
  [][\A r \in Requests : \A u \in alerts'[r] \ alerts[r] :
       /\ standing[u] = "mentor" /\ standing'[u] = "mentor"
       /\ standing[author[r]] # "outsider"]_vars

\* No alert crosses a block, except one whose call had read the blocks before.
AlertsRespectBlocks ==
  [][\A r \in Requests : \A u \in alerts'[r] \ alerts[r] :
       {author[r], u} \in blocked => \E c \in overtaken : call[c].request = r]_vars

-----------------------------------------------------------------------------
(* Liveness: "an explicit replay can repair a failed delivery"               *)
(* (requests.py:281).  The author keeps sending the key again, a transaction *)
(* of create_request ends, locks are granted in the order of the waiters,    *)
(* and not every attempt fails.                                              *)

Repeat(a, k) == \E c \in Calls, h \in Contents :
  BoundTo(a, k) # Unbound /\ Submit(c, a, k, h)

During(c, r, Step) == call[c] # Idle /\ call[c].request = r /\ Step

RetrySpec ==
  /\ Spec
  /\ \A a \in Users, k \in Keys : SF_vars(Repeat(a, k))
  /\ \A c \in Calls : WF_vars(Commit(c) \/ Rollback(c))
  /\ \A c \in Calls, r \in Requests :
       /\ SF_vars(draft[c].request = r /\ Replay(c))
       /\ SF_vars(During(c, r, Skip(c)))
       /\ SF_vars(During(c, r, Rank(c)))
       /\ SF_vars(During(c, r, Recheck(c)))
       /\ SF_vars(During(c, r, Deliver(c)))

\* A keyed request that can be matched is announced at last, unless it stops
\* being matchable (closed, deleted, or its author no longer in good standing).
RetryRepairsDelivery ==
  \A a \in Users, k \in Keys, r \in Requests :
    key[a][k].request = r /\ Matchable(r) ~> ~Matchable(r)

=============================================================================
