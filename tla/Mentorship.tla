------------------------------ MODULE Mentorship ------------------------------
(*****************************************************************************)
(* Consent-based matching: requests, applications, blocks and match events.  *)
(*                                                                           *)
(* Python/routers/requests.py, Python/routers/request_interactions.py and    *)
(* Python/request_events.py.  Every handler that changes an application      *)
(* opens one READ COMMITTED transaction and takes the row lock of its        *)
(* request (SELECT ... FOR UPDATE).  The lock does not cover the blocks      *)
(* table, so such a handler is two steps here: Begin takes the lock and does *)
(* every read and check, Commit does the writes and releases the lock.       *)
(* Between the two, handlers that do not want the row (POST and DELETE       *)
(* /blocks) run freely, and the process may die (Rollback).  A handler that  *)
(* answers an error or an idempotent replay changes nothing and has no step. *)
(*****************************************************************************)
EXTENDS Naturals, Sequences

CONSTANTS
  Users,       \* student accounts
  Admins,      \* verified administrators, who may delete but never apply
  Requests,    \* request ids; a serial id is used at most once
  NoUser,      \* NULL in requests.matched_user_id
  MaxMatches   \* bound of the model: acceptances recorded per request

ASSUME UsersAssumption == NoUser \notin Users
ASSUME MaxMatchesAssumption == MaxMatches \in Nat

VARIABLES
  status,       \* requests.status, or the row does not exist (yet or any more)
  role,         \* requests.role: what the author is in this request
  author,       \* requests.author_id
  matchedUser,  \* requests.matched_user_id
  app,          \* request_applications.status of each (request, applicant)
  blocks,       \* rows (blocker, blocked) of blocks
  matchLog,     \* mentor_id of the request_events rows of a request, in order
  txn,          \* the transaction that holds the request's row lock
  raced         \* auxiliary: requests whose open transaction was overtaken by
                \* a block of the very pair it is about

vars == <<status, role, author, matchedUser, app, blocks, matchLog, txn, raced>>
rows == <<status, role, author, matchedUser, app, matchLog>>

LiveStatus == {"open", "matched", "closed"}
Status     == LiveStatus \cup {"unpublished", "deleted"}
Role       == {"mentee", "mentor"}
AppStatus  == {"none", "pending", "accepted", "rejected", "cancelled"}
Op         == {"apply", "accept", "reject", "cancel"}
Txn        == [op : Op, actor : Users, applicant : Users]
NoTxn      == [op |-> "none"]

\* Types of the tables and of the open transactions.
TypeOK ==
  /\ status \in [Requests -> Status]
  /\ role \in [Requests -> Role]
  /\ author \in [Requests -> Users \cup {NoUser}]
  /\ matchedUser \in [Requests -> Users \cup {NoUser}]
  /\ app \in [Requests -> [Users -> AppStatus]]
  /\ blocks \in SUBSET (Users \X Users)
  /\ matchLog \in [Requests -> Seq(Users)]
  /\ txn \in [Requests -> Txn \cup {NoTxn}]
  /\ raced \in SUBSET Requests

Init ==
  /\ status = [r \in Requests |-> "unpublished"]
  /\ role = [r \in Requests |-> "mentee"]
  /\ author = [r \in Requests |-> NoUser]
  /\ matchedUser = [r \in Requests |-> NoUser]
  /\ app = [r \in Requests |-> [u \in Users |-> "none"]]
  /\ blocks = {}
  /\ matchLog = [r \in Requests |-> <<>>]
  /\ txn = [r \in Requests |-> NoTxn]
  /\ raced = {}

Live(r) == status[r] \in LiveStatus

\* Broken variant: SELECT without FOR UPDATE.
UnlockedRead(r) == Live(r)

Unlocked(r) == txn[r] = NoTxn

\* _require_unblocked_pair: either direction counts.
Blocked(a, b) == <<a, b>> \in blocks \/ <<b, a>> \in blocks

\* Broken variant: the roles are swapped.
MentorOfSwapped(r, u) == IF role[r] = "mentee" THEN author[r] ELSE u

\* record_match_event: the author of a mentor's offer, else who was accepted.
MentorOf(r, u) == IF role[r] = "mentor" THEN author[r] ELSE u

-----------------------------------------------------------------------------
(* POST, PATCH and DELETE /requests: one statement decides, so one step.     *)

\* The insert of create_request; Publication models the rest of the handler.
Publish(r, u, kind) ==
  /\ status[r] = "unpublished"
  /\ status' = [status EXCEPT ![r] = "open"]
  /\ role' = [role EXCEPT ![r] = kind]
  /\ author' = [author EXCEPT ![r] = u]
  /\ UNCHANGED <<matchedUser, app, blocks, matchLog, txn, raced>>

\* Broken variant: reopening forgets the accepted application.
CancelledWaiting(s, which) == IF s = "pending" THEN "cancelled" ELSE s

\* UPDATE request_applications SET status='cancelled' WHERE status is in which.
Cancelled(s, which) == IF s \in which THEN "cancelled" ELSE s

\* PATCH status=open by the author: a reopened request forgets its partner, and
\* both waiting and accepted applications are cancelled.
SetOpen(r) ==
  /\ Live(r) /\ Unlocked(r)
  /\ status' = [status EXCEPT ![r] = "open"]
  /\ matchedUser' = [matchedUser EXCEPT ![r] = NoUser]
  /\ app' = IF status[r] = "open" THEN app
            ELSE [app EXCEPT ![r] =
                   [u \in Users |-> Cancelled(app[r][u], {"pending", "accepted"})]]
  /\ UNCHANGED <<role, author, blocks, matchLog, txn, raced>>

\* PATCH status=closed by the author: only waiting applications are cancelled.
SetClosed(r) ==
  /\ Live(r) /\ Unlocked(r)
  /\ status' = [status EXCEPT ![r] = "closed"]
  /\ app' = IF status[r] = "closed" THEN app
            ELSE [app EXCEPT ![r] =
                   [u \in Users |-> Cancelled(app[r][u], {"pending"})]]
  /\ UNCHANGED <<role, author, matchedUser, blocks, matchLog, txn, raced>>

\* DELETE by the author or an administrator waits for the row lock; applications
\* go with the row (ON DELETE CASCADE), match events stay (ON DELETE SET NULL).
Delete(r, u) ==
  /\ Live(r) /\ Unlocked(r)
  /\ u = author[r] \/ u \in Admins
  /\ status' = [status EXCEPT ![r] = "deleted"]
  /\ author' = [author EXCEPT ![r] = NoUser]
  /\ matchedUser' = [matchedUser EXCEPT ![r] = NoUser]
  /\ app' = [app EXCEPT ![r] = [u2 \in Users |-> "none"]]
  /\ UNCHANGED <<role, blocks, matchLog, txn, raced>>

-----------------------------------------------------------------------------
(* POST .../applications and PATCH .../applications/{id}.                    *)

\* Broken variant: the block lookup is missing.
BeginUnchecked(r, t) ==
  /\ Live(r) /\ Unlocked(r)
  /\ status[r] = "open"
  /\ txn' = [txn EXCEPT ![r] = t]
  /\ UNCHANGED <<rows, blocks, raced>>

\* The lock, the block lookup and the test for an open request.
Begin(r, t) ==
  /\ Live(r) /\ Unlocked(r)
  /\ ~Blocked(author[r], t.applicant)
  /\ status[r] = "open"
  /\ txn' = [txn EXCEPT ![r] = t]
  /\ UNCHANGED <<rows, blocks, raced>>

\* Broken variant: a declined application can be sent again.
BeginApplyAgain(r, u) ==
  /\ u # author[r]
  /\ app[r][u] # "pending"
  /\ Begin(r, [op |-> "apply", actor |-> u, applicant |-> u])

\* apply_to_request; a declined application answers 409, a waiting one is kept.
BeginApply(r, u) ==
  /\ u # author[r]
  /\ app[r][u] \notin {"rejected", "pending"}
  /\ Begin(r, [op |-> "apply", actor |-> u, applicant |-> u])

\* Broken variant: an application in any state is acted on.
BeginActStale(r, o, actor, u) ==
  /\ o \in {"accept", "reject", "cancel"}
  /\ actor = (IF o = "cancel" THEN u ELSE author[r])
  /\ app[r][u] # "none"
  /\ o = "accept" => Len(matchLog[r]) < MaxMatches
  /\ Begin(r, [op |-> o, actor |-> actor, applicant |-> u])

\* act_on_application: the applicant cancels, the author accepts or rejects.
BeginAct(r, o, actor, u) ==
  /\ o \in {"accept", "reject", "cancel"}
  /\ actor = (IF o = "cancel" THEN u ELSE author[r])
  /\ app[r][u] = "pending"
  /\ o = "accept" => Len(matchLog[r]) < MaxMatches
  /\ Begin(r, [op |-> o, actor |-> actor, applicant |-> u])

Release(r) ==
  /\ txn' = [txn EXCEPT ![r] = NoTxn]
  /\ raced' = raced \ {r}

CommitAs(r, o, newStatus) ==
  /\ txn[r] # NoTxn /\ txn[r].op = o
  /\ app' = [app EXCEPT ![r][txn[r].applicant] = newStatus]
  /\ Release(r)
  /\ UNCHANGED <<status, role, author, matchedUser, blocks, matchLog>>

CommitApply(r)  == CommitAs(r, "apply", "pending")
CommitReject(r) == CommitAs(r, "reject", "rejected")
CommitCancel(r) == CommitAs(r, "cancel", "cancelled")

\* The request, its match event and every rival application in one commit.
CommitAccept(r) ==
  /\ txn[r] # NoTxn /\ txn[r].op = "accept"
  /\ LET u == txn[r].applicant IN
       /\ status' = [status EXCEPT ![r] = "matched"]
       /\ matchedUser' = [matchedUser EXCEPT ![r] = u]
       /\ matchLog' = [matchLog EXCEPT ![r] = Append(@, MentorOf(r, u))]
       /\ app' = [app EXCEPT ![r] =
                   [v \in Users |-> IF v = u THEN "accepted"
                                    ELSE IF app[r][v] = "pending" THEN "rejected"
                                    ELSE app[r][v]]]
  /\ Release(r)
  /\ UNCHANGED <<role, author, blocks>>

\* db() rolls back on an exception; PostgreSQL does when the process dies.
Rollback(r) ==
  /\ txn[r] # NoTxn
  /\ Release(r)
  /\ UNCHANGED <<rows, blocks>>

-----------------------------------------------------------------------------
(* POST /blocks and DELETE /blocks/{id}: no request lock is taken.           *)

About(r, a, b) ==
  /\ txn[r] # NoTxn
  /\ {author[r], txn[r].applicant} = {a, b}

Block(a, b) ==
  /\ a # b
  /\ <<a, b>> \notin blocks
  /\ blocks' = blocks \cup {<<a, b>>}
  /\ raced' = raced \cup {r \in Requests : About(r, a, b)}
  /\ UNCHANGED <<rows, txn>>

Unblock(a, b) ==
  /\ <<a, b>> \in blocks
  /\ blocks' = blocks \ {<<a, b>>}
  /\ UNCHANGED <<rows, txn, raced>>

-----------------------------------------------------------------------------

Next ==
  \/ \E r \in Requests, u \in Users, kind \in Role : Publish(r, u, kind)
  \/ \E r \in Requests : SetOpen(r) \/ SetClosed(r)
  \/ \E r \in Requests, u \in Users \cup Admins : Delete(r, u)
  \/ \E r \in Requests, u \in Users : BeginApply(r, u)
  \/ \E r \in Requests, o \in Op, actor, u \in Users : BeginAct(r, o, actor, u)
  \/ \E r \in Requests : CommitApply(r) \/ CommitReject(r) \/ CommitCancel(r)
  \/ \E r \in Requests : CommitAccept(r) \/ Rollback(r)
  \/ \E a, b \in Users : Block(a, b) \/ Unblock(a, b)

Spec == Init /\ [][Next]_vars

-----------------------------------------------------------------------------
(* The promise of Consent, seen through the tables.                          *)

WithStatus(r, s) == {u \in Users : app[r][u] = s}

Promise == INSTANCE Consent WITH
  open    <- {r \in Requests : status[r] = "open"},
  partner <- matchedUser,
  offers  <- [r \in Requests |-> WithStatus(r, "pending")],
  refused <- [r \in Requests |-> WithStatus(r, "rejected")]

\* Rows, locks and transactions implement the promise: whatever commits is one
\* step of Consent or invisible to it.
ImplementsConsent == Promise!Spec

-----------------------------------------------------------------------------
(* Properties.                                                               *)

\* A request and its applications tell the same story: an application is
\* accepted exactly when its applicant is the partner the request row names,
\* and a matched request always names one.  The two tables are written by
\* separate statements of accept, reopen, close and delete.
AcceptedIsPartner ==
  \A r \in Requests :
    /\ \A u \in Users : app[r][u] = "accepted" <=> matchedUser[r] = u
    /\ status[r] = "matched" => matchedUser[r] # NoUser
    /\ status[r] = "open" => matchedUser[r] = NoUser

\* Nobody waits on a request that can no longer answer: accept, close and
\* delete each have to dispose of every waiting application.
PendingOnlyWhileOpen ==
  \A r \in Requests, u \in Users : app[r][u] = "pending" => status[r] = "open"

\* The analytics feed agrees with the tables: the last match event of a request
\* with a partner names the mentor of that very pairing.
LastEventNamesMentor ==
  \A r \in Requests : matchedUser[r] # NoUser =>
    /\ matchLog[r] # <<>>
    /\ role[r] = "mentor" => matchLog[r][Len(matchLog[r])] = author[r]
    /\ role[r] = "mentee" => matchLog[r][Len(matchLog[r])] = matchedUser[r]

\* A request becomes matched only while it is open, with somebody who was
\* waiting on it at that moment, by a transaction its author started.  The old
\* /match route and a PATCH of the status cannot bypass that consent.
MatchNeedsConsent ==
  [][\A r \in Requests : matchedUser'[r] \notin {NoUser, matchedUser[r]} =>
       /\ status[r] = "open"
       /\ app[r][matchedUser'[r]] = "pending"
       /\ txn[r] # NoTxn /\ txn[r].actor = author[r]]_vars

\* A refusal is final for that request, whether the author declined or another
\* applicant was accepted, and also after the request was reopened.
RefusalIsFinal ==
  [][\A r \in Requests, u \in Users : app[r][u] = "rejected" =>
       app'[r][u] = "rejected" \/ status'[r] = "deleted"]_vars

\* While a pair is blocked no application between them starts to wait or is
\* accepted, except by a transaction that had passed its check before the block
\* was committed.
BlockStopsConsent ==
  [][\A r \in Requests, u \in Users :
       /\ app'[r][u] # app[r][u]
       /\ app'[r][u] \in {"pending", "accepted"}
       /\ Blocked(author[r], u)
       => r \in raced]_vars

\* What docs/superpowers/plans/2026-10-10-backend-completion-results.md:160
\* asks for: a block prevents a direct mentorship connection.
BlockPreventsConnection ==
  [][\A r \in Requests, u \in Users :
       Blocked(author[r], u) /\ app[r][u] # "accepted" =>
         app'[r][u] # "accepted"]_vars

=============================================================================
