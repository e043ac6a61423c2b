---------------------------- MODULE MentorshipProofs ----------------------------
(*****************************************************************************)
(* Proofs about Mentorship, for any users, requests and bound.  The safety   *)
(* invariants are not inductive: they need to know that a transaction still  *)
(* sees, when it commits, what it read when it took the row lock.            *)
(*****************************************************************************)
EXTENDS Mentorship, TLAPS

\* An open transaction still sees what it checked: the row lock keeps every
\* other writer away, so the request is open and the application is as read.
InFlight(r) ==
  txn[r] # NoTxn =>
    /\ status[r] = "open"
    /\ IF txn[r].op = "apply"
         THEN app[r][txn[r].applicant] \in {"none", "cancelled"}
         ELSE app[r][txn[r].applicant] = "pending"
    /\ txn[r].op = "accept" => txn[r].actor = author[r]

\* Only an existing request has an author, a partner or applications.
RowIntegrity(r) ==
  /\ Live(r) => author[r] \in Users
  /\ ~Live(r) => /\ matchedUser[r] = NoUser
                 /\ \A u \in Users : app[r][u] = "none"

\* The parts of AcceptedIsPartner and PendingOnlyWhileOpen about one request.
Agreement(r) ==
  /\ \A u \in Users : app[r][u] = "accepted" <=> matchedUser[r] = u
  /\ status[r] = "matched" => matchedUser[r] # NoUser
  /\ status[r] = "open" => matchedUser[r] = NoUser
  /\ \A u \in Users : app[r][u] = "pending" => status[r] = "open"

Consistent(r) == InFlight(r) /\ RowIntegrity(r) /\ Agreement(r)

\* The inductive invariant.
IInv == TypeOK /\ \A r \in Requests : Consistent(r)

-----------------------------------------------------------------------------

\* A request that a step leaves alone stays consistent.
LEMMA Frame ==
  ASSUME NEW r \in Requests, Consistent(r),
         status'[r] = status[r], author'[r] = author[r],
         matchedUser'[r] = matchedUser[r], app'[r] = app[r], txn'[r] = txn[r]
  PROVE  Consistent(r)'
BY DEF Consistent, InFlight, RowIntegrity, Agreement, Live

LEMMA InitInv == Init => IInv
<1> SUFFICES ASSUME Init PROVE IInv
  OBVIOUS
<1>1. TypeOK
  BY DEF Init, TypeOK, Status, Role, AppStatus
<1>2. ASSUME NEW r \in Requests PROVE Consistent(r)
  BY UsersAssumption DEF Init, Consistent, InFlight, RowIntegrity, Agreement, Live, LiveStatus
<1> QED
  BY <1>1, <1>2 DEF IInv

LEMMA PublishInv ==
  ASSUME IInv, NEW r \in Requests, NEW u \in Users, NEW kind \in Role,
         Publish(r, u, kind)
  PROVE  IInv'
<1> USE DEF IInv
<1>1. TypeOK'
  BY DEF Publish, TypeOK, Status, LiveStatus
<1>2. ASSUME NEW q \in Requests PROVE Consistent(q)'
  <2>1. CASE q # r
    BY <2>1, Frame DEF Publish, TypeOK
  <2>2. CASE q = r
    BY <2>2, UsersAssumption
    DEF Publish, TypeOK, Consistent, InFlight, RowIntegrity, Agreement, Live, LiveStatus, NoTxn
  <2> QED BY <2>1, <2>2
<1> QED BY <1>1, <1>2

LEMMA SetOpenInv ==
  ASSUME IInv, NEW r \in Requests, SetOpen(r)
  PROVE  IInv'
<1> USE DEF IInv
<1>1. TypeOK'
  BY DEF SetOpen, TypeOK, Status, LiveStatus, AppStatus, Cancelled
<1>2. ASSUME NEW q \in Requests PROVE Consistent(q)'
  <2>1. CASE q # r
    BY <2>1, Frame DEF SetOpen, TypeOK
  <2>2. CASE q = r /\ status[r] = "open"
    BY <2>2, UsersAssumption
    DEF SetOpen, TypeOK, Consistent, InFlight, RowIntegrity, Agreement, Live, LiveStatus, Unlocked
  <2>3. CASE q = r /\ status[r] # "open"
    BY <2>3, UsersAssumption
    DEF SetOpen, TypeOK, Consistent, InFlight, RowIntegrity, Agreement, Live, LiveStatus,
        Unlocked, Cancelled, AppStatus
  <2> QED BY <2>1, <2>2, <2>3
<1> QED BY <1>1, <1>2

LEMMA SetClosedInv ==
  ASSUME IInv, NEW r \in Requests, SetClosed(r)
  PROVE  IInv'
<1> USE DEF IInv
<1>1. TypeOK'
  BY DEF SetClosed, TypeOK, Status, LiveStatus, AppStatus, Cancelled
<1>2. ASSUME NEW q \in Requests PROVE Consistent(q)'
  <2>1. CASE q # r
    BY <2>1, Frame DEF SetClosed, TypeOK
  <2>2. CASE q = r
    BY <2>2, UsersAssumption
    DEF SetClosed, TypeOK, Consistent, InFlight, RowIntegrity, Agreement, Live, LiveStatus,
        Unlocked, Cancelled, AppStatus
  <2> QED BY <2>1, <2>2
<1> QED BY <1>1, <1>2

LEMMA DeleteInv ==
  ASSUME IInv, NEW r \in Requests, NEW u \in Users \cup Admins, Delete(r, u)
  PROVE  IInv'
<1> USE DEF IInv
<1>1. TypeOK'
  BY DEF Delete, TypeOK, Status, AppStatus
<1>2. ASSUME NEW q \in Requests PROVE Consistent(q)'
  <2>1. CASE q # r
    BY <2>1, Frame DEF Delete, TypeOK
  <2>2. CASE q = r
    BY <2>2, UsersAssumption
    DEF Delete, TypeOK, Consistent, InFlight, RowIntegrity, Agreement, Live, LiveStatus, Unlocked
  <2> QED BY <2>1, <2>2
<1> QED BY <1>1, <1>2

LEMMA BeginApplyInv ==
  ASSUME IInv, NEW r \in Requests, NEW u \in Users, BeginApply(r, u)
  PROVE  IInv'
<1> USE DEF IInv
<1>1. TypeOK'
  BY DEF BeginApply, Begin, rows, TypeOK, Txn, Op
<1>2. ASSUME NEW q \in Requests PROVE Consistent(q)'
  <2>1. CASE q # r
    BY <2>1, Frame DEF BeginApply, Begin, rows, TypeOK
  <2>2. CASE q = r
    <3>1. app[r][u] \in {"none", "cancelled"}
      BY UsersAssumption
      DEF BeginApply, Begin, TypeOK, AppStatus, Consistent, Agreement
    <3> QED
      BY <2>2, <3>1
      DEF BeginApply, Begin, rows, TypeOK, Consistent, InFlight, RowIntegrity, Agreement, Live
  <2> QED BY <2>1, <2>2
<1> QED BY <1>1, <1>2

LEMMA BeginActInv ==
  ASSUME IInv, NEW r \in Requests, NEW o \in Op, NEW actor \in Users, NEW u \in Users,
         BeginAct(r, o, actor, u)
  PROVE  IInv'
<1> USE DEF IInv
<1>1. TypeOK'
  BY DEF BeginAct, Begin, rows, TypeOK, Txn, Op
<1>2. ASSUME NEW q \in Requests PROVE Consistent(q)'
  <2>1. CASE q # r
    BY <2>1, Frame DEF BeginAct, Begin, rows, TypeOK
  <2>2. CASE q = r
    BY <2>2
    DEF BeginAct, Begin, rows, TypeOK, Consistent, InFlight, RowIntegrity, Agreement, Live
  <2> QED BY <2>1, <2>2
<1> QED BY <1>1, <1>2

LEMMA CommitAsInv ==
  ASSUME IInv, NEW r \in Requests, NEW o \in Op \ {"accept"},
         NEW s \in AppStatus \ {"accepted"}, o = "apply" <=> s = "pending",
         CommitAs(r, o, s)
  PROVE  IInv'
<1> USE DEF IInv
<1>1. txn[r] \in Txn /\ status[r] = "open" /\ txn[r].applicant \in Users
  BY DEF CommitAs, TypeOK, Consistent, InFlight, Txn
<1>2. TypeOK'
  BY <1>1 DEF CommitAs, Release, TypeOK
<1>3. ASSUME NEW q \in Requests PROVE Consistent(q)'
  <2>1. CASE q # r
    BY <2>1, Frame DEF CommitAs, Release, TypeOK
  <2>2. CASE q = r
    BY <2>2, <1>1, UsersAssumption
    DEF CommitAs, Release, TypeOK, Consistent, InFlight, RowIntegrity, Agreement, Live,
        LiveStatus
  <2> QED BY <2>1, <2>2
<1> QED BY <1>2, <1>3

LEMMA CommitAcceptInv ==
  ASSUME IInv, NEW r \in Requests, CommitAccept(r)
  PROVE  IInv'
<1> USE DEF IInv
<1>1. txn[r] \in Txn /\ status[r] = "open" /\ txn[r].applicant \in Users
  BY DEF CommitAccept, TypeOK, Consistent, InFlight, Txn
<1>2. MentorOf(r, txn[r].applicant) \in Users
  BY <1>1 DEF MentorOf, Consistent, RowIntegrity, Live, LiveStatus
<1>3. TypeOK'
  BY <1>1, <1>2 DEF CommitAccept, Release, TypeOK, Status, LiveStatus, AppStatus
<1>4. ASSUME NEW q \in Requests PROVE Consistent(q)'
  <2>1. CASE q # r
    BY <2>1, Frame DEF CommitAccept, Release, TypeOK
  <2>2. CASE q = r
    BY <2>2, <1>1, UsersAssumption
    DEF CommitAccept, Release, TypeOK, Consistent, InFlight, RowIntegrity, Agreement, Live,
        LiveStatus
  <2> QED BY <2>1, <2>2
<1> QED BY <1>3, <1>4

LEMMA RollbackInv ==
  ASSUME IInv, NEW r \in Requests, Rollback(r)
  PROVE  IInv'
<1> USE DEF IInv
<1>1. TypeOK'
  BY DEF Rollback, Release, rows, TypeOK
<1>2. ASSUME NEW q \in Requests PROVE Consistent(q)'
  <2>1. CASE q # r
    BY <2>1, Frame DEF Rollback, Release, rows, TypeOK
  <2>2. CASE q = r
    BY <2>2
    DEF Rollback, Release, rows, TypeOK, Consistent, InFlight, RowIntegrity, Agreement, Live
  <2> QED BY <2>1, <2>2
<1> QED BY <1>1, <1>2

\* Blocks move independently of every request.
LEMMA BlockInv ==
  ASSUME IInv, NEW a \in Users, NEW b \in Users, Block(a, b) \/ Unblock(a, b)
  PROVE  IInv'
<1> USE DEF IInv
<1>1. TypeOK'
  BY DEF Block, Unblock, rows, TypeOK
<1>2. ASSUME NEW q \in Requests PROVE Consistent(q)'
  BY Frame DEF Block, Unblock, rows, TypeOK
<1> QED BY <1>1, <1>2

LEMMA NextInv == IInv /\ [Next]_vars => IInv'
<1> SUFFICES ASSUME IInv, [Next]_vars PROVE IInv'
  OBVIOUS
<1>1. CASE UNCHANGED vars
  <2>1. TypeOK'
    BY <1>1 DEF vars, IInv, TypeOK
  <2>2. ASSUME NEW q \in Requests PROVE Consistent(q)'
    BY <1>1, Frame DEF vars, IInv
  <2> QED BY <2>1, <2>2 DEF IInv
<1>2. CASE \E r \in Requests, u \in Users, kind \in Role : Publish(r, u, kind)
  BY <1>2, PublishInv
<1>3. CASE \E r \in Requests : SetOpen(r) \/ SetClosed(r)
  BY <1>3, SetOpenInv, SetClosedInv
<1>4. CASE \E r \in Requests, u \in Users \cup Admins : Delete(r, u)
  BY <1>4, DeleteInv
<1>5. CASE \E r \in Requests, u \in Users : BeginApply(r, u)
  BY <1>5, BeginApplyInv
<1>6. CASE \E r \in Requests, o \in Op, actor, u \in Users : BeginAct(r, o, actor, u)
  BY <1>6, BeginActInv
<1>7. CASE \E r \in Requests : CommitApply(r) \/ CommitReject(r) \/ CommitCancel(r)
  BY <1>7, CommitAsInv DEF CommitApply, CommitReject, CommitCancel, Op, AppStatus
<1>8. CASE \E r \in Requests : CommitAccept(r) \/ Rollback(r)
  BY <1>8, CommitAcceptInv, RollbackInv
<1>9. CASE \E a, b \in Users : Block(a, b) \/ Unblock(a, b)
  BY <1>9, BlockInv
<1> QED
  BY <1>1, <1>2, <1>3, <1>4, <1>5, <1>6, <1>7, <1>8, <1>9 DEF Next

\* The inductive invariant holds in every reachable state.
THEOREM Invariance == Spec => []IInv
BY InitInv, NextInv, PTL DEF Spec

\* Every table and transaction of the matching handlers stays well typed.
THEOREM TypeCorrect == Spec => []TypeOK
<1>1. IInv => TypeOK
  BY DEF IInv
<1> QED BY <1>1, Invariance, PTL

\* The request row and its applications never disagree about the partner.
THEOREM PartnerAgreement == Spec => []AcceptedIsPartner
<1>1. IInv => AcceptedIsPartner
  BY DEF IInv, Consistent, Agreement, AcceptedIsPartner
<1> QED BY <1>1, Invariance, PTL

\* No application waits on a request that is matched, closed or gone.
THEOREM NoStrandedApplication == Spec => []PendingOnlyWhileOpen
<1>1. IInv => PendingOnlyWhileOpen
  BY DEF IInv, Consistent, Agreement, PendingOnlyWhileOpen
<1> QED BY <1>1, Invariance, PTL


-----------------------------------------------------------------------------
(* The match log and the block race, each on top of IInv.                    *)

EventAgreement(r) ==
  matchedUser[r] # NoUser =>
    /\ matchLog[r] # <<>>
    /\ role[r] = "mentor" => matchLog[r][Len(matchLog[r])] = author[r]
    /\ role[r] = "mentee" => matchLog[r][Len(matchLog[r])] = matchedUser[r]

\* A transaction about a blocked pair was overtaken by that block.
RaceKnown(r) ==
  txn[r] # NoTxn /\ Blocked(author[r], txn[r].applicant) => r \in raced

LEMMA EventNext ==
  ASSUME IInv, NEW r \in Requests, EventAgreement(r), [Next]_vars
  PROVE  EventAgreement(r)'
<1> USE DEF IInv, EventAgreement
<1>1. ASSUME NEW q \in Requests, CommitAccept(q) PROVE EventAgreement(r)'
  <2>1. txn[q] \in Txn /\ status[q] = "open"
    BY <1>1 DEF CommitAccept, TypeOK, Consistent, InFlight
  <2>2. MentorOf(q, txn[q].applicant) \in Users
    BY <2>1 DEF MentorOf, Consistent, RowIntegrity, Live, LiveStatus, Txn
  <2>3. CASE q # r
    BY <1>1, <2>3 DEF CommitAccept, TypeOK
  <2>4. CASE q = r
    <3> DEFINE m == MentorOf(r, txn[r].applicant)
    <3>1. /\ matchLog'[r] = Append(matchLog[r], m) /\ matchedUser'[r] = txn[r].applicant
          /\ role' = role /\ author' = author
      BY <1>1, <2>4 DEF CommitAccept, TypeOK
    <3>2. m \in Users /\ matchLog[r] \in Seq(Users)
      BY <2>2, <2>4 DEF TypeOK
    <3>3. ASSUME NEW log \in Seq(Users), NEW x \in Users
          PROVE Append(log, x) # <<>> /\ Append(log, x)[Len(Append(log, x))] = x
      OBVIOUS
    <3>4. matchLog'[r] # <<>> /\ matchLog'[r][Len(matchLog'[r])] = m
      <4> HIDE DEF m
      <4> QED BY <3>1, <3>2, <3>3
    <3> QED BY <3>1, <3>4 DEF MentorOf
  <2> QED BY <2>3, <2>4
<1>2. CASE UNCHANGED vars
  BY <1>2 DEF vars
<1>3. ASSUME NEW q \in Requests, NEW u \in Users, NEW kind \in Role, Publish(q, u, kind)
      PROVE EventAgreement(r)'
  BY <1>3 DEF Publish, TypeOK, Consistent, RowIntegrity, Live, LiveStatus
<1>4. ASSUME NEW q \in Requests, SetOpen(q) \/ SetClosed(q) PROVE EventAgreement(r)'
  BY <1>4 DEF SetOpen, SetClosed, TypeOK
<1>5. ASSUME NEW q \in Requests, NEW u \in Users \cup Admins, Delete(q, u)
      PROVE EventAgreement(r)'
  BY <1>5 DEF Delete, TypeOK
<1>6. ASSUME NEW q \in Requests, NEW t, Begin(q, t) PROVE EventAgreement(r)'
  BY <1>6 DEF Begin, rows
<1>7. ASSUME NEW q \in Requests, NEW o, NEW s, CommitAs(q, o, s) \/ Rollback(q)
      PROVE EventAgreement(r)'
  BY <1>7 DEF CommitAs, Rollback, rows
<1>8. ASSUME NEW a \in Users, NEW b \in Users, Block(a, b) \/ Unblock(a, b)
      PROVE EventAgreement(r)'
  BY <1>8 DEF Block, Unblock, rows
<1> QED
  BY <1>1, <1>2, <1>3, <1>4, <1>5, <1>6, <1>7, <1>8
  DEF Next, BeginApply, BeginAct, CommitApply, CommitReject, CommitCancel

LEMMA RaceNext ==
  ASSUME IInv, NEW r \in Requests, RaceKnown(r), [Next]_vars
  PROVE  RaceKnown(r)'
<1> USE DEF IInv, RaceKnown
<1>1. ASSUME NEW q \in Requests, NEW t, Begin(q, t) PROVE RaceKnown(r)'
  BY <1>1 DEF Begin, rows, Blocked, TypeOK
<1>2. ASSUME NEW a \in Users, NEW b \in Users, Block(a, b) PROVE RaceKnown(r)'
  BY <1>2 DEF Block, rows, Blocked, About
<1>3. ASSUME NEW a \in Users, NEW b \in Users, Unblock(a, b) PROVE RaceKnown(r)'
  BY <1>3 DEF Unblock, rows, Blocked
<1>4. ASSUME NEW q \in Requests, NEW u \in Users, NEW kind \in Role, Publish(q, u, kind)
      PROVE RaceKnown(r)'
  <2>1. txn[q] = NoTxn
    BY <1>4 DEF Publish, Consistent, InFlight
  <2> QED BY <1>4, <2>1 DEF Publish, TypeOK, Blocked
<1>5. ASSUME NEW q \in Requests, SetOpen(q) \/ SetClosed(q) PROVE RaceKnown(r)'
  BY <1>5 DEF SetOpen, SetClosed, Blocked
<1>6. ASSUME NEW q \in Requests, NEW u \in Users \cup Admins, Delete(q, u)
      PROVE RaceKnown(r)'
  BY <1>6 DEF Delete, Unlocked, Blocked, TypeOK
<1>7. ASSUME NEW q \in Requests, NEW o, NEW s,
             CommitAs(q, o, s) \/ CommitAccept(q) \/ Rollback(q)
      PROVE RaceKnown(r)'
  <2>1. Release(q) /\ UNCHANGED <<author, blocks>>
    BY <1>7 DEF CommitAs, CommitAccept, Rollback, rows
  <2> QED BY <2>1 DEF Release, Blocked, TypeOK
<1>8. CASE UNCHANGED vars
  BY <1>8 DEF vars, Blocked
<1> QED
  BY <1>1, <1>2, <1>3, <1>4, <1>5, <1>6, <1>7, <1>8
  DEF Next, BeginApply, BeginAct, CommitApply, CommitReject, CommitCancel

\* The last match event of a request with a partner names that pair's mentor.
THEOREM EventsNameMentor == Spec => []LastEventNamesMentor
<1> DEFINE E == \A r \in Requests : EventAgreement(r)
<1>1. Init => E
  BY DEF Init, EventAgreement
<1>2. IInv /\ E /\ [Next]_vars => E'
  BY EventNext
<1>3. E => LastEventNamesMentor
  BY DEF EventAgreement, LastEventNamesMentor
<1> QED BY <1>1, <1>2, <1>3, Invariance, PTL DEF Spec

-----------------------------------------------------------------------------
(* What a step may never do.                                                 *)

LEMMA RaceInvariance == Spec => [](\A r \in Requests : RaceKnown(r))
<1> DEFINE R == \A r \in Requests : RaceKnown(r)
<1>1. Init => R
  BY DEF Init, RaceKnown
<1>2. IInv /\ R /\ [Next]_vars => R'
  BY RaceNext
<1> QED BY <1>1, <1>2, Invariance, PTL DEF Spec

LEMMA ConsentStep ==
  ASSUME IInv, Next, NEW r \in Requests, matchedUser'[r] \notin {NoUser, matchedUser[r]}
  PROVE  /\ status[r] = "open"
         /\ app[r][matchedUser'[r]] = "pending"
         /\ txn[r] # NoTxn /\ txn[r].actor = author[r]
<1> USE DEF IInv
<1>1. PICK q \in Requests : CommitAccept(q)
  BY DEF Next, Publish, SetOpen, SetClosed, Delete, BeginApply, BeginAct, Begin, rows,
         CommitApply, CommitReject, CommitCancel, CommitAs, Rollback, Block, Unblock, TypeOK
<1>2. q = r
  BY <1>1 DEF CommitAccept, TypeOK
<1>3. matchedUser'[r] = txn[r].applicant
  BY <1>1, <1>2 DEF CommitAccept, TypeOK
<1> QED
  BY <1>1, <1>2, <1>3 DEF CommitAccept, Consistent, InFlight

\* Nobody becomes a partner without waiting on an open request whose author
\* started the accepting transaction.
THEOREM ConsentRequired == Spec => MatchNeedsConsent
<1>1. IInv /\ [Next]_vars =>
        [\A r \in Requests : matchedUser'[r] \notin {NoUser, matchedUser[r]} =>
           /\ status[r] = "open"
           /\ app[r][matchedUser'[r]] = "pending"
           /\ txn[r] # NoTxn /\ txn[r].actor = author[r]]_vars
  BY ConsentStep
<1> QED BY <1>1, Invariance, PTL DEF Spec, MatchNeedsConsent

\* A PATCH of the status never does more to an application than cancel it.
LEMMA PatchOnlyCancels ==
  ASSUME TypeOK, NEW q \in Requests, SetOpen(q) \/ SetClosed(q),
         NEW r \in Requests, NEW u \in Users
  PROVE  \/ app'[r][u] = app[r][u]
         \/ app'[r][u] = "cancelled" /\ app[r][u] \in {"pending", "accepted"}
<1>1. CASE SetOpen(q)
  BY <1>1 DEF SetOpen, Cancelled, TypeOK
<1>2. CASE SetClosed(q)
  BY <1>2 DEF SetClosed, Cancelled, TypeOK
<1> QED BY <1>1, <1>2

LEMMA RefusalStep ==
  ASSUME IInv, Next, NEW r \in Requests, NEW u \in Users, app[r][u] = "rejected"
  PROVE  app'[r][u] = "rejected" \/ status'[r] = "deleted"
<1> USE DEF IInv
<1>1. ASSUME NEW q \in Requests, NEW o, NEW s, CommitAs(q, o, s)
      PROVE app'[r][u] = "rejected"
  <2>1. txn[q] \in Txn
    BY <1>1 DEF CommitAs, TypeOK
  <2>2. q # r \/ txn[q].applicant # u
    BY <1>1 DEF CommitAs, Consistent, InFlight
  <2> QED BY <1>1, <2>1, <2>2 DEF CommitAs, TypeOK, Txn
<1>2. ASSUME NEW q \in Requests, CommitAccept(q) PROVE app'[r][u] = "rejected"
  <2>1. txn[q] \in Txn
    BY <1>2 DEF CommitAccept, TypeOK
  <2>2. q # r \/ txn[q].applicant # u
    BY <1>2 DEF CommitAccept, Consistent, InFlight
  <2> QED BY <1>2, <2>1, <2>2 DEF CommitAccept, TypeOK, Txn
<1>3. ASSUME NEW q \in Requests, SetOpen(q) \/ SetClosed(q) PROVE app'[r][u] = "rejected"
  BY <1>3, PatchOnlyCancels
<1>4. ASSUME NEW q \in Requests, NEW v \in Users \cup Admins, Delete(q, v)
      PROVE app'[r][u] = "rejected" \/ status'[r] = "deleted"
  BY <1>4 DEF Delete, TypeOK
<1>5. ASSUME NEW q \in Requests, NEW t, Begin(q, t) \/ Rollback(q)
      PROVE app'[r][u] = "rejected"
  BY <1>5 DEF Begin, Rollback, rows
<1>6. ASSUME NEW q \in Requests, NEW v \in Users, NEW kind \in Role, Publish(q, v, kind)
      PROVE app'[r][u] = "rejected"
  BY <1>6 DEF Publish
<1>7. ASSUME NEW a \in Users, NEW b \in Users, Block(a, b) \/ Unblock(a, b)
      PROVE app'[r][u] = "rejected"
  BY <1>7 DEF Block, Unblock, rows
<1> QED
  BY <1>1, <1>2, <1>3, <1>4, <1>5, <1>6, <1>7
  DEF Next, BeginApply, BeginAct, CommitApply, CommitReject, CommitCancel

\* Once refused, refused until the request itself is deleted.
THEOREM RefusalStands == Spec => RefusalIsFinal
<1>1. IInv /\ [Next]_vars =>
        [\A r \in Requests, u \in Users : app[r][u] = "rejected" =>
           app'[r][u] = "rejected" \/ status'[r] = "deleted"]_vars
  BY RefusalStep
<1> QED BY <1>1, Invariance, PTL DEF Spec, RefusalIsFinal

LEMMA BlockStep ==
  ASSUME IInv, \A q \in Requests : RaceKnown(q), Next,
         NEW r \in Requests, NEW u \in Users,
         app'[r][u] # app[r][u], app'[r][u] \in {"pending", "accepted"},
         Blocked(author[r], u)
  PROVE  r \in raced
<1> USE DEF IInv
<1>1. ASSUME NEW q \in Requests, NEW o \in {"apply", "reject", "cancel"},
             NEW s, CommitAs(q, o, s)
      PROVE r \in raced
  <2>1. q = r /\ txn[r] \in Txn /\ txn[r].applicant = u
    BY <1>1 DEF CommitAs, TypeOK, Txn
  <2> QED BY <1>1, <2>1 DEF CommitAs, RaceKnown
<1>2. ASSUME NEW q \in Requests, CommitAccept(q) PROVE r \in raced
  <2>1. q = r /\ txn[r] \in Txn
    BY <1>2 DEF CommitAccept, TypeOK
  <2>2. txn[r].applicant = u
    BY <1>2, <2>1 DEF CommitAccept, TypeOK, Txn
  <2> QED BY <1>2, <2>1, <2>2 DEF CommitAccept, RaceKnown
<1>3. ASSUME NEW q \in Requests, SetOpen(q) \/ SetClosed(q) PROVE FALSE
  BY <1>3, PatchOnlyCancels
<1>4. ASSUME NEW q \in Requests, NEW v \in Users \cup Admins, Delete(q, v) PROVE FALSE
  BY <1>4 DEF Delete, TypeOK
<1>5. ASSUME NEW q \in Requests, NEW t, Begin(q, t) \/ Rollback(q) PROVE FALSE
  BY <1>5 DEF Begin, Rollback, rows
<1>6. ASSUME NEW q \in Requests, NEW v \in Users, NEW kind \in Role, Publish(q, v, kind)
      PROVE FALSE
  BY <1>6 DEF Publish
<1>7. ASSUME NEW a \in Users, NEW b \in Users, Block(a, b) \/ Unblock(a, b) PROVE FALSE
  BY <1>7 DEF Block, Unblock, rows
<1> QED
  BY <1>1, <1>2, <1>3, <1>4, <1>5, <1>6, <1>7
  DEF Next, BeginApply, BeginAct, CommitApply, CommitReject, CommitCancel

\* A committed block stops every application that is checked after it.
THEOREM BlockRespected == Spec => BlockStopsConsent
<1> DEFINE R == \A r \in Requests : RaceKnown(r)
<1>1. IInv /\ R /\ [Next]_vars =>
        [\A r \in Requests, u \in Users :
           /\ app'[r][u] # app[r][u]
           /\ app'[r][u] \in {"pending", "accepted"}
           /\ Blocked(author[r], u)
           => r \in raced]_vars
  BY BlockStep
<1> QED BY <1>1, Invariance, RaceInvariance, PTL DEF Spec, BlockStopsConsent

-----------------------------------------------------------------------------
(* Refinement: tables, locks and transactions implement Consent.             *)

LEMMA RefinesInit == Init => Promise!Init
BY DEF Init, Promise!Init, WithStatus

LEMMA RefinesStep == IInv /\ [Next]_vars => [Promise!Next]_Promise!vars
<1> SUFFICES ASSUME IInv, [Next]_vars PROVE [Promise!Next]_Promise!vars
  OBVIOUS
<1> USE DEF IInv
<1>1. ASSUME NEW r \in Requests, NEW u \in Users, NEW kind \in Role, Publish(r, u, kind)
      PROVE Promise!Reopen(r)
  BY <1>1 DEF Publish, Promise!Reopen, WithStatus, TypeOK, Consistent, RowIntegrity, Live,
              LiveStatus
<1>2. ASSUME NEW r \in Requests, SetOpen(r)
      PROVE Promise!Reopen(r) \/ UNCHANGED Promise!vars
  <2>1. CASE status[r] = "open"
    <3>1. status' = status /\ matchedUser' = matchedUser /\ app' = app
      BY <1>2, <2>1 DEF SetOpen, TypeOK, Consistent, Agreement
    <3> QED BY <3>1 DEF Promise!vars, WithStatus
  <2>2. CASE status[r] # "open"
    <3>1. \A u \in Users : app'[r][u] # "pending"
                         /\ (app'[r][u] = "rejected" <=> app[r][u] = "rejected")
      BY <1>2, <2>2 DEF SetOpen, Cancelled, TypeOK
    <3>2. \A q \in Requests \ {r} : app'[q] = app[q]
      BY <1>2, <2>2 DEF SetOpen, TypeOK
    <3>3. WithStatus(r, "pending")' = {}
      BY <3>1 DEF WithStatus
    <3>4. \A q \in Requests : WithStatus(q, "rejected")' = WithStatus(q, "rejected")
      BY <3>1, <3>2 DEF WithStatus
    <3>5. \A q \in Requests \ {r} : WithStatus(q, "pending")' = WithStatus(q, "pending")
      BY <3>2 DEF WithStatus
    <3>6. /\ status' = [status EXCEPT ![r] = "open"]
          /\ matchedUser' = [matchedUser EXCEPT ![r] = NoUser]
      BY <1>2 DEF SetOpen
    <3> QED BY <3>3, <3>4, <3>5, <3>6 DEF Promise!Reopen, TypeOK
  <2> QED BY <2>1, <2>2
<1>3. ASSUME NEW r \in Requests, SetClosed(r) PROVE Promise!Close(r)
  <2>1. \A u \in Users : app'[r][u] # "pending"
                       /\ (app'[r][u] = "rejected" <=> app[r][u] = "rejected")
    BY <1>3 DEF SetClosed, Cancelled, TypeOK, Consistent, Agreement
  <2>2. \A q \in Requests \ {r} : app'[q] = app[q]
    BY <1>3 DEF SetClosed, TypeOK
  <2>3. WithStatus(r, "pending")' = {}
    BY <2>1 DEF WithStatus
  <2>4. \A q \in Requests : WithStatus(q, "rejected")' = WithStatus(q, "rejected")
    BY <2>1, <2>2 DEF WithStatus
  <2>5. \A q \in Requests \ {r} : WithStatus(q, "pending")' = WithStatus(q, "pending")
    BY <2>2 DEF WithStatus
  <2>6. status' = [status EXCEPT ![r] = "closed"] /\ matchedUser' = matchedUser
    BY <1>3 DEF SetClosed
  <2> QED BY <2>3, <2>4, <2>5, <2>6 DEF Promise!Close, TypeOK
<1>4. ASSUME NEW r \in Requests, NEW u \in Users \cup Admins, Delete(r, u)
      PROVE Promise!Remove(r)
  BY <1>4 DEF Delete, Promise!Remove, WithStatus, TypeOK
<1>5. ASSUME NEW r \in Requests, CommitApply(r)
      PROVE \E u \in Users : Promise!Offer(r, u)
  <2>1. /\ txn[r] \in Txn /\ status[r] = "open"
        /\ app[r][txn[r].applicant] \in {"none", "cancelled"}
    BY <1>5 DEF CommitApply, CommitAs, TypeOK, Consistent, InFlight
  <2>2. PICK u \in Users : u = txn[r].applicant
    BY <2>1 DEF Txn
  <2>3. /\ TypeOK /\ app' = [app EXCEPT ![r][u] = "pending"]
        /\ status' = status /\ matchedUser' = matchedUser
    BY <1>5, <2>2 DEF CommitApply, CommitAs
  <2>4. /\ \A q \in Requests \ {r} : app'[q] = app[q]
        /\ \A v \in Users : app'[r][v] = IF v = u THEN "pending" ELSE app[r][v]
    BY <2>3 DEF TypeOK
  <2>5. /\ \A q \in Requests \ {r} : WithStatus(q, "pending")' = WithStatus(q, "pending")
        /\ WithStatus(r, "pending")' = WithStatus(r, "pending") \cup {u}
    BY <2>4 DEF WithStatus
  <2>6. /\ \A q \in Requests \ {r} : WithStatus(q, "rejected")' = WithStatus(q, "rejected")
        /\ WithStatus(r, "rejected")' = WithStatus(r, "rejected") \ {u}
    BY <2>4 DEF WithStatus
  <2>7. u \notin WithStatus(r, "rejected")
    BY <2>1, <2>2 DEF WithStatus
  <2>8. \A q \in Requests : WithStatus(q, "rejected")' = WithStatus(q, "rejected")
    BY <2>6, <2>7
  <2> QED BY <2>1, <2>3, <2>5, <2>7, <2>8 DEF Promise!Offer, TypeOK
<1>6. ASSUME NEW r \in Requests, CommitReject(r)
      PROVE \E u \in Users : Promise!Refuse(r, u)
  <2>1. txn[r] \in Txn /\ app[r][txn[r].applicant] = "pending"
    BY <1>6 DEF CommitReject, CommitAs, TypeOK, Consistent, InFlight
  <2>2. PICK u \in Users : u = txn[r].applicant
    BY <2>1 DEF Txn
  <2>3. /\ TypeOK /\ app' = [app EXCEPT ![r][u] = "rejected"]
        /\ status' = status /\ matchedUser' = matchedUser
    BY <1>6, <2>2 DEF CommitReject, CommitAs
  <2>4. /\ \A q \in Requests \ {r} : app'[q] = app[q]
        /\ \A v \in Users : app'[r][v] = IF v = u THEN "rejected" ELSE app[r][v]
    BY <2>3 DEF TypeOK
  <2>5. /\ \A q \in Requests \ {r} : WithStatus(q, "pending")' = WithStatus(q, "pending")
        /\ WithStatus(r, "pending")' = WithStatus(r, "pending") \ {u}
    BY <2>4 DEF WithStatus
  <2>6. /\ \A q \in Requests \ {r} : WithStatus(q, "rejected")' = WithStatus(q, "rejected")
        /\ WithStatus(r, "rejected")' = WithStatus(r, "rejected") \cup {u}
    BY <2>4 DEF WithStatus
  <2>7. u \in WithStatus(r, "pending")
    BY <2>1, <2>2 DEF WithStatus
  <2> QED BY <2>3, <2>5, <2>6, <2>7 DEF Promise!Refuse, TypeOK
<1>7. ASSUME NEW r \in Requests, CommitCancel(r)
      PROVE \E u \in Users : Promise!Withdraw(r, u)
  <2>1. txn[r] \in Txn /\ app[r][txn[r].applicant] = "pending"
    BY <1>7 DEF CommitCancel, CommitAs, TypeOK, Consistent, InFlight
  <2>2. PICK u \in Users : u = txn[r].applicant
    BY <2>1 DEF Txn
  <2>3. /\ TypeOK /\ app' = [app EXCEPT ![r][u] = "cancelled"]
        /\ status' = status /\ matchedUser' = matchedUser
    BY <1>7, <2>2 DEF CommitCancel, CommitAs
  <2>4. /\ \A q \in Requests \ {r} : app'[q] = app[q]
        /\ \A v \in Users : app'[r][v] = IF v = u THEN "cancelled" ELSE app[r][v]
    BY <2>3 DEF TypeOK
  <2>5. /\ \A q \in Requests \ {r} : WithStatus(q, "pending")' = WithStatus(q, "pending")
        /\ WithStatus(r, "pending")' = WithStatus(r, "pending") \ {u}
    BY <2>4 DEF WithStatus
  <2>6. /\ \A q \in Requests \ {r} : WithStatus(q, "rejected")' = WithStatus(q, "rejected")
        /\ WithStatus(r, "rejected")' = WithStatus(r, "rejected") \ {u}
    BY <2>4 DEF WithStatus
  <2>7. u \in WithStatus(r, "pending") /\ u \notin WithStatus(r, "rejected")
    BY <2>1, <2>2 DEF WithStatus
  <2>8. \A q \in Requests : WithStatus(q, "rejected")' = WithStatus(q, "rejected")
    BY <2>6, <2>7
  <2> QED BY <2>3, <2>5, <2>7, <2>8 DEF Promise!Withdraw, TypeOK
<1>8. ASSUME NEW r \in Requests, CommitAccept(r)
      PROVE \E u \in Users : Promise!Choose(r, u)
  <2>1. /\ txn[r] \in Txn /\ status[r] = "open"
        /\ app[r][txn[r].applicant] = "pending"
    BY <1>8 DEF CommitAccept, TypeOK, Consistent, InFlight
  <2>2. PICK u \in Users : u = txn[r].applicant
    BY <2>1 DEF Txn
  <2>3. Promise!Choose(r, u)
    BY <1>8, <2>1, <2>2 DEF CommitAccept, Promise!Choose, WithStatus, TypeOK, Txn
  <2> QED BY <2>3
<1>9. ASSUME \/ \E r \in Requests, u \in Users : BeginApply(r, u)
             \/ \E r \in Requests, o \in Op, actor, u \in Users : BeginAct(r, o, actor, u)
             \/ \E r \in Requests : Rollback(r)
             \/ \E a, b \in Users : Block(a, b) \/ Unblock(a, b)
             \/ UNCHANGED vars
      PROVE UNCHANGED Promise!vars
  <2>1. status' = status /\ matchedUser' = matchedUser /\ app' = app
    BY <1>9 DEF BeginApply, BeginAct, Begin, Rollback, Block, Unblock, rows, vars
  <2> QED BY <2>1 DEF Promise!vars, WithStatus
<1> QED
  BY <1>1, <1>2, <1>3, <1>4, <1>5, <1>6, <1>7, <1>8, <1>9 DEF Next, Promise!Next

\* Every behaviour of the handlers is one that Consent promises.
THEOREM Refinement == Spec => ImplementsConsent
BY RefinesInit, RefinesStep, Invariance, PTL DEF Spec, ImplementsConsent, Promise!Spec

=============================================================================
