---------------------------- MODULE SubmissionsProofs ----------------------------
(*****************************************************************************)
(* Proofs about Submissions, for any number of calls and texts: a key is     *)
(* saved once, a text sent again and again is saved once, and the field is   *)
(* cleared of saved texts only.  The server's part rests on Exclusive: a row *)
(* that is not committed already excludes others of its key.  The client's   *)
(* part rests on KeysAreBound: a key is never sent with another text.        *)
(*****************************************************************************)
EXTENDS Submissions, FiniteSetTheorems, TLAPS

Unsettled == {"uncommitted", "live"}

\* Two rows of one key never exist side by side, committed or not; of reports,
\* only active ones exclude each other, until a moderator opens one again.
Exclusive ==
  \A r, s \in Calls :
    r # s /\ key[r] = key[s] /\ row[r] # "none" /\ row[s] # "none" =>
      /\ op = "report"
      /\ reopened = {} => ~(row[r] \in Unsettled /\ row[s] \in Unsettled)

\* What a call has written and found so far.
CallOK(c) ==
  /\ pc[c] = "inserted" <=> row[c] = "uncommitted"
  /\ pc[c] \notin {"inserted", "committed"} => row[c] = "none"
  /\ pc[c] = "inserted" => result[c] = c
  /\ pc[c] \in {"found", "committed"} =>
       /\ result[c] \in Calls
       /\ row[result[c]] \in Committed
       /\ key[result[c]] = key[c]

\* A composer's key names the call it was first sent with, and its text.
KeyBound(k, b) == k \in Calls /\ pc[k] # "unused" /\ key[k] = k /\ body[k] = b
KeysAreBound ==
  op \in Keyed =>
    /\ \A c \in Calls : pc[c] # "unused" => KeyBound(key[c], body[c])
    /\ attempt # None => KeyBound(attempt.key, attempt.body)

\* The text that was tried in vain is the one the composer remembers.
TriesOK ==
  /\ tries # {} => op \in Keyed /\ attempt # None
  /\ \A t \in tries : pc[t] # "unused" /\ key[t] = attempt.key /\ body[t] = attempt.body
  /\ pending # None => op \in Keyed
  /\ attempt # None => tries # {}

\* The inductive invariant.
IInv ==
  /\ TypeOK
  /\ Exclusive
  /\ \A c \in Calls : CallOK(c)
  /\ KeysAreBound
  /\ TriesOK

-----------------------------------------------------------------------------

LEMMA InitInv == Init => IInv
<1> SUFFICES ASSUME Init PROVE IInv
  OBVIOUS
<1>1. TypeOK
  BY DEF Init, TypeOK, Committed
<1>2. Exclusive /\ (\A c \in Calls : CallOK(c)) /\ KeysAreBound /\ TriesOK
  BY DEF Init, Exclusive, CallOK, KeysAreBound, TriesOK
<1> QED BY <1>1, <1>2 DEF IInv

(* The client.                                                               *)

\* A call that is sent has no row yet, and whoever found a row keeps it.
LEMMA SendCalls ==
  ASSUME IInv, NEW c \in Calls, NEW k \in Calls \cup {None}, NEW b \in Bodies \cup {None},
         Send(c, k, b)
  PROVE  /\ Exclusive'
         /\ \A d \in Calls : CallOK(d)'
         /\ pc' \in [Calls -> {"unused", "sent", "missing", "conflict", "inserted", "found",
                               "committed", "rejected", "failed"}]
         /\ key' \in [Calls -> Calls \cup {None}]
         /\ body' \in [Calls -> Bodies \cup {None}]
<1>1. row[c] = "none" /\ pc[c] = "unused" /\ CallOK(c)
  BY DEF IInv, CallOK, Send
<1>2. Exclusive'
  BY <1>1 DEF IInv, TypeOK, Exclusive, Send
<1>3. ASSUME NEW d \in Calls PROVE CallOK(d)'
  <2>1. CallOK(d)
    BY DEF IInv
  <2>2. CASE d = c
    BY <1>1, <2>2 DEF IInv, TypeOK, CallOK, Send
  <2>3. CASE d # c
    <3>1. pc[d] \in {"found", "committed"} => result[d] # c
      BY <1>1, <2>1 DEF CallOK, Committed
    <3> QED BY <2>1, <2>3, <3>1 DEF IInv, TypeOK, CallOK, Send
  <2> QED BY <2>2, <2>3
<1> QED BY <1>2, <1>3 DEF IInv, TypeOK, Send

LEMMA SubmitInv ==
  ASSUME IInv, NEW c \in Calls, Submit(c)
  PROVE  IInv'
<1> DEFINE k == attempt'.key
           again == attempt # None /\ attempt.body = draft
<1>1. /\ op \in Keyed /\ draft \in Bodies /\ pc[c] = "unused"
      /\ attempt' \in [body : Bodies, key : Calls] /\ attempt'.body = draft /\ k \in Calls
      /\ attempt' = IF again THEN attempt ELSE [body |-> draft, key |-> c]
      /\ Send(c, k, draft)
  BY DEF Submit, Send, IInv, TypeOK
<1>2. /\ pc' = [pc EXCEPT ![c] = "sent"] /\ key' = [key EXCEPT ![c] = k]
      /\ body' = [body EXCEPT ![c] = draft] /\ op' = op
      /\ pc \in [Calls -> {"unused", "sent", "missing", "conflict", "inserted", "found",
                           "committed", "rejected", "failed"}]
      /\ key \in [Calls -> Calls \cup {None}] /\ body \in [Calls -> Bodies \cup {None}]
  BY <1>1 DEF Send, IInv, TypeOK
<1>3. TypeOK'
  <2>1. tries' \subseteq Calls
    BY DEF Submit, Tried, IInv, TypeOK
  <2> QED BY <1>1, <2>1, SendCalls DEF IInv, TypeOK, Submit, Send
<1>4. Exclusive' /\ \A d \in Calls : CallOK(d)'
  BY <1>1, SendCalls
<1>5. k \in Calls /\ pc'[k] # "unused" /\ key'[k] = k /\ body'[k] = draft
  <2>1. CASE again
    BY <1>1, <1>2, <2>1 DEF IInv, KeysAreBound, KeyBound
  <2>2. CASE ~again
    BY <1>1, <1>2, <2>2 DEF KeyBound
  <2> QED BY <2>1, <2>2
<1>6. KeysAreBound'
  <2>1. ASSUME NEW d \in Calls, pc'[d] # "unused" PROVE KeyBound(key[d], body[d])'
    <3>1. CASE d = c
      BY <1>2, <1>5, <3>1 DEF KeyBound
    <3>2. CASE d # c
      BY <1>1, <1>2, <2>1, <3>2 DEF IInv, KeysAreBound, KeyBound
    <3> QED BY <3>1, <3>2
  <2> QED BY <1>1, <1>5, <2>1 DEF KeysAreBound, KeyBound
<1>7. TriesOK'
  <2>1. tries' # {} /\ attempt' # None
    BY <1>1, NoneAssumption DEF Submit, Tried
  <2>2. ASSUME NEW t \in tries'
        PROVE  pc'[t] # "unused" /\ key'[t] = k /\ body'[t] = draft
    <3>1. CASE t = c
      BY <1>2, <3>1
    <3>2. CASE t # c
      <4>1. t \in tries /\ \E s \in tries : body[s] = draft
        BY <2>2, <3>2 DEF Submit, Tried
      <4>2. pc[t] # "unused" /\ key[t] = attempt.key /\ body[t] = attempt.body
        BY <4>1 DEF IInv, TriesOK
      <4>3. again
        BY <4>1 DEF IInv, TriesOK
      <4> QED BY <1>1, <1>2, <3>2, <4>1, <4>2, <4>3
    <3> QED BY <3>1, <3>2
  <2> QED BY <1>1, <1>2, <2>1, <2>2 DEF TriesOK
<1> QED BY <1>3, <1>4, <1>6, <1>7 DEF IInv

LEMMA TapInv ==
  ASSUME IInv, NEW c \in Calls, Tap(c)
  PROVE  IInv'
<1>1. op \notin Keyed /\ Send(c, None, None) /\ UNCHANGED <<clientVars, op>>
  BY DEF Tap, Send
<1>2. tries = {} /\ pending = None /\ attempt = None
  BY <1>1 DEF IInv, TriesOK
<1>3. TypeOK'
  BY <1>1, SendCalls DEF IInv, TypeOK, clientVars, Send
<1>4. Exclusive' /\ \A d \in Calls : CallOK(d)'
  BY <1>1, SendCalls
<1>5. KeysAreBound' /\ TriesOK'
  BY <1>1, <1>2 DEF KeysAreBound, TriesOK, clientVars
<1> QED BY <1>3, <1>4, <1>5 DEF IInv

\* Steps of the composer that send nothing.
LEMMA ComposerInv ==
  ASSUME IInv, \/ Close \/ Open \/ \E b \in Bodies : Type(b)
               \/ \E c \in Calls : Succeed(c) \/ GiveUp(c)
  PROVE  IInv'
<1>1. UNCHANGED <<op, serverVars, key, body, reopened>>
  BY DEF Close, Open, Type, Succeed, GiveUp
<1>2. TypeOK'
  BY <1>1 DEF IInv, TypeOK, serverVars, Close, Open, Type, Succeed, GiveUp
<1>3. Exclusive' /\ \A d \in Calls : CallOK(d)'
  BY <1>1 DEF IInv, Exclusive, CallOK, serverVars
<1>4. \/ attempt' = attempt /\ tries' = tries
      \/ attempt' = None /\ tries' = {}
  BY DEF Close, Open, Type, Succeed, GiveUp
<1>5. pending' \in {pending, None}
  BY DEF Close, Open, Type, Succeed, GiveUp
<1>6. KeysAreBound'
  BY <1>1, <1>4 DEF IInv, KeysAreBound, KeyBound, serverVars
<1>7. TriesOK'
  BY <1>1, <1>4, <1>5 DEF IInv, TriesOK, serverVars
<1> QED BY <1>2, <1>3, <1>6, <1>7 DEF IInv

-----------------------------------------------------------------------------
(* The server.                                                               *)

\* A step of the server leaves the client, and the text of every call, alone.
LEMMA ServerFrame ==
  ASSUME IInv, TypeOK', Exclusive', \A c \in Calls : CallOK(c)',
         UNCHANGED <<op, clientVars, key, body>>,
         \A c \in Calls : pc'[c] = "unused" <=> pc[c] = "unused"
  PROVE  IInv'
<1>1. tries \subseteq Calls
  BY DEF IInv, TypeOK
<1>2. KeysAreBound'
  BY DEF IInv, KeysAreBound, KeyBound, clientVars
<1>3. TriesOK'
  BY <1>1 DEF IInv, TriesOK, clientVars
<1> QED BY <1>2, <1>3 DEF IInv

\* A call goes on without a row of its own, or loses the one it had inserted.
LEMMA GotoInv ==
  ASSUME IInv, NEW c \in Calls, ServerStep(c),
         pc[c] \notin {"unused", "inserted", "found", "committed"},
         NEW p \in {"missing", "conflict", "rejected", "failed"}, Goto(c, p)
  PROVE  IInv'
<1>1. TypeOK'
  BY DEF IInv, TypeOK, Goto, ServerStep, clientVars
<1>2. Exclusive'
  BY DEF IInv, Exclusive, Goto, ServerStep
<1>3. \A d \in Calls : CallOK(d)'
  BY DEF IInv, TypeOK, CallOK, Goto, ServerStep
<1>4. \A d \in Calls : pc'[d] = "unused" <=> pc[d] = "unused"
  BY DEF IInv, TypeOK, Goto
<1> QED BY <1>1, <1>2, <1>3, <1>4, ServerFrame DEF ServerStep

LEMMA FindInv ==
  ASSUME IInv, NEW c \in Calls, ServerStep(c), pc[c] \in {"sent", "conflict"},
         NEW r \in Visible(c), Find(c, r)
  PROVE  IInv'
<1>1. r \in Calls /\ r # c /\ key[r] = key[c] /\ row[r] \in Committed
  BY DEF Visible, Twins
<1>2. TypeOK'
  BY <1>1 DEF IInv, TypeOK, Find, ServerStep, clientVars
<1>3. Exclusive'
  BY DEF IInv, Exclusive, Find, ServerStep
<1>4. ASSUME NEW d \in Calls PROVE CallOK(d)'
  <2>1. CASE d = c
    BY <1>1, <2>1 DEF IInv, TypeOK, CallOK, Find, ServerStep
  <2>2. CASE d # c
    BY <2>2 DEF IInv, TypeOK, CallOK, Find, ServerStep
  <2> QED BY <2>1, <2>2
<1>5. \A d \in Calls : pc'[d] = "unused" <=> pc[d] = "unused"
  BY DEF IInv, TypeOK, Find
<1> QED BY <1>2, <1>3, <1>4, <1>5, ServerFrame DEF ServerStep

\* A row is inserted when no other of its key is in the way.
LEMMA InsertInv ==
  ASSUME IInv, NEW c \in Calls, ServerStep(c), pc[c] \in {"sent", "missing"}, Insert(c),
         \A d \in Calls : d # c /\ key[d] = key[c] /\ row[d] # "none" =>
                            op = "report" /\ row[d] = "gone"
  PROVE  IInv'
<1>1. row' = [row EXCEPT ![c] = "uncommitted"] /\ row[c] = "none" /\ op' = op /\ key' = key
  BY DEF Insert, ServerStep, IInv, CallOK
<1>2. TypeOK'
  BY DEF IInv, TypeOK, Insert, ServerStep, clientVars
<1>3. Exclusive'
  <2> SUFFICES ASSUME NEW r \in Calls, NEW s \in Calls, r # s, key[r] = key[s],
                      row'[r] # "none", row'[s] # "none"
               PROVE  /\ op = "report"
                      /\ reopened = {} => ~(row'[r] \in Unsettled /\ row'[s] \in Unsettled)
    BY <1>1 DEF Exclusive, ServerStep
  <2>1. CASE r # c /\ s # c
    BY <1>1, <2>1 DEF IInv, TypeOK, Exclusive
  <2>2. CASE r = c \/ s = c
    BY <1>1, <2>2 DEF IInv, TypeOK, Unsettled
  <2> QED BY <2>1, <2>2
<1>4. ASSUME NEW d \in Calls PROVE CallOK(d)'
  <2>1. CASE d = c
    BY <1>1, <2>1 DEF IInv, TypeOK, CallOK, Insert
  <2>2. CASE d # c
    <3>1. CallOK(d) /\ (pc[d] \in {"found", "committed"} => result[d] # c)
      BY <1>1 DEF IInv, CallOK, Committed
    <3> QED BY <1>1, <2>2, <3>1 DEF IInv, TypeOK, CallOK, Insert, ServerStep
  <2> QED BY <2>1, <2>2
<1>5. \A d \in Calls : pc'[d] = "unused" <=> pc[d] = "unused"
  BY DEF IInv, TypeOK, Insert
<1> QED BY <1>2, <1>3, <1>4, <1>5, ServerFrame DEF ServerStep

\* A call that has a row has been sent.
LEMMA RowsWereSent ==
  ASSUME IInv, NEW c \in Calls, NEW d \in Calls, d # c, key[d] = key[c], row[d] # "none"
  PROVE  /\ d \in Twins(c)
         /\ row[d] = "uncommitted" \/ d \in Visible(c)
         /\ row[d] = "uncommitted" => pc[d] \in Started
<1>1. CallOK(d) /\ row[d] \in {"uncommitted"} \cup Committed
  BY DEF IInv, TypeOK
<1> QED BY <1>1 DEF CallOK, Twins, Visible, Started

LEMMA MessageInv ==
  ASSUME IInv, NEW c \in Calls,
         InsertOrConflict(c) \/ Reselect(c) \/ LookForConversation(c) \/ Refuse(c)
  PROVE  IInv'
<1>1. CASE InsertOrConflict(c)
  <2>1. pc[c] \in {"sent", "missing"} /\ ~Claimed(c) /\ ServerStep(c)
    BY <1>1 DEF InsertOrConflict
  <2>2. CASE Visible(c) # {}
    BY <1>1, <2>1, <2>2, GotoInv DEF InsertOrConflict
  <2>3. CASE Visible(c) = {}
    <3>1. \A d \in Calls : d # c /\ key[d] = key[c] => row[d] = "none"
      BY <2>1, <2>3, RowsWereSent DEF Claimed
    <3>2. Insert(c)
      BY <1>1, <2>3 DEF InsertOrConflict
    <3> QED BY <2>1, <3>1, <3>2, InsertInv
  <2> QED BY <2>2, <2>3
<1>2. CASE Reselect(c)
  BY <1>2, GotoInv, FindInv DEF Reselect
<1>3. CASE LookForConversation(c)
  BY <1>3, GotoInv, FindInv DEF LookForConversation
<1>4. CASE Refuse(c)
  BY <1>4, GotoInv DEF Refuse
<1> QED BY <1>1, <1>2, <1>3, <1>4

LEMMA LockedInv ==
  ASSUME IInv, NEW c \in Calls, Comment(c) \/ Report(c)
  PROVE  IInv'
<1>1. /\ pc[c] = "sent" /\ ServerStep(c)
      /\ \A d \in Calls : d # c => pc[d] \notin Started
  BY DEF Comment, Report, Locked
<1>2. \A d \in Calls : d # c /\ key[d] = key[c] /\ row[d] # "none" => d \in Visible(c)
  BY <1>1, RowsWereSent
<1>3. CASE Comment(c)
  <2>1. CASE Visible(c) = {}
    BY <1>1, <1>2, <1>3, <2>1, InsertInv DEF Comment
  <2>2. CASE Visible(c) # {}
    BY <1>1, <1>3, <2>2, FindInv, GotoInv DEF Comment
  <2> QED BY <2>1, <2>2
<1>4. CASE Report(c)
  <2> DEFINE active == {r \in Visible(c) : row[r] = "live"}
  <2>1. CASE active = {}
    <3>1. \A d \in Calls : d # c /\ key[d] = key[c] /\ row[d] # "none" =>
                             op = "report" /\ row[d] = "gone"
      BY <1>2, <1>4, <2>1 DEF Visible, Committed, Report
    <3>2. Insert(c)
      BY <1>4, <2>1 DEF Report
    <3> QED BY <1>1, <3>1, <3>2, InsertInv
  <2>2. CASE active # {}
    <3>1. PICK r \in Visible(c) : Find(c, r)
      BY <1>4, <2>2 DEF Report
    <3> QED BY <1>1, <3>1, FindInv
  <2> QED BY <2>1, <2>2
<1> QED BY <1>3, <1>4

LEMMA CommitInv ==
  ASSUME IInv, NEW c \in Calls, Commit(c)
  PROVE  IInv'
<1>1. /\ pc[c] \in {"inserted", "found"} /\ pc' = [pc EXCEPT ![c] = "committed"]
      /\ row' = [row EXCEPT ![c] = IF row[c] = "uncommitted" THEN "live" ELSE row[c]]
      /\ ServerStep(c) /\ UNCHANGED <<text, result>> /\ CallOK(c)
  BY DEF Commit, Started, IInv
<1>2. TypeOK'
  BY <1>1 DEF IInv, TypeOK, ServerStep, clientVars, Committed
<1>3. \A d \in Calls : /\ row'[d] # "none" => row[d] # "none"
                       /\ row'[d] \in Unsettled => row[d] \in Unsettled
                       /\ row[d] \in Committed => row'[d] \in Committed
  BY <1>1 DEF IInv, TypeOK, Unsettled, Committed
<1>4. Exclusive'
  BY <1>1, <1>3 DEF IInv, Exclusive, ServerStep
<1>5. ASSUME NEW d \in Calls PROVE CallOK(d)'
  <2>1. CASE d = c
    BY <1>1, <1>3, <2>1 DEF IInv, TypeOK, CallOK, ServerStep, Committed
  <2>2. CASE d # c
    BY <1>1, <1>3, <2>2 DEF IInv, TypeOK, CallOK, ServerStep
  <2> QED BY <2>1, <2>2
<1>6. \A d \in Calls : pc'[d] = "unused" <=> pc[d] = "unused"
  BY <1>1 DEF IInv, TypeOK
<1> QED BY <1>1, <1>2, <1>4, <1>5, <1>6, ServerFrame DEF ServerStep

LEMMA FailInv ==
  ASSUME IInv, NEW c \in Calls, Fail(c)
  PROVE  IInv'
<1>1. /\ pc[c] \notin {"unused", "committed"} /\ row[c] \notin Committed
      /\ pc' = [pc EXCEPT ![c] = "failed"] /\ row' = [row EXCEPT ![c] = "none"]
      /\ result' = [result EXCEPT ![c] = None] /\ text' = text /\ ServerStep(c)
  BY DEF Fail, Started, IInv, CallOK, Committed
<1>2. TypeOK'
  BY <1>1 DEF IInv, TypeOK, ServerStep, clientVars
<1>3. Exclusive'
  BY <1>1 DEF IInv, TypeOK, Exclusive, ServerStep
<1>4. ASSUME NEW d \in Calls PROVE CallOK(d)'
  <2>1. CASE d = c
    BY <1>1, <2>1 DEF IInv, TypeOK, CallOK
  <2>2. CASE d # c
    BY <1>1, <2>2 DEF IInv, TypeOK, CallOK, ServerStep
  <2> QED BY <2>1, <2>2
<1>5. \A d \in Calls : pc'[d] = "unused" <=> pc[d] = "unused"
  BY <1>1 DEF IInv, TypeOK
<1> QED BY <1>1, <1>2, <1>3, <1>4, <1>5, ServerFrame DEF ServerStep

\* Rows that are there are edited, hidden, or closed and opened.
LEMMA ModerationInv ==
  ASSUME IInv, NEW r \in Calls,
         DeleteComment(r) \/ Moderate(r) \/ \E b \in Bodies : EditComment(r, b)
  PROVE  IInv'
<1>1. UNCHANGED <<op, clientVars, pc, result, key, body>>
  BY DEF DeleteComment, Moderate, EditComment
<1>2. TypeOK'
  BY <1>1 DEF IInv, TypeOK, clientVars, DeleteComment, Moderate, EditComment, Committed
<1>3. /\ row[r] \in Committed /\ row'[r] \in Committed
      /\ \A d \in Calls \ {r} : row'[d] = row[d]
  BY DEF IInv, TypeOK, DeleteComment, Moderate, EditComment, Committed
<1>4. reopened' = {} => reopened = {} /\ (row'[r] = "live" => row[r] = "live")
  BY <1>3 DEF IInv, TypeOK, DeleteComment, Moderate, EditComment, Committed
<1>5. Exclusive'
  BY <1>1, <1>3, <1>4 DEF IInv, Exclusive, Unsettled, Committed
<1>6. \A d \in Calls : CallOK(d)'
  BY <1>1, <1>3 DEF IInv, CallOK, Committed
<1> QED BY <1>1, <1>2, <1>5, <1>6, ServerFrame

LEMMA NextInv == IInv /\ [Next]_vars => IInv'
<1> SUFFICES ASSUME IInv, [Next]_vars PROVE IInv'
  OBVIOUS
<1>1. CASE UNCHANGED vars
  BY <1>1 DEF IInv, TypeOK, Exclusive, CallOK, KeysAreBound, KeyBound, TriesOK, vars,
     clientVars, serverVars
<1> QED BY <1>1, ComposerInv, SubmitInv, TapInv, MessageInv, LockedInv, CommitInv, FailInv,
        ModerationInv DEF Next

-----------------------------------------------------------------------------

\* The inductive invariant holds in every reachable state.
THEOREM Invariance == Spec => []IInv
BY InitInv, NextInv, PTL DEF Spec

\* The composer, the calls and the rows stay well typed.
THEOREM TypeCorrect == Spec => []TypeOK
<1>1. IInv => TypeOK
  BY DEF IInv
<1> QED BY <1>1, Invariance, PTL

LEMMA ExclusiveOnce == IInv => OneRowPerKey
BY DEF IInv, TypeOK, Exclusive, OneRowPerKey, Unsettled, Committed

\* However many calls repeat a key, a pair or a report, and however they overlap
\* and fail, one row comes of it.
THEOREM SavedOnce == Spec => []OneRowPerKey
BY ExclusiveOnce, Invariance, PTL

\* A text that is sent again and again in vain is saved at most once.
THEOREM SafeToRetry == Spec => []RetryIsSafe
<1>1. IInv => RetryIsSafe
  <2> SUFFICES ASSUME IInv PROVE RetryIsSafe
    OBVIOUS
  <2> DEFINE S == {t \in tries : row[t] \in Committed}
  <2>1. \A r, s \in S : r = s
    BY ExclusiveOnce DEF OneRowPerKey, IInv, TypeOK, TriesOK, Keyed
  <2>2. S = {} \/ \E r : S = {r}
    BY <2>1
  <2>3. Cardinality(S) \in {0, 1}
    BY <2>2, FS_EmptySet, FS_Singleton
  <2> QED BY <2>3 DEF RetryIsSafe
<1> QED BY <1>1, Invariance, PTL

\* The field is cleared of a text only when a row with that text was committed.
THEOREM TextKept == Spec => TextIsNotLost
<1>1. IInv /\ [Next]_vars =>
        [shown' /\ draft # None /\ draft' = None =>
           \E r \in Calls : row[r] \in Committed /\ body[r] = draft]_vars
  <2> SUFFICES ASSUME IInv, [Next]_vars, shown', draft # None, draft' = None
               PROVE  \E r \in Calls : row[r] \in Committed /\ body[r] = draft
    OBVIOUS
  <2>1. PICK c \in Calls : Succeed(c)
    BY NoneAssumption DEF Next, vars, clientVars, Type, Close, Open, Submit, Tap, GiveUp, Refuse,
       InsertOrConflict, Reselect, LookForConversation, Comment, Report, Commit, Fail,
       DeleteComment, Moderate, EditComment, ServerStep
  <2>2. /\ op \in Keyed /\ pc[c] = "committed" /\ body[c] = draft
    BY <2>1, NoneAssumption DEF Succeed, IInv, TriesOK, TypeOK
  <2> DEFINE r == result[c]
  <2>3. r \in Calls /\ row[r] \in Committed /\ key[r] = key[c]
    BY <2>2 DEF IInv, CallOK
  <2>4. pc[r] # "unused"
    BY <2>3 DEF IInv, CallOK, Committed
  <2>5. body[r] = body[c]
    BY <2>2, <2>3, <2>4 DEF IInv, KeysAreBound, KeyBound
  <2> QED BY <2>2, <2>3, <2>5
<1> QED BY <1>1, Invariance, PTL DEF Spec, TextIsNotLost

=============================================================================
