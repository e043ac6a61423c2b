------------------------------ MODULE Submissions ------------------------------
(*****************************************************************************)
(* The four calls a student may repeat because no answer came, and the       *)
(* composer that repeats two of them:                                        *)
(*   "message"  send_room_message, send_dm_message: a key names the attempt  *)
(*              and a unique index is the only guard;                        *)
(*   "comment"  create_comment: a key, under the lock of the request;        *)
(*   "start"    start_dm_conversation: the pair of students is unique;       *)
(*   "report"   create_report: at most one active report is to be added,     *)
(*              under the reporter's advisory lock.                          *)
(* The client and the gateway give up waiting at any time while the call     *)
(* goes on, so that calls of one key overlap.  One behaviour follows one of  *)
(* the four operations: they share no table.                                 *)
(*                                                                           *)
(* A row is named by the call that inserted it.  The statements of a         *)
(* transaction are steps of their own where another transaction can commit   *)
(* between them (READ COMMITTED); a row is seen by others once it committed. *)
(*****************************************************************************)
EXTENDS Naturals, FiniteSets

CONSTANTS
  Calls,   \* HTTP calls, each made at most once
  Bodies,  \* texts a student may type; of a comment, with the one it answers
  Ops,     \* the operations that are followed
  None

ASSUME NoneAssumption == None \notin Bodies \cup Calls \cup [body : Bodies, key : Calls]

VARIABLES
  op,        \* the operation
  shown,     \* the thread is on the screen
  draft,     \* its text field
  attempt,   \* the ref attempt: a body and the key it was sent with
  pending,   \* the call the composer waits for (sending, isPending)
  tries,     \* history: the calls that sent one text again and again in vain
  pc,        \* how far each call is at the server
  key, body, \* what it carries
  row,       \* the row it inserted
  text,      \* the body of that row now
  result,    \* the row it answers with
  reopened   \* reports a moderator opened again

clientVars == <<shown, draft, attempt, pending, tries>>
serverVars == <<pc, row, text, result>>
vars == <<op, clientVars, serverVars, key, body, reopened>>

Keyed     == {"message", "comment"}   \* the operations with a composer
Started   == {"inserted", "found"}    \* the transaction has nothing left but to commit
Committed == {"live", "gone"}

\* Types of the composer, the calls and the rows.
TypeOK ==
  /\ op \in Ops
  /\ shown \in BOOLEAN
  /\ draft \in Bodies \cup {None}
  /\ attempt \in [body : Bodies, key : Calls] \cup {None}
  /\ pending \in Calls \cup {None}
  /\ tries \subseteq Calls
  /\ pc \in [Calls -> {"unused", "sent", "missing", "conflict", "inserted", "found",
                       "committed", "rejected", "failed"}]
  /\ key \in [Calls -> Calls \cup {None}]
  /\ body \in [Calls -> Bodies \cup {None}]
  /\ row \in [Calls -> {"none", "uncommitted"} \cup Committed]
  /\ text \in [Calls -> Bodies \cup {None}]
  /\ result \in [Calls -> Calls \cup {None}]
  /\ reopened \subseteq Calls

Init ==
  /\ op \in Ops
  /\ shown = TRUE
  /\ draft = None
  /\ attempt = None
  /\ pending = None
  /\ tries = {}
  /\ pc = [c \in Calls |-> "unused"]
  /\ key = [c \in Calls |-> None]
  /\ body = [c \in Calls |-> None]
  /\ row = [c \in Calls |-> "none"]
  /\ text = [c \in Calls |-> None]
  /\ result = [c \in Calls |-> None]
  /\ reopened = {}

-----------------------------------------------------------------------------
\* The client.

Send(c, k, b) ==
  /\ pc[c] = "unused"
  /\ pc' = [pc EXCEPT ![c] = "sent"]
  /\ key' = [key EXCEPT ![c] = k]
  /\ body' = [body EXCEPT ![c] = b]
  /\ UNCHANGED <<op, row, text, result, reopened>>

\* The text field can be edited while a message is being sent.
Type(b) ==
  /\ op \in Keyed
  /\ shown
  /\ b # draft
  /\ draft' = b
  /\ UNCHANGED <<op, shown, attempt, pending, tries, serverVars, key, body, reopened>>

\* The student sends the text of the last try again, or another one.
Tried(c) ==
  tries' = IF \E t \in tries : body[t] = draft THEN tries \cup {c} ELSE {c}

\* Broken variant: every press of the button makes a new key.
SubmitAfresh(c) ==
  /\ op \in Keyed
  /\ shown /\ draft # None /\ pending = None
  /\ attempt' = [body |-> draft, key |-> c]
  /\ pending' = c
  /\ Send(c, c, draft)
  /\ Tried(c)
  /\ UNCHANGED <<shown, draft>>

\* handleSend, submit: an unchanged text is sent again with the key it had.
Submit(c) ==
  /\ op \in Keyed
  /\ shown /\ draft # None /\ pending = None
  /\ attempt' = IF attempt # None /\ attempt.body = draft
                THEN attempt ELSE [body |-> draft, key |-> c]
  /\ pending' = c
  /\ Send(c, attempt'.key, draft)
  /\ Tried(c)
  /\ UNCHANGED <<shown, draft>>

\* openDm and the report dialog: either student, or one of them again.
Tap(c) ==
  /\ op \notin Keyed
  /\ Send(c, None, None)
  /\ UNCHANGED clientVars

\* Broken variant: the field is cleared whatever it holds by now.
SucceedClearing(c) ==
  /\ pending = c
  /\ pc[c] = "committed"
  /\ draft' = None
  /\ attempt' = None
  /\ pending' = None
  /\ tries' = {}
  /\ UNCHANGED <<op, shown, serverVars, key, body, reopened>>

\* onSuccess and onSettled.
Succeed(c) ==
  /\ pending = c
  /\ pc[c] = "committed"
  /\ draft' = IF draft = body[c] THEN None ELSE draft
  /\ attempt' = None
  /\ pending' = None
  /\ tries' = {}
  /\ UNCHANGED <<op, shown, serverVars, key, body, reopened>>

\* The call was refused or failed, or no answer came: the draft and the key
\* stay for the next press of the button.
GiveUp(c) ==
  /\ pending = c
  /\ pending' = None
  /\ UNCHANGED <<op, shown, draft, attempt, tries, serverVars, key, body, reopened>>

\* The thread is closed, with its field and its refs, and opened again.
Close ==
  /\ shown
  /\ shown' = FALSE
  /\ draft' = None
  /\ attempt' = None
  /\ pending' = None
  /\ tries' = {}
  /\ UNCHANGED <<op, serverVars, key, body, reopened>>

Open ==
  /\ ~shown
  /\ shown' = TRUE
  /\ UNCHANGED <<op, draft, attempt, pending, tries, serverVars, key, body, reopened>>

-----------------------------------------------------------------------------
\* The server.

Twins(c)   == {d \in Calls \ {c} : pc[d] # "unused" /\ key[d] = key[c]}
Visible(c) == {d \in Twins(c) : row[d] \in Committed}

\* Another transaction inserted the same key and has not ended.
Claimed(c) == \E d \in Twins(c) : row[d] = "uncommitted"

\* The lock of the request, or of the reporter, is held by another call.
Locked(c) ==
  /\ op \in {"comment", "report"}
  /\ \E d \in Calls \ {c} : pc[d] \in Started

Insert(c) ==
  /\ pc' = [pc EXCEPT ![c] = "inserted"]
  /\ row' = [row EXCEPT ![c] = "uncommitted"]
  /\ text' = [text EXCEPT ![c] = body[c]]
  /\ result' = [result EXCEPT ![c] = c]

Find(c, r) ==
  /\ pc' = [pc EXCEPT ![c] = "found"]
  /\ result' = [result EXCEPT ![c] = r]
  /\ UNCHANGED <<row, text>>

Goto(c, p) == pc' = [pc EXCEPT ![c] = p] /\ UNCHANGED <<row, text, result>>

ServerStep(c) == UNCHANGED <<op, clientVars, key, body, reopened>>

\* No session, no standing, no such thread, a block, an invalid body.
Refuse(c) ==
  /\ pc[c] = "sent"
  /\ Goto(c, "rejected")
  /\ ServerStep(c)

\* Broken variant: the row is looked for and then inserted, and not held
\* against another that is inserted meanwhile.
InsertOrConflictUnguarded(c) ==
  /\ pc[c] = (IF op = "start" THEN "missing" ELSE "sent")
  /\ op \in {"message", "start"}
  /\ IF Visible(c) # {} THEN Goto(c, "conflict") ELSE Insert(c)
  /\ ServerStep(c)

\* INSERT ... ON CONFLICT DO NOTHING, which waits for a transaction that
\* inserted the same key.
InsertOrConflict(c) ==
  /\ pc[c] = (IF op = "start" THEN "missing" ELSE "sent")
  /\ op \in {"message", "start"}
  /\ ~Claimed(c)
  /\ IF Visible(c) # {} THEN Goto(c, "conflict") ELSE Insert(c)
  /\ ServerStep(c)

\* The SELECT after a conflict.
Reselect(c) ==
  /\ pc[c] = "conflict"
  /\ IF \E r \in Visible(c) : row[r] = "live" /\ text[r] = body[c]
     THEN \E r \in Visible(c) : Find(c, r)
     ELSE Goto(c, "rejected")
  /\ ServerStep(c)

\* The SELECT before the INSERT of a conversation.
LookForConversation(c) ==
  /\ op = "start"
  /\ pc[c] = "sent"
  /\ IF Visible(c) # {} THEN \E r \in Visible(c) : Find(c, r) ELSE Goto(c, "missing")
  /\ ServerStep(c)

\* create_comment under the lock: a deleted comment is answered as it is, a
\* changed one refuses the key.
Comment(c) ==
  /\ op = "comment"
  /\ pc[c] = "sent"
  /\ ~Locked(c)
  /\ IF Visible(c) = {} THEN Insert(c)
     ELSE \E r \in Visible(c) :
            IF row[r] = "gone" \/ text[r] = body[c] THEN Find(c, r)
                                                    ELSE Goto(c, "rejected")
  /\ ServerStep(c)

\* create_report under the reporter's lock: the active report is locked, or a
\* report is added.
Report(c) ==
  LET active == {r \in Visible(c) : row[r] = "live"} IN
  /\ op = "report"
  /\ pc[c] = "sent"
  /\ ~Locked(c)
  /\ IF active = {} THEN Insert(c) ELSE \E r \in active : Find(c, r)
  /\ ServerStep(c)

Commit(c) ==
  /\ pc[c] \in Started
  /\ pc' = [pc EXCEPT ![c] = "committed"]
  /\ row' = [row EXCEPT ![c] = IF @ = "uncommitted" THEN "live" ELSE @]
  /\ UNCHANGED <<text, result>>
  /\ ServerStep(c)

\* An error, or the end of the process: the transaction leaves nothing.
Fail(c) ==
  /\ pc[c] \in Started \cup {"sent", "missing", "conflict"}
  /\ pc' = [pc EXCEPT ![c] = "failed"]
  /\ row' = [row EXCEPT ![c] = "none"]
  /\ result' = [result EXCEPT ![c] = None]
  /\ UNCHANGED text
  /\ ServerStep(c)

\* edit_comment and delete_comment take the lock of the request.
EditComment(r, b) ==
  /\ op = "comment"
  /\ row[r] = "live"
  /\ \A d \in Calls : pc[d] \notin Started
  /\ text' = [text EXCEPT ![r] = b]
  /\ UNCHANGED <<op, clientVars, pc, row, result, key, body, reopened>>

DeleteComment(r) ==
  /\ op = "comment"
  /\ row[r] = "live"
  /\ \A d \in Calls : pc[d] \notin Started
  /\ row' = [row EXCEPT ![r] = "gone"]
  /\ UNCHANGED <<op, clientVars, pc, text, result, key, body, reopened>>

\* moderate_report waits for a call that locked the report; it may open a
\* report again that was closed.
Moderate(r) ==
  /\ op = "report"
  /\ row[r] \in Committed
  /\ ~\E d \in Calls : pc[d] = "found" /\ result[d] = r
  /\ row' = [row EXCEPT ![r] = IF @ = "live" THEN "gone" ELSE "live"]
  /\ reopened' = IF row[r] = "gone" THEN reopened \cup {r} ELSE reopened
  /\ UNCHANGED <<op, clientVars, pc, text, result, key, body>>

-----------------------------------------------------------------------------

Next ==
  \/ \E b \in Bodies : Type(b)
  \/ Close \/ Open
  \/ \E c \in Calls :
       \/ Submit(c) \/ Tap(c) \/ Succeed(c) \/ GiveUp(c)
       \/ Refuse(c) \/ InsertOrConflict(c) \/ Reselect(c) \/ LookForConversation(c)
       \/ Comment(c) \/ Report(c) \/ Commit(c) \/ Fail(c)
       \/ DeleteComment(c) \/ Moderate(c)
       \/ \E b \in Bodies : EditComment(c, b)

Spec == Init /\ [][Next]_vars

-----------------------------------------------------------------------------

\* However calls overlap, fail and are repeated, an attempt is saved in at most
\* one row, two students share one conversation, and a student has at most one
\* active report of a target unless a moderator opened one again.
OneRowPerKey ==
  \A r, s \in Calls :
    /\ r # s /\ key[r] = key[s]
    /\ row[r] \in Committed /\ row[s] \in Committed
    => op = "report" /\ (row[r] = "gone" \/ row[s] = "gone" \/ reopened # {})

\* "You can retry this unchanged message safely": however often one text is sent
\* again after an error, it is saved once.
RetryIsSafe == Cardinality({t \in tries : row[t] \in Committed}) <= 1

\* As long as the thread is on the screen, the field is only cleared of a text
\* that was saved: neither an error nor an answer to an earlier text loses one.
TextIsNotLost ==
  [][shown' /\ draft # None /\ draft' = None =>
       \E r \in Calls : row[r] \in Committed /\ body[r] = draft]_vars

=============================================================================
