------------------------------ MODULE ChatDelivery ------------------------------
(*****************************************************************************)
(* Live delivery in one chat thread: the registry of sockets and the         *)
(* broadcast in Python/routers/chat.py, and the client that follows it:      *)
(* artifacts/peerbridge/src/lib/chat-socket.ts and hooks/use-chat-socket.ts. *)
(*                                                                           *)
(* A sender commits, then looks up the list of sockets of the thread, and a  *)
(* background task sends the message to that list after a permission check   *)
(* in a worker thread.  A client never shows what a socket brings: opening   *)
(* and every frame only make it read the history again (here in one piece,   *)
(* ChatHistory has the pages).  The dict of lists drops an empty list, so a  *)
(* task may hold a list that is not the registered one any more; such a list *)
(* stays empty.                                                              *)
(*****************************************************************************)
EXTENDS Naturals, FiniteSets

CONSTANTS Clients, Sockets, Messages, NoSocket

ASSUME NoSocketAssumption == NoSocket \notin Sockets

VARIABLES
  saved,     \* committed messages
  allowed,   \* clients with access to the thread now
  task,      \* the broadcast of each message
  listed,    \* the dict has a list for this thread
  server,    \* what the server knows of each socket
  owner,     \* the client that opened it
  wire,      \* what is on the way to the client, or closed the socket
  link,      \* state of the client's connection
  using,     \* its current socket
  fetch,     \* its history query
  loaded,    \* clients whose query has answered once
  history,   \* the messages they show
  late       \* auxiliary: <<client, message>> of access lost between the
             \* permission check and the sending

vars == <<saved, allowed, task, listed, server, owner, wire, link, using,
          fetch, loaded, history, late>>
serverVars == <<saved, allowed, task, listed, server>>
clientVars == <<link, using, fetch, loaded, history>>

\* "member": accepted and in the list; "dropped": accepted, not in the list (any
\* more); "over": the handler has ended.
ServerState == {"free", "checking", "member", "dropped", "over"}
Stage == {"none", "saved", "captured", "lost", "checking", "sending", "done"}
Ends  == {"denied", "broken"}
Task  == [stage : Stage, snapshot : SUBSET Sockets, cleared : SUBSET Sockets, code : Ends]
Wire  == {"quiet", "frame"} \cup Ends
Link  == {"offline", "waiting", "connecting", "connected"}
Fetch == {"idle", "failed", "refused", "due", "answered"}

\* Types of the server's and the clients' state.
TypeOK ==
  /\ saved \subseteq Messages
  /\ allowed \subseteq Clients
  /\ task \in [Messages -> Task]
  /\ \A m \in Messages :
       task[m].snapshot # {} <=> task[m].stage \in {"checking", "sending"}
  /\ listed \in BOOLEAN
  /\ server \in [Sockets -> ServerState]
  /\ owner \in [Sockets -> Clients]
  /\ wire \in [Sockets -> Wire]
  /\ link \in [Clients -> Link]
  /\ using \in [Clients -> Sockets \cup {NoSocket}]
  /\ fetch \in [Clients -> [state : Fetch, rows : SUBSET Messages]]
  /\ loaded \subseteq Clients
  /\ history \in [Clients -> SUBSET Messages]
  /\ late \subseteq Clients \X Messages

NoTask == [stage |-> "none", snapshot |-> {}, cleared |-> {}, code |-> "denied"]
Asked(state) == [state |-> state, rows |-> {}]
Members == {s \in Sockets : server[s] = "member"}

Init ==
  /\ saved = {} /\ allowed = Clients
  /\ task = [m \in Messages |-> NoTask]
  /\ listed = FALSE
  /\ server = [s \in Sockets |-> "free"]
  /\ owner \in [Sockets -> Clients]
  /\ wire = [s \in Sockets |-> "quiet"]
  /\ link = [c \in Clients |-> "offline"]
  /\ using = [c \in Clients |-> NoSocket]
  /\ fetch = [c \in Clients |-> Asked("due")]
  /\ loaded = {}
  /\ history = [c \in Clients |-> {}]
  /\ late = {}

-----------------------------------------------------------------------------
(* Sending and broadcasting.                                                 *)

\* send_room_message or send_dm_message by somebody with access: the commit.
Commit(m) ==
  /\ m \notin saved
  /\ saved' = saved \cup {m}
  /\ task' = [task EXCEPT ![m].stage = "saved"]
  /\ UNCHANGED <<allowed, listed, server, owner, wire, clientVars, late>>

\* room_connections.get(room_id, []): the registered list, or a new empty one.
Capture(m) ==
  /\ task[m].stage = "saved"
  /\ task' = [task EXCEPT ![m].stage = IF listed THEN "captured" ELSE "lost"]
  /\ UNCHANGED <<saved, allowed, listed, server, owner, wire, clientVars, late>>

\* _broadcast starts: the snapshot of the list.
Snapshot(m) ==
  /\ task[m].stage \in {"captured", "lost"}
  /\ task' = [task EXCEPT ![m] =
       IF task[m].stage = "captured" /\ Members # {}
       THEN [NoTask EXCEPT !.stage = "checking", !.snapshot = Members]
       ELSE [NoTask EXCEPT !.stage = "done"]]
  /\ UNCHANGED <<saved, allowed, listed, server, owner, wire, clientVars, late>>

\* Broken variant: an open socket is a permanent grant.
ClearedOnce(m) == task[m].snapshot

\* _authorized_recipients.
Cleared(m) == {s \in task[m].snapshot : owner[s] \in allowed}

\* The worker thread answers; after an exception everybody is closed with 1011.
Check(m) ==
  /\ task[m].stage = "checking"
  /\ \/ task' = [task EXCEPT ![m] = [@ EXCEPT !.stage = "sending", !.cleared = Cleared(m)]]
     \/ task' = [task EXCEPT ![m] = [@ EXCEPT !.stage = "sending", !.code = "broken"]]
  /\ UNCHANGED <<saved, allowed, listed, server, owner, wire, clientVars, late>>

\* One socket of the snapshot is served; the last one ends the task.
Served(m, s) ==
  LET rest == task[m].snapshot \ {s} IN
    task' = [task EXCEPT ![m] = IF rest = {} THEN [NoTask EXCEPT !.stage = "done"]
                                ELSE [@ EXCEPT !.snapshot = rest]]

\* send_json succeeds; the connection may be broken without anybody knowing.
Send(m, s) ==
  /\ task[m].stage = "sending"
  /\ s \in task[m].snapshot \cap task[m].cleared
  /\ server[s] = "member"
  /\ Served(m, s)
  /\ wire' = IF wire[s] = "quiet" THEN [wire EXCEPT ![s] = "frame"] ELSE wire
  /\ UNCHANGED <<saved, allowed, listed, server, owner, clientVars, late>>

\* The socket is not cleared, or sending fails or takes too long: it is taken off
\* the list and closed, and the close frame may not get through in time.
Drop(m, s) ==
  /\ task[m].stage = "sending"
  /\ s \in task[m].snapshot
  /\ Served(m, s)
  /\ server' = IF server[s] = "member" THEN [server EXCEPT ![s] = "dropped"] ELSE server
  /\ \/ /\ wire[s] \in {"quiet", "frame"}
        /\ wire' = [wire EXCEPT ![s] = IF s \in task[m].cleared THEN "broken" ELSE task[m].code]
     \/ UNCHANGED wire
  /\ UNCHANGED <<saved, allowed, listed, owner, clientVars, late>>

-----------------------------------------------------------------------------
(* The socket handlers of the server.                                        *)

\* Authorised in a worker thread, then accepted and registered.  accept() and
\* _register run without giving up the event loop in between.
Accept(s) ==
  /\ server[s] = "checking"
  /\ owner[s] \in allowed
  /\ server' = [server EXCEPT ![s] = "member"]
  /\ listed' = TRUE
  /\ UNCHANGED <<saved, allowed, task, owner, wire, clientVars, late>>

\* Closed before it was accepted: the server answers the upgrade with an HTTP
\* 403, and the browser sees an abnormal end, not the code of the close.
Refuse(s) ==
  /\ server[s] = "checking"
  /\ owner[s] \notin allowed
  /\ server' = [server EXCEPT ![s] = "over"]
  /\ wire' = [wire EXCEPT ![s] = "broken"]
  /\ UNCHANGED <<saved, allowed, task, listed, owner, clientVars, late>>

\* Broken variant: the list is dropped although other sockets are in it.
UnregisterAlone(s) ==
  /\ server[s] \in {"member", "dropped"}
  /\ wire[s] \in {"denied", "broken"}
  /\ server' = [server EXCEPT ![s] = "over"]
  /\ listed' = FALSE
  /\ task' = [m \in Messages |-> IF task[m].stage = "captured"
                                 THEN [task[m] EXCEPT !.stage = "lost"] ELSE task[m]]
  /\ UNCHANGED <<saved, allowed, owner, wire, clientVars, late>>

\* The receive loop ends and _unregister runs: an empty list leaves the dict, and
\* tasks that hold it hold a list nobody registers in any more.
Unregister(s) ==
  /\ server[s] \in {"member", "dropped"}
  /\ wire[s] \in {"denied", "broken"}
  /\ server' = [server EXCEPT ![s] = "over"]
  /\ listed' = (listed /\ Members \ {s} # {})
  /\ task' = [m \in Messages |-> IF task[m].stage = "captured" /\ ~listed'
                                 THEN [task[m] EXCEPT !.stage = "lost"] ELSE task[m]]
  /\ UNCHANGED <<saved, allowed, owner, wire, clientVars, late>>

\* The connection breaks; the gateway also ends one that has been silent.
Break(s) ==
  /\ server[s] \in {"checking", "member", "dropped"}
  /\ wire[s] \in {"quiet", "frame"}
  /\ wire' = [wire EXCEPT ![s] = "broken"]
  /\ server' = IF server[s] = "checking" THEN [server EXCEPT ![s] = "over"] ELSE server
  /\ UNCHANGED <<saved, allowed, task, listed, owner, clientVars, late>>

\* The process dies: its registry and its tasks are gone, its sockets break.
Crash ==
  /\ \E s \in Sockets : server[s] # "free"
  /\ task' = [m \in Messages |-> IF m \in saved THEN [NoTask EXCEPT !.stage = "done"]
                                 ELSE NoTask]
  /\ listed' = FALSE
  /\ server' = [s \in Sockets |-> IF server[s] = "free" THEN "free" ELSE "over"]
  /\ wire' = [s \in Sockets |-> IF server[s] # "free" /\ wire[s] # "denied"
                                THEN "broken" ELSE wire[s]]
  /\ UNCHANGED <<saved, allowed, owner, clientVars, late>>

\* A socket nobody uses any more is a new one for the next connection.
Reuse(s) ==
  /\ server[s] = "over"
  /\ \A c \in Clients : using[c] # s
  /\ \A m \in Messages : s \notin task[m].snapshot
  /\ server' = [server EXCEPT ![s] = "free"]
  /\ wire' = [wire EXCEPT ![s] = "quiet"]
  /\ UNCHANGED <<saved, allowed, task, listed, owner, clientVars, late>>

-----------------------------------------------------------------------------
(* The client.                                                               *)

\* What closing its present socket does to the wire (stop()).
HungUp(c) == IF using[c] = NoSocket \/ wire[using[c]] = "denied" THEN wire
             ELSE [wire EXCEPT ![using[c]] = "broken"]

\* First use, the tab becomes visible, the browser is online, or the backoff is
\* over: what there was is hung up and a new socket is opened.
Connect(c, s) ==
  /\ c \in loaded /\ fetch[c].state # "refused"
  /\ server[s] = "free" /\ owner[s] = c
  /\ link' = [link EXCEPT ![c] = "connecting"]
  /\ using' = [using EXCEPT ![c] = s]
  /\ server' = [x \in Sockets |-> IF x = s THEN "checking"
                                  ELSE IF x = using[c] /\ server[x] = "checking"
                                  THEN "over" ELSE server[x]]
  /\ wire' = HungUp(c)
  /\ UNCHANGED <<saved, allowed, task, listed, owner, fetch, loaded, history, late>>

\* Broken variant: the thread is read when the widget opens, not per connection.
OpenUnsynced(c) ==
  /\ link[c] = "connecting" /\ server[using[c]] \in {"member", "dropped"}
  /\ link' = [link EXCEPT ![c] = "connected"]
  /\ UNCHANGED <<serverVars, owner, wire, using, fetch, loaded, history, late>>

\* onopen: invalidateQueries cancels a running read and starts another.
Open(c) ==
  /\ link[c] = "connecting" /\ server[using[c]] \in {"member", "dropped"}
  /\ link' = [link EXCEPT ![c] = "connected"]
  /\ fetch' = [fetch EXCEPT ![c] = Asked("due")]
  /\ UNCHANGED <<serverVars, owner, wire, using, loaded, history, late>>

\* onmessage does the same.
Frame(c) ==
  /\ link[c] = "connected" /\ wire[using[c]] = "frame"
  /\ wire' = [wire EXCEPT ![using[c]] = "quiet"]
  /\ fetch' = [fetch EXCEPT ![c] = Asked("due")]
  /\ UNCHANGED <<serverVars, owner, link, using, loaded, history, late>>

\* onclose: 1008, 4401 and 4403 are final, anything else is tried again.
Closed(c) ==
  /\ using[c] # NoSocket /\ wire[using[c]] \in {"denied", "broken"}
  /\ link' = [link EXCEPT ![c] = IF wire[using[c]] = "denied" THEN "offline" ELSE "waiting"]
  /\ using' = [using EXCEPT ![c] = NoSocket]
  /\ UNCHANGED <<serverVars, owner, wire, fetch, loaded, history, late>>

\* The history request is answered by the database or lost.
Read(c) ==
  /\ fetch[c].state = "due"
  /\ \/ c \in allowed /\ fetch' = [fetch EXCEPT ![c] = [state |-> "answered", rows |-> saved]]
     \/ fetch' = [fetch EXCEPT ![c] = Asked("failed")]
  /\ UNCHANGED <<serverVars, owner, wire, link, using, loaded, history, late>>

\* 401, 403 or 404: the hook is disabled and hangs up.
ReadRefused(c) ==
  /\ fetch[c].state = "due"
  /\ c \notin allowed
  /\ fetch' = [fetch EXCEPT ![c] = Asked("refused")]
  /\ link' = [link EXCEPT ![c] = "offline"]
  /\ using' = [using EXCEPT ![c] = NoSocket]
  /\ wire' = HungUp(c)
  /\ server' = [x \in Sockets |-> IF x = using[c] /\ server[x] = "checking"
                                  THEN "over" ELSE server[x]]
  /\ UNCHANGED <<saved, allowed, task, listed, owner, loaded, history, late>>

Show(c) ==
  /\ fetch[c].state = "answered"
  /\ history' = [history EXCEPT ![c] = fetch[c].rows]
  /\ loaded' = loaded \cup {c}
  /\ fetch' = [fetch EXCEPT ![c] = Asked("idle")]
  /\ UNCHANGED <<serverVars, owner, wire, link, using, late>>

\* refetchInterval, the repair poll, or a refetch when the window has focus.
Poll(c) ==
  /\ fetch[c].state \in {"idle", "failed", "refused"}
  /\ fetch' = [fetch EXCEPT ![c] = Asked("due")]
  /\ UNCHANGED <<serverVars, owner, wire, link, using, loaded, history, late>>

-----------------------------------------------------------------------------
(* Access changes: a block, another district, a lost verification.           *)

Revoke(c) ==
  /\ c \in allowed
  /\ allowed' = allowed \ {c}
  /\ late' = late \cup {<<c, m>> : m \in {x \in Messages : task[x].stage = "sending"}}
  /\ UNCHANGED <<saved, task, listed, server, owner, wire, clientVars>>

Grant(c) ==
  /\ c \notin allowed
  /\ allowed' = allowed \cup {c}
  /\ UNCHANGED <<saved, task, listed, server, owner, wire, clientVars, late>>

Next ==
  \/ \E m \in Messages : Commit(m) \/ Capture(m) \/ Snapshot(m) \/ Check(m)
  \/ \E m \in Messages, s \in Sockets : Send(m, s) \/ Drop(m, s)
  \/ \E s \in Sockets : Accept(s) \/ Refuse(s) \/ Unregister(s) \/ Break(s) \/ Reuse(s)
  \/ Crash
  \/ \E c \in Clients, s \in Sockets : Connect(c, s)
  \/ \E c \in Clients : Open(c) \/ Frame(c) \/ Closed(c) \/ Poll(c)
  \/ \E c \in Clients : Read(c) \/ ReadRefused(c) \/ Show(c)
  \/ \E c \in Clients : Revoke(c) \/ Grant(c)

Spec == Init /\ [][Next]_vars

-----------------------------------------------------------------------------
(* Properties.                                                               *)

\* A client that shows "Live" and is at rest (nothing on its wire, its read done,
\* still on the list) shows every message whose broadcast is over, although
\* messages are saved, lists change and sockets open at any moment in between.
LiveMeansCurrent ==
  \A c \in Clients :
    /\ link[c] = "connected" /\ server[using[c]] = "member"
    /\ wire[using[c]] = "quiet" /\ fetch[c].state = "idle"
    => \A m \in saved : task[m].stage = "done" => m \in history[c]

\* No frame goes to a client without access, unless the access was lost after the
\* recipients of this very message had been checked.
FramesNeedAccess ==
  [][\A s \in Sockets, m \in Messages :
       Send(m, s) => owner[s] \in allowed \/ <<owner[s], m>> \in late]_vars

=============================================================================
