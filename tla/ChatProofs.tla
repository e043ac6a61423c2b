------------------------------ MODULE ChatProofs ------------------------------
(*****************************************************************************)
(* Proofs about ChatDelivery and ChatHistory, for any number of clients,     *)
(* sockets and messages, and any size of a page: a client that says "Live"   *)
(* shows everything, frames need access, and the window of a thread has no   *)
(* hole.                                                                     *)
(*****************************************************************************)
EXTENDS ChatDelivery, ChatHistory, FiniteSetTheorems, WellFoundedInduction, TLAPS

-----------------------------------------------------------------------------
(* Live delivery.                                                            *)

\* A client uses its own sockets.
OwnSockets ==
  /\ \A c \in Clients : using[c] # NoSocket => owner[using[c]] = c
  /\ \A c \in Clients : link[c] \in {"connecting", "connected"} => using[c] # NoSocket

\* A connection that is open was accepted.
OpenIsAccepted ==
  \A c \in Clients : link[c] = "connected" => server[using[c]] \in {"member", "dropped", "over"}

\* A socket in the list is in the registered list.
MembersAreListed == Members # {} => listed

\* Whom a broadcast may still be sent to.
ClearedHaveAccess ==
  \A m \in Messages : \A s \in task[m].cleared :
    /\ task[m].stage = "sending"
    /\ owner[s] \in allowed \/ <<owner[s], m>> \in late

\* The broadcast of m will still come to s, if s stays in the list.
Coming(m, s) == task[m].stage \in {"saved", "captured"} \/ s \in task[m].snapshot

\* The client would say that it knows everything, and does not know m.
Misses(c, m) ==
  /\ link[c] = "connected" /\ server[using[c]] = "member" /\ wire[using[c]] = "quiet"
  /\ \/ fetch[c].state = "idle" /\ m \notin history[c]
     \/ fetch[c].state = "answered" /\ m \notin fetch[c].rows

\* A message that is not committed has no broadcast.
UnsavedIsIdle == \A m \in Messages : m \notin saved => task[m].stage = "none"

\* What such a client misses is on its way.
MissedIsComing ==
  \A c \in Clients : \A m \in saved : Misses(c, m) => Coming(m, using[c])

\* The inductive invariant.
DeliveryInv ==
  /\ TypeOK /\ OwnSockets /\ OpenIsAccepted /\ MembersAreListed
  /\ ClearedHaveAccess /\ UnsavedIsIdle /\ MissedIsComing

LEMMA InitDelivery == Init => DeliveryInv
<1> SUFFICES ASSUME Init PROVE DeliveryInv
  OBVIOUS
<1>1. TypeOK
  BY DEF Init, TypeOK, NoTask, Asked, Task, Stage, Ends, ServerState, Wire, Link, Fetch
<1>2. OwnSockets /\ OpenIsAccepted
  BY DEF Init, OwnSockets, OpenIsAccepted
<1>3. MembersAreListed /\ ClearedHaveAccess /\ UnsavedIsIdle /\ MissedIsComing
  BY DEF Init, MembersAreListed, Members, ClearedHaveAccess, UnsavedIsIdle, NoTask,
         MissedIsComing
<1> QED BY <1>1, <1>2, <1>3 DEF DeliveryInv

\* One task changes to something that is a task.
LEMMA TaskTyped ==
  ASSUME TypeOK, NEW m \in Messages, NEW t \in Task, task' = [task EXCEPT ![m] = t],
         t.snapshot # {} <=> t.stage \in {"checking", "sending"}
  PROVE  /\ task' \in [Messages -> Task]
         /\ \A n \in Messages :
              task'[n].snapshot # {} <=> task'[n].stage \in {"checking", "sending"}
BY DEF TypeOK

\* What the last socket, or one of more, leaves of a task.
Rest(m, s) ==
  IF task[m].snapshot \ {s} = {} THEN [NoTask EXCEPT !.stage = "done"]
  ELSE [task[m] EXCEPT !.snapshot = @ \ {s}]

LEMMA ServedTyped ==
  ASSUME TypeOK, NEW m \in Messages, NEW s \in Sockets, task[m].stage = "sending", Served(m, s)
  PROVE  /\ task' = [task EXCEPT ![m] = Rest(m, s)]
         /\ Rest(m, s) \in Task
         /\ task' \in [Messages -> Task]
         /\ \A n \in Messages :
              task'[n].snapshot # {} <=> task'[n].stage \in {"checking", "sending"}
<1>1. task[m] \in Task
  BY DEF TypeOK
<1>2. task' = [task EXCEPT ![m] = Rest(m, s)]
  BY <1>1 DEF Served, Rest, TypeOK, Task
<1>3. /\ Rest(m, s) \in Task
      /\ Rest(m, s).snapshot # {} <=> Rest(m, s).stage \in {"checking", "sending"}
  BY <1>1 DEF Rest, NoTask, Task, Stage, Ends
<1> QED BY <1>2, <1>3, TaskTyped

-----------------------------------------------------------------------------
(* The steps of a broadcast.                                                 *)

\* What the steps that leave sockets and clients alone have to show.
LEMMA TaskMoves ==
  ASSUME DeliveryInv, UNCHANGED <<allowed, server, owner, wire, clientVars, late>>,
         TypeOK', Members # {} => listed',
         ClearedHaveAccess', UnsavedIsIdle',
         \A c \in Clients : \A m \in saved' : (Misses(c, m) => Coming(m, using[c]))'
  PROVE  DeliveryInv'
<1>1. OwnSockets' /\ OpenIsAccepted'
  BY DEF DeliveryInv, OwnSockets, OpenIsAccepted, clientVars
<1>2. MembersAreListed'
  BY DEF MembersAreListed, Members
<1>3. MissedIsComing'
  BY DEF MissedIsComing, Misses, clientVars
<1> QED BY <1>1, <1>2, <1>3 DEF DeliveryInv

LEMMA CommitInv == ASSUME DeliveryInv, NEW m \in Messages, Commit(m) PROVE DeliveryInv'
<1> DEFINE t == [task[m] EXCEPT !.stage = "saved"]
<1>1. task[m] \in Task /\ task[m].stage = "none"
  BY DEF DeliveryInv, TypeOK, Commit, UnsavedIsIdle
<1>2. task' = [task EXCEPT ![m] = t]
  BY DEF Commit
<1>3. t \in Task /\ t.stage = "saved" /\ t.snapshot = task[m].snapshot /\ t.cleared = task[m].cleared
  BY <1>1 DEF Task, Stage
<1>4. t.snapshot = {} /\ t.cleared = {}
  BY <1>1, <1>3 DEF DeliveryInv, TypeOK, ClearedHaveAccess
<1>5. /\ task'[m] = t
      /\ \A n \in Messages : n # m => task'[n] = task[n]
  BY <1>2 DEF DeliveryInv, TypeOK
<1> HIDE DEF t
<1>6. TypeOK'
  <2>1. /\ task' \in [Messages -> Task]
        /\ \A n \in Messages :
             task'[n].snapshot # {} <=> task'[n].stage \in {"checking", "sending"}
    BY <1>2, <1>3, <1>4, TaskTyped DEF DeliveryInv
  <2> QED BY <2>1 DEF DeliveryInv, TypeOK, Commit, clientVars
<1>7. ClearedHaveAccess' /\ UnsavedIsIdle'
  BY <1>3, <1>4, <1>5 DEF DeliveryInv, ClearedHaveAccess, UnsavedIsIdle, Commit
<1>8. ASSUME NEW c \in Clients, NEW n \in saved', Misses(c, n)' PROVE Coming(n, using[c])'
  <2>1. Misses(c, n)
    BY <1>8 DEF Misses, Commit, clientVars
  <2>2. n \in Messages
    BY <1>8 DEF DeliveryInv, TypeOK, Commit
  <2> QED BY <1>3, <1>5, <1>8, <2>1, <2>2 DEF DeliveryInv, MissedIsComing, Coming, Commit, clientVars
<1> QED BY <1>6, <1>7, <1>8, TaskMoves DEF Commit, DeliveryInv, MembersAreListed

\* One broadcast moves on and keeps the sockets of the list it was coming to.
LEMMA OneTaskMoves ==
  ASSUME DeliveryInv, NEW m \in Messages, NEW t \in Task,
         task' = [task EXCEPT ![m] = t],
         UNCHANGED <<saved, listed, allowed, server, owner, wire, clientVars, late>>,
         task[m].stage # "none",
         t.snapshot # {} <=> t.stage \in {"checking", "sending"},
         \A s \in t.cleared : t.stage = "sending" /\ owner[s] \in allowed,
         \A s \in Members : Coming(m, s) => t.stage \in {"saved", "captured"} \/ s \in t.snapshot
  PROVE  DeliveryInv'
<1>1. task'[m] = t /\ \A n \in Messages : n # m => task'[n] = task[n]
  BY DEF DeliveryInv, TypeOK
<1>2. TypeOK'
  <2>1. /\ task' \in [Messages -> Task]
        /\ \A n \in Messages :
             task'[n].snapshot # {} <=> task'[n].stage \in {"checking", "sending"}
    BY TaskTyped DEF DeliveryInv
  <2> QED BY <2>1 DEF DeliveryInv, TypeOK, clientVars
<1>3. ClearedHaveAccess' /\ UnsavedIsIdle'
  BY <1>1 DEF DeliveryInv, ClearedHaveAccess, UnsavedIsIdle
<1>4. ASSUME NEW c \in Clients, NEW n \in saved', Misses(c, n)' PROVE Coming(n, using[c])'
  <2>1. Misses(c, n) /\ n \in saved /\ n \in Messages /\ Coming(n, using[c])
    BY <1>4 DEF DeliveryInv, TypeOK, MissedIsComing, Misses, clientVars
  <2>2. using[c] \in Members
    BY <2>1 DEF Misses, Members, DeliveryInv, TypeOK, OwnSockets
  <2> QED BY <1>1, <2>1, <2>2 DEF Coming, clientVars
<1> QED BY <1>2, <1>3, <1>4, TaskMoves DEF DeliveryInv, MembersAreListed

LEMMA CaptureInv == ASSUME DeliveryInv, NEW m \in Messages, Capture(m) PROVE DeliveryInv'
<1> DEFINE t == [task[m] EXCEPT !.stage = IF listed THEN "captured" ELSE "lost"]
<1>1. task[m] \in Task /\ task[m].stage = "saved" /\ task' = [task EXCEPT ![m] = t]
  BY DEF DeliveryInv, TypeOK, Capture
<1>2. /\ t \in Task /\ t.snapshot = task[m].snapshot /\ t.cleared = task[m].cleared
      /\ t.stage = IF listed THEN "captured" ELSE "lost"
  BY <1>1 DEF Task, Stage
<1>3. t.snapshot = {} /\ t.cleared = {}
  BY <1>1, <1>2 DEF DeliveryInv, TypeOK, ClearedHaveAccess
<1>4. \A s \in Members : t.stage = "captured"
  BY <1>2 DEF DeliveryInv, MembersAreListed
<1> HIDE DEF t
<1> QED BY <1>1, <1>2, <1>3, <1>4, OneTaskMoves DEF Capture

LEMMA SnapshotInv == ASSUME DeliveryInv, NEW m \in Messages, Snapshot(m) PROVE DeliveryInv'
<1> DEFINE t == IF task[m].stage = "captured" /\ Members # {}
                THEN [NoTask EXCEPT !.stage = "checking", !.snapshot = Members]
                ELSE [NoTask EXCEPT !.stage = "done"]
<1>1. task' = [task EXCEPT ![m] = t] /\ task[m].stage \in {"captured", "lost"}
  BY DEF Snapshot
<1>2. CASE task[m].stage = "captured" /\ Members # {}
  <2>1. t = [stage |-> "checking", snapshot |-> Members, cleared |-> {}, code |-> "denied"]
    BY <1>2 DEF NoTask
  <2>2. t \in Task
    BY <2>1 DEF Task, Stage, Ends, Members
  <2> HIDE DEF t
  <2> QED BY <1>1, <1>2, <2>1, <2>2, OneTaskMoves DEF Snapshot
<1>3. CASE ~(task[m].stage = "captured" /\ Members # {})
  <2>1. t = [stage |-> "done", snapshot |-> {}, cleared |-> {}, code |-> "denied"]
    BY <1>3 DEF NoTask
  <2>2. t \in Task
    BY <2>1 DEF Task, Stage, Ends
  <2>3. task[m].snapshot = {}
    BY <1>1 DEF DeliveryInv, TypeOK
  <2> HIDE DEF t
  <2> QED BY <1>1, <1>3, <2>1, <2>2, <2>3, OneTaskMoves DEF Snapshot, Coming
<1> QED BY <1>2, <1>3

LEMMA CheckInv == ASSUME DeliveryInv, NEW m \in Messages, Check(m) PROVE DeliveryInv'
<1>1. /\ task[m] \in Task /\ task[m].stage = "checking"
      /\ task[m].snapshot # {} /\ task[m].cleared = {}
  BY DEF DeliveryInv, TypeOK, ClearedHaveAccess, Check
<1>2. CASE task' = [task EXCEPT ![m] = [@ EXCEPT !.stage = "sending", !.cleared = Cleared(m)]]
  <2> DEFINE t == [task[m] EXCEPT !.stage = "sending", !.cleared = Cleared(m)]
  <2>1. task' = [task EXCEPT ![m] = t]
    BY <1>2
  <2>2. /\ t.stage = "sending" /\ t.snapshot = task[m].snapshot
        /\ t.cleared = Cleared(m) /\ t \in Task
    BY <1>1 DEF Task, Stage, Cleared
  <2> HIDE DEF t
  <2> QED BY <1>1, <2>1, <2>2, OneTaskMoves DEF Check, Cleared, Coming
<1>3. CASE task' = [task EXCEPT ![m] = [@ EXCEPT !.stage = "sending", !.code = "broken"]]
  <2> DEFINE t == [task[m] EXCEPT !.stage = "sending", !.code = "broken"]
  <2>1. task' = [task EXCEPT ![m] = t]
    BY <1>3
  <2>2. /\ t.stage = "sending" /\ t.snapshot = task[m].snapshot
        /\ t.cleared = {} /\ t \in Task
    BY <1>1 DEF Task, Stage, Ends
  <2> HIDE DEF t
  <2> QED BY <1>1, <2>1, <2>2, OneTaskMoves DEF Check, Coming
<1> QED BY <1>2, <1>3 DEF Check

-----------------------------------------------------------------------------
(* Sockets are served, come and go.                                          *)

\* A socket the client uses is a socket, and nobody else's.
LEMMA UsedSocket ==
  ASSUME DeliveryInv, NEW c \in Clients, using[c] # NoSocket
  PROVE  using[c] \in Sockets /\ \A d \in Clients : using[d] = using[c] => d = c
BY DEF DeliveryInv, TypeOK, OwnSockets

\* What is served is a rest of the same broadcast.
LEMMA RestClears ==
  ASSUME DeliveryInv, NEW m \in Messages, NEW s \in Sockets, task[m].stage = "sending",
         Served(m, s), UNCHANGED <<allowed, owner, late>>
  PROVE  /\ ClearedHaveAccess'
         /\ \A n \in Messages : task[n].stage = "none" <=> task'[n].stage = "none"
         /\ \A n \in Messages, x \in Sockets : Coming(n, x) => Coming(n, x)' \/ (n = m /\ x = s)
<1>1. /\ task[m] \in Task
      /\ task'[m] = Rest(m, s) /\ \A n \in Messages : n # m => task'[n] = task[n]
  BY ServedTyped DEF DeliveryInv, TypeOK
<1>2. CASE task[m].snapshot \ {s} = {}
  <2>1. task'[m] = [stage |-> "done", snapshot |-> {}, cleared |-> {}, code |-> "denied"]
    BY <1>1, <1>2 DEF Rest, NoTask
  <2> QED BY <1>1, <1>2, <2>1 DEF DeliveryInv, ClearedHaveAccess, Coming
<1>3. CASE task[m].snapshot \ {s} # {}
  <2>1. /\ task'[m].stage = "sending" /\ task'[m].cleared = task[m].cleared
        /\ task'[m].snapshot = task[m].snapshot \ {s}
    BY <1>1, <1>3 DEF Rest, Task
  <2> QED BY <1>1, <2>1 DEF DeliveryInv, ClearedHaveAccess, Coming
<1> QED BY <1>2, <1>3

LEMMA SendInv ==
  ASSUME DeliveryInv, NEW m \in Messages, NEW s \in Sockets, Send(m, s)
  PROVE  DeliveryInv'
<1>1. /\ task[m].stage = "sending" /\ Served(m, s)
      /\ wire' = IF wire[s] = "quiet" THEN [wire EXCEPT ![s] = "frame"] ELSE wire
      /\ UNCHANGED <<saved, allowed, listed, server, owner, clientVars, late>>
  BY DEF Send
<1>2. TypeOK'
  BY <1>1, ServedTyped DEF DeliveryInv, TypeOK, Wire, clientVars
<1>3. OwnSockets' /\ OpenIsAccepted' /\ MembersAreListed'
  BY <1>1 DEF DeliveryInv, OwnSockets, OpenIsAccepted, MembersAreListed, Members, clientVars
<1>4. ClearedHaveAccess' /\ UnsavedIsIdle'
  BY <1>1, RestClears DEF DeliveryInv, UnsavedIsIdle
<1>5. ASSUME NEW c \in Clients, NEW n \in saved', Misses(c, n)' PROVE Coming(n, using[c])'
  <2>1. /\ using[c] \in Sockets /\ using'[c] = using[c] /\ n \in Messages
    BY <1>1, <1>5, UsedSocket DEF Misses, OwnSockets, DeliveryInv, TypeOK, clientVars
  <2>2. using[c] # s /\ wire[using[c]] = "quiet"
    BY <1>1, <1>5, <2>1 DEF Misses, DeliveryInv, TypeOK
  <2>3. Misses(c, n)
    BY <1>1, <1>5, <2>1, <2>2 DEF Misses, clientVars
  <2>4. Coming(n, using[c])
    BY <1>1, <1>5, <2>3 DEF DeliveryInv, MissedIsComing
  <2> QED BY <1>1, <2>1, <2>2, <2>4, RestClears
<1> QED BY <1>2, <1>3, <1>4, <1>5 DEF DeliveryInv, MissedIsComing

LEMMA DropInv ==
  ASSUME DeliveryInv, NEW m \in Messages, NEW s \in Sockets, Drop(m, s)
  PROVE  DeliveryInv'
<1>1. /\ task[m].stage = "sending" /\ Served(m, s)
      /\ server' = IF server[s] = "member" THEN [server EXCEPT ![s] = "dropped"] ELSE server
      /\ UNCHANGED <<saved, allowed, listed, owner, clientVars, late>>
  BY DEF Drop
<1>2. /\ wire' \in [Sockets -> Wire]
      /\ \A x \in Sockets : x # s => wire'[x] = wire[x]
  <2>1. task[m].code \in Wire /\ "broken" \in Wire
    BY DEF DeliveryInv, TypeOK, Task, Wire, Ends
  <2> QED BY <2>1 DEF Drop, DeliveryInv, TypeOK
<1>3. /\ server' \in [Sockets -> ServerState] /\ server'[s] # "member"
      /\ \A x \in Sockets : server'[x] = server[x] \/ (server[x] = "member" /\ server'[x] = "dropped")
  BY <1>1 DEF DeliveryInv, TypeOK, ServerState
<1>4. TypeOK'
  BY <1>1, <1>2, <1>3, ServedTyped DEF DeliveryInv, TypeOK, clientVars
<1>5. OwnSockets' /\ MembersAreListed'
  BY <1>1, <1>3 DEF DeliveryInv, OwnSockets, MembersAreListed, Members, clientVars
<1>6. OpenIsAccepted'
  BY <1>1, <1>3, UsedSocket DEF DeliveryInv, OwnSockets, OpenIsAccepted, clientVars
<1>7. ClearedHaveAccess' /\ UnsavedIsIdle'
  BY <1>1, RestClears DEF DeliveryInv, UnsavedIsIdle
<1>8. ASSUME NEW c \in Clients, NEW n \in saved', Misses(c, n)' PROVE Coming(n, using[c])'
  <2>1. /\ using[c] \in Sockets /\ using'[c] = using[c] /\ n \in Messages
    BY <1>1, <1>8, UsedSocket DEF Misses, OwnSockets, DeliveryInv, TypeOK, clientVars
  <2>2. using[c] # s /\ server[using[c]] = "member"
    BY <1>3, <1>8, <2>1 DEF Misses
  <2>3. Misses(c, n)
    BY <1>1, <1>2, <1>8, <2>1, <2>2 DEF Misses, clientVars
  <2>4. Coming(n, using[c])
    BY <1>1, <1>8, <2>3 DEF DeliveryInv, MissedIsComing
  <2> QED BY <1>1, <2>1, <2>2, <2>4, RestClears
<1> QED BY <1>4, <1>5, <1>6, <1>7, <1>8 DEF DeliveryInv, MissedIsComing

\* Steps that leave messages, broadcasts and access alone.
LEMMA TasksStay ==
  ASSUME DeliveryInv, UNCHANGED <<saved, task, allowed, owner, late>>,
         TypeOK', OwnSockets', OpenIsAccepted', MembersAreListed',
         \A c \in Clients, n \in saved :
           Misses(c, n)' => Misses(c, n) /\ using'[c] = using[c]
  PROVE  DeliveryInv'
<1>1. ClearedHaveAccess' /\ UnsavedIsIdle'
  BY DEF DeliveryInv, ClearedHaveAccess, UnsavedIsIdle
<1>2. MissedIsComing'
  BY DEF DeliveryInv, MissedIsComing, Coming
<1> QED BY <1>1, <1>2 DEF DeliveryInv

LEMMA AcceptInv == ASSUME DeliveryInv, NEW s \in Sockets, Accept(s) PROVE DeliveryInv'
<1>1. /\ server[s] = "checking" /\ server' = [server EXCEPT ![s] = "member"] /\ listed'
      /\ UNCHANGED <<saved, allowed, task, owner, wire, clientVars, late>>
  BY DEF Accept
<1>2. server'[s] = "member" /\ \A x \in Sockets : x # s => server'[x] = server[x]
  BY <1>1 DEF DeliveryInv, TypeOK
<1>3. TypeOK' /\ OwnSockets' /\ MembersAreListed'
  BY <1>1 DEF Accept, DeliveryInv, TypeOK, OwnSockets, MembersAreListed, ServerState, clientVars
<1>4. OpenIsAccepted'
  BY <1>1, <1>2, UsedSocket DEF DeliveryInv, OwnSockets, OpenIsAccepted, clientVars
<1>5. ASSUME NEW c \in Clients, NEW n \in saved, Misses(c, n)'
      PROVE  Misses(c, n) /\ using'[c] = using[c]
  <2>1. using'[c] = using[c] /\ using[c] \in Sockets
    BY <1>1, <1>5, UsedSocket DEF Misses, OwnSockets, DeliveryInv, clientVars
  <2>2. using[c] # s
    BY <1>1, <1>5 DEF Misses, OpenIsAccepted, DeliveryInv, clientVars
  <2> QED BY <1>1, <1>2, <1>5, <2>1, <2>2 DEF Misses, clientVars
<1> QED BY <1>1, <1>3, <1>4, <1>5, TasksStay

\* Refuse and Break: a socket whose end is on the wire.
LEMMA SocketEnds ==
  ASSUME DeliveryInv, NEW s \in Sockets, NEW e \in Ends,
         wire' = [wire EXCEPT ![s] = e],
         \/ server' = [server EXCEPT ![s] = "over"] /\ server[s] = "checking"
         \/ server' = server,
         UNCHANGED <<saved, allowed, task, listed, owner, clientVars, late>>
  PROVE  DeliveryInv'
<1>1. /\ wire'[s] = e /\ \A x \in Sockets : x # s => wire'[x] = wire[x]
      /\ \A x \in Sockets : server'[x] = server[x] \/ server'[x] = "over"
  BY DEF DeliveryInv, TypeOK
<1>2. TypeOK'
  BY DEF DeliveryInv, TypeOK, ServerState, Wire, clientVars
<1>3. OwnSockets' /\ MembersAreListed'
  BY <1>1 DEF DeliveryInv, OwnSockets, MembersAreListed, Members, clientVars
<1>4. OpenIsAccepted'
  BY <1>1, UsedSocket DEF DeliveryInv, OwnSockets, OpenIsAccepted, clientVars
<1>5. ASSUME NEW c \in Clients, NEW n \in saved, Misses(c, n)'
      PROVE  Misses(c, n) /\ using'[c] = using[c]
  <2>1. using'[c] = using[c] /\ using[c] \in Sockets
    BY <1>5, UsedSocket DEF Misses, OwnSockets, DeliveryInv, clientVars
  <2> QED BY <1>1, <1>5, <2>1 DEF Misses, clientVars, Ends
<1> QED BY <1>2, <1>3, <1>4, <1>5, TasksStay

LEMMA RefuseInv == ASSUME DeliveryInv, NEW s \in Sockets, Refuse(s) PROVE DeliveryInv'
BY SocketEnds DEF Refuse, Ends

LEMMA BreakInv == ASSUME DeliveryInv, NEW s \in Sockets, Break(s) PROVE DeliveryInv'
BY SocketEnds DEF Break, Ends

\* The list that is given up was empty, so nobody waits for what was lost.
LEMMA UnregisterInv == ASSUME DeliveryInv, NEW s \in Sockets, Unregister(s) PROVE DeliveryInv'
<1>1. /\ server' = [server EXCEPT ![s] = "over"]
      /\ listed' = (listed /\ Members \ {s} # {})
      /\ task' = [m \in Messages |-> IF task[m].stage = "captured" /\ ~listed'
                                     THEN [task[m] EXCEPT !.stage = "lost"] ELSE task[m]]
      /\ UNCHANGED <<saved, allowed, owner, wire, clientVars, late>>
  BY DEF Unregister
<1>2. server'[s] = "over" /\ \A x \in Sockets : x # s => server'[x] = server[x]
  BY <1>1 DEF DeliveryInv, TypeOK
<1>3. Members' = Members \ {s}
  BY <1>2 DEF Members
<1>4. ASSUME NEW m \in Messages
      PROVE  /\ task'[m] \in Task
             /\ task'[m].snapshot = task[m].snapshot /\ task'[m].cleared = task[m].cleared
             /\ \/ task'[m].stage = task[m].stage
                \/ task[m].stage = "captured" /\ task'[m].stage = "lost" /\ ~listed'
  BY <1>1 DEF DeliveryInv, TypeOK, Task, Stage
<1>5. TypeOK'
  <2>1. task' \in [Messages -> Task]
    BY <1>1, <1>4
  <2>2. \A m \in Messages :
          task'[m].snapshot # {} <=> task'[m].stage \in {"checking", "sending"}
    BY <1>4 DEF DeliveryInv, TypeOK
  <2>3. listed' \in BOOLEAN /\ server' \in [Sockets -> ServerState]
    BY <1>1 DEF DeliveryInv, TypeOK, ServerState
  <2> QED BY <1>1, <2>1, <2>2, <2>3 DEF DeliveryInv, TypeOK, clientVars
<1>6. OwnSockets' /\ MembersAreListed'
  BY <1>1, <1>3 DEF DeliveryInv, OwnSockets, MembersAreListed, clientVars
<1>7. OpenIsAccepted'
  BY <1>1, <1>2, UsedSocket DEF DeliveryInv, OwnSockets, OpenIsAccepted, clientVars
<1>8. ClearedHaveAccess' /\ UnsavedIsIdle'
  BY <1>1, <1>4 DEF DeliveryInv, ClearedHaveAccess, UnsavedIsIdle
<1>9. ASSUME NEW c \in Clients, NEW n \in saved', Misses(c, n)' PROVE Coming(n, using[c])'
  <2>1. /\ using[c] \in Sockets /\ using'[c] = using[c] /\ n \in Messages
    BY <1>1, <1>9, UsedSocket DEF Misses, OwnSockets, DeliveryInv, TypeOK, clientVars
  <2>2. using[c] # s /\ server[using[c]] = "member"
    BY <1>2, <1>9, <2>1 DEF Misses
  <2>3. Coming(n, using[c])
    BY <1>1, <1>9, <2>1, <2>2 DEF Misses, DeliveryInv, MissedIsComing, clientVars
  <2>4. listed'
    BY <1>1, <2>1, <2>2 DEF DeliveryInv, MembersAreListed, Members
  <2> QED BY <1>4, <2>1, <2>3, <2>4 DEF Coming
<1> QED BY <1>5, <1>6, <1>7, <1>8, <1>9 DEF DeliveryInv, MissedIsComing

\* After a crash no socket is in the list.
LEMMA CrashInv == ASSUME DeliveryInv, Crash PROVE DeliveryInv'
<1>1. /\ task' = [m \in Messages |-> IF m \in saved THEN [NoTask EXCEPT !.stage = "done"]
                                     ELSE NoTask]
      /\ listed' = FALSE
      /\ server' = [s \in Sockets |-> IF server[s] = "free" THEN "free" ELSE "over"]
      /\ wire' = [s \in Sockets |-> IF server[s] # "free" /\ wire[s] # "denied"
                                    THEN "broken" ELSE wire[s]]
      /\ UNCHANGED <<saved, allowed, owner, clientVars, late>>
  BY DEF Crash
<1>2. ASSUME NEW m \in Messages
      PROVE  /\ task'[m] \in Task /\ task'[m].snapshot = {} /\ task'[m].cleared = {}
             /\ task'[m].stage = IF m \in saved THEN "done" ELSE "none"
  BY <1>1 DEF NoTask, Task, Stage, Ends
<1>3. \A s \in Sockets : server'[s] = IF server[s] = "free" THEN "free" ELSE "over"
  BY <1>1
<1>4. TypeOK'
  <2>1. task' \in [Messages -> Task]
    BY <1>1, <1>2
  <2>2. server' \in [Sockets -> ServerState] /\ wire' \in [Sockets -> Wire]
    BY <1>1 DEF DeliveryInv, TypeOK, ServerState, Wire, Ends
  <2>3. \A m \in Messages :
          task'[m].snapshot # {} <=> task'[m].stage \in {"checking", "sending"}
    BY <1>2
  <2>4. UNCHANGED <<saved, allowed, owner, link, using, fetch, loaded, history, late>>
        /\ listed' \in BOOLEAN
    BY <1>1 DEF clientVars
  <2> QED BY <2>1, <2>2, <2>3, <2>4 DEF DeliveryInv, TypeOK
<1>5. OwnSockets' /\ ClearedHaveAccess' /\ UnsavedIsIdle'
  BY <1>1, <1>2 DEF DeliveryInv, OwnSockets, ClearedHaveAccess, UnsavedIsIdle, clientVars
<1>6. MembersAreListed'
  BY <1>3 DEF MembersAreListed, Members
<1>7. OpenIsAccepted'
  BY <1>1, <1>3, UsedSocket DEF DeliveryInv, OwnSockets, OpenIsAccepted, clientVars
<1>8. ASSUME NEW c \in Clients, NEW n \in saved', Misses(c, n)' PROVE FALSE
  BY <1>1, <1>3, <1>8, UsedSocket DEF Misses, OwnSockets, DeliveryInv, clientVars
<1> QED BY <1>4, <1>5, <1>6, <1>7, <1>8 DEF DeliveryInv, MissedIsComing

LEMMA ReuseInv == ASSUME DeliveryInv, NEW s \in Sockets, Reuse(s) PROVE DeliveryInv'
<1>1. /\ \A c \in Clients : using[c] # s
      /\ server' = [server EXCEPT ![s] = "free"] /\ wire' = [wire EXCEPT ![s] = "quiet"]
      /\ UNCHANGED <<saved, allowed, task, listed, owner, clientVars, late>>
  BY DEF Reuse
<1>2. /\ \A x \in Sockets : x # s => server'[x] = server[x] /\ wire'[x] = wire[x]
      /\ server'[s] = "free"
  BY <1>1 DEF DeliveryInv, TypeOK
<1>3. TypeOK'
  BY <1>1 DEF DeliveryInv, TypeOK, ServerState, Wire, clientVars
<1>4. OwnSockets' /\ MembersAreListed'
  BY <1>1, <1>2 DEF DeliveryInv, OwnSockets, MembersAreListed, Members, clientVars
<1>5. OpenIsAccepted'
  BY <1>1, <1>2, UsedSocket DEF DeliveryInv, OwnSockets, OpenIsAccepted, clientVars
<1>6. ASSUME NEW c \in Clients, NEW n \in saved, Misses(c, n)'
      PROVE  Misses(c, n) /\ using'[c] = using[c]
  <2>1. using'[c] = using[c] /\ using[c] \in Sockets
    BY <1>1, <1>6, UsedSocket DEF Misses, OwnSockets, DeliveryInv, clientVars
  <2> QED BY <1>1, <1>2, <1>6, <2>1 DEF Misses, clientVars
<1> QED BY <1>1, <1>3, <1>4, <1>5, <1>6, TasksStay

-----------------------------------------------------------------------------
(* The client.                                                               *)

\* What hanging up does to the sockets of others: nothing.
LEMMA HungUpOwn ==
  ASSUME DeliveryInv, NEW c \in Clients
  PROVE  /\ HungUp(c) \in [Sockets -> Wire]
         /\ \A x \in Sockets : x # using[c] => HungUp(c)[x] = wire[x]
BY UsedSocket DEF HungUp, DeliveryInv, TypeOK, Wire, Ends

LEMMA ConnectInv ==
  ASSUME DeliveryInv, NEW c \in Clients, NEW s \in Sockets, Connect(c, s)
  PROVE  DeliveryInv'
<1>1. /\ server[s] = "free" /\ owner[s] = c
      /\ link' = [link EXCEPT ![c] = "connecting"] /\ using' = [using EXCEPT ![c] = s]
      /\ wire' = HungUp(c)
      /\ UNCHANGED <<saved, allowed, task, listed, owner, fetch, loaded, history, late>>
  BY DEF Connect
<1>2. server' = [x \in Sockets |-> IF x = s THEN "checking"
                                   ELSE IF x = using[c] /\ server[x] = "checking"
                                   THEN "over" ELSE server[x]]
  BY DEF Connect
<1>3. /\ server' \in [Sockets -> ServerState] /\ server'[s] = "checking"
      /\ \A x \in Sockets : x # s /\ x # using[c] => server'[x] = server[x]
      /\ \A x \in Sockets : server'[x] = "member" => server[x] = "member"
  BY <1>2 DEF DeliveryInv, TypeOK, ServerState
<1>4. /\ link'[c] = "connecting" /\ using'[c] = s
      /\ \A d \in Clients : d # c => link'[d] = link[d] /\ using'[d] = using[d]
  BY <1>1 DEF DeliveryInv, TypeOK
<1>5. TypeOK'
  BY <1>1, <1>3, HungUpOwn DEF DeliveryInv, TypeOK, Link
<1>6. OwnSockets'
  <2>1. s # NoSocket
    BY NoSocketAssumption
  <2> QED BY <1>1, <1>4, <2>1 DEF DeliveryInv, OwnSockets
<1>7. MembersAreListed'
  BY <1>1, <1>3 DEF DeliveryInv, MembersAreListed, Members
<1>8. ASSUME NEW d \in Clients, link'[d] = "connected"
      PROVE  /\ d # c /\ link[d] = "connected" /\ using'[d] = using[d]
             /\ using[d] \in Sockets /\ using[d] # s /\ using[d] # using[c]
  <2>1. d # c /\ link[d] = "connected" /\ using'[d] = using[d]
    BY <1>4, <1>8
  <2>2. using[d] # NoSocket
    BY <2>1 DEF DeliveryInv, OwnSockets
  <2> QED BY <1>1, <2>1, <2>2, UsedSocket DEF DeliveryInv, OwnSockets
<1>9. OpenIsAccepted'
  BY <1>3, <1>8 DEF DeliveryInv, OpenIsAccepted
<1>10. ASSUME NEW d \in Clients, NEW n \in saved, Misses(d, n)'
       PROVE  Misses(d, n) /\ using'[d] = using[d]
  <2>1. link'[d] = "connected"
    BY <1>10 DEF Misses
  <2>2. wire'[using[d]] = wire[using[d]] /\ server'[using[d]] = server[using[d]]
    BY <1>1, <1>3, <1>8, <2>1, HungUpOwn
  <2> QED BY <1>1, <1>8, <1>10, <2>1, <2>2 DEF Misses
<1> QED BY <1>1, <1>5, <1>6, <1>7, <1>9, <1>10, TasksStay

\* Open and Frame: what is to be read will be read from now on.
LEMMA ReadAnew ==
  ASSUME DeliveryInv, NEW c \in Clients, link[c] \in {"connecting", "connected"},
         server[using[c]] \in {"member", "dropped", "over"},
         link' = [link EXCEPT ![c] = "connected"],
         fetch' = [fetch EXCEPT ![c] = Asked("due")],
         wire' = wire \/ wire' = [wire EXCEPT ![using[c]] = "quiet"],
         UNCHANGED <<serverVars, owner, using, loaded, history, late>>
  PROVE  DeliveryInv'
<1>1. /\ link'[c] = "connected" /\ fetch'[c].state = "due"
      /\ \A d \in Clients : d # c => link'[d] = link[d] /\ fetch'[d] = fetch[d]
  BY DEF DeliveryInv, TypeOK, Asked
<1>2. using[c] \in Sockets /\ \A d \in Clients : using[d] = using[c] => d = c
  BY UsedSocket DEF DeliveryInv, OwnSockets
<1>3. \A x \in Sockets : x # using[c] => wire'[x] = wire[x]
  BY <1>2 DEF DeliveryInv, TypeOK
<1>4. TypeOK'
  BY <1>2 DEF DeliveryInv, TypeOK, serverVars, Link, Wire, Fetch, Asked
<1>5. OwnSockets' /\ MembersAreListed' /\ OpenIsAccepted'
  BY <1>1 DEF DeliveryInv, OwnSockets, MembersAreListed, Members, OpenIsAccepted, serverVars
<1>6. ASSUME NEW d \in Clients, NEW n \in saved, Misses(d, n)'
      PROVE  Misses(d, n) /\ using'[d] = using[d]
  <2>1. d # c /\ using[d] # using[c]
    BY <1>1, <1>2, <1>6 DEF Misses
  <2>2. using[d] \in Sockets
    BY <1>1, <1>6, <2>1, UsedSocket DEF Misses, DeliveryInv, OwnSockets
  <2> QED BY <1>1, <1>3, <1>6, <2>1, <2>2 DEF Misses, serverVars
<1> QED BY <1>4, <1>5, <1>6, TasksStay DEF serverVars

LEMMA OpenInv == ASSUME DeliveryInv, NEW c \in Clients, Open(c) PROVE DeliveryInv'
BY ReadAnew DEF Open

LEMMA FrameInv == ASSUME DeliveryInv, NEW c \in Clients, Frame(c) PROVE DeliveryInv'
<1>1. link[c] = "connected" /\ link' = link
  BY DEF Frame
<1>2. link' = [link EXCEPT ![c] = "connected"]
  BY <1>1 DEF DeliveryInv, TypeOK
<1> QED BY <1>1, <1>2, ReadAnew DEF Frame, DeliveryInv, OpenIsAccepted

LEMMA ClosedInv == ASSUME DeliveryInv, NEW c \in Clients, Closed(c) PROVE DeliveryInv'
<1>1. /\ link' = [link EXCEPT ![c] = IF wire[using[c]] = "denied" THEN "offline" ELSE "waiting"]
      /\ using' = [using EXCEPT ![c] = NoSocket]
      /\ UNCHANGED <<serverVars, owner, wire, fetch, loaded, history, late>>
  BY DEF Closed
<1>2. /\ link'[c] \in {"offline", "waiting"} /\ using'[c] = NoSocket
      /\ \A d \in Clients : d # c => link'[d] = link[d] /\ using'[d] = using[d]
  BY <1>1 DEF DeliveryInv, TypeOK
<1>3. TypeOK'
  BY <1>1 DEF DeliveryInv, TypeOK, serverVars, Link
<1>4. OwnSockets' /\ MembersAreListed' /\ OpenIsAccepted'
  BY <1>1, <1>2 DEF DeliveryInv, OwnSockets, MembersAreListed, Members, OpenIsAccepted, serverVars
<1>5. ASSUME NEW d \in Clients, NEW n \in saved, Misses(d, n)'
      PROVE  Misses(d, n) /\ using'[d] = using[d]
  BY <1>1, <1>2, <1>5 DEF Misses, serverVars
<1> QED BY <1>1, <1>3, <1>4, <1>5, TasksStay DEF serverVars

LEMMA ReadRefusedInv == ASSUME DeliveryInv, NEW c \in Clients, ReadRefused(c) PROVE DeliveryInv'
<1>1. /\ fetch' = [fetch EXCEPT ![c] = Asked("refused")]
      /\ link' = [link EXCEPT ![c] = "offline"] /\ using' = [using EXCEPT ![c] = NoSocket]
      /\ wire' = HungUp(c)
      /\ server' = [x \in Sockets |-> IF x = using[c] /\ server[x] = "checking"
                                      THEN "over" ELSE server[x]]
      /\ UNCHANGED <<saved, allowed, task, listed, owner, loaded, history, late>>
  BY DEF ReadRefused
<1>2. /\ link'[c] = "offline" /\ using'[c] = NoSocket
      /\ \A d \in Clients : d # c =>
           link'[d] = link[d] /\ using'[d] = using[d] /\ fetch'[d] = fetch[d]
  BY <1>1 DEF DeliveryInv, TypeOK
<1>3. /\ server' \in [Sockets -> ServerState]
      /\ \A x \in Sockets : x # using[c] => server'[x] = server[x]
      /\ \A x \in Sockets : server'[x] = "member" => server[x] = "member"
  BY <1>1 DEF DeliveryInv, TypeOK, ServerState
<1>4. TypeOK'
  <2>1. fetch' \in [Clients -> [state : Fetch, rows : SUBSET Messages]]
    BY <1>1 DEF DeliveryInv, TypeOK, Asked, Fetch
  <2> QED BY <1>1, <1>3, <2>1, HungUpOwn DEF DeliveryInv, TypeOK, Link
<1>5. OwnSockets' /\ MembersAreListed'
  BY <1>1, <1>2, <1>3 DEF DeliveryInv, OwnSockets, MembersAreListed, Members
<1>6. ASSUME NEW d \in Clients, link'[d] = "connected"
      PROVE  /\ d # c /\ link[d] = "connected" /\ using'[d] = using[d]
             /\ using[d] \in Sockets /\ using[d] # using[c] /\ fetch'[d] = fetch[d]
  <2>1. d # c /\ link[d] = "connected"
    BY <1>2, <1>6
  <2>2. using[d] # NoSocket
    BY <2>1 DEF DeliveryInv, OwnSockets
  <2> QED BY <1>2, <2>1, <2>2, UsedSocket
<1>7. OpenIsAccepted'
  BY <1>3, <1>6 DEF DeliveryInv, OpenIsAccepted
<1>8. ASSUME NEW d \in Clients, NEW n \in saved, Misses(d, n)'
      PROVE  Misses(d, n) /\ using'[d] = using[d]
  <2>1. link'[d] = "connected"
    BY <1>8 DEF Misses
  <2>2. wire'[using[d]] = wire[using[d]] /\ server'[using[d]] = server[using[d]]
    BY <1>1, <1>3, <1>6, <2>1, HungUpOwn
  <2> QED BY <1>1, <1>6, <1>8, <2>1, <2>2 DEF Misses
<1> QED BY <1>1, <1>4, <1>5, <1>7, <1>8, TasksStay

\* Read, Show and Poll: only the query of c and what it shows change.
LEMMA QueryMoves ==
  ASSUME DeliveryInv, NEW c \in Clients, TypeOK',
         UNCHANGED <<serverVars, owner, wire, link, using, late>>,
         \A d \in Clients : d # c => fetch'[d] = fetch[d] /\ history'[d] = history[d],
         \A n \in saved : Misses(c, n)' => Misses(c, n)
  PROVE  DeliveryInv'
<1>1. OwnSockets' /\ MembersAreListed' /\ OpenIsAccepted'
  BY DEF DeliveryInv, OwnSockets, MembersAreListed, Members, OpenIsAccepted, serverVars
<1>2. ASSUME NEW d \in Clients, NEW n \in saved, Misses(d, n)'
      PROVE  Misses(d, n) /\ using'[d] = using[d]
  BY <1>2 DEF Misses, serverVars
<1> QED BY <1>1, <1>2, TasksStay DEF serverVars

LEMMA ReadInv == ASSUME DeliveryInv, NEW c \in Clients, Read(c) PROVE DeliveryInv'
<1>1. /\ UNCHANGED <<serverVars, owner, wire, link, using, loaded, history, late>>
      /\ \/ fetch' = [fetch EXCEPT ![c] = [state |-> "answered", rows |-> saved]]
         \/ fetch' = [fetch EXCEPT ![c] = Asked("failed")]
  BY DEF Read
<1>2. TypeOK'
  <2>1. fetch' \in [Clients -> [state : Fetch, rows : SUBSET Messages]]
    BY <1>1 DEF DeliveryInv, TypeOK, Asked, Fetch
  <2> QED BY <1>1, <2>1 DEF DeliveryInv, TypeOK, serverVars
<1>3. /\ \A d \in Clients : d # c => fetch'[d] = fetch[d]
      /\ fetch'[c] = [state |-> "answered", rows |-> saved] \/ fetch'[c].state = "failed"
  BY <1>1 DEF DeliveryInv, TypeOK, Asked
<1>4. ASSUME NEW n \in saved PROVE ~Misses(c, n)'
  BY <1>3 DEF Misses
<1> QED BY <1>1, <1>2, <1>3, <1>4, QueryMoves

LEMMA ShowInv == ASSUME DeliveryInv, NEW c \in Clients, Show(c) PROVE DeliveryInv'
<1>1. /\ fetch[c].state = "answered"
      /\ history' = [history EXCEPT ![c] = fetch[c].rows]
      /\ loaded' = loaded \cup {c}
      /\ fetch' = [fetch EXCEPT ![c] = Asked("idle")]
      /\ UNCHANGED <<serverVars, owner, wire, link, using, late>>
  BY DEF Show
<1>2. TypeOK'
  <2>1. /\ fetch' \in [Clients -> [state : Fetch, rows : SUBSET Messages]]
        /\ history' \in [Clients -> SUBSET Messages]
    BY <1>1 DEF DeliveryInv, TypeOK, Asked, Fetch
  <2> QED BY <1>1, <2>1 DEF DeliveryInv, TypeOK, serverVars
<1>3. /\ \A d \in Clients : d # c => fetch'[d] = fetch[d] /\ history'[d] = history[d]
      /\ fetch'[c].state = "idle" /\ history'[c] = fetch[c].rows
  BY <1>1 DEF DeliveryInv, TypeOK, Asked
<1>4. ASSUME NEW n \in saved, Misses(c, n)' PROVE Misses(c, n)
  BY <1>1, <1>3, <1>4 DEF Misses, serverVars
<1> QED BY <1>1, <1>2, <1>3, <1>4, QueryMoves

LEMMA PollInv == ASSUME DeliveryInv, NEW c \in Clients, Poll(c) PROVE DeliveryInv'
<1>1. /\ fetch' = [fetch EXCEPT ![c] = Asked("due")]
      /\ UNCHANGED <<serverVars, owner, wire, link, using, loaded, history, late>>
  BY DEF Poll
<1>2. TypeOK'
  BY <1>1 DEF DeliveryInv, TypeOK, Asked, Fetch, serverVars
<1>3. fetch'[c].state = "due" /\ \A d \in Clients : d # c => fetch'[d] = fetch[d]
  BY <1>1 DEF DeliveryInv, TypeOK, Asked
<1>4. ASSUME NEW n \in saved PROVE ~Misses(c, n)'
  BY <1>3 DEF Misses
<1> QED BY <1>1, <1>2, <1>3, <1>4, QueryMoves

\* Access that is lost while a broadcast is sent is recorded.
LEMMA AccessInv ==
  ASSUME DeliveryInv, NEW c \in Clients, Revoke(c) \/ Grant(c)
  PROVE  DeliveryInv'
<1>1. /\ UNCHANGED <<saved, task, listed, server, owner, wire, clientVars>>
      /\ \/ allowed' = allowed \cup {c} /\ late' = late
         \/ /\ allowed' = allowed \ {c}
            /\ late' = late \cup {<<c, m>> : m \in {x \in Messages : task[x].stage = "sending"}}
  BY DEF Revoke, Grant
<1>2. TypeOK'
  BY <1>1 DEF DeliveryInv, TypeOK, clientVars
<1>3. OwnSockets' /\ OpenIsAccepted' /\ MembersAreListed' /\ UnsavedIsIdle'
  BY <1>1 DEF DeliveryInv, OwnSockets, OpenIsAccepted, MembersAreListed, Members,
              UnsavedIsIdle, clientVars
<1>4. ClearedHaveAccess'
  <2> SUFFICES ASSUME NEW m \in Messages, NEW s \in task[m].cleared
               PROVE  task[m].stage = "sending" /\ (owner[s] \in allowed' \/ <<owner[s], m>> \in late')
    BY <1>1 DEF ClearedHaveAccess
  <2>1. task[m].stage = "sending" /\ (owner[s] \in allowed \/ <<owner[s], m>> \in late)
    BY DEF DeliveryInv, ClearedHaveAccess
  <2> QED BY <1>1, <2>1
<1>5. MissedIsComing'
  BY <1>1 DEF DeliveryInv, MissedIsComing, Misses, Coming, clientVars
<1> QED BY <1>2, <1>3, <1>4, <1>5 DEF DeliveryInv

-----------------------------------------------------------------------------

LEMMA NextDelivery == DeliveryInv /\ [Next]_vars => DeliveryInv'
<1> SUFFICES ASSUME DeliveryInv, [Next]_vars PROVE DeliveryInv'
  OBVIOUS
<1>1. CASE UNCHANGED vars
  BY <1>1 DEF vars, DeliveryInv, TypeOK, OwnSockets, OpenIsAccepted, MembersAreListed,
              Members, ClearedHaveAccess, UnsavedIsIdle, MissedIsComing, Misses, Coming
<1>2. ASSUME NEW m \in Messages, Commit(m) \/ Capture(m) \/ Snapshot(m) \/ Check(m)
      PROVE  DeliveryInv'
  BY <1>2, CommitInv, CaptureInv, SnapshotInv, CheckInv
<1>3. ASSUME NEW m \in Messages, NEW s \in Sockets, Send(m, s) \/ Drop(m, s)
      PROVE  DeliveryInv'
  BY <1>3, SendInv, DropInv
<1>4. ASSUME NEW s \in Sockets,
             Accept(s) \/ Refuse(s) \/ Unregister(s) \/ Break(s) \/ Reuse(s)
      PROVE  DeliveryInv'
  BY <1>4, AcceptInv, RefuseInv, UnregisterInv, BreakInv, ReuseInv
<1>5. ASSUME NEW c \in Clients,
             \/ Open(c) \/ Frame(c) \/ Closed(c) \/ Poll(c)
             \/ Read(c) \/ ReadRefused(c) \/ Show(c)
             \/ Revoke(c) \/ Grant(c)
      PROVE  DeliveryInv'
  BY <1>5, OpenInv, FrameInv, ClosedInv, PollInv, ReadInv, ReadRefusedInv, ShowInv, AccessInv
<1> QED BY <1>1, <1>2, <1>3, <1>4, <1>5, CrashInv, ConnectInv DEF Next

THEOREM DeliveryInvariance == Spec => []DeliveryInv
BY InitDelivery, NextDelivery, PTL DEF Spec

\* The registry, the broadcasts and the clients keep their types.
THEOREM DeliveryTypeCorrect == Spec => []TypeOK
<1>1. DeliveryInv => TypeOK
  BY DEF DeliveryInv
<1> QED BY <1>1, DeliveryInvariance, PTL

\* A client that shows "Live" and is at rest shows every message whose broadcast
\* is over.
THEOREM LiveIsCurrent == Spec => []LiveMeansCurrent
<1>1. ASSUME DeliveryInv PROVE LiveMeansCurrent
  <2> SUFFICES ASSUME NEW c \in Clients, NEW m \in saved,
                      link[c] = "connected", server[using[c]] = "member",
                      wire[using[c]] = "quiet", fetch[c].state = "idle",
                      task[m].stage = "done", m \notin history[c]
               PROVE  FALSE
    BY DEF LiveMeansCurrent
  <2>1. Coming(m, using[c])
    BY <1>1 DEF DeliveryInv, MissedIsComing, Misses
  <2>2. m \in Messages /\ task[m].snapshot = {}
    BY <1>1 DEF DeliveryInv, TypeOK
  <2> QED BY <2>1, <2>2 DEF Coming
<1> QED BY <1>1, DeliveryInvariance, PTL

\* No frame goes to a client without access, unless the access was lost after
\* the recipients of this message had been checked.
THEOREM AccessIsNeeded == Spec => FramesNeedAccess
<1> DEFINE Needed == \A s \in Sockets, m \in Messages :
                       Send(m, s) => owner[s] \in allowed \/ <<owner[s], m>> \in late
<1>1. DeliveryInv => Needed
  BY DEF DeliveryInv, ClearedHaveAccess, Send
<1>2. DeliveryInv /\ [Next]_vars => [Needed]_vars
  BY <1>1
<1> HIDE DEF Needed
<1>3. Spec => [][Needed]_vars
  BY <1>2, DeliveryInvariance, PTL DEF Spec
<1> QED BY <1>3, PTL DEF Needed, FramesNeedAccess

-----------------------------------------------------------------------------
(* The window of a thread.  First what the newest rows of a set are.         *)

LEMMA LeastExists ==
  ASSUME NEW S \in SUBSET Nat, S # {}
  PROVE  \E m \in S : \A k \in S : m <= k
<1> DEFINE Less == {pair \in Nat \X Nat : pair[1] < pair[2]}
<1>1. IsWellFoundedOn(Less, Nat)
  BY NatLessThanWellFounded DEF OpToRel
<1>2. PICK m \in S : \A k \in S : ~ (<<k, m>> \in Less)
  BY <1>1, WFMin
<1>3. ASSUME NEW k \in S PROVE m <= k
  <2>1. k \in Nat /\ m \in Nat /\ <<k, m>> \in Nat \X Nat
    BY <1>2
  <2>2. ~ (k < m)
    BY <1>2, <2>1
  <2> QED BY <2>1, <2>2
<1> QED BY <1>3

LEMMA MinIsLeast ==
  ASSUME NEW S \in SUBSET Nat, S # {}
  PROVE  Min(S) \in S /\ \A k \in S : Min(S) <= k
BY LeastExists DEF Min

LEMMA GreatestExists ==
  ASSUME NEW S \in SUBSET Thread, S # {}
  PROVE  \E m \in S : \A k \in S : m >= k
<1> DEFINE Mirror == {n \in Nat : n <= Last /\ Last - n \in S}
<1>1. PICK s \in S : TRUE
  OBVIOUS
<1>2. s \in 1 .. Last /\ Last - (Last - s) = s
  BY <1>1, LastAssumption DEF Thread
<1>3. Last - s \in Mirror
  BY <1>1, <1>2, LastAssumption
<1>4. PICK n \in Mirror : \A k \in Mirror : n <= k
  BY <1>3, LeastExists
<1>5. ASSUME NEW k \in S PROVE Last - n >= k
  <2>1. k \in 1 .. Last /\ Last - (Last - k) = k
    BY LastAssumption DEF Thread
  <2>2. Last - k \in Mirror
    BY <2>1, LastAssumption
  <2> QED BY <2>1, <2>2, <1>4, LastAssumption
<1> QED BY <1>4, <1>5

LEMMA ThreadFinite ==
  ASSUME NEW S \in SUBSET Thread
  PROVE  IsFiniteSet(S) /\ Cardinality(S) \in Nat
<1>1. IsFiniteSet(Thread)
  BY LastAssumption, FS_Interval DEF Thread
<1>2. IsFiniteSet(S)
  BY <1>1, FS_Subset
<1> QED BY <1>2, FS_CardinalityType

LEMMA FewerInSubset ==
  ASSUME NEW S \in SUBSET Thread, NEW T \in SUBSET S
  PROVE  Cardinality(T) <= Cardinality(S)
BY ThreadFinite, FS_Subset

\* What is newer than one of the newest is one of them.
LEMMA NewestUpward ==
  ASSUME NEW S \in SUBSET Thread, NEW n \in Nat,
         NEW m \in Newest(n, S), NEW k \in S, k >= m
  PROVE  k \in Newest(n, S)
<1>1. m \in Nat /\ k \in Nat /\ \A x \in S : x \in Nat
  BY DEF Newest, Thread
<1>2. {x \in S : x > k} \subseteq {x \in S : x > m}
  <2>1. ASSUME NEW x \in S, x > k PROVE x > m
    BY <1>1, <2>1
  <2> QED BY <2>1
<1>3. Cardinality({x \in S : x > k}) <= Cardinality({x \in S : x > m})
  BY <1>2, FewerInSubset
<1>4. Cardinality({x \in S : x > m}) < n
  BY DEF Newest
<1>5. Cardinality({x \in S : x > k}) \in Nat /\ Cardinality({x \in S : x > m}) \in Nat
  BY ThreadFinite
<1> QED BY <1>3, <1>4, <1>5 DEF Newest

\* A page that is short holds everything.
LEMMA ShortIsAll ==
  ASSUME NEW S \in SUBSET Thread, NEW n \in Nat,
         Cardinality(Newest(n, S)) < n
  PROVE  Newest(n, S) = S
<1> DEFINE LeftOut == S \ Newest(n, S)
<1> SUFFICES ASSUME LeftOut # {} PROVE FALSE
  BY DEF Newest
<1>1. PICK m \in LeftOut : \A k \in LeftOut : m >= k
  BY GreatestExists
<1>2. m \in Nat /\ \A x \in S : x \in Nat
  BY DEF Thread
<1>3. {x \in S : x > m} \subseteq Newest(n, S)
  <2>1. ASSUME NEW x \in S, x > m PROVE x \notin LeftOut
    BY <1>1, <1>2, <2>1
  <2> QED BY <2>1
<1>4. Newest(n, S) \in SUBSET Thread
  BY DEF Newest
<1>5. Cardinality({x \in S : x > m}) <= Cardinality(Newest(n, S))
  BY <1>3, <1>4, FewerInSubset
<1>6. Cardinality({x \in S : x > m}) \in Nat /\ Cardinality(Newest(n, S)) \in Nat
  BY <1>4, ThreadFinite
<1>7. m \in Newest(n, S)
  BY <1>5, <1>6 DEF Newest
<1> QED BY <1>7

\* A set that is smaller than a page is its own page.
LEMMA FewAreAll ==
  ASSUME NEW S \in SUBSET Thread, NEW n \in Nat, Cardinality(S) < n
  PROVE  Newest(n, S) = S
<1>1. ASSUME NEW m \in S PROVE Cardinality({x \in S : x > m}) < n
  BY FewerInSubset, ThreadFinite
<1> QED BY <1>1 DEF Newest

-----------------------------------------------------------------------------
(* The reads and the window.                                                 *)

\* What a running read of a caller has gathered: nothing below its cursor, and
\* all of what was saved when it began, is still visible, and lies from it on.
Gathered(rd) ==
  /\ rd.rows \subseteq stored /\ rd.known \subseteq stored
  /\ rd.cursor = 0 => rd.rows = {}
  /\ rd.cursor # 0 => rd.cursor \in rd.rows /\ \A m \in rd.rows : m >= rd.cursor
  /\ rd.cursor # 0 => \A m \in rd.known \ deleted : m >= rd.cursor => m \in rd.rows

\* A read that resynchronises remembers the window that is still shown, and
\* "Load older messages" runs over an opened window.
RefetchIsOfView ==
  read["refetch"] # NoRead =>
    /\ read["refetch"].first = ~opened
    /\ read["refetch"].anchor = Least(view)
    /\ view \subseteq read["refetch"].known
OlderIsNotFirst ==
  read["older"] # NoRead => ~read["older"].first

\* Of a set of messages, all that is newer than a row shown is shown.
AllNewer(window, S) ==
  \A m \in S : window # {} /\ \A w \in window : m >= w => m \in window

HistoryInv ==
  /\ HistoryTypeOK
  /\ ~opened => view = {}
  /\ AllNewer(view, known \ deleted)
  /\ \A p \in Callers : read[p] # NoRead => Gathered(read[p])
  /\ RefetchIsOfView
  /\ OlderIsNotFirst

LEMMA ThreadNumbers == ASSUME NEW m \in Thread PROVE m \in Nat /\ m # 0
BY LastAssumption DEF Thread

\* The rows a page is taken from.
LEMMA PageIsNewest ==
  ASSUME HistoryTypeOK, NEW cursor \in 0 .. Last
  PROVE  LET base == {m \in stored \ deleted : cursor # 0 => m < cursor} IN
           /\ base \in SUBSET Thread
           /\ PageBefore(cursor) = Newest(Page, base)
           /\ PageBefore(cursor) \subseteq base
           /\ Cardinality(PageBefore(cursor)) \in Nat
           /\ Cardinality(PageBefore(cursor)) < Page => PageBefore(cursor) = base
<1> DEFINE base == {m \in stored \ deleted : cursor # 0 => m < cursor}
<1>1. base \in SUBSET Thread /\ Page \in Nat
  BY PageAssumption DEF HistoryTypeOK
<1>2. PageBefore(cursor) = Newest(Page, base)
  BY DEF PageBefore
<1> HIDE DEF base
<1>3. Newest(Page, base) \subseteq base
  BY DEF Newest
<1>4. Cardinality(PageBefore(cursor)) \in Nat
  BY <1>1, <1>2, <1>3, ThreadFinite
<1>5. Cardinality(PageBefore(cursor)) < Page => PageBefore(cursor) = base
  BY <1>1, <1>2, ShortIsAll
<1> QED BY <1>1, <1>2, <1>3, <1>4, <1>5 DEF base

\* With one more page a read has gathered all that lies from its lowest row on.
LEMMA RowsClosed ==
  ASSUME HistoryTypeOK, NEW rd \in Reads, Gathered(rd),
         NEW rows, rows = rd.rows \cup PageBefore(rd.cursor)
  PROVE  /\ rows \subseteq stored
         /\ \A m \in rd.known \ deleted, w \in rows : m >= w => m \in rows
         /\ Cardinality(PageBefore(rd.cursor)) < Page => rd.known \ deleted \subseteq rows
         /\ rd.known \ deleted # {} => rows # {}
<1> DEFINE base == {m \in stored \ deleted : rd.cursor # 0 => m < rd.cursor}
<1>1. rd.cursor \in 0 .. Last /\ rd.cursor \in Nat
  BY LastAssumption DEF Reads
<1>2. /\ base \in SUBSET Thread
      /\ PageBefore(rd.cursor) = Newest(Page, base)
      /\ PageBefore(rd.cursor) \subseteq base
      /\ Cardinality(PageBefore(rd.cursor)) < Page => PageBefore(rd.cursor) = base
  BY <1>1, PageIsNewest
<1>3. rows \subseteq stored
  BY <1>2 DEF Gathered
<1>4. ASSUME NEW m \in rd.known \ deleted
      PROVE  m \in stored /\ m \in Nat /\ (m \in rd.rows \/ m \in base)
  <2>1. m \in stored /\ m \in Nat
    BY ThreadNumbers DEF Gathered, HistoryTypeOK
  <2> QED BY <2>1, <1>1 DEF Gathered
<1>5. ASSUME NEW m \in rd.known \ deleted, NEW w \in rows, m >= w
      PROVE  m \in rows
  <2>1. CASE m \in rd.rows
    BY <2>1
  <2>2. CASE m \in base /\ w \in rd.rows
    <3>1. rd.cursor # 0 /\ w >= rd.cursor /\ m < rd.cursor
      BY <2>2 DEF Gathered
    <3>2. w \in Nat /\ m \in Nat
      BY <1>3, <1>4, ThreadNumbers DEF HistoryTypeOK
    <3> QED BY <3>1, <3>2, <1>1, <1>5
  <2>3. CASE m \in base /\ w \in Newest(Page, base)
    BY <2>3, <1>2, <1>5, NewestUpward, PageAssumption
  <2> QED BY <2>1, <2>2, <2>3, <1>2, <1>4
<1>6. Cardinality(PageBefore(rd.cursor)) < Page => rd.known \ deleted \subseteq rows
  BY <1>2, <1>4
<1>7. ASSUME rd.known \ deleted # {}, rows = {} PROVE FALSE
  <2>1. PageBefore(rd.cursor) = {} /\ Cardinality({}) = 0
    BY <1>7, FS_EmptySet
  <2>2. Cardinality(PageBefore(rd.cursor)) < Page
    BY <2>1, PageAssumption
  <2> QED BY <2>2, <1>6, <1>7
<1> QED BY <1>3, <1>5, <1>6, <1>7

\* The window that a finished read stores is closed.
LEMMA WindowClosed ==
  ASSUME HistoryTypeOK, NEW p \in Callers, NEW rd \in Reads, Gathered(rd),
         NEW rows, rows = rd.rows \cup PageBefore(rd.cursor)
  PROVE  Window(p, rd, rows) \subseteq rows /\ AllNewer(Window(p, rd, rows), rd.known \ deleted)
<1> DEFINE before == Older(rd.anchor, rows)
<1>1. /\ rows \subseteq stored
      /\ \A m \in rd.known \ deleted, w \in rows : m >= w => m \in rows
      /\ rd.known \ deleted # {} => rows # {}
  BY RowsClosed
<1>2. CASE rd.first \/ rd.anchor \notin rows
  BY <1>1, <1>2 DEF Window, AllNewer
<1>3. CASE ~rd.first /\ rd.anchor \in rows
  <2>1. before \in SUBSET Thread /\ Newest(Page, before) \subseteq before /\ before \subseteq rows
    BY <1>1 DEF Older, Newest, HistoryTypeOK
  <2>2. Window(p, rd, rows) = {m \in rows : m >= rd.anchor} \cup
                               IF p = "older" THEN Newest(Page, before) ELSE {}
    BY <1>3 DEF Window
  <2>3. Window(p, rd, rows) \subseteq rows
    BY <2>1, <2>2
  <2>4. rd.anchor \in Nat /\ \A m \in rows : m \in Nat
    BY <1>1, <1>3, ThreadNumbers DEF HistoryTypeOK
  <2>5. Window(p, rd, rows) # {}
    BY <1>3, <2>2, <2>4
  <2>6. ASSUME NEW m \in rd.known \ deleted, NEW w \in Window(p, rd, rows), m >= w
        PROVE  m \in Window(p, rd, rows)
    <3>1. m \in rows /\ w \in rows
      BY <1>1, <2>3, <2>6
    <3>2. CASE m >= rd.anchor
      BY <3>1, <3>2, <2>2
    <3>3. CASE ~ (m >= rd.anchor)
      <4>1. m \in before /\ ~ (w >= rd.anchor)
        BY <3>1, <3>3, <2>4, <2>6 DEF Older
      <4>2. p = "older" /\ w \in Newest(Page, before)
        BY <4>1, <2>2
      <4> HIDE DEF before
      <4>3. m \in Newest(Page, before)
        BY <4>1, <4>2, <2>1, <2>6, NewestUpward, PageAssumption
      <4> QED BY <4>2, <4>3, <2>2
    <3> QED BY <3>2, <3>3
  <2> QED BY <2>3, <2>5, <2>6 DEF AllNewer
<1> QED BY <1>2, <1>3

LEMMA LeastIsLowest ==
  ASSUME NEW S \in SUBSET Thread
  PROVE  /\ Least(S) \in 0 .. Last
         /\ S # {} => /\ Least(S) \in S /\ Least(S) # 0
                      /\ \A m \in S : m >= Least(S)
<1>1. S \in SUBSET Nat /\ \A m \in S : m \in 1 .. Last
  BY LastAssumption DEF Thread
<1>2. CASE S = {}
  BY <1>2, LastAssumption DEF Least
<1>3. CASE S # {}
  <2>1. Least(S) \in S /\ \A k \in S : Least(S) <= k
    BY <1>1, <1>3, MinIsLeast DEF Least
  <2>2. Least(S) \in 1 .. Last
    BY <2>1, <1>1
  <2>3. ASSUME NEW m \in S PROVE m >= Least(S)
    BY <2>1, <2>2, <1>1
  <2> QED BY <2>1, <2>2, <2>3, LastAssumption
<1> QED BY <1>2, <1>3

LEMMA FreshGathers ==
  ASSUME HistoryTypeOK, NEW window \in SUBSET Thread, NEW isFirst \in BOOLEAN
  PROVE  /\ Fresh(window, isFirst) \in Reads /\ Gathered(Fresh(window, isFirst))
         /\ Fresh(window, isFirst) # NoRead
<1>1. Least(window) \in 0 .. Last /\ 0 \in 0 .. Last
  BY LeastIsLowest, LastAssumption
<1>2. stored \in SUBSET Thread
  BY DEF HistoryTypeOK
<1>3. Fresh(window, isFirst) \in Reads
  BY <1>1, <1>2 DEF Fresh, Reads
<1>4. Gathered(Fresh(window, isFirst))
  BY DEF Fresh, Gathered
<1>5. Fresh(window, isFirst).asking # NoRead.asking
  BY DEF Fresh, NoRead
<1> QED BY <1>3, <1>4, <1>5

LEMMA InitHistory == HistoryInit => HistoryInv
<1> SUFFICES ASSUME HistoryInit PROVE HistoryInv
  OBVIOUS
<1>1. HistoryTypeOK
  BY DEF HistoryInit, HistoryTypeOK
<1>2. \A p \in Callers : read[p] = NoRead
  BY DEF HistoryInit
<1> QED BY <1>1, <1>2 DEF HistoryInit, HistoryInv, AllNewer, RefetchIsOfView, OlderIsNotFirst, Callers

LEMMA SaveHistory ==
  ASSUME HistoryInv, NEW m \in Thread, Save(m)
  PROVE  HistoryInv'
<1>1. HistoryTypeOK'
  BY DEF HistoryInv, HistoryTypeOK, Save
<1>2. \A p \in Callers : read'[p] # NoRead => Gathered(read[p])'
  BY DEF HistoryInv, Save, Gathered
<1> QED BY <1>1, <1>2 DEF HistoryInv, Save, AllNewer, RefetchIsOfView, OlderIsNotFirst

LEMMA HideHistory ==
  ASSUME HistoryInv, NEW m \in Thread, Hide(m)
  PROVE  HistoryInv'
<1>1. HistoryTypeOK'
  BY DEF HistoryInv, HistoryTypeOK, Hide
<1>2. \A p \in Callers : read'[p] # NoRead => Gathered(read[p])'
  BY DEF HistoryInv, Hide, Gathered
<1>3. AllNewer(view, known \ deleted)'
  BY DEF HistoryInv, Hide, AllNewer
<1> QED BY <1>1, <1>2, <1>3 DEF HistoryInv, Hide, RefetchIsOfView, OlderIsNotFirst

\* A step that leaves the tables and the window alone keeps the invariant if the
\* reads it starts or changes are right.
LEMMA ReadsHistory ==
  ASSUME HistoryInv, UNCHANGED <<stored, deleted, opened, view, known>>,
         read' \in [Callers -> Reads \cup {NoRead}],
         \A p \in Callers : read'[p] # NoRead => Gathered(read'[p]),
         RefetchIsOfView', OlderIsNotFirst'
  PROVE  HistoryInv'
<1>1. HistoryTypeOK'
  BY DEF HistoryInv, HistoryTypeOK
<1>2. \A p \in Callers : (read[p] # NoRead => Gathered(read[p]))'
  BY DEF Gathered
<1> QED BY <1>1, <1>2 DEF HistoryInv, AllNewer

LEMMA RefetchHistory == ASSUME HistoryInv, Refetch PROVE HistoryInv'
<1> DEFINE fresh == Fresh(view, ~opened)
<1>1. fresh \in Reads /\ Gathered(fresh) /\ view \in SUBSET Thread
  BY FreshGathers DEF HistoryInv, HistoryTypeOK
<1>2. /\ read' \in [Callers -> Reads \cup {NoRead}]
      /\ read'["refetch"] = fresh /\ read'["older"] = read["older"]
      /\ UNCHANGED <<stored, deleted, opened, view, known>>
  BY <1>1 DEF Refetch, HistoryInv, HistoryTypeOK, Callers
<1>3. \A p \in Callers : read'[p] # NoRead => Gathered(read'[p])
  BY <1>1, <1>2 DEF HistoryInv, Callers
<1>4. RefetchIsOfView' /\ OlderIsNotFirst'
  BY <1>2 DEF HistoryInv, HistoryTypeOK, RefetchIsOfView, OlderIsNotFirst, Fresh, Least
<1> QED BY <1>2, <1>3, <1>4, ReadsHistory

LEMMA LoadOlderHistory == ASSUME HistoryInv, LoadOlder PROVE HistoryInv'
<1> DEFINE fresh == Fresh(view, FALSE)
<1>1. fresh \in Reads /\ Gathered(fresh)
  BY FreshGathers DEF HistoryInv, HistoryTypeOK
<1>2. /\ read' \in [Callers -> Reads \cup {NoRead}]
      /\ read'["refetch"] = NoRead /\ read'["older"] = fresh
      /\ UNCHANGED <<stored, deleted, opened, view, known>>
  BY <1>1 DEF LoadOlder, HistoryInv, HistoryTypeOK, Callers
<1>3. \A p \in Callers : read'[p] # NoRead => Gathered(read'[p])
  BY <1>1, <1>2 DEF Callers
<1>4. RefetchIsOfView' /\ OlderIsNotFirst'
  BY <1>2 DEF RefetchIsOfView, OlderIsNotFirst, Fresh
<1> QED BY <1>2, <1>3, <1>4, ReadsHistory

LEMMA FailHistory ==
  ASSUME HistoryInv, NEW p \in Callers, Fail(p)
  PROVE  HistoryInv'
<1>1. /\ read' \in [Callers -> Reads \cup {NoRead}]
      /\ \A q \in Callers : read'[q] \in {read[q], NoRead}
      /\ UNCHANGED <<stored, deleted, opened, view, known>>
  BY DEF Fail, HistoryInv, HistoryTypeOK
<1>2. \A q \in Callers : read'[q] # NoRead => Gathered(read'[q])
  BY <1>1 DEF HistoryInv
<1>3. RefetchIsOfView' /\ OlderIsNotFirst'
  BY <1>1 DEF HistoryInv, RefetchIsOfView, OlderIsNotFirst, Callers, Least
<1> QED BY <1>1, <1>2, <1>3, ReadsHistory

\* A read that goes on has gathered a full page more.
LEMMA GathersOn ==
  ASSUME HistoryTypeOK, NEW rd \in Reads, Gathered(rd),
         NEW page, page = PageBefore(rd.cursor), ~ (Cardinality(page) < Page),
         NEW next, next = [rd EXCEPT !.rows = rd.rows \cup page, !.cursor = Least(page)]
  PROVE  next \in Reads /\ Gathered(next)
<1> DEFINE base == {m \in stored \ deleted : rd.cursor # 0 => m < rd.cursor}
<1>1. rd.cursor \in 0 .. Last /\ rd.cursor \in Nat
  BY LastAssumption DEF Reads
<1>2. base \in SUBSET Thread /\ page = Newest(Page, base) /\ page \subseteq base
  BY <1>1, PageIsNewest
<1>3. page # {} /\ page \in SUBSET Thread /\ page \subseteq stored
  <2>1. Cardinality({}) < Page
    BY FS_EmptySet, PageAssumption
  <2> QED BY <2>1, <1>2
<1>4. /\ Least(page) \in 0 .. Last /\ Least(page) \in page /\ Least(page) # 0
      /\ \A m \in page : m >= Least(page)
  BY <1>3, LeastIsLowest
<1>5. next \in Reads
  <2>1. rd.rows \cup page \in SUBSET Thread
    BY <1>3 DEF Reads
  <2> QED BY <2>1, <1>4 DEF Reads
<1>6. /\ next.rows = rd.rows \cup page /\ next.cursor = Least(page)
      /\ next.known = rd.known
  BY DEF Reads
<1>7. ASSUME NEW m \in rd.rows PROVE m >= Least(page)
  <2>1. rd.cursor # 0 /\ m >= rd.cursor /\ Least(page) < rd.cursor
    BY <1>2, <1>4 DEF Gathered
  <2>2. m \in Nat /\ Least(page) \in Nat
    BY <1>3, <1>4, ThreadNumbers DEF Gathered, HistoryTypeOK
  <2> QED BY <2>1, <2>2, <1>1
<1>8. ASSUME NEW m \in rd.known \ deleted, m >= Least(page)
      PROVE  m \in rd.rows \cup page
  BY <1>4, <1>8, RowsClosed
<1> QED BY <1>3, <1>4, <1>5, <1>6, <1>7, <1>8 DEF Gathered

LEMMA ReadOnHistory ==
  ASSUME HistoryInv, NEW p \in Callers, ReadOn(p)
  PROVE  HistoryInv'
<1> DEFINE page == PageBefore(read[p].cursor)
           next == [read[p] EXCEPT !.rows = read[p].rows \cup page, !.cursor = Least(page)]
<1>1. read[p] \in Reads /\ Gathered(read[p]) /\ HistoryTypeOK
  BY DEF HistoryInv, HistoryTypeOK, ReadOn
<1>2. ~ (Cardinality(page) < Page)
  BY DEF ReadOn, Enough
<1>3. next \in Reads /\ Gathered(next)
  BY <1>1, <1>2, GathersOn
<1>4. /\ next.first = read[p].first /\ next.anchor = read[p].anchor
      /\ next.known = read[p].known
  BY <1>1 DEF Reads
<1>5. /\ read' = [read EXCEPT ![p] = next]
      /\ UNCHANGED <<stored, deleted, opened, view, known>>
      /\ read[p] # NoRead
  BY DEF ReadOn
<1> HIDE DEF next
<1>6. read' \in [Callers -> Reads \cup {NoRead}]
  BY <1>1, <1>3, <1>5 DEF HistoryTypeOK
<1>7. read'[p] = next /\ \A q \in Callers \ {p} : read'[q] = read[q]
  BY <1>1, <1>5 DEF HistoryTypeOK
<1>8. \A q \in Callers : read'[q] # NoRead => Gathered(read'[q])
  BY <1>3, <1>7 DEF HistoryInv
<1>9. RefetchIsOfView' /\ OlderIsNotFirst'
  <2>1. /\ read'["older"] # NoRead => read["older"] # NoRead /\ read'["older"].first = read["older"].first
        /\ read'["refetch"] # NoRead => /\ read["refetch"] # NoRead
                                        /\ read'["refetch"].first = read["refetch"].first
                                        /\ read'["refetch"].anchor = read["refetch"].anchor
                                        /\ read'["refetch"].known = read["refetch"].known
    BY <1>4, <1>5, <1>7 DEF Callers
  <2> QED BY <2>1, <1>5 DEF HistoryInv, RefetchIsOfView, OlderIsNotFirst, Least
<1> QED BY <1>5, <1>6, <1>8, <1>9, ReadsHistory

LEMMA FinishHistory ==
  ASSUME HistoryInv, NEW p \in Callers, Finish(p)
  PROVE  HistoryInv'
<1> DEFINE rows == read[p].rows \cup PageBefore(read[p].cursor)
           window == Window(p, read[p], rows)
           fresh == Fresh(window, FALSE)
<1>1. read[p] \in Reads /\ Gathered(read[p]) /\ HistoryTypeOK
  BY DEF HistoryInv, HistoryTypeOK, Finish
<1>2. rows \subseteq stored
  BY <1>1, RowsClosed
<1>3. window \subseteq rows /\ AllNewer(window, read[p].known \ deleted)
  BY <1>1, WindowClosed
<1>4. fresh \in Reads /\ Gathered(fresh) /\ fresh # NoRead
  BY <1>1, <1>2, <1>3, FreshGathers DEF HistoryTypeOK
<1>5. /\ view' = window /\ opened' = TRUE /\ known' = read[p].known
      /\ UNCHANGED <<stored, deleted>>
      /\ read' = ThenRefetch(p, window)
  BY DEF Finish
<1>6. fresh.first = FALSE /\ fresh.anchor = Least(window) /\ fresh.known = stored
  BY DEF Fresh
<1> HIDE DEF window, rows, fresh
<1>7. /\ read' \in [Callers -> Reads \cup {NoRead}]
      /\ p = "refetch" => read'["refetch"] = NoRead /\ read'["older"] = read["older"]
      /\ p = "older" => read'["refetch"] = fresh /\ read'["older"] = NoRead
  BY <1>1, <1>4, <1>5 DEF ThenRefetch, HistoryTypeOK, Callers, fresh
<1>8. known' \subseteq stored' /\ view' \subseteq stored'
  BY <1>1, <1>2, <1>3, <1>5 DEF Gathered
<1>9. HistoryTypeOK'
  BY <1>1, <1>5, <1>7, <1>8 DEF HistoryTypeOK
<1>10. AllNewer(view, known \ deleted)'
  BY <1>3, <1>5 DEF AllNewer
<1>11. \A q \in Callers : (read[q] # NoRead => Gathered(read[q]))'
  BY <1>4, <1>5, <1>7 DEF HistoryInv, Callers, Gathered
<1>12. RefetchIsOfView' /\ OlderIsNotFirst'
  BY <1>2, <1>3, <1>5, <1>6, <1>7 DEF HistoryInv, RefetchIsOfView, OlderIsNotFirst, Callers, Least
<1> QED BY <1>5, <1>9, <1>10, <1>11, <1>12 DEF HistoryInv

LEMMA NextHistory == HistoryInv /\ [HistoryNext]_historyVars => HistoryInv'
<1> SUFFICES ASSUME HistoryInv, [HistoryNext]_historyVars PROVE HistoryInv'
  OBVIOUS
<1>1. CASE UNCHANGED historyVars
  BY <1>1 DEF historyVars, HistoryInv, HistoryTypeOK, AllNewer, Gathered, RefetchIsOfView,
              OlderIsNotFirst, Least
<1>2. ASSUME NEW m \in Thread, Save(m) \/ Hide(m) PROVE HistoryInv'
  BY <1>2, SaveHistory, HideHistory
<1>3. ASSUME NEW p \in Callers, ReadOn(p) \/ Finish(p) \/ Fail(p) PROVE HistoryInv'
  BY <1>3, ReadOnHistory, FinishHistory, FailHistory
<1> QED BY <1>1, <1>2, <1>3, RefetchHistory, LoadOlderHistory DEF HistoryNext

\* The table, the window and the reads stay consistent, and the window is closed.
THEOREM HistoryInvariance == HistorySpec => []HistoryInv
BY InitHistory, NextHistory, PTL DEF HistorySpec

\* The window of a thread has no hole.
THEOREM WindowHasNoGap == HistorySpec => []NoGap
<1>1. ASSUME HistoryInv PROVE NoGap
  <2> SUFFICES ASSUME NEW m \in known \ deleted
               PROVE  view # {} /\ (m >= Min(view) => m \in view)
    BY DEF NoGap
  <2>1. view # {} /\ \A w \in view : m >= w => m \in view
    BY <1>1 DEF HistoryInv, AllNewer
  <2>2. Min(view) \in view
    BY <1>1, <2>1, LeastIsLowest DEF HistoryInv, HistoryTypeOK, Least
  <2> QED BY <2>1, <2>2
<1> QED BY <1>1, HistoryInvariance, PTL

\* Resynchronising keeps what is on the screen and still exists.
LEMMA RefetchKeeps ==
  ASSUME HistoryInv, Finish("refetch")
  PROVE  view \ deleted \subseteq view'
<1> DEFINE rd == read["refetch"]
           rows == rd.rows \cup PageBefore(rd.cursor)
<1>1. /\ rd \in Reads /\ Gathered(rd) /\ HistoryTypeOK
      /\ rd.first = ~opened /\ rd.anchor = Least(view) /\ view \subseteq rd.known
      /\ "refetch" \in Callers
  BY DEF HistoryInv, HistoryTypeOK, RefetchIsOfView, Finish, Callers
<1> HIDE DEF rd
<1>2. /\ \A m \in rd.known \ deleted, w \in rows : m >= w => m \in rows
      /\ Cardinality(PageBefore(rd.cursor)) < Page => rd.known \ deleted \subseteq rows
  BY <1>1, RowsClosed
<1>3. /\ view' = Window("refetch", rd, rows)
      /\ Enough("refetch", rd, rows, PageBefore(rd.cursor))
  BY DEF Finish, rd
<1> HIDE DEF rows
<1> SUFFICES ASSUME NEW m \in view \ deleted PROVE m \in view'
  OBVIOUS
<1>4. m >= rd.anchor /\ ~rd.first /\ m \in rd.known \ deleted
  <2>1. view \in SUBSET Thread /\ m \in view /\ (~opened => view = {})
    BY DEF HistoryInv, HistoryTypeOK
  <2>2. m >= Least(view)
    BY <2>1, LeastIsLowest
  <2> QED BY <1>1, <2>1, <2>2
<1>5. CASE rd.anchor \in rows
  BY <1>2, <1>3, <1>4, <1>5 DEF Window
<1>6. CASE rd.anchor \notin rows
  BY <1>2, <1>3, <1>4, <1>6 DEF Window, Enough
<1> QED BY <1>5, <1>6

\* The same, of every step.
THEOREM ResyncKeeps == HistorySpec => ResyncKeepsWindow
<1> DEFINE Keeps == Finish("refetch") => view \ deleted \subseteq view'
<1>1. HistoryInv => Keeps
  BY RefetchKeeps
<1> HIDE DEF Keeps
<1>2. HistorySpec => [][Keeps]_historyVars
  BY <1>1, HistoryInvariance, PTL DEF HistorySpec
<1> QED BY <1>2, PTL DEF Keeps, ResyncKeepsWindow

\* A longer window has a full page of older rows, or all there were.
LEMMA OlderReaches ==
  ASSUME HistoryInv, Finish("older")
  PROVE  LET before(S) == {m \in S : m < read["older"].anchor} IN
           \/ Cardinality(before(view')) >= Page
           \/ before(read["older"].known \ deleted) \subseteq view'
<1> DEFINE rd == read["older"]
           page == PageBefore(rd.cursor)
           rows == rd.rows \cup page
           old == Older(rd.anchor, rows)
<1>1. /\ rd \in Reads /\ Gathered(rd) /\ HistoryTypeOK /\ ~rd.first
      /\ "older" \in Callers
  BY DEF HistoryInv, HistoryTypeOK, OlderIsNotFirst, Finish, Callers
<1>2. /\ rows \subseteq stored
      /\ Cardinality(page) < Page => rd.known \ deleted \subseteq rows
  BY <1>1, RowsClosed
<1>3. view' = Window("older", rd, rows) /\ Enough("older", rd, rows, page)
  BY DEF Finish
<1> HIDE DEF page, rows
<1>4. CASE rd.anchor \notin rows
  BY <1>1, <1>2, <1>3, <1>4 DEF Window, Enough
<1>5. CASE rd.anchor \in rows
  <2>1. old \in SUBSET Thread /\ Newest(Page, old) \in SUBSET Thread /\ Page \in Nat
    BY <1>1, <1>2, PageAssumption DEF HistoryTypeOK, Older, Newest
  <2>2. rd.anchor \in Nat /\ \A m \in rows : m \in Nat
    BY <1>1, <1>2, <1>5, ThreadNumbers DEF HistoryTypeOK
  <2>3. view' = {m \in rows : m >= rd.anchor} \cup Newest(Page, old)
    BY <1>1, <1>3, <1>5 DEF Window
  <2>4. CASE Cardinality(old) >= Page
    <3>1. {m \in view' : m < rd.anchor} = Newest(Page, old)
      BY <2>2, <2>3 DEF Newest, Older
    <3>2. ~ (Cardinality(Newest(Page, old)) < Page)
      BY <2>1, <2>4, ShortIsAll, ThreadFinite
    <3>3. Cardinality(Newest(Page, old)) \in Nat
      BY <2>1, ThreadFinite
    <3> QED BY <3>1, <3>2, <3>3, <2>1
  <2>5. CASE ~ (Cardinality(old) >= Page)
    <3>1. rd.known \ deleted \subseteq rows
      BY <1>1, <1>2, <1>3, <1>5, <2>5 DEF Enough
    <3>2. Newest(Page, old) = old
      BY <2>1, <2>5, FewAreAll, ThreadFinite
    <3> QED BY <3>1, <3>2, <2>3 DEF Older
  <2> QED BY <2>4, <2>5
<1> QED BY <1>4, <1>5

\* The same, of every step.
THEOREM OlderRowsAreReached == HistorySpec => LoadOlderReaches
<1> DEFINE Reached == Finish("older") =>
             LET before(S) == {m \in S : m < read["older"].anchor} IN
               \/ Cardinality(before(view')) >= Page
               \/ before(read["older"].known \ deleted) \subseteq view'
<1>1. HistoryInv => Reached
  BY OlderReaches
<1> HIDE DEF Reached
<1>2. HistorySpec => [][Reached]_historyVars
  BY <1>1, HistoryInvariance, PTL DEF HistorySpec
<1> QED BY <1>2, PTL DEF Reached, LoadOlderReaches

=============================================================================
