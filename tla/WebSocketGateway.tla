---------------------------- MODULE WebSocketGateway ----------------------------
(*****************************************************************************)
(* The WebSocket upgrade handler of the gateway:                             *)
(* artifacts/api-gateway/src/websocket.ts.                                   *)
(*                                                                           *)
(* Node runs one callback at a time, so every action is one callback; they   *)
(* come in any order the sockets, the session check, the upstream and the    *)
(* timers produce, also after the connection has ended.  Two resources are   *)
(* capped: all connections, when one arrives, and those of a user, when its  *)
(* session is known.                                                         *)
(*****************************************************************************)
EXTENDS Naturals, FiniteSets

CONSTANTS
  Connections,  \* upgrade requests
  Users,
  NoUser,
  MaxOpen,      \* 40
  MaxPerUser,   \* 2
  EarlyLimit    \* chunks the client may send before the upgrade (65 536 bytes)

ASSUME NoUserAssumption == NoUser \notin Users
ASSUME LimitsAssumption == MaxOpen \in Nat /\ MaxPerUser \in Nat /\ EarlyLimit \in Nat

VARIABLES
  phase,      \* how far the handler of each request got
  open,       \* the set connections
  held,       \* the map users: connections counted per user
  user,       \* userId of each handler, undefined before its session is known
  session,    \* verifySession of each handler
  upstream,   \* its request or socket to the Python service
  timer,      \* the timer that runs
  early,      \* chunks collected before the upgrade
  draining    \* closeWebSockets was called

vars == <<phase, open, held, user, session, upstream, timer, early, draining>>

Live  == {"authenticating", "connecting", "piping", "flushing"}
Phase == Live \cup {"new", "ended"}

\* Types of the handlers' variables and of the two shared collections.
TypeOK ==
  /\ phase \in [Connections -> Phase]
  /\ open \subseteq Connections
  /\ held \in [Users -> Nat]
  /\ user \in [Connections -> Users \cup {NoUser}]
  /\ session \in [Connections -> {"none", "pending", "settled"}]
  /\ upstream \in [Connections -> {"none", "requested", "open", "destroyed"}]
  /\ timer \in [Connections -> {"none", "handshake", "idle"}]
  /\ early \in [Connections -> 0 .. EarlyLimit]
  /\ draining \in BOOLEAN

Init ==
  /\ phase = [c \in Connections |-> "new"]
  /\ open = {}
  /\ held = [u \in Users |-> 0]
  /\ user = [c \in Connections |-> NoUser]
  /\ session = [c \in Connections |-> "none"]
  /\ upstream = [c \in Connections |-> "none"]
  /\ timer = [c \in Connections |-> "none"]
  /\ early = [c \in Connections |-> 0]
  /\ draining = FALSE

-----------------------------------------------------------------------------

\* The users map after cleanup() of the handlers S.
Released(S) ==
  [u \in Users |-> held[u] - Cardinality({c \in S : user[c] = u})]

\* Broken variant: the upstream is left to itself.
CleanupHere(S) ==
  /\ phase' = [c \in Connections |-> IF c \in S THEN "ended" ELSE phase[c]]
  /\ open' = open \ S
  /\ held' = Released(S)
  /\ timer' = [c \in Connections |-> IF c \in S THEN "none" ELSE timer[c]]
  /\ early' = [c \in Connections |-> IF c \in S THEN 0 ELSE early[c]]
  /\ UNCHANGED upstream

\* cleanup() of the handlers S, whose sockets are destroyed after it.
Cleanup(S) ==
  /\ phase' = [c \in Connections |-> IF c \in S THEN "ended" ELSE phase[c]]
  /\ open' = open \ S
  /\ held' = Released(S)
  /\ timer' = [c \in Connections |-> IF c \in S THEN "none" ELSE timer[c]]
  /\ early' = [c \in Connections |-> IF c \in S THEN 0 ELSE early[c]]
  /\ upstream' = [c \in Connections |->
       IF c \in S /\ upstream[c] # "none" THEN "destroyed" ELSE upstream[c]]

\* The upgrade event is refused at once: 503, 429, or a malformed request.
Refuse(c) ==
  /\ phase[c] = "new"
  /\ phase' = [phase EXCEPT ![c] = "ended"]
  /\ UNCHANGED <<open, held, user, session, upstream, timer, early, draining>>

\* Broken variant: a drained gateway still takes upgrades that were under way.
UpgradeAnyway(c) ==
  /\ phase[c] = "new"
  /\ Cardinality(open) < MaxOpen
  /\ phase' = [phase EXCEPT ![c] = "authenticating"]
  /\ open' = open \cup {c}
  /\ session' = [session EXCEPT ![c] = "pending"]
  /\ timer' = [timer EXCEPT ![c] = "handshake"]
  /\ UNCHANGED <<held, user, upstream, early, draining>>

\* The upgrade event of a well-formed request.
Upgrade(c) ==
  /\ phase[c] = "new"
  /\ ~draining
  /\ Cardinality(open) < MaxOpen
  /\ phase' = [phase EXCEPT ![c] = "authenticating"]
  /\ open' = open \cup {c}
  /\ session' = [session EXCEPT ![c] = "pending"]
  /\ timer' = [timer EXCEPT ![c] = "handshake"]
  /\ UNCHANGED <<held, user, upstream, early, draining>>

\* Broken variant: the buffer has no bound.
EarlyUnbounded(c) ==
  /\ phase[c] \in {"authenticating", "connecting"}
  /\ early[c] <= EarlyLimit
  /\ early' = [early EXCEPT ![c] = @ + 1]
  /\ UNCHANGED <<phase, open, held, upstream, timer, user, session, draining>>

\* Bytes before the upgrade: buffered, or too many (413).
EarlyBytes(c) ==
  /\ phase[c] \in {"authenticating", "connecting"}
  /\ \/ /\ early[c] < EarlyLimit
        /\ early' = [early EXCEPT ![c] = @ + 1]
        /\ UNCHANGED <<phase, open, held, upstream, timer>>
     \/ early[c] = EarlyLimit /\ Cleanup({c})
  /\ UNCHANGED <<user, session, draining>>

\* Broken variant: the user's connections are counted when the request arrives.
SeatUnchecked(c, u) == TRUE

\* users.get(userId) is read after the await, in the callback that adds to it.
Seat(c, u) == held[u] < MaxPerUser

\* Broken variant: the answer of the session check is used although the handler
\* has ended (the line "if (ended) return").
VerifiedLate(c, u) ==
  /\ session[c] = "pending"
  /\ session' = [session EXCEPT ![c] = "settled"]
  /\ Seat(c, u)
  /\ phase' = [phase EXCEPT ![c] = "connecting"]
  /\ user' = [user EXCEPT ![c] = u]
  /\ held' = [held EXCEPT ![u] = @ + 1]
  /\ upstream' = [upstream EXCEPT ![c] = "requested"]
  /\ UNCHANGED <<open, timer, early, draining>>

\* Broken variant: the deadline ends with the session check.
VerifiedUntimed(c, u) ==
  /\ phase[c] = "authenticating" /\ session[c] = "pending"
  /\ session' = [session EXCEPT ![c] = "settled"]
  /\ Seat(c, u)
  /\ phase' = [phase EXCEPT ![c] = "connecting"]
  /\ user' = [user EXCEPT ![c] = u]
  /\ held' = [held EXCEPT ![u] = @ + 1]
  /\ upstream' = [upstream EXCEPT ![c] = "requested"]
  /\ timer' = [timer EXCEPT ![c] = "none"]
  /\ UNCHANGED <<open, early, draining>>

\* verifySession answers, and the user has a place left.
Verified(c, u) ==
  /\ phase[c] = "authenticating" /\ session[c] = "pending"
  /\ session' = [session EXCEPT ![c] = "settled"]
  /\ Seat(c, u)
  /\ phase' = [phase EXCEPT ![c] = "connecting"]
  /\ user' = [user EXCEPT ![c] = u]
  /\ held' = [held EXCEPT ![u] = @ + 1]
  /\ upstream' = [upstream EXCEPT ![c] = "requested"]
  /\ UNCHANGED <<open, timer, early, draining>>

\* verifySession fails, or the user's places are taken (403, 429, 502).
NotAdmitted(c) ==
  /\ phase[c] = "authenticating" /\ session[c] = "pending"
  /\ session' = [session EXCEPT ![c] = "settled"]
  /\ Cleanup({c})
  /\ UNCHANGED <<user, draining>>

\* verifySession settles after the end: nothing happens any more.
SettledLate(c) ==
  /\ phase[c] = "ended" /\ session[c] = "pending"
  /\ session' = [session EXCEPT ![c] = "settled"]
  /\ UNCHANGED <<phase, open, held, user, upstream, timer, early, draining>>

\* Broken variant: the idle timer starts with the first byte only.
UpgradedUntimed(c) ==
  /\ phase[c] = "connecting"
  /\ phase' = [phase EXCEPT ![c] = "piping"]
  /\ upstream' = [upstream EXCEPT ![c] = "open"]
  /\ timer' = [timer EXCEPT ![c] = "none"]
  /\ early' = [early EXCEPT ![c] = 0]
  /\ UNCHANGED <<open, held, user, session, draining>>

\* The upstream upgrades: early bytes go first, the idle timer takes over.
Upgraded(c) ==
  /\ phase[c] = "connecting"
  /\ phase' = [phase EXCEPT ![c] = "piping"]
  /\ upstream' = [upstream EXCEPT ![c] = "open"]
  /\ timer' = [timer EXCEPT ![c] = "idle"]
  /\ early' = [early EXCEPT ![c] = 0]
  /\ UNCHANGED <<open, held, user, session, draining>>

\* The upstream ends: what it sent is flushed to the client before the end.
UpstreamEnds(c) ==
  /\ phase[c] = "piping"
  /\ phase' = [phase EXCEPT ![c] = "flushing"]
  /\ UNCHANGED <<open, held, user, session, upstream, timer, early, draining>>

\* close() and reject(): the client or the upstream ends or fails, the upstream
\* answers without upgrading, its handshake is invalid, or the flush is done.
End(c) ==
  /\ phase[c] \in Live
  /\ Cleanup({c})
  /\ UNCHANGED <<user, session, draining>>

\* handshakeTimer after 5 seconds, idleTimer after 120 without a byte.
Expire(c) ==
  /\ timer[c] # "none"
  /\ Cleanup({c})
  /\ UNCHANGED <<user, session, draining>>

\* closeWebSockets() at shutdown.
CloseWebSockets ==
  /\ draining' = TRUE
  /\ Cleanup(open)
  /\ UNCHANGED <<user, session>>

Next ==
  \/ \E c \in Connections : Refuse(c) \/ Upgrade(c) \/ EarlyBytes(c)
  \/ \E c \in Connections, u \in Users : Verified(c, u)
  \/ \E c \in Connections : NotAdmitted(c) \/ SettledLate(c) \/ Upgraded(c)
  \/ \E c \in Connections : UpstreamEnds(c) \/ End(c) \/ Expire(c)
  \/ CloseWebSockets

Spec == Init /\ [][Next]_vars

\* Timers of a handshake fire; the idle timer is restarted by traffic.
Timely(c) == timer[c] = "handshake" /\ Expire(c)
FairSpec == Spec /\ \A c \in Connections : WF_vars(Timely(c))

-----------------------------------------------------------------------------
(* Properties.                                                               *)

Counted(u) == {c \in open : user[c] = u}

\* A user's count is the number of its open connections: no ending, in whatever
\* order its callbacks come, leaks a place or gives it back twice.  So both caps
\* hold, although the user is known only after an await, and so does the cap on
\* the bytes a client may send before it is known.
CountsAndCaps ==
  /\ \A u \in Users : held[u] = Cardinality(Counted(u))
  /\ \A c \in Connections : early[c] <= EarlyLimit
  /\ Cardinality(open) <= MaxOpen
  /\ \A u \in Users : Cardinality(Counted(u)) <= MaxPerUser

\* What has ended holds nothing, neither a place nor an upstream connection, and
\* what is open has a deadline in every phase, so that it will end.
NothingLeaks ==
  /\ \A c \in Connections : phase[c] \in {"new", "ended"} =>
       /\ c \notin open
       /\ upstream[c] \in {"none", "destroyed"}
  /\ \A c \in open : timer[c] # "none"

\* After the drain no connection is open, whatever was still being verified.
DrainedIsEmpty == draining => open = {}

\* The handshake is over in the end, also if neither the session check nor the
\* upstream ever answers.
HandshakeEnds ==
  \A c \in Connections :
    phase[c] \in {"authenticating", "connecting"} ~> phase[c] \in {"piping", "ended"}

=============================================================================
