-------------------------------- MODULE Service --------------------------------
(*****************************************************************************)
(* How the service starts and stops: the supervisor (supervise in            *)
(* ops/run-service.py), its two children, and what the gateway does on       *)
(* SIGTERM (shutdown in artifacts/api-gateway/src/index.ts), which drains    *)
(* the readiness probe modelled in Readiness.                                *)
(*                                                                           *)
(* The supervisor starts the Python worker, then the gateway, and looks at   *)
(* them every 0.1 s.  When it is told to stop, or one of them has exited, it *)
(* sends SIGTERM to both and waits for both until one common deadline.       *)
(* Time counts from the SIGTERM, in ticks of two seconds.                    *)
(*****************************************************************************)
EXTENDS Readiness, FiniteSets

CONSTANTS
  Patience,  \* of the supervisor: 12 s
  Graceful,  \* of the gateway: 10 s
  MaxHttp    \* bound of the model: HTTP requests being answered

ASSUME ServiceAssumption ==
  /\ Graceful \in Nat \ {0} /\ Patience \in Nat /\ Graceful < Patience
  /\ MaxHttp \in Nat

VARIABLES
  sup,       \* spawning, watching, waiting (in finally) or exited
  stopping,  \* a signal has reached the supervisor
  child,     \* none, running or exited
  killed,    \* children that got SIGKILL
  elapsed,   \* since the SIGTERM to the children
  shutting,  \* the gateway has handled it
  timer,     \* when its deadline is due
  http,      \* its HTTP requests in flight
  drained    \* it left by process.exit(0)

service == <<sup, stopping, child, killed, elapsed, shutting, timer, http, drained>>
process == <<shutting, timer, http, drained>>
all == <<vars, service>>

Children == {"worker", "gateway"}
Running(c) == child[c] = "running"

ServiceInit ==
  /\ Init
  /\ sup = "spawning" /\ stopping = FALSE
  /\ child = [c \in Children |-> "none"]
  /\ killed = {} /\ elapsed = 0
  /\ shutting = FALSE /\ timer = 0 /\ http = 0 /\ drained = FALSE

-----------------------------------------------------------------------------
(* supervise.                                                                *)

\* SIGTERM or SIGINT.
Signal ==
  /\ ~stopping /\ sup # "exited"
  /\ stopping' = TRUE
  /\ UNCHANGED <<vars, sup, child, killed, elapsed, process>>

Spawn(c) ==
  /\ sup = "spawning" /\ child[c] = "none"
  /\ c = "gateway" => child["worker"] # "none"
  /\ child' = [child EXCEPT ![c] = "running"]
  /\ sup' = IF c = "gateway" THEN "watching" ELSE sup
  /\ UNCHANGED <<vars, stopping, killed, elapsed, process>>

\* The finally block: an exception of Popen, a signal, or a child that exited.
Terminate ==
  /\ \/ sup = "spawning"
     \/ sup = "watching" /\ (stopping \/ \E c \in Children : child[c] = "exited")
  /\ sup' = "waiting"
  /\ UNCHANGED <<vars, stopping, child, killed, elapsed, process>>

\* What the end of the gateway leaves of the probe: nothing.
Gone ==
  /\ probe' = FALSE /\ step' = "done" /\ ledger' = "none"
  /\ slot' = "empty" /\ dirty' = FALSE /\ late' = 0
  /\ cached' = "none" /\ closing' = "closed"
  /\ UNCHANGED <<draining, aborted, python>>

Ends(c) ==
  /\ child' = [child EXCEPT ![c] = "exited"]
  /\ IF c = "gateway" THEN Gone /\ http' = 0 ELSE UNCHANGED <<vars, http>>

\* Broken variant: a child that outlives the deadline is left alone.
KillNothing(c) ==
  /\ sup = "waiting" /\ Running(c) /\ elapsed = Patience
  /\ killed' = killed \cup {c}
  /\ UNCHANGED <<vars, sup, stopping, child, elapsed, process>>

\* The common deadline passes: SIGKILL, and the child is reaped.
Kill(c) ==
  /\ sup = "waiting" /\ Running(c) /\ elapsed = Patience
  /\ c = "gateway" => ~Running("worker")
  /\ killed' = killed \cup {c}
  /\ Ends(c)
  /\ UNCHANGED <<sup, stopping, elapsed, shutting, timer, drained>>

\* Every child was waited for, or killed.
Exit ==
  /\ sup = "waiting"
  /\ \A c \in Children : Running(c) => c \in killed
  /\ sup' = "exited"
  /\ UNCHANGED <<vars, stopping, child, killed, elapsed, process>>

-----------------------------------------------------------------------------
(* The children.                                                             *)

\* A child ends by itself: it crashes, or the worker has drained.
Leave(c) ==
  /\ Running(c)
  /\ Ends(c)
  /\ UNCHANGED <<sup, stopping, killed, elapsed, shutting, timer, drained>>

Request ==
  /\ Running("gateway") /\ ~shutting /\ http < MaxHttp
  /\ http' = http + 1
  /\ UNCHANGED <<vars, sup, stopping, child, killed, elapsed, shutting, timer, drained>>

Answer ==
  /\ Running("gateway") /\ http > 0
  /\ http' = http - 1
  /\ UNCHANGED <<vars, sup, stopping, child, killed, elapsed, shutting, timer, drained>>

\* Broken variant: the drain has no deadline of its own.
HandleTermUntimed ==
  /\ Running("gateway") /\ sup = "waiting" /\ ~shutting
  /\ shutting' = TRUE /\ timer' = Patience + 1
  /\ Shutdown
  /\ UNCHANGED <<sup, stopping, child, killed, elapsed, http, drained>>

\* shutdown of index.ts: the deadline is set, the probe drained, the server closed.
HandleTerm ==
  /\ Running("gateway") /\ sup = "waiting" /\ ~shutting
  /\ shutting' = TRUE /\ timer' = elapsed + Graceful
  /\ Shutdown
  /\ UNCHANGED <<sup, stopping, child, killed, elapsed, http, drained>>

\* Broken variant: shutdownGateway does not wait for readiness.close().
DrainedHttpOnly ==
  /\ Running("gateway") /\ shutting /\ http = 0
  /\ drained' = TRUE
  /\ Ends("gateway")
  /\ UNCHANGED <<sup, stopping, killed, elapsed, shutting, timer>>

\* server.close and readiness.close are both done: process.exit(0).
Drained ==
  /\ Running("gateway") /\ shutting /\ http = 0 /\ closing = "closed"
  /\ drained' = TRUE
  /\ Ends("gateway")
  /\ UNCHANGED <<sup, stopping, killed, elapsed, shutting, timer>>

\* The gateway's deadline: closeAllConnections and process.exit(1).
GatewayDeadline ==
  /\ Running("gateway") /\ shutting /\ elapsed >= timer
  /\ Ends("gateway")
  /\ UNCHANGED <<sup, stopping, killed, elapsed, shutting, timer, drained>>

\* A step of the probe, in a gateway that runs.
Probing ==
  /\ Running("gateway")
  /\ Next /\ ~(closing = "no" /\ closing' # "no")
  /\ UNCHANGED service

\* Two seconds pass; a signal is handled, and a timer fires, in less.
Tick ==
  /\ sup = "waiting" /\ elapsed < Patience
  /\ Running("gateway") => shutting /\ elapsed < timer
  /\ elapsed' = elapsed + 1
  /\ UNCHANGED <<vars, sup, stopping, child, killed, process>>

ServiceNext ==
  \/ Signal \/ Terminate \/ Exit \/ Request \/ Answer \/ HandleTerm \/ Drained
  \/ GatewayDeadline \/ Probing \/ Tick
  \/ \E c \in Children : Spawn(c) \/ Kill(c) \/ Leave(c)

ServiceSpec == ServiceInit /\ [][ServiceNext]_all

\* The supervisor, timers and the operating system go on; neither child has to
\* obey a SIGTERM, nor the database or a browser to answer.
FairServiceSpec ==
  /\ ServiceSpec
  /\ WF_all(Terminate /\ sup = "watching") /\ WF_all(Exit) /\ WF_all(Tick)
  /\ WF_all(\E c \in Children : Spawn(c))
  /\ \A c \in Children : WF_all(Kill(c))
  /\ WF_all(HandleTerm) /\ WF_all(GatewayDeadline) /\ WF_all(Drained)
  /\ WF_all(Probing /\ Settle) /\ WF_all(Probing /\ Deadline)
  /\ WF_all(Probing /\ LateConnect) /\ WF_all(Probing /\ EndPool)
  /\ WF_all(Probing /\ Closed)

-----------------------------------------------------------------------------
(* Properties.                                                               *)

\* A stop, or the end of one child, takes everything down: the supervisor exits
\* and leaves no child behind, even one that ignores SIGTERM (run-service.py 34-45).
StopLeavesNothing ==
  (stopping \/ \E c \in Children : child[c] = "exited")
    ~> (sup = "exited" /\ \A c \in Children : ~Running(c))

\* The two deadlines fit: a gateway whose requests or probe hang ends by its own
\* deadline and is never killed in the middle, although the worker may use up all
\* the time the supervisor has for both (index.ts 57-60, run-service.py 38-45).
GatewayEndsItself == "gateway" \notin killed

\* process.exit(0) means drained: no HTTP request is cut off, and the probe and
\* its database client are gone (index.ts 21-31, 63-66).
ExitsDrained ==
  [][drained' /\ ~drained => http = 0 /\ ~probe /\ slot = "empty" /\ late = 0]_all

=============================================================================
