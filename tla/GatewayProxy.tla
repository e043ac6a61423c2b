------------------------------ MODULE GatewayProxy ------------------------------
(*****************************************************************************)
(* The HTTP handler of the gateway: handleRequest and what it awaits in      *)
(* artifacts/api-gateway/src/gateway.ts, with the limiter it shares.         *)
(*                                                                           *)
(* An action is what runs between two awaits: the arrival, the answer to the *)
(* session check, the end of the body, the answer to the forwarded call, and *)
(* the timer or the departure of the client that ends each wait.  The Python *)
(* service performs a forwarded call whenever it likes, also when the        *)
(* gateway gave up waiting, or never.                                        *)
(*****************************************************************************)
EXTENDS RateLimiter

CONSTANTS
  Requests,  \* requests in progress at once
  Accounts,  \* the users that sign in and call
  Nobody,    \* stands for the user of a key all users share
  Routes     \* the kinds of routes that are called

VARIABLES
  stage,     \* how far handleRequest got, or how it ended
  route,     \* the kind of its route
  caller,    \* the user whose cookie, or whose login, it carries
  backend    \* what the Python service knows of the forwarded call

requestVars == <<stage, route, caller, backend>>
proxyVars == <<limiterVars, requestVars>>

Waiting == {"verifying", "reading", "fetching"}
Ended   == {"refused", "failed", "answered", "left"}

ProxyInit ==
  /\ LimiterInit
  /\ stage = [r \in Requests |-> "idle"]
  /\ route = [r \in Requests |-> "none"]
  /\ caller = [r \in Requests |-> Nobody]
  /\ backend = [r \in Requests |-> "none"]

-----------------------------------------------------------------------------

NeedsSession(x) == x \notin {"public", "login", "register"}

\* requiredAuthority, for the kinds of routes told apart here.
Authority(x) ==
  CASE x \in {"ask_link", "confirm_link", "read_profile", "edit_profile"} -> "session"
    [] x = "read"  -> "member"
    [] x = "write" -> "student"
    [] x \in {"match", "ranking"} -> "admin"

Standing == {"signed in", "student", "admin"}

\* assertSessionAuthority; an administrator here is a verified one.
Holds(standing, authority) ==
  \/ authority = "session"
  \/ authority = "member"  /\ standing # "signed in"
  \/ authority = "student" /\ standing = "student"
  \/ authority = "admin"   /\ standing = "admin"

\* The windows a call is counted in, once its session is known ...
SessionClasses(x) ==
  CASE x = "ask_link"     -> <<"verification-request", "mutation">>
    [] x = "confirm_link" -> <<"verification-confirm", "mutation">>
    [] x = "write"        -> <<"mutation">>
    [] x = "match"        -> <<"mutation", "expensive">>
    [] x = "ranking"      -> <<"expensive">>
    [] OTHER              -> << >>

\* ... and once its body is.
BodyClasses(x) ==
  CASE x = "login"        -> <<"login:global", "login:account">>
    [] x = "register"     -> <<"register:global">>
    [] x = "edit_profile" -> <<"mutation">>
    [] OTHER              -> << >>

KeyOf(class, u) ==
  [class |-> class,
   who   |-> IF class \in {"login:global", "register:global"} THEN Nobody ELSE u]

\* The limiter has a key for every class and account.
ASSUME KeysAssumption ==
  \A x \in Routes, u \in Accounts :
    /\ \A i \in DOMAIN SessionClasses(x) : KeyOf(SessionClasses(x)[i], u) \in Keys
    /\ \A i \in DOMAIN BodyClasses(x) : KeyOf(BodyClasses(x)[i], u) \in Keys

\* takeRateLimit for one more class, unless an earlier one was refused: what was
\* taken stays taken.
TakeNext(sofar, class, u) ==
  LET k == KeyOf(class, u)  result == Take(sofar.table, k, now) IN
  IF ~sofar.allowed THEN sofar
  ELSE [allowed |-> result.allowed, retryAfter |-> result.retryAfter,
        table |-> result.table, last |-> k,
        taken |-> IF result.allowed THEN sofar.taken \cup {k} ELSE sofar.taken]

\* Nothing was taken yet.
Uncharged(u) ==
  [allowed |-> TRUE, retryAfter |-> 0, table |-> entries,
   last |-> KeyOf("mutation", u), taken |-> {}]

\* takeRateLimit for the classes of a call, of which there are at most two.
TakeAll(classes, u) ==
  CASE Len(classes) = 0 -> Uncharged(u)
    [] Len(classes) = 1 -> TakeNext(Uncharged(u), classes[1], u)
    [] Len(classes) = 2 -> TakeNext(TakeNext(Uncharged(u), classes[1], u), classes[2], u)

Charge(result) ==
  /\ entries' = result.table
  /\ Remember(result.taken, result.last, result)
  /\ UNCHANGED <<now, setBack>>

Goto(r, p) == stage' = [stage EXCEPT ![r] = p] /\ UNCHANGED <<route, caller>>

\* What the gateway answered, or that the client left.
EndRequest(r, o) ==
  /\ stage' = [stage EXCEPT ![r] = o]
  /\ route' = [route EXCEPT ![r] = "none"]
  /\ caller' = [caller EXCEPT ![r] = Nobody]

-----------------------------------------------------------------------------

\* The request line, the headers, the route, the origin, maintenance mode and
\* the presence of a cookie are looked at without waiting.
Arrive(r, x, u) ==
  /\ stage[r] \in Ended \cup {"idle"}
  /\ backend' = [backend EXCEPT ![r] = "none"]
  /\ \/ EndRequest(r, "refused")
     \/ /\ stage' = [stage EXCEPT ![r] = IF NeedsSession(x) THEN "verifying" ELSE "reading"]
        /\ route' = [route EXCEPT ![r] = x]
        /\ caller' = [caller EXCEPT ![r] = u]
  /\ UNCHANGED limiterVars

\* A profile is edited by its owner, and shown to its owner and to members.
ProfileAllowed(x, own, standing) ==
  x \in {"read_profile", "edit_profile"} =>
    \/ own
    \/ x = "read_profile" /\ Holds(standing, "member")

\* /me answered: the caller is signed in, with this standing, now.
SessionKnown(r, standing, own) ==
  LET charged == TakeAll(SessionClasses(route[r]), caller[r])
      allowed == /\ Holds(standing, Authority(route[r]))
                 /\ ProfileAllowed(route[r], own, standing) IN
  /\ stage[r] = "verifying"
  /\ \/ /\ ~allowed
        /\ EndRequest(r, "refused")
        /\ UNCHANGED limiterVars
     \/ /\ allowed /\ ~charged.allowed
        /\ EndRequest(r, "refused")
        /\ Charge(charged)
     \/ /\ allowed /\ charged.allowed
        /\ Goto(r, "reading")
        /\ IF SessionClasses(route[r]) = << >> THEN UNCHANGED limiterVars
                                               ELSE Charge(charged)
  /\ UNCHANGED backend

\* /me answered 401 or 403.
SessionUnknown(r) ==
  /\ stage[r] = "verifying"
  /\ EndRequest(r, "refused")
  /\ UNCHANGED <<backend, limiterVars>>

\* /me failed (502), or its timer ran (504).
SessionCheckFails(r) ==
  /\ stage[r] = "verifying"
  /\ EndRequest(r, "failed")
  /\ UNCHANGED <<backend, limiterVars>>

\* Broken variant: the call is forwarded while the limits are looked at.
BodyReadEarly(r) ==
  LET charged == TakeAll(BodyClasses(route[r]), caller[r]) IN
  /\ stage[r] = "reading"
  /\ IF charged.allowed THEN Goto(r, "fetching")
                        ELSE EndRequest(r, "refused")
  /\ backend' = [backend EXCEPT ![r] = "asked"]
  /\ IF BodyClasses(route[r]) = << >> THEN UNCHANGED limiterVars ELSE Charge(charged)

\* The body is complete and valid: the limits that need it are charged and the
\* call is forwarded.
BodyRead(r) ==
  LET charged == TakeAll(BodyClasses(route[r]), caller[r]) IN
  /\ stage[r] = "reading"
  /\ \/ /\ charged.allowed
        /\ Goto(r, "fetching")
        /\ backend' = [backend EXCEPT ![r] = "asked"]
     \/ /\ ~charged.allowed
        /\ EndRequest(r, "refused")
        /\ UNCHANGED backend
  /\ IF BodyClasses(route[r]) = << >> THEN UNCHANGED limiterVars ELSE Charge(charged)

\* It is too large or invalid ...
BodyRefused(r) ==
  /\ stage[r] = "reading"
  /\ EndRequest(r, "refused")
  /\ UNCHANGED <<backend, limiterVars>>

\* Broken variant: only requests with a session get the timer.
BodyTimeoutOfSessions(r) == NeedsSession(route[r]) /\ BodyRefused(r)

\* ... or not there when the body timer runs (408).
BodyTimeout(r) == BodyRefused(r)

\* The Python service performs the call, whether or not anybody waits for it.
Perform(r) ==
  /\ backend[r] = "asked"
  /\ backend' = [backend EXCEPT ![r] = "performed"]
  /\ UNCHANGED <<stage, route, caller, limiterVars>>

\* Its answer is complete: it is passed on, or 502 when it has the wrong shape.
Answer(r) ==
  /\ stage[r] = "fetching"
  /\ backend[r] = "performed"
  /\ \E o \in {"answered", "failed"} : EndRequest(r, o)
  /\ UNCHANGED <<backend, limiterVars>>

\* The upstream timer runs (504), the connection fails or the answer is too
\* large (502).
FetchFails(r) ==
  /\ stage[r] = "fetching"
  /\ EndRequest(r, "failed")
  /\ UNCHANGED <<backend, limiterVars>>

\* The client disconnects: every wait ends, and nothing is answered.
Leave(r) ==
  /\ stage[r] \in Waiting
  /\ EndRequest(r, "left")
  /\ UNCHANGED <<backend, limiterVars>>

ProxyNext ==
  \/ \E r \in Requests :
       \/ \E x \in Routes, u \in Accounts : Arrive(r, x, u)
       \/ \E s \in Standing, own \in BOOLEAN : SessionKnown(r, s, own)
       \/ SessionUnknown(r) \/ SessionCheckFails(r)
       \/ BodyRead(r) \/ BodyRefused(r) \/ BodyTimeout(r)
       \/ Perform(r) \/ Answer(r) \/ FetchFails(r) \/ Leave(r)
  \/ (Tick \/ SetClockBack) /\ UNCHANGED requestVars

ProxySpec == ProxyInit /\ [][ProxyNext]_proxyVars

\* Each wait has a timer of its own.
Timers(r) == SessionCheckFails(r) \/ BodyTimeout(r) \/ FetchFails(r)

FairProxySpec == ProxySpec /\ \A r \in Requests : WF_proxyVars(Timers(r))

-----------------------------------------------------------------------------

\* A request the gateway refused was never forwarded, so that repeating it is
\* safe: only a failure (502, 504) leaves open whether it was performed.
RefusedIsUnsent ==
  \A r \in Requests : stage[r] = "refused" => backend[r] = "none"

\* Every request ends, although neither the session check nor the client's
\* body nor the Python service has to come.
RequestsEnd == \A r \in Requests : stage[r] \in Waiting ~> stage[r] \notin Waiting

=============================================================================
