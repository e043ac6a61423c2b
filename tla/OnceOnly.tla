-------------------------------- MODULE OnceOnly --------------------------------
(*****************************************************************************)
(* What publishing promises whatever is retried, lost or repeated: a key an  *)
(* author got an answer for keeps meaning the same request for as long as    *)
(* that request exists, and a request is announced to mentors at most once,  *)
(* to an allowed audience that does not include its author.                  *)
(*****************************************************************************)
CONSTANTS
  Users, Requests, Keys, None,
  Audiences  \* the sets of users an announcement may go to

VARIABLES
  owner,     \* the author of each existing request
  meaning,   \* the request each author's key stands for
  sent,      \* requests whose announcement went out
  audience   \* who got it

vars == <<owner, meaning, sent, audience>>

Init ==
  /\ owner = [r \in Requests |-> None]
  /\ meaning = [a \in Users |-> [k \in Keys |-> None]]
  /\ sent = {}
  /\ audience = [r \in Requests |-> {}]

Create(a, r) ==
  /\ owner[r] = None
  /\ owner' = [owner EXCEPT ![r] = a]
  /\ UNCHANGED <<sent, audience>>

\* A submission without a key, and one with a key that means nothing yet.
SubmitOnce(a, r) == Create(a, r) /\ UNCHANGED meaning

SubmitAs(a, k, r) ==
  /\ meaning[a][k] = None
  /\ \/ owner[r] = a /\ UNCHANGED <<owner, sent, audience>>
     \/ Create(a, r)
  /\ meaning' = [meaning EXCEPT ![a][k] = r]

Announce(r, S) ==
  /\ owner[r] # None
  /\ r \notin sent
  /\ owner[r] \notin S
  /\ sent' = sent \cup {r}
  /\ audience' = [audience EXCEPT ![r] = S]
  /\ UNCHANGED <<owner, meaning>>

\* Deleting a request forgets everything about it.
Forget(r) ==
  /\ owner' = [owner EXCEPT ![r] = None]
  /\ meaning' = [a \in Users |-> [k \in Keys |->
                   IF meaning[a][k] = r THEN None ELSE meaning[a][k]]]
  /\ sent' = sent \ {r}
  /\ audience' = [audience EXCEPT ![r] = {}]

Next ==
  \/ \E a \in Users, r \in Requests : SubmitOnce(a, r)
  \/ \E a \in Users, k \in Keys, r \in Requests : SubmitAs(a, k, r)
  \/ \E r \in Requests, S \in Audiences : Announce(r, S)
  \/ \E r \in Requests : Forget(r)

Spec == Init /\ [][Next]_vars

=============================================================================
