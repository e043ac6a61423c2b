-------------------------------- MODULE Consent --------------------------------
(*****************************************************************************)
(* What matching promises, without tables, locks or transactions: a request  *)
(* has at most one partner, who had offered and was chosen while the request *)
(* was open; choosing one refuses everybody else who was waiting, and nobody *)
(* who was refused can offer again.                                          *)
(*****************************************************************************)
CONSTANTS Users, Requests, NoUser

VARIABLES
  open,      \* requests that take offers
  partner,   \* the chosen user of each request
  offers,    \* users waiting for an answer
  refused    \* users who got a refusal

vars == <<open, partner, offers, refused>>

Init ==
  /\ open = {}
  /\ partner = [r \in Requests |-> NoUser]
  /\ offers = [r \in Requests |-> {}]
  /\ refused = [r \in Requests |-> {}]

\* A new request, or one that takes offers again: nobody is bound to it.
Reopen(r) ==
  /\ open' = open \cup {r}
  /\ partner' = [partner EXCEPT ![r] = NoUser]
  /\ offers' = [offers EXCEPT ![r] = {}]
  /\ UNCHANGED refused

Offer(r, u) ==
  /\ r \in open
  /\ u \notin refused[r]
  /\ offers' = [offers EXCEPT ![r] = @ \cup {u}]
  /\ UNCHANGED <<open, partner, refused>>

Withdraw(r, u) ==
  /\ u \in offers[r]
  /\ offers' = [offers EXCEPT ![r] = @ \ {u}]
  /\ UNCHANGED <<open, partner, refused>>

Refuse(r, u) ==
  /\ u \in offers[r]
  /\ offers' = [offers EXCEPT ![r] = @ \ {u}]
  /\ refused' = [refused EXCEPT ![r] = @ \cup {u}]
  /\ UNCHANGED <<open, partner>>

Choose(r, u) ==
  /\ r \in open
  /\ u \in offers[r]
  /\ open' = open \ {r}
  /\ partner' = [partner EXCEPT ![r] = u]
  /\ refused' = [refused EXCEPT ![r] = @ \cup (offers[r] \ {u})]
  /\ offers' = [offers EXCEPT ![r] = {}]

\* Closing keeps the partner, if there is one, and drops every offer.
Close(r) ==
  /\ open' = open \ {r}
  /\ offers' = [offers EXCEPT ![r] = {}]
  /\ UNCHANGED <<partner, refused>>

Remove(r) ==
  /\ open' = open \ {r}
  /\ partner' = [partner EXCEPT ![r] = NoUser]
  /\ offers' = [offers EXCEPT ![r] = {}]
  /\ refused' = [refused EXCEPT ![r] = {}]

Next ==
  \/ \E r \in Requests : Reopen(r) \/ Close(r) \/ Remove(r)
  \/ \E r \in Requests, u \in Users :
       Offer(r, u) \/ Withdraw(r, u) \/ Refuse(r, u) \/ Choose(r, u)

Spec == Init /\ [][Next]_vars

=============================================================================
