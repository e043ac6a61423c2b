----------------------------- MODULE MCMentorship -----------------------------
(* Mentorship on a small instance, with its mutants.                         *)
EXTENDS Mentorship, TLC

\* Accounts and request ids are interchangeable in every property checked.
Symmetric == Permutations(Users) \cup Permutations(Requests)
=============================================================================
