----------------------------- MODULE MCPublication -----------------------------
(* Publication on small instances, with its mutants.                         *)
EXTENDS Publication, TLC

\* Ids, keys and calls are interchangeable, in the runs without liveness.
Symmetric == Permutations(Requests) \cup Permutations(Keys) \cup Permutations(Calls)

SymmetricUsers == Symmetric \cup Permutations(Users)
=============================================================================
