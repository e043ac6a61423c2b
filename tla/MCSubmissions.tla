----------------------------- MODULE MCSubmissions -----------------------------
(* Submissions on small instances.                                           *)
EXTENDS Submissions, TLC

Symmetric == Permutations(Calls) \cup Permutations(Bodies)
=============================================================================
