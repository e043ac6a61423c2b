----------------------------- MODULE MCVerification -----------------------------
(* Verification on small instances, with its mutants.                        *)
EXTENDS Verification, TLC
Symmetry == Permutations(Calls) \cup Permutations(Accounts)
=============================================================================
