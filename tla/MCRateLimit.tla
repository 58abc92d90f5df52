----------------------------- MODULE MCRateLimit -----------------------------
(* RateLimit with interchangeable users and calls.                         *)
EXTENDS RateLimit, TLC

Symmetry == Permutations(Users) \cup Permutations(Calls)
==============================================================================
