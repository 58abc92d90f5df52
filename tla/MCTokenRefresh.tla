---------------------------- MODULE MCTokenRefresh ----------------------------
(* TokenRefresh for a few calls of apiFetch.                               *)
EXTENDS TokenRefresh, TLC

Symmetric == Permutations(Calls)
==============================================================================
