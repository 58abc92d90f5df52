----------------------------- MODULE MCCommunities -----------------------------
(* Communities of a small kb, whose documents and operations are           *)
(* interchangeable.                                                        *)
EXTENDS Communities, TLC

Symmetric == Permutations(Docs) \cup Permutations(Ops)
==============================================================================
