--------------------------- MODULE MCProgressView ----------------------------
(* ProgressView over a few documents.                                      *)
EXTENDS ProgressView, TLC

Symmetric == Permutations(Docs)
==============================================================================
