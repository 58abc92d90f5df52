----------------------------- MODULE MCAskStream -----------------------------
(* AskStream over few requests, sessions and owners that are exchanged.    *)
EXTENDS AskStream, TLC

Symmetric == Permutations(Requests) \cup Permutations(Sessions)
==============================================================================
