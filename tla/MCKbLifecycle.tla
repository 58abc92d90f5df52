---------------------------- MODULE MCKbLifecycle ----------------------------
(* KbLifecycle with interchangeable kbs, documents and requests.           *)
EXTENDS KbLifecycle, TLC

Symmetric == Permutations(Kbs) \cup Permutations(Sources) \cup Permutations(Docs) \cup Permutations(Slots)
==============================================================================
