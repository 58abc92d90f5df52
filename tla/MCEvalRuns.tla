----------------------------- MODULE MCEvalRuns ------------------------------
(* EvalRuns with interchangeable kbs, datasets and requests.               *)
EXTENDS EvalRuns, TLC

Symmetric == Permutations(Kbs) \cup Permutations(Datasets) \cup Permutations(Slots)
==============================================================================
