---------------------------- MODULE MCIngestQueue ----------------------------
(* IngestQueue on small instances.  The ids, workers and requests are      *)
(* interchangeable; the keys are not, because a key fixes the source type. *)
EXTENDS IngestQueue, TLC

Symmetry == Permutations(Docs) \cup Permutations(Workers) \cup Permutations(Requests)
==============================================================================
