-------------------------- MODULE MCServerShutdown ---------------------------
(* ServerShutdown with a few of everything; equal workers, jobs and        *)
(* requests are exchanged where no liveness property is checked.           *)
EXTENDS ServerShutdown, TLC

Symmetric == Permutations(Workers) \cup Permutations(Jobs) \cup Permutations(Requests)
==============================================================================
