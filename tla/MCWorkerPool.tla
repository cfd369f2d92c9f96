---------------------------- MODULE MCWorkerPool ----------------------------
(* Small instances of WorkerPool for TLC: cfg files give the sets as model *)
(* values.  Callers, workers and targets are each interchangeable, which   *)
(* the safety runs exploit.                                                *)
EXTENDS WorkerPool, TLC

Symmetry == Permutations(Callers) \cup Permutations(Workers) \cup Permutations(Targets)
=============================================================================
