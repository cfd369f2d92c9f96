----------------------------- MODULE MCMonitor -----------------------------
(* Small instances of Monitor for TLC.  Goroutines, workers, targets and   *)
(* usable configurations are each interchangeable.                         *)
EXTENDS Monitor, TLC

Symmetry == Permutations(Slots) \cup Permutations(Workers)
              \cup Permutations(Ids) \cup Permutations(Usable)
=============================================================================
