------------------------------ MODULE MCLocalQueue ------------------------------
(* Small instances of LocalQueue for TLC. *)
EXTENDS LocalQueue, TLC

Symmetry == Permutations(Processes) \cup Permutations(Events)
================================================================================
