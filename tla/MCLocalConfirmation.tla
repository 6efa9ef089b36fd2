-------------------------- MODULE MCLocalConfirmation --------------------------
(* Small instances of LocalConfirmation for TLC. *)
EXTENDS LocalConfirmation, TLC

Symmetry == Permutations(Clis)
================================================================================
