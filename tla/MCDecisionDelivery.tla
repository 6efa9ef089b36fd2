-------------------------- MODULE MCDecisionDelivery --------------------------
(* Small instances of DecisionDelivery for TLC. *)
EXTENDS DecisionDelivery, TLC

Symmetry == Permutations(Procs)
================================================================================
