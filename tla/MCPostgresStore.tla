---------------------------- MODULE MCPostgresStore ----------------------------
(* A small instance of PostgresStore for TLC. *)
EXTENDS PostgresStore, TLC

Symmetry == Permutations(Handlers) \cup Permutations(Approvals) \cup Permutations(Sessions)
================================================================================
