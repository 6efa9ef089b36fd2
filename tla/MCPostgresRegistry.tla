--------------------------- MODULE MCPostgresRegistry ---------------------------
(* A small instance of PostgresRegistry for TLC. *)
EXTENDS PostgresRegistry, TLC

Symmetry ==
  Permutations(Handlers) \cup Permutations(Devices) \cup Permutations(Tokens)
    \cup Permutations(Codes) \cup Permutations(Clients) \cup Permutations(Grants)
    \cup Permutations(Contents) \cup Permutations(Keys)
================================================================================
