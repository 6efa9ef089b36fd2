---------------------------- MODULE MCLocalHistory ----------------------------
(* Small instances of LocalHistory for TLC. *)
EXTENDS LocalHistory, TLC

CONSTANTS s1, s2

Terminal(output, decision, reply) ==
  [managed |-> FALSE, output |-> output, decision |-> decision, reply |-> reply]

\* A terminal whose command asks, beside another that starts and ends; a managed run
\* beside one; two terminals that take replies.
TwoRuns ==
  { s1 :> Terminal(1, 1, 0) @@ s2 :> Terminal(0, 0, 0),
    s1 :> [managed |-> TRUE, output |-> 2, decision |-> 1, reply |-> 0] @@ s2 :> Terminal(0, 0, 0),
    s1 :> Terminal(0, 0, 1) @@ s2 :> Terminal(0, 0, 1) }
================================================================================
