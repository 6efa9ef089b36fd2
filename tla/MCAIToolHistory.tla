---------------------------- MODULE MCAIToolHistory ----------------------------
(* Small instances of AIToolHistory for TLC. *)
EXTENDS AIToolHistory, TLC

Symmetry == Permutations(Sessions) \cup Permutations(Handlers)

\* The monitor, which writes no file, sleeps; or it is awake, and one deletion after
\* the other is made in one second.
Asleep == scan = Starting /\ offset = NoOffsets
OneDeletion == now = 1 /\ Cardinality({d \in Handlers : del[d].at # "none"}) <= 1

BoundedNext == ToolsNext /\ (Asleep \/ OneDeletion)'
BoundedSpec == ToolsInit /\ [][BoundedNext]_toolsVars
================================================================================
