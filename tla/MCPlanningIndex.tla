--------------------------- MODULE MCPlanningIndex ---------------------------
(* PlanningIndex for TLC.                                                   *)
EXTENDS PlanningIndex, TLC

CONSTANTS s1, s2, f1, f2

MCCheckpointFile == s1 :> f1 @@ s2 :> f2

Symmetry == Permutations(Processes) \cup Permutations(Keys)

=============================================================================
