--------------------------- MODULE MCPlannerRelease ---------------------------
(* Instances of the release rounds for TLC. *)
EXTENDS PlannerRelease, TLC

CONSTANTS w1, w2, ra

NoDeps == {}
\* w2 builds on the accepted source w1@ra.
SourceDeps == {<<w2, w1, ra>>}

\* Release identities only name rounds.
ReleaseSymmetry == Permutations(ReleaseIds)
===============================================================================
