--------------------------- MODULE MCPlannerLedger ---------------------------
(* Instances of the atomic ledger for TLC. *)
EXTENDS PlannerLedger

CONSTANTS w1, w2, ra, rb

NoDeps == {}
NoReadyDeps == {}
\* w2 starts over the integrated w1.
ChainDeps == {<<w2, w1>>}
==============================================================================
