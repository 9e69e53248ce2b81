-------------------------- MODULE MCPlannerWorkflow --------------------------
(* Instances of the planner's operations in flight, for TLC. *)
EXTENDS PlannerWorkflow

NoDeps == {}
NoReadyDeps == {}
==============================================================================
