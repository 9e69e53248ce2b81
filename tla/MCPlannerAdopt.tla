---------------------------- MODULE MCPlannerAdopt ----------------------------
(* Instances of planner adoption for TLC. *)
EXTENDS PlannerAdopt, TLC

\* A behaviour has a work or an input: the merge treats each alone.
WorkOrInput ==
    \/ \A s \in Sessions, w \in Works : latest[s][w] = 0
    \/ \A s \in Sessions, i \in Inputs : runs[s].inputs[i] = "none"
===============================================================================
