------------------------- MODULE MCPlannerCapacity -------------------------
(***************************************************************************)
(* PlannerCapacity with one worker slot: behaviours in which workers keep   *)
(* stopping, in which the hosts change their answers, and in which the      *)
(* parent and the person interfere.                                         *)
(***************************************************************************)
EXTENDS PlannerCapacity

SlotBudgets ==
    LET One == CHOOSE w \in Works : TRUE IN
    {[stops |-> 2, answers |-> 0, events |-> 0, hosts |-> {}, scope |-> {One}],
     [stops |-> 0, answers |-> 0, events |-> 1, hosts |-> {"capacity"}, scope |-> {One}],
     [stops |-> 0, answers |-> 0, events |-> 0, hosts |-> {"capacity"}, scope |-> Works],
     [stops |-> 0, answers |-> 2, events |-> 0, hosts |-> {"audit"}, scope |-> {One}]}

=============================================================================
