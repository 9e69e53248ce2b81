---------------------------- MODULE MCParentTurns ----------------------------
(* Instances of the parent's turns for TLC.  The state space of all items at *)
(* once is too large, so each initial state is done with all but a few.      *)
EXTENDS ParentTurns, TLC

CONSTANTS p, q, c, h, k, r

MCPrompts == {p, q}
MCCorrections == {c}
MCCommands == {q}
MCChildren == {h, k}
MCHandoffs == {h}
MCReminders == {r}

MCInit ==
    \/ \E some \in {{p, c}, {q, c}, {h, r}, {k}, {p, q}} :
          Start(WakeIds \ some, MaxCrashes)
    \/ \E some \in {{p, r}, {c}} : Start(WakeIds \ some, 0)

MCSpec == MCInit /\ [][Next]_vars /\ Fairness

\* Two prompts of the operator and a reminder for the router's own turn.
TwoPrompts == Start(WakeIds \ {p, q, r}, MaxCrashes) /\ [][Next]_vars
==============================================================================
