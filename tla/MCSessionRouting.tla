--------------------------- MODULE MCSessionRouting ---------------------------
(* Two accounts with one model in common, and a stronger model on the first. *)
EXTENDS SessionRouting
CONSTANTS a, b, big
MCCandidates == {a, b, big}
MCAgentOf == (a :> "one") @@ (b :> "two") @@ (big :> "one")
MCModelOf == (a :> "small") @@ (b :> "small") @@ (big :> "large")
MCGrade == (a :> 1) @@ (b :> 1) @@ (big :> 2)
\* The accounts are of different providers and each is the first of its own.
MCGroupOf == MCAgentOf
MCOrder == [c \in MCCandidates |-> 0]

MCRouter ==
    [overageWeight |-> 25, complexityFloor |-> 70, tradeoff |-> 70, apex |-> 90, scales |-> TRUE,
     minCostWeight |-> 15, aversion |-> 10, allowed |-> MCCandidates, planning |-> {a, b},
     implementation |-> {big}, easy |-> {b}, hard |-> {}, planFloor |-> 15, planApex |-> 85,
     boost |-> [phase \in {"planning", "implementation"} |-> [c \in MCCandidates |-> 0]],
     minStart |-> 5, initialAuto |-> FALSE, tier |-> 2, static |-> b, allowFallback |-> FALSE]

Seat(quality, cost, headroom, plan, overage, tier, index) ==
    [quality |-> quality, cost |-> cost, headroom |-> headroom, plan |-> plan, overage |-> overage,
     preference |-> 0, tier |-> tier, index |-> index]
\* The first account has plan left, or pays; the second is not metered.
MCViews ==
    {(a :> Seat(20, 2, 60, 60, FALSE, 2, 1)) @@ (b :> Seat(20, 2, 90, -1, FALSE, 2, 2))
        @@ (big :> Seat(30, 5, 60, 60, FALSE, 3, 3)),
     (a :> Seat(20, 2, 100, 0, TRUE, 2, 1)) @@ (b :> Seat(20, 2, 90, -1, FALSE, 2, 2))
        @@ (big :> Seat(30, 5, 100, 0, TRUE, 3, 3))}

Opt(strategy, phase, difficulty, prefer) ==
    [strategy |-> strategy, phase |-> phase, difficulty |-> difficulty, explicit |-> FALSE,
     prefer |-> prefer]
MCOptions ==
    {Opt("planner", "planning", "hard", None), Opt("planner", "implementation", "none", None),
     Opt("pareto-code", "planning", "none", None), Opt("escalation", "planning", "none", big),
     Opt("static", "planning", "none", None)}
MCProfiles == {[base |-> 12, complexity |-> 40]}
MCAsks == <<{"parent", big}, {"skill", "phase", big}>>
=============================================================================
