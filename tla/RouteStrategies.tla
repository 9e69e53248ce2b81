---------------------------- MODULE RouteStrategies ----------------------------
(***************************************************************************)
(* How candidates are ranked for a prompt: the views a strategy is given    *)
(* (accounts.rs prioritize, strategies/mod.rs) and the strategies themselves *)
(* (strategies/*.rs).  A ranking is a sequence of candidates without         *)
(* repetition; the empty one stands for the strategy's error.                *)
(*                                                                          *)
(* Numbers are scaled to integers: fractions in percent, benchmark quality   *)
(* in tenths.  A utility is multiplied by its common denominator, which is   *)
(* the same for every candidate it is compared with.                         *)
(***************************************************************************)
EXTENDS Integers, FiniteSets, Sequences
Sets == INSTANCE FiniteSetsExt

CONSTANTS
    GroupOf,    \* the provider an account belongs to, by candidate
    Order,      \* account_priority of a candidate's account
    Router      \* Config.routers and availability_preference

\* CandidateView.  plan is -1 when no usage meter covers the candidate.
View == [quality : 5..35, cost : 1..10, headroom : 0..100, plan : -1..100,
         overage : BOOLEAN, preference : -100..100, tier : 1..3, index : Nat]

\* What the rankings compute with: weights of the configuration, for candidates S,
\* and a prompt's profile.
RouterTyped(S) ==
    /\ Router.overageWeight \in Int /\ Router.tradeoff \in Int /\ Router.minCostWeight \in Int
    /\ Router.aversion \in Int
    /\ \A phase \in {"planning", "implementation"}, c \in S : Router.boost[phase][c] \in Int
Profile == [base : Int, complexity : Int]

Low(a, b) == IF a < b THEN a ELSE b
High(a, b) == IF a > b THEN a ELSE b

\* prioritize: included plan on any account of a provider comes before paid
\* overage, then the provider's accounts in their order.  admit is exempt.
Prioritized(v, S, admit) ==
    LET included == {GroupOf[c] : c \in {x \in S : v[x].plan > 0}}
        unpaid == {c \in S : c = admit \/ ~v[c].overage \/ GroupOf[c] \notin included}
        first(c) == \A d \in unpaid : GroupOf[d] = GroupOf[c] => Order[c] <= Order[d]
    IN {c \in unpaid : c = admit \/ first(c)}

\* cap_unmetered_headroom, cap_overage_headroom: while some metered seat has
\* free plan left, no unmetered or paying seat looks freer than it.
Capped(v, S) ==
    LET free == {v[c].plan : c \in {x \in S : ~v[x].overage /\ v[x].plan > 0}}
        cap == Sets!Max(free)
        w == Router.overageWeight
        unmetered(r) == IF r.plan < 0 THEN [r EXCEPT !.headroom = Low(@, cap)] ELSE r
        paying(r) == IF r.overage THEN [r EXCEPT !.headroom = Low((@ * w) \div 100, cap),
                                                 !.preference = (@ * w) \div 100] ELSE r
    IN [c \in S |-> IF free = {} THEN v[c] ELSE paying(unmetered(v[c]))]

------------------------------------------------------------------------------
\* effective_cost, compared without dividing.
Cheaper(v, c, d) == v[c].cost * High(v[d].headroom, 1) < v[d].cost * High(v[c].headroom, 1)

\* A set in the order of a strict total order on it: before[c] are the members
\* that come before c.
Sorted(S, before) ==
    [i \in 1..Cardinality(S) |-> CHOOSE c \in S : Cardinality(before[c]) = i - 1]

\* sort_ranked: by score, then effective cost, then configuration order.
ByScore(v, score, S) ==
    Sorted(S, [d \in S |-> {c \in S :
        \/ score[c] > score[d]
        \/ /\ score[c] = score[d]
           /\ Cheaper(v, c, d) \/ (~Cheaper(v, d, c) /\ v[c].index < v[d].index)}])

\* The order of escalation and pareto-code: effective cost, then preference.
ByCost(v, S) ==
    Sorted(S, [d \in S |-> {c \in S :
        \/ Cheaper(v, c, d)
        \/ /\ ~Cheaper(v, d, c)
           /\ \/ v[c].preference > v[d].preference
              \/ v[c].preference = v[d].preference /\ v[c].index < v[d].index}])

ByIndex(v, S) == Sorted(S, [d \in S |-> {c \in S : v[c].index < v[d].index}])

------------------------------------------------------------------------------
\* auto

\* quality_p75: nearest rank.
P75(v, S) ==
    LET reached(q) == 4 * Cardinality({c \in S : v[c].quality <= q}) >= 3 * Cardinality(S)
    IN Sets!Min({q \in {v[c].quality : c \in S} : reached(q)})

\* The complexity gate.  Free-plan candidates stay while paid overage is
\* compared.
Gated(v, S, profile) ==
    LET paid == \E c \in S : v[c].overage
    IN IF profile.complexity < Router.complexityFloor \/ Cardinality(S) < 2 THEN S
       ELSE {c \in S : v[c].quality >= P75(v, S) \/ (paid /\ ~v[c].overage)}

\* The weight of cost against quality: none at the apex, less the harder the
\* task, but never below the configured floor.
Tradeoff(profile) ==
    LET base == Router.tradeoff
        scaled == (base * (100 - profile.complexity)) \div 100
    IN IF profile.complexity >= Router.apex THEN 0
       ELSE IF Router.scales THEN High(scaled, Low(Router.minCostWeight, base)) ELSE base

\* quality_demand: more than the task demands is worth nothing, unless cost
\* counts for nothing.
Demand(profile) ==
    IF Tradeoff(profile) = 0 THEN 35 ELSE Low(profile.base + profile.complexity \div 5, 30)

\* quality_weight * task_fit_quality + cost_weight * quota_score + preference
\* - overage_surcharge
Utility(v, S, c, profile) ==
    LET costs == {v[x].cost : x \in S}
        spread == High(Sets!Max(costs) - Sets!Min(costs), 1)
        scarcity == v[c].cost - Sets!Min(costs)
        t == Tradeoff(profile)
        fit == Low(v[c].quality, Demand(profile)) - 5
        surcharge == IF v[c].overage THEN Router.aversion * (100 - profile.complexity) ELSE 0
    IN (100 - t) * fit * 200 * spread
       + t * 30 * v[c].headroom * (2 * spread - scarcity)
       + v[c].preference * 6000 * spread
       - surcharge * 60 * spread

AutoRank(v, S, profile) ==
    LET pool == Gated(v, S \cap Router.allowed, profile)
    IN ByScore(v, [c \in pool |-> Utility(v, pool, c, profile)], pool)

------------------------------------------------------------------------------
\* planner: the phase's pool, with the other phase's at the extremes.  An empty
\* subset of an easy: or hard: prefix falls back to the planning pool, and an
\* empty pool to every candidate.
PhasePool(S, opt, profile) ==
    LET planning == opt.phase = "planning"
        primary == CASE planning /\ opt.difficulty = "easy" -> Router.easy
                     [] planning /\ opt.difficulty = "hard" -> Router.hard
                     [] planning -> Router.planning
                     [] OTHER -> Router.implementation
        crosses == /\ ~opt.explicit
                   /\ IF planning
                      THEN opt.difficulty = "none" /\ profile.complexity <= Router.planFloor
                      ELSE profile.complexity >= Router.planApex
        secondary == IF planning THEN Router.implementation ELSE Router.planning
        pool == S \cap (primary \cup IF crosses THEN secondary ELSE {})
    IN IF pool = {} /\ planning /\ opt.difficulty # "none" THEN S \cap Router.planning ELSE pool

\* model_boosts
Boosted(v, S, opt) ==
    [c \in S |-> [v[c] EXCEPT !.preference = @ + Router.boost[opt.phase][c]]]

Planner(v, S, opt, profile) ==
    LET pool == PhasePool(S, opt, profile)
    IN IF pool = {} THEN AutoRank(v, S, profile) ELSE AutoRank(Boosted(v, pool, opt), pool, profile)

\* escalation: the cheapest above the starting floor, unless the floor leaves
\* nobody; or another strategy's choice.
Escalation(v, S, profile) ==
    LET floored == {c \in S : v[c].quality >= Router.minStart}
    IN IF Router.initialAuto THEN AutoRank(v, S, profile)
       ELSE ByCost(v, IF floored = {} THEN S ELSE floored)

\* pareto-code: the requested tier or the nearest that has a candidate, the
\* higher of two; its three cheapest.
ParetoCode(v, S) ==
    LET distance(t) == IF t > Router.tier THEN 2 * (t - Router.tier) - 1 ELSE 2 * (Router.tier - t)
        tier == CHOOSE t \in {v[c].tier : c \in S} :
                    \A u \in {v[c].tier : c \in S} : distance(t) <= distance(u)
        ranked == ByCost(v, {c \in S : v[c].tier = tier})
    IN IF S = {} THEN <<>> ELSE SubSeq(ranked, 1, Low(3, Len(ranked)))

\* static: one candidate, then the others in configuration order if the
\* configuration allows it.
Static(v, S, chosen) ==
    LET exact == IF chosen \in S THEN <<chosen>> ELSE <<>>
    IN IF Router.allowFallback THEN exact \o ByIndex(v, S \ {chosen}) ELSE exact

\* make_strategy, rank.  opt is what the session's client has set.
Rank(v, S, opt, profile) ==
    CASE opt.strategy = "auto" -> AutoRank(v, S, profile)
      [] opt.strategy = "planner" -> Planner(v, S, opt, profile)
      [] opt.strategy = "escalation" -> Escalation(v, S, profile)
      [] opt.strategy = "pareto-code" -> ParetoCode(v, S)
      [] opt.strategy = "static" -> Static(v, S, Router.static)

\* prefer= moves a candidate that survived to the front.
Preferring(ranked, c) ==
    LET pos == CHOOSE i \in 1..Len(ranked) : ranked[i] = c
    IN IF \E i \in 1..Len(ranked) : ranked[i] = c
       THEN <<c>> \o SubSeq(ranked, 1, pos - 1) \o SubSeq(ranked, pos + 1, Len(ranked))
       ELSE ranked
==============================================================================
