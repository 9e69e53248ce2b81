---------------------------- MODULE MCRequestProxy ----------------------------
(* Two routers that share an account's snapshot, one of them at times with    *)
(* two polls under way (a turn ends during a tick), or a router whose adapter *)
(* serves two successive turns of s1, pinned to two models, beside one of s2. *)
EXTENDS RequestProxy

CONSTANTS p, q, x, A, B, big, mid, low, small, s1, s2, t0, t1, t2, r1, r2

MCHome == [t \in Polls |-> IF t = x THEN B ELSE A]
MCSid == [t \in Turns |-> IF t = t0 THEN s2 ELSE s1]
MCPin == [t \in Turns |-> CASE t = t0 -> low [] t = t1 -> big [] t = t2 -> small]
MCStrength == [m \in Models |-> CASE m = big -> 4 [] m = mid -> 3 [] m = low -> 2 [] OTHER -> 1]
MCMaker == [r \in Requests |-> IF r = r1 THEN t1 ELSE t2]
Budget(use, log, fault, hints) ==
    [use |-> use, login |-> log, fault |-> fault, hint |-> hints, routers |-> Routers,
     polls |-> {p, x}, prompts |-> {}, level |-> "free"]
MCBudgets ==
    {Budget(2, 0, 1, 0), Budget(1, 1, 0, 0), Budget(0, 1, 1, 0), Budget(1, 0, 0, 1),
     [Budget(0, 0, 1, 0) EXCEPT !.polls = Polls],
     [Budget(0, 0, 2, 1) EXCEPT !.routers = {A}, !.polls = {}, !.prompts = Turns, !.level = "scoped"]}
===============================================================================
