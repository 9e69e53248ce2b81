SPECIFICATION Spec
CONSTANTS
    r1 = r1
    r2 = r2
    None = None
    Routers = {r1, r2}
    MaxFlows = 2
    Budgets <- SharedBudgets
INVARIANTS
    GrantSpentOnce
    FailedIsDead
PROPERTIES
    NewestLoginKept
SYMMETRY Symmetry
CHECK_DEADLOCK FALSE
