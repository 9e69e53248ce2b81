SPECIFICATION LiveSpec
CONSTANTS
    r1 = r1
    r2 = r2
    None = None
    Routers <- MCRouters
    Budgets <- MCBudgets
INVARIANTS
    RefreshKept
    RejectedIsDead
PROPERTIES
    OneRefreshPerDenial
    
CHECK_DEADLOCK FALSE
