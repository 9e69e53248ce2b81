SPECIFICATION LiveSpec
CONSTANTS
    d1 = d1
    d2 = d2
    Delegates <- MCDelegates
    Background <- MCBackground
    Kept <- MCKept
    Agents = {a1, a2}
    Limits = {1, 2}
    MaxTurns = 1
    MaxAttempts = 3
    Budgets <- MCBudgets
INVARIANTS
    
    
    ClosedStaysClosed
PROPERTIES
    CallEnds
CHECK_DEADLOCK FALSE
