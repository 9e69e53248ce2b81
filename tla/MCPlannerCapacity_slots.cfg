\* Two candidates for one slot; a worker may stop often enough to be suspended.
SPECIFICATION CapacitySpec
CONSTANTS
    Works = {a, b}
    Causes = {c1, c2}
    MaxLive = 1
    AfterWakes = 1
    FailureLimit = 2
    Budgets <- SlotBudgets
INVARIANTS
    UnchangedFailureStops
PROPERTIES
    SlotsAreFilled
CHECK_DEADLOCK FALSE
