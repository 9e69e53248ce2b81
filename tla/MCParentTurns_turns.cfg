SPECIFICATION MCSpec
CONSTANTS
    p = p
    q = q
    c = c
    h = h
    k = k
    r = r
    Prompts <- MCPrompts
    Corrections <- MCCorrections
    Commands <- MCCommands
    Children <- MCChildren
    Handoffs <- MCHandoffs
    Reminders <- MCReminders
    MaxCrashes = 1
    NoInput = NoInput
INVARIANTS
    OperatorAlone
    
    
PROPERTIES
    KeptReachesParent
CHECK_DEADLOCK FALSE
