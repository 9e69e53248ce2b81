SPECIFICATION Spec
CONSTANTS
    Sessions = {a, b}
    Routers = {p}
    Mortal = {p}
    Stalled = {p}
    Failing = {p, x}
    Commands = {x}
    Works = {w}
    Inputs = {i}
    NoOne = NoOne
    Drained = {a}
    Hasty = {}
    Returns = {}
    MaxVersion = 2
INVARIANTS
    OneCoordinator
    ProgressKept
    InputKept
CONSTRAINT WorkOrInput
