SPECIFICATION Spec
CONSTANTS
    Works = {w1}
    Revs = {ra}
    NoRev = NoRev
    NoWork = NoWork
    Routers = {p}
    NoRouter = NoRouter
    ReleaseIds = {}
    V2 = {w1}
    Deps <- NoDeps
    ReadyDeps <- NoReadyDeps
    HasHost = TRUE
    Drainers = {p}
    Crashers = {p}
    MaxAttempts = 1
    MaxInflight = 1
PROPERTIES
    LedgerSpec
CHECK_DEADLOCK FALSE
