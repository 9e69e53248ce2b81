SPECIFICATION FairLedgerSpec
CONSTANTS
    w1 = w1
    w2 = w2
    ra = ra
    rb = rb
    Works = {w1}
    Revs = {ra, rb}
    NoRev = NoRev
    Routers = {p, q}
    NoRouter = NoRouter
    ReleaseIds = {}
    V2 = {w1}
    Deps <- NoDeps
    ReadyDeps <- NoReadyDeps
    HasHost = TRUE
    Drainers = {}
    Crashers = {p}
    MaxAttempts = 2
INVARIANTS
    ChainOfCustody
    FinishIsAccepted
    StatusMatchesAttempt
    AllocationKeepsClaim
PROPERTIES
    
    ClaimResolves
