SPECIFICATION RoundsSpec
CONSTANTS
    w1 = w1
    w2 = w2
    ra = ra
    Works = {w1, w2}
    Revs = {ra}
    NoRev = NoRev
    Routers = {p}
    NoRouter = NoRouter
    ReleaseIds = {x, y, z}
    V2 = {w1}
    Deps <- NoDeps
    ReadyDeps <- SourceDeps
    HasHost = TRUE
    Drainers = {}
    Crashers = {}
    MaxAttempts = 0
    ROUND_LIMIT = 12
INVARIANTS
    LanesExclusive
    IntegratedThroughRelease
    ProductionCarriesSources
SYMMETRY ReleaseSymmetry
