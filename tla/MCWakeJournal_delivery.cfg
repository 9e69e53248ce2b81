SPECIFICATION FairSpec
CONSTANTS
    Saves = {s}
    Direct = {d}
    NoSave = NoSave
    Routers = {p, q}
    Crashers = {q}
    Poison = {d}
    LIMIT = 2
    PLAIN = 1
INVARIANTS
    NothingIsLost
PROPERTIES
    DeliversOnce
    EventuallySettled
