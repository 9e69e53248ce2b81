SPECIFICATION LiveSpec
CONSTANTS
    p = p
    q = q
    x = x
    A = A
    B = B
    big = big
    mid = mid
    low = low
    small = small
    s1 = s1
    s2 = s2
    t0 = t0
    t1 = t1
    t2 = t2
    r1 = r1
    r2 = r2
    Polls = {p, q, x}
    Routers = {A, B}
    Home <- MCHome
    Models = {big, mid, low, small}
    Scoped = {big, small}
    MAX_BACKOFF = 2
    Budgets <- MCBudgets
    Here = A
    Turns = {t0, t1, t2}
    Sid <- MCSid
    Pin <- MCPin
    Requests = {r1, r2}
    Maker <- MCMaker
    Hinted = {r1}
    Strength <- MCStrength
    Declared = {big, small}
    Unserved = {mid, small}

    
PROPERTIES
    OwnTurn
    SeatFollowed
CHECK_DEADLOCK FALSE
