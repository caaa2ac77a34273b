CONSTANTS
    m1 = m1
    m2 = m2
    r1 = r1
    r2 = r2
    Mirrors = {m1, m2}
    Relays = {r1, r2}
    RelaysOf <- MCRelaysOf
    Skew <- MCSkew
    Tolerance = 1
    Cap = 1
    Lookback = 0
    DayLength = 2
    MaxTime = 1
    MaxKeys <- MCMaxKeys
    Restarting = {m1}
    MaxEvents = 3
    MaxQuerying = 2
    Current = Current
    Unseen = Unseen
    Idle = Idle
SPECIFICATION Spec
CHECK_DEADLOCK FALSE
CONSTRAINT Returns
INVARIANTS TypeOK RecordsAreExact NothingFromTheFuture CurrentStateLanded EstablishedByOthers
