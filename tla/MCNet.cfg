SPECIFICATION NetSpec
CONSTANTS
    r = r
    t1 = t1
    t2 = t2
    Task = {r, t1, t2}
    Runner = r
    Lookups <- MCLookups
    a1 = a1
    a2 = a2
    Address = {a1, a2}
    MaxConn = 3
    MaxShortage = 2
    s1 = s1
    s2 = s2
    s3 = s3
    Signal = {s1, s2, s3}
    g1 = g1
    g2 = g2
    g3 = g3
    Agen = {g1, g2, g3}
CHECK_DEADLOCK FALSE
INVARIANTS
    NothingLeftBehind
    NoSocketLeaked
    NoSignalLost
    EveryGeneratorIsClosed
PROPERTIES
    CancelEndsTheProcess
    ConnectionsAreMade
