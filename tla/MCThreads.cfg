SPECIFICATION MCSpec
CONSTANTS
    Thread = {t1, t2}
    Job = {j1, ki1, ki2}
    KiJob = {ki1, ki2}
    Key = {k1, k2}
    MainThread = MainThread
    WakeupCapacity = 1
    None = None
    Nothing = Nothing
    Task = {t1, t2}
    Call = {c1, c2, c3}
    Cancellable = {c1, c2}
    total_tokens = 1
    MaxAsks = 1
    Nobody = Nobody
    Caller = {a1, a2}
    Worker = {w1, w2, w3}
CHECK_DEADLOCK FALSE
INVARIANTS
    NoLostWakeup
    RunsOnceInOrder
    NoInterruptLost
    WorkersAccountedFor
    ResultFindsItsTask
    TokenWhileThreadRuns
PROPERTY EveryCallIsAnswered
