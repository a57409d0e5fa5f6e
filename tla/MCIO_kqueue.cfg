SPECIFICATION MCSpec
CONSTANTS
    Scope = {1, 2}
    MaxDeadline = 2
    Guest = FALSE
    MinPrune = 1
    MaxCopies = 2
    Task = {t1, t2, t3}
    None = None
    Fd = {fd1, fd2}
    Monitor = Monitor
    Sock = {s1}
    Op = {o1, o2, o3}
    Lpo = {l1, l2}
    MAX_AFD_GROUP_SIZE = 2
    MaxGroup = 2
    Msg = {m1, m2}
    MsgLen = 2
    Buffer = 1
    MaxIn = 2
    MaxBytes = 3
    Value = {v1, v2, v3}
    SendHandle = {h1, h2}
    ReceiveHandle = {h3, h4}
    BufferSize = {0, 2}
CHECK_DEADLOCK FALSE
INVARIANT EveryEventHasAReceiver
