SPECIFICATION MCSpec
CONSTANTS
    root = root
    n1 = n1
    n2 = n2
    o1 = o1
    s1 = s1
    s2 = s2
    t1 = t1
    t2 = t2
    t3 = t3
    Task = {t1, t2, t3}
    Scope = {root, n1, n2, o1, s1, s2}
    Root = root
    None = None
    Shielding = {}
    Deadlined = {}
    Misnesting = FALSE
    NurseryScope = {n1, n2}
    StartScope = {o1}
    Main = t1
    Cancellable = {}
    Blocking = {"succeeds"}
SYMMETRY Symmetry
INVARIANTS
    NurseryWaitsForItsTasks
    CancellationFollowsTasks
    EveryCancelledHasACatcher
PROPERTY ErrorsPropagate
