SPECIFICATION MCSpec
CONSTANTS
    root = root
    s1 = s1
    s2 = s2
    t1 = t1
    t2 = t2
    Task = {t1, t2}
    Scope = {root, s1, s2}
    Root = root
    None = None
    Shielding = {s1}
    Deadlined = {}
    Misnesting = FALSE
SYMMETRY Symmetry
INVARIANTS
    EffectivelyCancelledIsExact
    NoLostCancel
PROPERTY SentOnce
