SPECIFICATION Spec
CONSTANTS
    Tasks = {t1, t2, t3}
    Threads = {w1, w2, w3}
    MaxSize = 2
    MaxCrashes = 2
CHECK_DEADLOCK FALSE
SYMMETRY Symmetry
INVARIANTS
    StoredIsDurable
PROPERTY
    ResultNotUndone
