SPECIFICATION Spec
CONSTANTS
    Tasks = {t1}
    Evidence = {}
    Children = {k1, k2}
    NoChild = NoChild
    NoTask = NoTask
    Cancellers = {c1}
    QueueCap = 2
    MaxSends = 2
    MaxCrashes = 1
CHECK_DEADLOCK FALSE
SYMMETRY Symmetry
INVARIANTS
    EntryHasKeeper
    ReportedOnce
    ResumedWithItsAnswer
