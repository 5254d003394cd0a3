SPECIFICATION LiveSpec
CONSTANTS
    Tasks = {t1, t2}
    Evidence = {t2}
    Children = {k1}
    NoChild = NoChild
    NoTask = NoTask
    Cancellers = {c1}
    QueueCap = 1
    MaxSends = 1
    MaxCrashes = 0
CHECK_DEADLOCK FALSE
INVARIANTS
    NeverForgotten
    LiveTaskIsVisible
    OneScratchRun
PROPERTY
    EventuallyReported
