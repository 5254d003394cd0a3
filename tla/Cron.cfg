SPECIFICATION FairSpec
CONSTANTS
    Jobs = {j1, j2}
    NoJob = NoJob
    MaxTime = 2
    MaxEdits = 3
    MaxFaults = 1
    MaxCrashes = 1
CHECK_DEADLOCK FALSE
INVARIANTS
    DisabledIsNotScheduled
    PromiseKept
    NotReplayed
PROPERTY
    DueIsFired
