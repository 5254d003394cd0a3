SPECIFICATION FairSpec
CONSTANTS
    Wakes = {w1, w2, w3}
    Permits = 2
    SlowSave = TRUE
    MaxCrashes = 1
CHECK_DEADLOCK FALSE
INVARIANTS
    ReplyOnce
    SnapshotKept
PROPERTIES
    StoredResultWins
    WokenIsAnswered
