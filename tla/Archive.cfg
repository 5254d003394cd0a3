SPECIFICATION FairSpec
CONSTANT MaxFaults = 1
CHECK_DEADLOCK FALSE
INVARIANTS
    DeliveredIsKept
    WorkIsMerged
    MergedOnce
PROPERTY
    Merges
