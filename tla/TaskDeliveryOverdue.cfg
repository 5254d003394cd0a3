SPECIFICATION FairSpec
CONSTANTS
    MaxRetries = 1
    MaxLoss = 1
    MaxCrashesA = 0
    MaxCrashesB = 0
    MayExpire = TRUE
CHECK_DEADLOCK FALSE
PROPERTY
    NeverHangs
