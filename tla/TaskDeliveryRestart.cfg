SPECIFICATION FairSpec
CONSTANTS
    MaxRetries = 1
    MaxLoss = 0
    MaxCrashesA = 1
    MaxCrashesB = 0
    MayExpire = FALSE
CHECK_DEADLOCK FALSE
PROPERTY
    ResumesAfterRestart
