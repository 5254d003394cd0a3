SPECIFICATION FairSpec
CONSTANTS
    MaxRetries = 1
    MaxLoss = 2
    MaxCrashesA = 1
    MaxCrashesB = 1
    MayExpire = TRUE
CHECK_DEADLOCK FALSE
INVARIANTS
    NoFalseAlarm
    WakeUpAhead
PROPERTIES
    EventuallyTold
    RestartSettles
    RefinesConversation
