SPECIFICATION FairSpec
CONSTANTS
    MaxTasks = 2
    MaxSendRetries = 1
    MaxEvents = 1
CHECK_DEADLOCK FALSE
INVARIANTS
    OneActive
    StrandedIsVisible
    ReportedIsNotRetried
PROPERTIES
    
    DispatchIsSettled
    UnderReviewIsDecided
