SPECIFICATION LiveSpec
CONSTANTS
    Tasks = {t1}
    Runs = {}
    Callers = {c1, c2}
    Values = {v1, v2}
    NoValue = NoValue
    Timeout = Timeout
    RouteCap = 3
    MaxRestarts = 1
CHECK_DEADLOCK FALSE
INVARIANTS
    AckedOutcomesAgree
    AnnouncedOnce
PROPERTIES
    RefinesOutcome
    OverdueIsReclaimed
