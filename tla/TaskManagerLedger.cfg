SPECIFICATION Spec
CONSTANTS
    Tasks = {t1}
    Runs = {r1}
    Callers = {c1}
    Values = {v1}
    NoValue = NoValue
    Timeout = Timeout
    RouteCap = 3
    MaxRestarts = 1
CHECK_DEADLOCK FALSE
INVARIANTS
    NoOrphanAttempt
    RouteCountedOnce
PROPERTY
    FirstWriteWins
