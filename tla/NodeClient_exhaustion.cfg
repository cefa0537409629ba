SPECIFICATION FairSpec
CONSTANTS
    Callers = {c1}
    Cancellable = {}
    KeepAlive = keepalive
    Loop = loop
    NoTask = none
    IdCount = 2
    MaxMismatched = 1
    MaxAttempts = 3
    AttemptsInTime = {2}
PROPERTIES ExhaustionExits
CHECK_DEADLOCK FALSE
