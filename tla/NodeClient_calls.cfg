SPECIFICATION FairSpec
CONSTANTS
    Callers = {c1}
    Cancellable = {c1}
    KeepAlive = keepalive
    Loop = loop
    NoTask = none
    IdCount = 3
    MaxMismatched = 2
    MaxAttempts = 2
    AttemptsInTime = {1, 2}
INVARIANTS TypeOK OwnAnswer
PROPERTIES RequestsReturn Recovers ExhaustionExitsInTime
CHECK_DEADLOCK FALSE
