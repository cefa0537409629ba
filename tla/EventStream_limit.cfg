SPECIFICATION Spec
CONSTANTS
    Clients = {c1, c2}
    IdCount = 3
    FirstIndices = {0}
    BufferLen = 1
    MaxSubscribers = 1
    Workers = 2
    EnableLegacy = FALSE
    Payloads <- BlockOnly
    Versions = {1}
    Requests <- FromZero
    MaxPublished = 1
INVARIANTS SubscribersPermitted
CHECK_DEADLOCK FALSE
