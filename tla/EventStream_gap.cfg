SPECIFICATION Spec
CONSTANTS
    Clients = {c1}
    IdCount = 6
    FirstIndices = {0}
    BufferLen = 2
    MaxSubscribers = 1
    Workers = 1
    EnableLegacy = FALSE
    Payloads <- BlockOnly
    Versions = {1}
    Requests <- FromZero
    MaxPublished = 4
INVARIANTS ReplayedOnward
CHECK_DEADLOCK FALSE
