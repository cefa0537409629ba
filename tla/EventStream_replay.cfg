SPECIFICATION Spec
CONSTANTS
    Clients = {c1}
    IdCount = 6
    FirstIndices <- NearWrap
    BufferLen = 2
    MaxSubscribers = 1
    Workers = 1
    EnableLegacy = TRUE
    Payloads <- AcceptedAndShutdown
    Versions = {1, 2}
    Requests <- ReplayRequests
    MaxPublished = 5
INVARIANTS TypeOK BufferIsWindow ReplayIsExact DeliveredInOrder NoLossOutsideSeam VersionAnnounced
CHECK_DEADLOCK FALSE
