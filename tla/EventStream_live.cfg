SPECIFICATION FairSpec
CONSTANTS
    Clients = {c1, c2, c3}
    IdCount = 4
    FirstIndices <- NearWrap
    BufferLen = 1
    MaxSubscribers = 1
    Workers = 2
    EnableLegacy = FALSE
    Payloads <- BlockOnly
    Versions = {1}
    Requests <- FromZero
    MaxPublished = 2
INVARIANTS OvershootBounded
PROPERTIES StreamsEnd StreamsAdvance
CHECK_DEADLOCK FALSE
