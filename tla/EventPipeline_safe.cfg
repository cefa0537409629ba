SPECIFICATION Spec
CONSTANTS
    n1 = n1
    n2 = n2
    Sources = {n1, n2}
    Databases = {"sqlite", "postgresql", "none"}
    Versions = {1, 2}
    Blocks = {b1}
    Others = {}
    Seconds = {1}
    InboundSize = 1
    QueueSize = 1
    OutboundSize = 1
    MaxSent = 4
    MaxFaults = 1
    MaxCrashes = 1
SYMMETRY SourceSymmetry
INVARIANTS TypeOK PublishedOnce PublishedIsStored StoredIsPublished LogMatchesRows ShutdownClosesFeed
PROPERTIES ImplementsFeed
CHECK_DEADLOCK FALSE
