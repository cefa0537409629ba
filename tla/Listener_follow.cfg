SPECIFICATION FairSpec
CONSTANTS
    MaxAttempts = 2
    Metadata <- MCMetadata
    MinimalVersion = 2
    NetworkName = "own"
    RegistrySize = 1
    InboundSize = 1
    TickQueueSize = 1
    NodeBuffer = 1
    MaxEvents = 2
    MaxChanges = 2
INVARIANTS TypeOK NoGap
PROPERTIES AbsentNodeEndsListener SilentConnectionEnds EventsArrive
CHECK_DEADLOCK FALSE
