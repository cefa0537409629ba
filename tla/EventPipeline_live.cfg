SPECIFICATION FairSpec
CONSTANTS
    n1 = n1
    n2 = n2
    Sources = {n1, n2}
    Databases = {"sqlite", "postgresql"}
    Versions = {1}
    Blocks = {}
    Others = {t1}
    Seconds = {1}
    InboundSize = 1
    QueueSize = 1
    OutboundSize = 1
    MaxSent = 4
    MaxFaults = 0
    MaxCrashes = 0
PROPERTIES HandlingEnds SidecarStops
CHECK_DEADLOCK FALSE
