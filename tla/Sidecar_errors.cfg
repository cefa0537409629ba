SPECIFICATION Spec
CONSTANTS
    Configs <- MCConfigs
    Releases <- MCReleases
    Requests <- MCRequests
    Stored <- MCStored
    FirstFiles <- MCFirstFiles
    IdCount = 4
    MaxLives = 3
    MaxFaults = 1
    MaxPublished = 2
INVARIANTS ErrorsReported
CHECK_DEADLOCK FALSE
