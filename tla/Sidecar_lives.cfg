SPECIFICATION FairSpec
CONSTANTS
    Configs <- MCConfigs
    Releases <- MCReleases
    Requests <- MCRequests
    Stored <- MCStored
    FirstFiles <- MCFirstFiles
    IdCount = 4
    MaxLives = 4
    MaxFaults = 2
    MaxPublished = 3
INVARIANTS TypeOK ServersReady AggregateIsSnapshot 
PROPERTIES StartEnds
CHECK_DEADLOCK FALSE
