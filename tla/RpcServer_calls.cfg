SPECIFICATION FairSpec
CONSTANTS
    Clients = {c1}
    Requests <- MCRequests
    StartHeight = 2
    MaxHeight = 3
    SwitchBlocks = {2}
    FirstWith <- MCFirstWith
    BusCapacity = 2
    Validators = {v1, v2}
    PublicKeys = {d1, d2}
    Purses = {p1}
    MaxBids = 4
INVARIANTS
    TypeOK
    OneBlock
    NotBehind
    SubmitTruthful
    OnlyCallsRun
PROPERTIES
    RequestsAnswered
