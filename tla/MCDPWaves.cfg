CONSTANTS
    c1 = c1
    NEngines = 2
    Client = {c1}
    MaxRequests = 2
    Steps = 1
    SyncEvery = 2
    AllowAbort = TRUE
    AllowEarlyAbort = FALSE
SPECIFICATION FairSpec
INVARIANTS
    EnginesAgree
    PauseIsKnown
PROPERTIES
    EveryRequestEnds
    EnginesPause
CHECK_DEADLOCK FALSE
