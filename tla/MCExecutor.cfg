CONSTANTS
    WorldSize = 2
    OutputRank = 1
    AsyncOutput = TRUE
    MaxCalls = 3
    BatchQueueSize = 2
    FailingKinds = {"model", "utility"}
    Deadlines = {"model"}
    AllowCrash = TRUE
SPECIFICATION FairSpec
INVARIANTS
    AnswersMatchCalls
PROPERTIES
    CallsEnd
    FailureReachesEngine
CHECK_DEADLOCK FALSE
