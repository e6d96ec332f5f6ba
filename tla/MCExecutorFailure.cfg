CONSTANTS
    WorldSize = 2
    OutputRank = 1
    AsyncOutput = TRUE
    MaxCalls = 2
    BatchQueueSize = 2
    FailingKinds = {"utility"}
    Deadlines = {}
    AllowCrash = FALSE
SPECIFICATION Spec
INVARIANTS
    FailureEndsTheSystem
CHECK_DEADLOCK FALSE
