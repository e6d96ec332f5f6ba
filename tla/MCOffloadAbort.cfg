CONSTANTS
    r1 = r1
    r2 = r2
    r3 = r3
    Request = {r1, r2, r3}
    Text <- MCText
    PromptLen <- MCPromptLen
    Warm <- MCWarm
    NumGpuBlocks = 5
    NumCpuBlocks = 3
    BlockSize = 2
    MaxModelLen = 8
    EnableCaching = TRUE
    UseEagle = FALSE
    MaxNumRunningReqs = 3
    MaxNumScheduledTokens = 4
    AllowAbort = TRUE
    AbortStoredLoads = TRUE
SPECIFICATION Spec
INVARIANTS
    TransferReportsAreExpected
CHECK_DEADLOCK FALSE
