CONSTANTS
    r1 = r1
    r2 = r2
    r3 = r3
    Request = {r1, r2, r3}
    Text <- MCText
    PromptLen <- MCPromptLen
    Rank <- MCRank
    NumGpuBlocks = 5
    BlockSize = 2
    MaxModelLen = 8
    EnableCaching = TRUE
    UseEagle = FALSE
    MaxNumRunningReqs = 3
    MaxNumScheduledTokens = 3
    LongPrefillThreshold = 0
    Modes <- MCModes
SPECIFICATION Spec
INVARIANTS
    QueuesMatchStatus
    TokensInOrder
    ComputedIsMaterialised
    PlaceholdersMatchInFlight
    AssertionsHold
    WorkersForgetFinished
    CacheIsMaterialised
PROPERTIES
    FinishedIsFinal
CHECK_DEADLOCK FALSE
