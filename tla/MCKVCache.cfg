CONSTANTS
    r1 = r1
    r2 = r2
    r3 = r3
    Request = {r1, r2, r3}
    Text <- MCText
    PromptLen <- MCPromptLen
    NumGpuBlocks = 5
    BlockSize = 2
    MaxModelLen = 6
    EnableCaching = TRUE
    UseEagle = FALSE
    Lookahead = 1
    MaxDraft = 1
    AllowEvict = FALSE
SPECIFICATION Spec
INVARIANTS
    Accounting
    HashesExact
    TokensFit
    CacheIsPrefixClosed
PROPERTIES
    HashStableWhileInUse
