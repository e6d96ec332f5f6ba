CONSTANTS
    r1 = r1
    r2 = r2
    r3 = r3
    Request = {r1, r2}
    Text <- MCText
    PromptLen <- MCPromptLen
    NumGpuBlocks = 4
    BlockSize = 2
    MaxModelLen = 6
    EnableCaching = TRUE
    UseEagle = FALSE
    Lookahead = 1
    MaxDraft = 1
    AllowEvict = TRUE
SPECIFICATION Spec
PROPERTIES
    ImplementsKVCache
