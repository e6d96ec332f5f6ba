CONSTANTS
    r1 = r1
    r2 = r2
    r3 = r3
    a = a
    b = b
    c = c
    Request = {r1, r2}
    MmHash = {a, b, c}
    Embeds <- MCEmbeds
    Items <- MCSharedItems
    PromptLen <- MCSharedPromptLen
    CacheSize = 3
    MaxChunk = 1
    ComputeBudget = 2
    PrefixHits = FALSE
    PriorityPolicy = TRUE
SPECIFICATION UrgentSpec
INVARIANT
    NoEncoderCacheMiss
