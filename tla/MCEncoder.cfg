CONSTANTS
    r1 = r1
    r2 = r2
    r3 = r3
    a = a
    b = b
    c = c
    Request = {r1, r2, r3}
    MmHash = {a, b, c}
    Embeds <- MCEmbeds
    Items <- MCItems
    PromptLen <- MCPromptLen
    CacheSize = 3
    MaxChunk = 3
    ComputeBudget = 2
    PrefixHits = TRUE
    PriorityPolicy = FALSE
SPECIFICATION Spec
INVARIANTS
    ReferencesExact
    NoEncoderCacheMiss
    WorkersMirrorManager
