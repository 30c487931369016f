CONSTANTS
    r1 = r1
    r2 = r2
    r3 = r3
    a = a
    e = e
    Requests = {r1, r2, r3}
    Tokens = {a, e}
    ExtraKeys <- MCSaltLikeAdapter
    Prompts <- MCMixedPrompts
    NumBlocks = 2
    BlockSize = 2
    MaxModelLen = 4
    EnableCaching = TRUE
    NoHash = NoHash
    MaxNumSeqs = 2
    MaxNumBatchedTokens = 3
    LongPrefillThreshold = 2
    EnableChunkedPrefill = TRUE
    MaxNumPartialPrefills = 1
    Policy = "fcfs"
    Priority <- MCNoPriority
    Lora <- MCOneAdapter
    NoLora = NoLora
    MaxLoras = 2
    NumSpecTokens = 0
    SpecDisableBatch = 0
    Structured = {}
    Pooling = {}
    StopTokens = {e}
    MinTokens = 0
    MaxTokens = 9
SPECIFICATION EngineSpec
INVARIANTS
    AnyDifferenceIsolates
