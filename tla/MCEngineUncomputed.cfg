CONSTANTS
    r1 = r1
    r2 = r2
    r3 = r3
    a = a
    e = e
    Requests = {r1, r2}
    Tokens = {a}
    ExtraKeys <- MCExtraKeys
    Prompts <- MCShortPrompts
    NumBlocks = 5
    BlockSize = 1
    MaxModelLen = 4
    EnableCaching = TRUE
    NoHash = NoHash
    MaxNumSeqs = 2
    MaxNumBatchedTokens = 4
    LongPrefillThreshold = 0
    EnableChunkedPrefill = TRUE
    MaxNumPartialPrefills = 1
    Policy = "priority"
    Priority <- MCPriority
    Lora <- MCNoLora
    NoLora = NoLora
    MaxLoras = 0
    NumSpecTokens = 1
    SpecDisableBatch = 0
    Structured = {}
    Pooling = {}
    StopTokens = {}
    MinTokens = 0
    MaxTokens = 9
SPECIFICATION EngineSpec
INVARIANTS
    PublishedIsComputed
