CONSTANTS
    r1 = r1
    r2 = r2
    r3 = r3
    a = a
    e = e
    Requests = {r1, r2}
    Tokens = {a, e}
    ExtraKeys <- MCExtraKeys
    Prompts <- MCRoomyPrompts
    NumBlocks = 2
    BlockSize = 2
    MaxModelLen = 4
    EnableCaching = TRUE
    NoHash = NoHash
    MaxNumSeqs = 2
    MaxNumBatchedTokens = 3
    LongPrefillThreshold = 0
    EnableChunkedPrefill = TRUE
    MaxNumPartialPrefills = 1
    Policy = "fcfs"
    Priority <- MCNoPriority
    Lora <- MCNoLora
    NoLora = NoLora
    MaxLoras = 0
    NumSpecTokens = 2
    SpecDisableBatch = 1
    Structured = {r2}
    Pooling = {}
    StopTokens = {e}
    MinTokens = 2
    MaxTokens = 9
SPECIFICATION FairEngineSpec
INVARIANTS
    ComputedCountExact
    SlotsCoverBatch
PROPERTIES
    EveryRequestTerminates
    ImplementsLifecycle
