CONSTANTS
    r1 = r1
    r2 = r2
    r3 = r3
    a = a
    e = e
    Requests = {r1, r2, r3}
    Tokens = {a}
    ExtraKeys <- MCExtraKeys
    Prompts <- MCPooledPrompts
    NumBlocks = 4
    BlockSize = 1
    MaxModelLen = 4
    EnableCaching = FALSE
    NoHash = NoHash
    MaxNumSeqs = 2
    MaxNumBatchedTokens = 3
    LongPrefillThreshold = 0
    EnableChunkedPrefill = TRUE
    MaxNumPartialPrefills = 1
    Policy = "priority"
    Priority <- MCPriority
    Lora <- MCLora
    NoLora = NoLora
    MaxLoras = 1
    NumSpecTokens = 0
    SpecDisableBatch = 0
    Structured = {r2}
    Pooling = {r1}
    StopTokens = {}
    MinTokens = 0
    MaxTokens = 9
SPECIFICATION EngineSpec
INVARIANTS
    RunningHasGrammar
    BudgetConserved
    UrgencyOrderKept
