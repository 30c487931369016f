CONSTANTS
    r1 = r1
    r2 = r2
    r3 = r3
    Requests = {r1, r2, r3}
    KernelAlignment = 2
    MaxModelLen = 8
    MaxNumBatchedTokens = 3
    Deployments <- MCAdapters
    PromptLens = {4}
    Common <- MCCommon
    MaxDrafts = 0
    MaxExternal = 0
    NoHash = NoHash
SPECIFICATION HybridSpec
INVARIANTS
    ResidentFits
CHECK_DEADLOCK FALSE
