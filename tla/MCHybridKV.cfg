CONSTANTS
    r1 = r1
    r2 = r2
    r3 = r3
    Requests = {r1, r2, r3}
    KernelAlignment = 2
    MaxModelLen = 7
    MaxNumBatchedTokens = 3
    Deployments <- MCDeployments
    PromptLens = {4}
    Common <- MCCommon
    MaxDrafts = 2
    MaxExternal = 0
    NoHash = NoHash
SPECIFICATION HybridSpec
INVARIANTS
    ReadsItsOwn
    JointHitIsLongest
    StartupPromises
    NeverRunsDry
CHECK_DEADLOCK FALSE
