CONSTANTS
    r1 = r1
    r2 = r2
    r3 = r3
    A = A
    B = B
    x = x
    y = y
    z = z
    Requests = {r1, r2, r3}
    Tokens = {A, B, x, y, z}
    Images = {A, B}
    ImageTokens = 2
    Text = x
    ExtraKeys <- MCOneTenant
    Prompts <- MCPrompts
    NumBlocks = 12
    BlockSize = 2
    MaxModelLen = 7
    EnableCaching = TRUE
    NoHash = NoHash
    MaxNumSeqs = 2
    MaxNumBatchedTokens = 5
    MaxTokens = 2
    Deployments <- MCDeployments
SPECIFICATION ESpec
INVARIANTS
    WorkerHoldsWhatIsCached
CHECK_DEADLOCK FALSE
