CONSTANTS
    r1 = r1
    r2 = r2
    a = a
    b = b
    Requests = {r1, r2}
    Tokens = {a, b}
    ExtraKeys <- MCOneTenant
    Prompts <- MCPrompts
    NumBlocks = 3
    BlockSize = 2
    MaxModelLen = 5
    EnableCaching = TRUE
    NoHash = NoHash
SPECIFICATION Spec
SYMMETRY MCSymmetry
INVARIANTS
    FreeQueueExact
    CachedPrefixesHaveNoHoles
    CommonPrefixIsCommon
PROPERTIES
    HeldContentStable
    ImplementsSharing
