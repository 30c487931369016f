CONSTANTS
    one = one
    two = two
    three = three
    Calls = {one, two}
    NoId = NoId
    NoBody = NoBody
    Workloads <- MCBodies
    MayDie = FALSE
    StoreEnabled = TRUE
    MaxMessages = 9
    MaxTokens = 3
    MaxLag = 3
SPECIFICATION ServingSpec
INVARIANTS
    DisconnectFreesSoon
CHECK_DEADLOCK FALSE
