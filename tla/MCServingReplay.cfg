CONSTANTS
    one = one
    two = two
    three = three
    Calls = {one, two, three}
    NoId = NoId
    NoBody = NoBody
    Workloads <- MCTakeovers
    MayDie = FALSE
    StoreEnabled = TRUE
    MaxMessages = 9
    MaxTokens = 1
    MaxLag = 0
SPECIFICATION ServingSpec
INVARIANTS
    ThreadsHold
CHECK_DEADLOCK FALSE
