CONSTANTS
    one = one
    two = two
    three = three
    Calls = {one, two}
    NoId = NoId
    NoBody = NoBody
    Workloads <- MCWorkloads
    MayDie = TRUE
    StoreEnabled = TRUE
    MaxMessages = 9
    MaxTokens = 3
    MaxLag = 0
SPECIFICATION ServingSpec
INVARIANTS
    ServedOrDone
CHECK_DEADLOCK FALSE
