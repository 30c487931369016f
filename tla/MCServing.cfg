CONSTANTS
    one = one
    two = two
    three = three
    Calls = {one, two}
    NoId = NoId
    NoBody = NoBody
    Workloads <- MCWorkloads
    MayDie = TRUE
    StoreEnabled = TRUE
    MaxMessages = 9
    MaxTokens = 3
    MaxLag = 0
SPECIFICATION ServingSpec
INVARIANTS
    EventsInOrder
    BodiesAreWhole
    NothingLeftBehind
CHECK_DEADLOCK FALSE
