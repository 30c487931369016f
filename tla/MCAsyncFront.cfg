CONSTANTS
    c1 = c1
    c2 = c2
    c3 = c3
    Calls = {c1, c2, c3}
    NoCall = NoCall
    Ids = {"X", "Y"}
    IdOf <- MCIdOf
    Fanout <- MCFanout
    Streaming = {}
    MaxOutputs <- MCTwoOutputs
    Transports = {"inproc", "mp", "dp", "ep"}
    Replicas = 2
    MayFail = TRUE
    AbortedIds = {"Y"}
    StopStrings = {c1, c3}
    Retries = {c2}
    RetryOver = {"inproc", "dp", "ep"}
SPECIFICATION AsyncSpec
INVARIANTS
    NoOrphanInCore
    ParentsExact
    OwnOutputsOnly
    FinishedIsComplete
    WaitersAreServed
    RoutingExact
CHECK_DEADLOCK FALSE
