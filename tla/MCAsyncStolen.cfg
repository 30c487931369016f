CONSTANTS
    c1 = c1
    c2 = c2
    c3 = c3
    Calls = {c1, c2, c3}
    NoCall = NoCall
    Ids = {"X", "Y"}
    IdOf <- MCIdOf
    Fanout <- MCFanout
    Streaming = {}
    MaxOutputs <- MCTwoOutputs
    Transports = {"inproc"}
    Replicas = 2
    MayFail = FALSE
    AbortedIds = {"X"}
    StopStrings = {c1, c3}
    Retries = {c2}
    RetryOver = {"inproc"}
SPECIFICATION AsyncSpec
PROPERTIES
    FinallyLeavesOthers
CHECK_DEADLOCK FALSE
