CONSTANTS
    c1 = c1
    c2 = c2
    c3 = c3
    Calls = {c1, c2, c3}
    NoCall = NoCall
    Ids = {"X", "Y"}
    IdOf <- MCIdOf
    Fanout <- MCFanout
    Streaming = {c3}
    MaxOutputs <- MCOneOutput
    Transports = {"inproc", "mp", "dp", "ep"}
    Replicas = 2
    MayFail = TRUE
    AbortedIds = {}
    StopStrings = {}
    Retries = {c2}
    RetryOver = {"inproc", "dp", "ep"}
SPECIFICATION FairAsyncSpec
PROPERTIES
    WaitsEnd
CHECK_DEADLOCK FALSE
