SPECIFICATION FairPathsSpec
CONSTANTS
    MaxRetries = 2
    MaxPathId = 1
    Weights = {0}
    Ifaces = {"a", "b"}
    MaxPaths = 3
    Limit = 2
    MaxQueue = 2
    MaxEvents = 3
INVARIANTS Corresponds DeadInterfaceDropped
PROPERTIES Recovered
CHECK_DEADLOCK FALSE
