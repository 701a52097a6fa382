CONSTANTS
    Keys = {k1, k2}
    Subnet = {}
    TcpMode = "auto"
    MaxFlows = 1
    MarkerCap = 1
    ClosingCap = 1
    IdleTimeout = 1
    Grace = 1
    Streams = {1, 2}
    None = None
SPECIFICATION Spec
INVARIANTS FlowsOwned LaneSticky
PROPERTIES Reaped
CHECK_DEADLOCK FALSE
