CONSTANTS
    Conns = {c1, c2}
    Streams = {1, 2, 3}
    Fds = {1, 2, 3}
    MaxFlows = 2
    Budget = 2
    ConnectTimeout = 1
    IdleTimeout = 1
    MaxFail = 1
SPECIFICATION Spec
INVARIANTS FlowsSound
PROPERTIES Answered ParkedCollected
CHECK_DEADLOCK FALSE
