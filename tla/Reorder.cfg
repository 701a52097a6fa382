\* Two flows of which one fits into the table, and a key that is not reordered.
CONSTANTS
    Keys = {k1, k2, k3}
    ZeroWait = {k3}
    MaxSeq = 6
    Lens = {2, 3}
    HdrLen = 1
    Cap = 4
    MaxFlows = 1
    FlowBytes = 5
    PoolBytes = 5
    Window = 2
    MaxLarge = 0
    SmallThreshold = 2
SPECIFICATION LiveSpec
INVARIANTS BuffersExact GapPeriods
PROPERTIES DeliverySound HeldEnds
