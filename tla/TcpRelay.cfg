CONSTANTS
    UpBytes = 4
    DownBytes = 2
    Wnd = 2
    HighWater = 2
    LowWater = 1
    SndBuf = 1
    Mss = 1
    H3Cap = 2
    SockCap = 1
    Chunk = 2
    MaxFaults = 1
    MaxMem = 1
SPECIFICATION Spec
INVARIANTS BytesExact HopContracts
PROPERTIES BothReleased AllRelayed
CHECK_DEADLOCK FALSE
