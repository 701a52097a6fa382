\* The client on a platform that tears the TUN device down by itself.
CONSTANTS
    MaxRetries = 3
    MaxPathId = 2
    Weights = {0}
    MaxPaths = 2
    ReconnectEnable = 1
    Multipath = 1
    BackupFec = 0
    Flags = {0, 1}
    DeferredDisconnect = 0
    ConnectFrom = {"IDLE"}
SPECIFICATION FairSpec
INVARIANTS SlotsSafe ConnSafe PathBinding
PROPERTIES TransitionsValid RetryHappens
