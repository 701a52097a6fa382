\* Three paths, no multipath: only the primary carries the connection.
CONSTANTS
    MaxRetries = 1
    MaxPathId = 1
    Weights = {0}
    MaxPaths = 3
    ReconnectEnable = 1
    Multipath = 0
    BackupFec = 0
    Flags = {0}
    DeferredDisconnect = 0
    ConnectFrom = {"IDLE"}
SPECIFICATION FairSpec
PROPERTIES
    RotationFindsPath
    HandshakeEnds
