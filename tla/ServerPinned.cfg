SPECIFICATION Spec
CONSTANTS
    PoolSize = 3
    Conns = {c1, c2, c3}
    NoConn = NoConn
    Names = {alice, bob}
    MaxClients = 2
    MaxUsers = 2
    AuthKey = 0
    FixedIps = {2, 3}
    MaxMarred = 1
INVARIANTS PinsSafe RemovedUserDisconnected
SYMMETRY Symmetry
