SPECIFICATION Spec
CONSTANTS
    PoolSize = 4
    Conns = {c1, c2, c3}
    NoConn = NoConn
    Names = {alice}
    MaxClients = 2
    MaxUsers = 1
    AuthKey = 1
    FixedIps = {}
    MaxMarred = 1
INVARIANTS TablesExact
PROPERTIES KeepsPromise
SYMMETRY Symmetry
