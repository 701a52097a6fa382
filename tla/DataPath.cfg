SPECIFICATION Spec
CONSTANTS
  Flows = {u, w}
  Unparsed = {}
  Unmatched = {}
  Plain = {}
  NRules = 1
  Mode = "on"
  MaxFlows = 1
  ResetMarks = 1
  IdleTicks = 0
  Hdr = 1
  Clients = {k1, k2}
  Conns = {1, 2}
  Addrs = {1, 2}
  NoClient = none
  NoConn = 0
  V6Clients = {k1, k2}
  Unchecked = {2}
  Lens = {3, 5}
  Ttls = {1, 3}
  MssVals = {0, 4}
  MinMtu = 2
  MinV6 = 5
  MtuCap = 0
  PtbLimit = 1
  MaxPkts = 3
  MaxEvents = 2
INVARIANTS NumbersTrusted NoBlackhole PtbHonest RightAddress 
SYMMETRY Symmetry
CHECK_DEADLOCK FALSE
