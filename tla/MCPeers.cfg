SPECIFICATION Spec
CONSTANTS
  a1 = a1
  a2 = a2
  n1 = n1
  n2 = n2
  x1 = x1
  Addrs = {a1, a2}
  Nodes = {n1, n2}
  NoNode = NoNode
  MAX_SESSIONS = 2
  MaxSessId = 3
  NoSession = NoSession
  ExchIds = {x1}
  MAX_EXCHANGES = 1
  MAX_MRP_ENTRIES = 1
  MAX_WORKQ = 1
  Packets <- PeerPackets
  NoExch = NoExch
  NoRx = NoRx
  OpenCommWindow = FALSE
  NoWindow = NoWindow
  IdlePake = IdlePake
  NodeZero = n1
SYMMETRY Symmetry
INVARIANTS
  ServedInPlace
CHECK_DEADLOCK FALSE
