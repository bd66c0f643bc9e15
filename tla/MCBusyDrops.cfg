SPECIFICATION Spec
CONSTANTS
  a1 = a1
  a2 = a2
  n1 = n1
  x1 = x1
  x2 = x2
  Addrs = {a1, a2}
  Nodes = {n1}
  NoNode = NoNode
  MAX_SESSIONS = 2
  MaxSessId = 3
  NoSession = NoSession
  ExchIds = {x1, x2}
  MAX_EXCHANGES = 2
  MAX_MRP_ENTRIES = 1
  MAX_WORKQ = 1
  Packets <- PasePackets
  NoExch = NoExch
  NoRx = NoRx
  OpenCommWindow = TRUE
  NoWindow = NoWindow
  IdlePake = IdlePake
  NodeZero = n1
PROPERTIES
  DenialKeepsHandshake
CHECK_DEADLOCK FALSE
