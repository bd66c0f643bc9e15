SPECIFICATION FairSpec
CONSTANTS
  a1 = a1
  n1 = n1
  x1 = x1
  x2 = x2
  Addrs = {a1}
  Nodes = {n1}
  NoNode = NoNode
  MAX_SESSIONS = 1
  MaxSessId = 2
  NoSession = NoSession
  ExchIds = {x1, x2}
  MAX_EXCHANGES = 2
  MAX_MRP_ENTRIES = 2
  MAX_WORKQ = 1
  Packets <- SigmaPackets
  NoExch = NoExch
  NoRx = NoRx
  OpenCommWindow = FALSE
  NoWindow = NoWindow
  IdlePake = IdlePake
  NodeZero = n1
PROPERTIES
  TurnEnds
CHECK_DEADLOCK FALSE
