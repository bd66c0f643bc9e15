SPECIFICATION Spec
CONSTANTS
  a1 = a1
  a2 = a2
  a3 = a3
  n1 = n1
  x1 = x1
  x2 = x2
  x3 = x3
  Addrs = {a1, a2, a3}
  Nodes = {n1}
  NoNode = NoNode
  MAX_SESSIONS = 2
  MaxSessId = 3
  NoSession = NoSession
  ExchIds = {x1, x2, x3}
  MAX_EXCHANGES = 2
  MAX_MRP_ENTRIES = 1
  MAX_WORKQ = 1
  Packets <- RequestPackets
  NoExch = NoExch
  NoRx = NoRx
  OpenCommWindow = FALSE
  NoWindow = NoWindow
  IdlePake = IdlePake
  NodeZero = n1
SYMMETRY Symmetry
INVARIANTS
  TypeOK
  ExchangeOnItsSession
  NoSpuriousAck
PROPERTIES
  EndsCleanly
  LruEviction
  KeepsPromise
CHECK_DEADLOCK FALSE
