\* The libraries that messages are made with, each on its own instance.
SPECIFICATION Spec
CONSTANTS
  BYTE = 4
  CAPACITY = 14
  MaxWrites = 4
  Tags <- LeafTags
  Starts <- StartsDef
  Leaves <- LeafValues
  Structs <- StructValues
  Schema <- SchemaDef
  BASE = 16
  MAX_DEPTH = 10
  ASN1_LEN = 160
  MaxCalls = 6
  FreeCalls <- FreeCallsDef
  Calls <- CallsDef
  Issued <- IssuedDef
  Altered <- AlteredDef
  FabricIds <- Fabrics
  MAX_RX_BUF_SIZE = 64
  Payloads <- PayloadsDef
  PlainHdrs <- PlainHdrsDef
  ProtoHdrs <- ProtoHdrsDef
  PeerNodes <- PeerNodesDef
  Keys <- KeysDef
  MAX_PACKET_POOL_SIZE = 3
INVARIANTS
  CutReadsPrefix
  ChildrenAreDirect
  EqualBothWays
  StructReadsBack
  DecodersAgree
  AcceptedAsIssued
  AcceptedIsSent
  PoolsAgree
PROPERTIES
  WritesDer
CHECK_DEADLOCK FALSE
