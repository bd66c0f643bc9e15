SPECIFICATION Spec
CONSTANTS
  MAX_SUPPORTED_FABRICS = 3
  ENTRIES_PER_FABRIC = 2
  SUBJECTS_PER_ENTRY = 2
  TARGETS_PER_ENTRY = 1
  ACL_KV_MAX_SIZE = 11
  Ids <- MCIds
  Places <- MCPlaces
  None = None
  DeviceSessions <- MCSessions
  PaseId = "n1"
  WriteRequests <- MCWriteRequests
  ReadRequests <- MCReadRequests
  Commands <- MCCommands
  InitialTables <- MCInitialTables
  VerMod = 2
  IndexMod = 4
  MaxRequests = 3
  MaxBoots = 1
  NoReq = NoReq
INVARIANTS
  DMTypeOK
  FabricQuota
  SlotsSuffice
  AckedIsStored
PROPERTIES
  FabricIsolation
  ListsFollowOps
  KeepsLists
  OnlyAdminsWrite
  RestartKeepsGrants
  ReadReportsExactly
  VersionTellsValue
CHECK_DEADLOCK FALSE
