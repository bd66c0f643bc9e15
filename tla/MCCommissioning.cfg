SPECIFICATION Spec
CONSTANTS
  MAX_SUPPORTED_FABRICS = 3
  ENTRIES_PER_FABRIC = 1
  s1 = s1
  s2 = s2
  r1 = r1
  r2 = r2
  Sessions = {s1, s2}
  Roots = {r1, r2}
  AddNocRequests <- MCAddNocRequests
  PublishFails = TRUE
  MaxCsr = 2
  MaxBoots = 2
  None = None
INVARIANTS
  CMTypeOK
  MemoryIsFile
  WholeFabric
  BootNeverPanics
  AckedSurvives
  AdminOfItsFabric
  KeyUsedOnce
  OneNocPerArming
PROPERTIES
  CompleteMeansStored
SYMMETRY MCSymmetry
CHECK_DEADLOCK FALSE
