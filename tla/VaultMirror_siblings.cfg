CONSTANTS
  e1 = e1
  e2 = e2
  Entries = {e1, e2}
  Jobs = {j1, j2}
  Refers <- OneRef
  Reconciling = TRUE
  None = None
  MaxStamp = 3
  MaxExternal = 1
  MaxRevision = 1
  MaxFaults = 1
SPECIFICATION Spec
SYMMETRY Symmetry
CHECK_DEADLOCK FALSE
INVARIANTS
  NoOrphanFile
PROPERTIES
  ExternalEditsKept
