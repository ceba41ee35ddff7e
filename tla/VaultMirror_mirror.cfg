CONSTANTS
  e1 = e1
  e2 = e2
  Entries = {e1}
  Jobs = {j1, j2}
  Refers <- NoRefs
  Reconciling = FALSE
  None = None
  MaxStamp = 3
  MaxExternal = 1
  MaxRevision = 0
  MaxFaults = 2
SPECIFICATION FairSpec
CHECK_DEADLOCK FALSE
INVARIANTS
  SettledIsMirrored
PROPERTIES
  DeletesLand
