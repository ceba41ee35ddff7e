CONSTANTS
  Runs = {r1, r2}
  Replans = {g1}
  NoOne = NoOne
  Author = Author
  N = 2
  MaxQuota = 1
  MaxVersion = 1
SPECIFICATION Spec
SYMMETRY Symmetry
CHECK_DEADLOCK FALSE
INVARIANTS
  OwnerViewIsCurrent
  NoLeakedLock
PROPERTIES
  OwnedFinishIsWhole
  KeepsLedger
