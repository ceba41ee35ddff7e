CONSTANTS
  Runs = {r1}
  Replans = {g1}
  NoOne = NoOne
  Author = Author
  N = 2
  MaxQuota = 2
  MaxVersion = 0
SPECIFICATION Spec
CHECK_DEADLOCK FALSE
PROPERTIES
  FinishedBookIsWhole
