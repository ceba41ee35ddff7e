CONSTANTS
  Runs = {r1, r2}
  Replans = {}
  NoOne = NoOne
  Author = Author
  N = 2
  MaxQuota = 1
  MaxVersion = 0
SPECIFICATION FairSpec
CHECK_DEADLOCK FALSE
PROPERTIES
  RunsEnd
