CONSTANTS
  Runs = {r1, r2}
  Replans = {}
  NoOne = NoOne
  Author = Author
  N = 2
  MaxQuota = 2
  MaxVersion = 2
SPECIFICATION Spec
SYMMETRY Symmetry
CHECK_DEADLOCK FALSE
INVARIANTS
  OneRunningJob
  SummaryMatchesProse
PROPERTIES
  ProseIsOwn
  TerminalJobsStay
  BatchQuota
