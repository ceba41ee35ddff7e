CONSTANTS
  n1 = n1
  n2 = n2
  s1 = s1
  a1 = a1
  Novels = {n1, n2}
  Book = n1
  Gens = {s1, s2}
  Sessions = {s1, s2}
  Requests = {r1, r2}
  Attempts = {a1, a2}
  NumSlots = 2
  None = None
  Manuscript <- TwoPlans
  Options = {"overwrite", "append"}
  MaxNumber = 4
  MaxStamp = 1
  MaxFaults = 1
SPECIFICATION MCSpec
CHECK_DEADLOCK FALSE
INVARIANTS
  SlotOnce
  ImportedOnce
PROPERTIES
  ToldIsFinal
  OverwriteSparesNewer
  ImportExcludesRun
  ImplementsExtraction
  AttemptsEnd
