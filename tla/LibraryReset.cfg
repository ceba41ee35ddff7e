CONSTANTS
  Main = db
  Sidecars = {wal}
  Libraries = {g1, g2, g3, g4}
  Tokens = {t1, t2}
  Cleanups = {c1, c2}
  Books = {b1}
  None = None
  NoRoot = NoRoot
  MaxCrashes = 1
  MaxFaults = 1
SPECIFICATION FairSpec
CHECK_DEADLOCK FALSE
INVARIANTS
  OpenIsCurrent
  PreparedKeepsOld
  StartTidies
PROPERTIES
  Reopens
  KeepsShelf
  KeptFolders
