CONSTANTS
  Main = db
  Sidecars = {wal}
  Libraries = {g1, g2, g3, g4}
  Tokens = {t1, t2}
  Cleanups = {c1, c2, c3}
  Books = {b1}
  None = None
  NoRoot = NoRoot
  MaxCrashes = 1
  MaxFaults = 0
SPECIFICATION Spec
CHECK_DEADLOCK FALSE
PROPERTIES
  ResetClears
