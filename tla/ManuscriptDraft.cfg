SPECIFICATION FairSpec
CONSTANTS
  e1 = e1
  e2 = e2
  Editors = {e1}
  None = None
  MaxTexts = 3
  MaxReads = 1
  MaxExits = 1
CHECK_DEADLOCK FALSE
INVARIANTS CleanIsAVersion TypedIsKept LastTypedIsShown
PROPERTIES NoLostUpdate DirtyIsSettled
