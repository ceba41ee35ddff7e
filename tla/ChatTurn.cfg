SPECIFICATION Spec
CONSTANTS
  w1 = w1
  w2 = w2
  profileCall = profileCall
  entryCall = entryCall
  Workers = {w1, w2}
  Tools = {profileCall, entryCall}
  Target <- Targets
  None = None
  MaxClaims = 2
  MaxEdits = 1
SYMMETRY Symmetry
CHECK_DEADLOCK FALSE
INVARIANTS AppliedOnce ReceiptInverts
PROPERTIES OneAnswer EditsRespected UndoSparesAuthor
