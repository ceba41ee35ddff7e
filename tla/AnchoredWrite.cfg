SPECIFICATION FairSpec
CONSTANTS
  h1 = h1
  h2 = h2
  i1 = i1
  i2 = i2
  i3 = i3
  i4 = i4
  i5 = i5
  Helpers = {h1, h2}
  Inodes = {i1, i2, i3, i4, i5}
  None = None
  MaxSaves = 1
  MaxEdits = 2
  MaxFaults = 1
CHECK_DEADLOCK FALSE
PROPERTIES ExternalBytesKept SettledStays Settles
