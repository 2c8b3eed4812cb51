SPECIFICATION MCSpec
CONSTANTS
  m1 = m1
  m2 = m2
  Id <- MCId
  NoID = NoID
  MaxSlot = 3
  BufferSize = 2
  MaxBuffer = 2
  MaxSources = 1
  MaxDistill = 2
  MaxGeneration = 2
  Resets = {"session", "group"}
  MayFail = TRUE
SYMMETRY Symmetry
INVARIANTS TypeOK
 
CHECK_DEADLOCK FALSE
