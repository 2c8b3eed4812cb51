SPECIFICATION MCSpec
CONSTANTS
  Owner = {"u1", "u2"}
  Text = {1, 2}
  Msg = {1}
  Name = {1}
  MaxWork = 3
  Mem = {1, 2}
  Value = {1, 2}
  Edited = {1}
  MaxChange = 2
  MaxFail = 1
  Worker = {w1, w2}
  Databases = {TRUE, FALSE}
  MaxVersion = 3
  MaxDrop = 2
  MaxReset = 2
  MaxRestart = 1
  MayFail = TRUE
INVARIANTS MemoryTypeOK 
PROPERTIES MemoriesAccounted  
CHECK_DEADLOCK FALSE
