SPECIFICATION MCSpec
CONSTANTS
  Extraction = {e1, e2}
  Threshold = {1, 2}
  MaxGroup = 2
  MaxTurn = 2
  MaxReset = 2
  None = None
  Batch = 2
  MaxMessage = 4
  MaxForce = 1
  MaxToken = 2
  MayDrop = TRUE
  MayStop = TRUE
  CancelFirst = TRUE
  Image = {1}
  Collector = {1, 2}
  Session = {1}
  Gen = {1, 2}
  Msg = {1}
  MaxConcurrent = 1
  MaxObserved = 2
  MaxQueue = 2
  MaxWork = 4
  MaxFail = 1
  Provider = {1, 2}
  Vault = {1}
  Url = {1, 2}
  Key = {1, 2}
  Page = {"e1", "e2"}
  MaxEdits = 3
  User = {1}
  Turn = {1, 2}
  Payload = {1, 2}
  Window = 1
  LockAfter = 2
  MaxTime = 2
  MaxOps = 3
INVARIANTS BackgroundTypeOK RevokedIsSilent LocksHold
PROPERTIES ImplementsRevocableWrite  CatalogHolds BackgroundSettles
CHECK_DEADLOCK FALSE
