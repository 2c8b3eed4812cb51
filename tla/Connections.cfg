SPECIFICATION MCSpec
CONSTANTS
  Conn = {c1, c2}
  MaxTurn = 1
  PongBudget = 2
  MaxRetry = 2
  Req = {r1, r2}
  Mid = {1, 2, 3}
  Session = {"a", "b"}
  MaxTrusted = 1
  Depth = 2
  Group = {g1, g2}
  MaxEcho = 3
  Mocks = {c1}
CHECK_DEADLOCK FALSE
INVARIANTS ConnectionsTypeOK StopLeavesNothing AnswersAreTrusted
PROPERTY ConnectionsEnd
