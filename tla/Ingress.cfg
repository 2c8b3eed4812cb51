SPECIFICATION MCSpec
CONSTANTS
  bot = bot
  user = user
  Conn = {1, 2}
  Sender <- MCSender
  Marks <- MCMarks
  Limit = 1
  Hard = {1}
  MaxEvent = 3
  MaxReset = 1
  Events = {1, 2}
  Cases <- MCCases
  MaxTrouble = 1
INVARIANTS IngressTypeOK
PROPERTIES AdmissionsAreFair  EventsSettle
CHECK_DEADLOCK FALSE
