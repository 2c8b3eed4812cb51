SPECIFICATION MCSpec
CONSTANTS
  asked = asked
  unasked = unasked
  Run <- MCRun
  Proactive <- MCProactive
  Batch <- MCBatch
  Text <- MCText
  MaxIterations = 2
  Setting <- MCSetting
  Troubles <- MCTroubles
  MaxIncoming = 1
  Caller = {1, 2}
  MaxVer = 2
  MaxTurn = 2
INVARIANTS AgentTypeOK  ToolsAccounted
PROPERTIES ActionsAreHonest AgentSettles
CHECK_DEADLOCK FALSE
