SPECIFICATION MCSpec
CONSTANTS
  t1 = t1
  t2 = t2
  c1 = c1
  c2 = c2
  c3 = c3
  Turn <- MCTwoTurns
  Compaction <- MCThreeCompactions
  MaxSend = 2
  MaxReset = 1
  Settings <- MCSettings
SYMMETRY Symmetry
INVARIANTS TypeOK  NothingForgotten
CHECK_DEADLOCK FALSE
