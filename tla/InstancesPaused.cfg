CONSTANTS
  Id = {i1}
  Value = {u, v}
  MaxCrash = 1
SPECIFICATION MCSpec
INVARIANT PendingDeletionsStayPaused
CHECK_DEADLOCK FALSE
