SPECIFICATION MCSpec
CONSTANTS
    Key = {"alice", "proactive"}
    ProactiveKey = {"proactive"}
    Sender = "alice"
    MaxTurn = 3
    MaxCall = 1
    MaxEpoch = 2
    Mock = TRUE
    Toggles = TRUE
    MayStop = TRUE
INVARIANTS TypeOK  InheritedOnce
PROPERTIES  EveryWaiterDone
CHECK_DEADLOCK FALSE
