SPECIFICATION MCSpec
CONSTANTS
    Key = {"alice", "proactive"}
    ProactiveKey = {"proactive"}
    Sender = "alice"
    MaxTurn = 3
    MaxCall = 1
    MaxEpoch = 2
    Mock = TRUE
    Toggles = TRUE
    MayStop = TRUE
INVARIANTS EveryChargeReported
CHECK_DEADLOCK FALSE
