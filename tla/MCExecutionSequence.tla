------------------------ MODULE MCExecutionSequence ------------------------
(* Two scenarios of ExecutionSequence in one state space.  "queue" is one   *)
(* sender with MaxTurn turns and a stop of the instance; "trouble" is two   *)
(* turns of any two lanes, with replies switched off at any time and one of *)
(* a reset, a stop or the end of a mock connection.                         *)
EXTENDS ExecutionSequence

CONSTANT Sender     \* the one lane of the scenario "queue"

VARIABLE scenario

Within(s) ==
    IF s = "queue"
    THEN \A t \in 1 .. last : laneOf[t] = <<Sender, 1>> /\ epoch = 1
                              /\ ~closed /\ ignored = {}
    ELSE /\ last <= 2
         /\ ~(stopped /\ closed) /\ (stopped \/ closed => epoch = 1)

MCInit == Init /\ scenario \in {"queue", "trouble"} /\ Within(scenario)

MCNext == Next /\ UNCHANGED scenario /\ Within(scenario)'

MCSpec == MCInit /\ [][MCNext]_<<vars, scenario>> /\ Fairness
=============================================================================
