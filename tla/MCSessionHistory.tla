-------------------------- MODULE MCSessionHistory --------------------------
(* The instances of SessionHistory that TLC checks.  The settings of the    *)
(* session choose the scenario: "replies", two turns of AstrBot, proactive  *)
(* or not, whose tools send; "compact", three compactions one after the     *)
(* other; "reset", two billed turns of OneBot, a compaction and a reset,    *)
(* with a history that is trimmed.                                          *)
EXTENDS SessionHistory

CONSTANTS t1, t2, c1, c2, c3

VARIABLE scenario

MCTwoTurns == {t1, t2}
MCThreeCompactions == {c1, c2, c3}

Astrbot == [oneBot |-> FALSE, billed |-> FALSE, maxHistory |-> 9]
Onebot == [oneBot |-> TRUE, billed |-> TRUE, maxHistory |-> 2]
MCSettings == {Astrbot, Onebot}

SettingsOf(s) == IF s = "reset" THEN Onebot ELSE Astrbot
Sends(s) == CASE s = "replies" -> 2 [] s = "compact" -> 0 [] s = "reset" -> 1
Resets(s) == IF s = "reset" THEN 1 ELSE 0
Compactions(s) == CASE s = "replies" -> 0 [] s = "compact" -> 3 [] s = "reset" -> 1

Within(s) ==
  /\ SumFunction([t \in Turn |-> turn[t].sends]) <= Sends(s)
  /\ \A t \in Turn : turn[t].proactive => s = "replies"
  /\ epoch <= 1 + Resets(s)
  /\ Cardinality({c \in Compaction : comp[c].pc # "none"}) <= Compactions(s)

MCInit ==
  /\ Init
  /\ scenario \in {"replies", "compact", "reset"}
  /\ settings = SettingsOf(scenario)

MCNext == Next /\ UNCHANGED scenario /\ Within(scenario)'

MCSpec == MCInit /\ [][MCNext]_<<vars, scenario>>

Symmetry == Permutations(Turn) \cup Permutations(Compaction)
=============================================================================
