------------------------------- MODULE MCAgent -------------------------------
(* What a turn does, for TLC: the loop of model calls and tools, and the     *)
(* tools and panel requests of ActionsCat.  They share no state, so a        *)
(* scenario moves one of them.  "tools": a run that was asked for, with      *)
(* every failure, while messages are counted and settings change;            *)
(* "proactive": a run nobody asked for; "quota": a run that owes stickers;   *)
(* "pair": both runs, whose model answers with text; "actions": two calls    *)
(* to ActionsCat.                                                            *)
EXTENDS AgentLoop

CONSTANTS asked, unasked,
          Caller, MaxVer, MaxTurn

VARIABLES scenario,
          enabled, versions, builds, active, runs, triggers, made, call, turns

Cat == INSTANCE ActionsCat

catVars == <<enabled, versions, builds, active, runs, triggers, made, call, turns>>

MCRun == {asked, unasked}
MCProactive == {unasked}

Runs(s) ==
  CASE s = "proactive" -> {unasked} [] s = "pair" -> MCRun [] OTHER -> {asked}
Batches(s) ==
  CASE s = "tools" -> {<<"send", "sticker">>, <<"memory", "send">>, <<"silent">>,
                       <<"silent", "memory">>, <<"other">>}
    [] s = "proactive" -> {<<"send">>, <<"memory", "send">>, <<"send", "send">>,
                           <<"send", "other">>, <<"silent">>}
    [] s = "quota" -> {<<"sticker">>, <<"send", "sticker">>, <<"send">>}
    [] OTHER -> {}
Texts(s) ==
  CASE s = "tools" -> {"text", "ignore", "marker", "sticker", "empty"}
    [] s = "proactive" -> {"text", "echo", "sticker"}
    [] s = "quota" -> {"text", "marker", "sticker"}
    [] OTHER -> {"text", "ignore"}
Failing(s) ==
  CASE s = "tools" -> Failures
    [] s = "proactive" -> {"interrupt", "send", "tool"}
    [] s = "quota" -> {"send", "tool", "refuse"}
    [] OTHER -> {"interrupt"}
Loops == {"tools", "proactive", "quota", "pair"}

MCBatch == UNION {Batches(s) : s \in Loops}
MCText == UNION {Texts(s) : s \in Loops}
MCTroubles == {Failing(s) : s \in Loops}
MCSetting == {[level |-> 0, all |-> TRUE], [level |-> 2, all |-> TRUE],
              [level |-> 1, all |-> FALSE], [level |-> 2, all |-> FALSE]}

Settings(s) ==
  CASE s = "tools" -> {x \in MCSetting : x.all}
    [] s = "quota" -> {[level |-> 2, all |-> FALSE]}
    [] OTHER -> {[level |-> 1, all |-> FALSE]}

Within(s) ==
  /\ \A r \in Run : r \notin Runs(s) => run[r].pc = "idle"
  /\ \A r \in Run : run[r].batch \in Batches(s) \cup {<<>>}
                     /\ run[r].text \in Texts(s) \cup {"empty", "text"}
  /\ setting \in Settings(s)
  /\ incoming > 0 => s = "tools" /\ setting = [level |-> 2, all |-> TRUE]

MCInit ==
  /\ Init /\ Cat!CatInit
  /\ scenario \in Loops \cup {"actions"}
  /\ trouble = Failing(scenario)
  /\ Within(scenario)
  \* the parts at rest start in one way
  /\ scenario \notin Loops => act.since = 0
  /\ scenario # "actions" => versions = 0

MCNext ==
  /\ UNCHANGED scenario
  /\ \/ scenario \in Loops /\ Next /\ Within(scenario)' /\ UNCHANGED catVars
     \/ scenario = "actions" /\ Cat!CatNext /\ UNCHANGED vars

MCSpec ==
  /\ MCInit /\ [][MCNext]_<<scenario, vars, catVars>>
  /\ Fairness /\ Cat!CatFairness

-----------------------------------------------------------------------------

(* Every variable of every part has its type.                                *)
AgentTypeOK == TypeOK /\ Cat!CatTypeOK

(* Tools run and messages leave only after the whole batch, its charge and   *)
(* both inspections allow it, a proactive reply leaves once, and the quota   *)
(* asks for stickers within its bounds (runLoopWithResult).                  *)
EffectsAllowed == OnlyAllowedEffects /\ QuotaIsFair

(* ActionsCat: what a call reports is so at the service, whatever was lost   *)
(* and whoever else is at work; what is activated has succeeded, unless its  *)
(* check could not be made; and the service is changed only by someone who   *)
(* may, while the switch is on (client.go, actionscat_tools.go).             *)
ActionsAreHonest ==
  /\ [](Cat!ReportsAreTrue /\ Cat!ActivatedHasSucceeded)
  /\ [][Cat!RequestIsAllowed]_catVars

Begun ==
  CASE scenario = "actions" -> \E c \in Caller : call[c].pc # "idle"
    [] OTHER -> \E r \in Run : run[r].pc = "start"
Over ==
  CASE scenario = "actions" -> \A c \in Caller : call[c].pc \in {"idle", "done"}
    [] OTHER -> \A r \in Run : run[r].pc \in {"idle", "done"}

(* Once begun, it ends: a run of the loop whatever the model answers, and a  *)
(* call of ActionsCat whatever the service does.                             *)
AgentSettles == Begun ~> Over
==============================================================================
