------------------------------ MODULE MCIngress ------------------------------
(* What happens to an incoming event, for TLC: its way past the bot loop     *)
(* guard and the poke gate, and the exchange with the AstrBot plugin that    *)
(* waits for the turn.  They share no state, so a behaviour moves one of     *)
(* them: part says which.                                                    *)
EXTENDS Ingress

CONSTANTS bot, user,
          Events, Cases, MaxTrouble

VARIABLES part,
          kind, t, guard, writes, result, heard, kept, mined, lap, live, open, wire, waiter

(* The bot is marked, with a hard limit at first, then not marked, then      *)
(* marked with a soft limit.                                                 *)
MCSender == {bot, user}
MCMarks == <<{bot}, {}, {bot}>>

(* Two messages that wake the bot; one that does not, before one that the    *)
(* bot answers of its own accord or a poke.                                  *)
MCCases == {<<"wake", "wake">>, <<"background", "proactive">>, <<"background", "poke">>}

AstrBot == INSTANCE AstrBotTurn WITH epoch <- lap

astVars == <<kind, t, guard, writes, result, heard, kept, mined, lap, live, open, wire, waiter>>

(* The bot always wakes the agent, the user explicitly or not at all. *)
Usual(ev) == ev.wake # (IF ev.sender = bot THEN "none" ELSE "proactive")

(* The connections are alike, so the first event is one of connection 1.  A  *)
(* behaviour changes the settings or resets the session.                     *)
Within ==
  /\ events = 1 => conn[2] = Idle
  /\ epoch > 1 => revision = 1
  /\ \A c \in Conn : conn[c].pc = "parsed" => Usual(conn[c].ev)

(* The last event is of the bot: nothing follows that would show what one of *)
(* the user restores.                                                        *)
LastOfBot ==
  events' = MaxEvent /\ events < MaxEvent =>
    \A c \in Conn : conn'[c] # conn[c] => conn'[c].ev.sender = bot

(* The second of two messages that wake the bot ends with an answer, if an   *)
(* empty one: the other ends are those of the first when it is alone.        *)
SecondAnswers == kind[2] = "wake" => t[2].out \in {"none", "answer", "empty"}

MCInit ==
  /\ part \in {"gates", "astrbot"}
  /\ Init /\ revision = 1
  /\ AstrBot!AstInit /\ (part = "gates" => kind = <<"wake", "wake">>)

MCNext ==
  /\ UNCHANGED part
  /\ \/ part = "gates" /\ Next /\ Within' /\ LastOfBot /\ UNCHANGED astVars
     \/ part = "astrbot" /\ AstrBot!AstNext /\ SecondAnswers' /\ UNCHANGED vars

MCSpec ==
  /\ MCInit /\ [][MCNext]_<<part, vars, astVars>>
  /\ WF_vars(part = "gates" /\ \E c \in Conn : Proceeds(c))
  /\ WF_astVars(part = "astrbot" /\ AstrBot!Proceeds)

-----------------------------------------------------------------------------

(* Every variable of either part has its type.                               *)
IngressTypeOK == TypeOK /\ AstrBot!AstTypeOK

(* The budgets of marked senders are those of the order of arrival, and of   *)
(* the pokes read while no cooldown runs one is answered                     *)
(* (FinishWithAdmission, Gate.Allow).                                        *)
AdmissionsAreFair == [](InIngressOrder /\ HardLimit) /\ [][PokeIsSpaced]_vars

(* AstrBot's own model answers a forwarded message only if nobody addressed  *)
(* the bot, the connection closed, the answer was empty, or the session was  *)
(* reset while the message was queued (replyWithSnapshot, main.py).  A turn  *)
(* is remembered only for what was said in its own epoch, once and never     *)
(* after its message was taken back; and once the turn of a newer message    *)
(* has said anything, a turn that was cut short says nothing more            *)
(* (withEpochCommit, writeTurnJSON, WithAuthority).                          *)
TurnsKeepTheirPlace ==
  /\ []AstrBot!NativeModelStaysOut
  /\ [][AstrBot!RemembersWhatWasSaid /\ AstrBot!InterruptedSaysNothingLate]_astVars

(* Connections and messages are numbered alike. *)
Waiting(k) == IF part = "gates" THEN conn[k].pc = "gate" ELSE t[k].pc \in {"queued", "background"}
Released(k) == IF part = "gates" THEN conn[k].pc = "idle" ELSE waiter[k].st = "done"

(* No event waits forever for those before it ("Every reserved event must be *)
(* finished", session.go, Finish), and the plugin's waiter of a message that *)
(* was given a turn or admitted to the background is released without        *)
(* waiting for a time limit.                                                 *)
EventsSettle == \A k \in Events : Waiting(k) ~> Released(k)

(* The strict reading of the rule for interrupted messages: AstrBot's own    *)
(* model never answers a message whose turn was cut short.                   *)
InterruptedStaysQuiet == AstrBot!InterruptedStaysQuiet
==============================================================================
