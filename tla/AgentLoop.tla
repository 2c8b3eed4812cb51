----------------------------- MODULE AgentLoop -----------------------------
(***************************************************************************)
(* The agent's loop: Engine.runLoopWithResult of internal/llm/agent.go     *)
(* with the tool execution of tool_execution.go and inflight.go, the       *)
(* sticker quota of sticker_activity.go and sticker_pair.go.  Several runs *)
(* of one engine interleave; the quota is the state they share.            *)
(*                                                                         *)
(* A run asks the model, which answers with text or with a batch of tool   *)
(* calls; the loop inspects, executes and delivers them one by one.  An    *)
(* interrupted run leaves at once, while the executor or the send it was   *)
(* waiting for carries on in its goroutine.  Texts are abstracted to their *)
(* role.  A reset also interrupts the run, so the epoch checks, which end  *)
(* it in the same way, are covered by the interruption.                    *)
(***************************************************************************)
EXTENDS Naturals, Sequences, FiniteSets

CONSTANTS Run,            \* runs of the loop
          Proactive,      \* the runs nobody asked for
          Batch,          \* the batches of tool calls the model may ask for
          Text,           \* the final texts the model may answer with
          MaxIterations,  \* Engine.EffectiveMaxIterations
          Setting,        \* what the operator may set: the sticker interval, 0 is
                          \* off, and the mode that counts all incoming messages
          Troubles,       \* the sets of failures to consider, see trouble
          MaxIncoming     \* bound on counted messages and on changes of level

Tool == {"send", "sticker", "silent", "memory", "other"}
Final == {"text", "echo", "sticker", "ignore", "marker", "empty"}
Failures == {"interrupt", "refuse", "commit", "block", "tool", "send", "ban"}

ASSUME LoopAssumption ==
  /\ Proactive \subseteq Run
  /\ Text \subseteq Final
  /\ \A t \in Troubles : t \subseteq Failures
  /\ MaxIterations \in Nat \ {0}
  /\ Setting \subseteq [level : Nat, all : BOOLEAN]
  /\ MaxIncoming \in Nat

VARIABLES run,      \* the local state of each run
          act,      \* stickerActivityState: the setting it was counted at, sinceSticker, grace
          setting,  \* STICKER_ACTIVITY and STICKER_ACTIVITY_MODE in the environment
          incoming, \* messages counted and settings changed so far
          trouble   \* the failures that may happen in this behaviour

vars == <<run, act, setting, incoming, trouble>>

\* The variables of one call of runLoopWithResult.  The fields after
\* `specific` record what happened, for the properties.
Fresh ==
  [pc |-> "idle", iter |-> 0, extra |-> 0, enforcing |-> FALSE, attempts |-> 0,
   batch |-> <<>>, at |-> 1, pair |-> FALSE, text |-> "empty",
   started |-> {}, answered |-> {}, memory |-> FALSE, specific |-> FALSE,
   interrupted |-> FALSE, paid |-> TRUE, live |-> {}, failed |-> {}, flight |-> {}, executed |-> {},
   passed |-> {}, said |-> 0, misses |-> 0, tools |-> FALSE, pleased |-> FALSE,
   outcome |-> "none"]

Init ==
  /\ run = [r \in Run |-> Fresh]
  /\ setting \in Setting
  /\ act \in {[setting |-> setting, since |-> s, grace |-> 0] : s \in 0..setting.level}
  /\ incoming = 0
  /\ trouble \in Troubles

----------------------------------------------------------------------------
(* The sticker quota.                                                      *)

\* applyConfig: a new level or mode starts the count again.
Applied ==
  IF act.setting = setting THEN act ELSE [setting |-> setting, since |-> 0, grace |-> 0]

Interval(a) == a.setting.level

Remaining(a) == IF a.since >= Interval(a) THEN 0 ELSE Interval(a) - a.since

\* stickerNeededBeforeReply.
Due(a) == Interval(a) > 0 /\ Remaining(a) = 0 /\ a.grace = 0

\* Mutant: the count is not capped at the interval.
CountWithoutCap(a) == [a EXCEPT !.since = @ + 1]
\* recordStickerTurn.
CountTurn(a) ==
  IF a.since < Interval(a) THEN [a EXCEPT !.since = @ + 1] ELSE a

\* RecordBotMessage.
RecordBotMessage(a, sticker) ==
  CASE Interval(a) = 0 -> a
    [] Interval(a) > 0 /\ sticker -> [a EXCEPT !.since = 0, !.grace = 0]
    [] Interval(a) > 0 /\ ~sticker -> [a EXCEPT !.grace = IF @ > 0 THEN @ - 1 ELSE 0]

\* grantStickerGrace.
GrantGrace(a) == IF Interval(a) > 0 THEN [a EXCEPT !.grace = 2] ELSE a

\* A reply without the sticker that was due.  The third one is forgiven; each
\* of them buys one more iteration, up to four.
FourAttempts == 4
AttemptLimit == 3
ExtraLimit == 4
Forgives(s) == s.attempts + 1 >= AttemptLimit
ExtraWithoutLimit(s) == s.extra + 1
AddIteration(s) == IF s.extra < ExtraLimit THEN s.extra + 1 ELSE s.extra
Missed(s) ==
  [s EXCEPT !.enforcing = ~Forgives(s),
            !.attempts = IF Forgives(s) THEN 0 ELSE @ + 1,
            !.extra = AddIteration(s),
            !.misses = IF @ < 4 THEN @ + 1 ELSE @]
AfterMiss(a, s) == IF Forgives(s) THEN GrantGrace(a) ELSE a

----------------------------------------------------------------------------
(* The steps of a run.                                                     *)

At(r, p) == run[r].pc = p
Set(r, s) == run' = [run EXCEPT ![r] = s]
Go(s, p) == [s EXCEPT !.pc = p]
End(s, o) == [s EXCEPT !.pc = "done", !.outcome = o]

\* A result with an error text.  The adapter sends it for an explicit run and
\* drops it for a proactive one.
Fail(r, o) ==
  IF r \in Proactive THEN End(run[r], o)
  ELSE [run[r] EXCEPT !.pc = "final", !.text = "text", !.outcome = o]
May(f) == f \in trouble
Explicit(r) == r \notin Proactive
SameIteration(s) == [s EXCEPT !.pc = "top"]
NextIteration(s) == [s EXCEPT !.pc = "top", !.iter = @ + 1]
Call(s) == s.batch[s.at]

\* RunMessagesWithContext counts the turn before it builds the prompt.
Begin(r) ==
  /\ At(r, "idle")
  /\ Set(r, Go(run[r], "start"))
  /\ act' = IF setting.all THEN Applied ELSE CountTurn(Applied)
  /\ UNCHANGED <<setting, incoming, trouble>>

\* The start of the loop: a due sticker is demanded at once.
StartLoop(r) ==
  /\ At(r, "start")
  /\ Set(r, [run[r] EXCEPT !.pc = "top", !.enforcing = Explicit(r) /\ Due(Applied)])
  /\ act' = Applied
  /\ UNCHANGED <<setting, incoming, trouble>>

\* The top of the loop up to the model's call: the bound, the interruption,
\* the access check, the context limit and the reservation.
Think(r) ==
  LET s == run[r] IN
  /\ At(r, "top")
  /\ \/ /\ s.iter >= MaxIterations + s.extra
        /\ Set(r, Fail(r, "exhausted"))
     \/ /\ s.iter < MaxIterations + s.extra
        /\ s.interrupted
        /\ Set(r, End(s, "canceled"))
     \/ /\ s.iter < MaxIterations + s.extra
        /\ ~s.interrupted
        /\ \/ Set(r, Go(s, "calling"))
           \/ May("refuse") /\ Set(r, Fail(r, "failed"))
  /\ UNCHANGED <<act, setting, incoming, trouble>>

\* chatAndSettle returns without an answer: an interruption, or a failed call.
CallFails(r) ==
  /\ At(r, "calling")
  /\ \/ run[r].interrupted /\ Set(r, End(run[r], "canceled"))
     \/ May("refuse") /\ Set(r, Fail(r, "failed"))
  /\ UNCHANGED <<act, setting, incoming, trouble>>

\* The response is appended; enforcement ends when the quota was met meanwhile.
Relieved(s, a) ==
  IF s.enforcing /\ (Interval(a) = 0 \/ a.grace > 0 \/ Remaining(a) = Interval(a))
  THEN [s EXCEPT !.enforcing = FALSE, !.attempts = 0] ELSE s

\* The model answers with text.
ReceiveText(r) ==
  /\ At(r, "calling")
  /\ ~run[r].interrupted
  /\ \E t \in Text :
       Set(r, [Relieved(run[r], Applied) EXCEPT !.pc = "answer", !.text = t, !.pleased = FALSE])
  /\ act' = Applied
  /\ UNCHANGED <<setting, incoming, trouble>>

\* The model asks for a batch of tools.  A failed commit ends the run first.
ToolsOnCredit(paid) == TRUE
ToolsArePaidFor(paid) == paid
ReceiveBatch(r) ==
  /\ At(r, "calling")
  /\ ~run[r].interrupted
  /\ \E b \in Batch, paid \in IF May("commit") THEN BOOLEAN ELSE {TRUE} :
       IF ToolsArePaidFor(paid)
       THEN /\ Set(r, [Relieved(run[r], Applied) EXCEPT
                         !.pc = "batch", !.batch = b, !.at = 1, !.pair = FALSE,
                         !.started = {}, !.answered = {}, !.live = {}, !.failed = {}, !.executed = {},
                         !.passed = {}, !.paid = paid, !.pleased = FALSE, !.tools = TRUE])
            /\ act' = Applied
       ELSE /\ Set(r, Fail(r, "failed"))
            /\ act' = act
  /\ UNCHANGED <<setting, incoming, trouble>>

\* The final answer.  The output may be blocked and replaced; a proactive run
\* drops stickers and a text it has delivered already; an explicit run that
\* owes a sticker is sent back.
Shown(r, t) ==
  CASE r \in Proactive /\ t = "sticker" -> "empty"
    [] r \in Proactive /\ t = "echo" /\ run[r].specific -> "empty"
    [] OTHER -> t
Answer(r) ==
  LET s == run[r]
      t == Shown(r, s.text)
      held == Explicit(r) /\ (s.enforcing \/ (t \notin {"empty", "marker"} /\ Due(Applied)))
  IN
  /\ At(r, "answer")
  /\ \/ /\ s.interrupted
        /\ Set(r, End(s, "canceled"))
        /\ act' = act
     \/ /\ ~s.interrupted /\ May("block")
        /\ Set(r, Fail(r, "blocked"))
        /\ act' = act
     \/ /\ ~s.interrupted /\ t = "marker" /\ ~s.enforcing
        /\ Set(r, End(s, "silent"))
        /\ act' = act
     \/ /\ ~s.interrupted /\ held /\ t = "ignore"
        /\ Set(r, NextIteration([s EXCEPT !.enforcing = FALSE, !.attempts = 0, !.extra = AddIteration(s)]))
        /\ act' = GrantGrace(Applied)
     \/ /\ ~s.interrupted /\ held /\ t \notin {"sticker", "ignore"}
        /\ Set(r, NextIteration(Missed(s)))
        /\ act' = AfterMiss(Applied, s)
     \/ /\ ~s.interrupted /\ t # "marker" /\ (held => t = "sticker")
        /\ Set(r, [s EXCEPT !.pc = "final", !.text = t, !.outcome = "answered"])
        /\ act' = Applied
  /\ UNCHANGED <<setting, incoming, trouble>>

\* The whole batch is checked before any of its tools.
Count(b, k) == Cardinality({i \in DOMAIN b : b[i] = k})
Forbidden(r, b) ==
  /\ r \in Proactive
  /\ \/ \E i \in DOMAIN b : b[i] \in {"sticker", "other"}
     \/ Count(b, "send") > 1
     \/ run[r].specific /\ Count(b, "send") > 0
SilentConflict(b) == Len(b) > 1 /\ Count(b, "silent") > 0
GateOfFirstCall(r, b) == ~Forbidden(r, <<b[1]>>)
BatchGate(r, b) == ~Forbidden(r, b) /\ ~SilentConflict(b)

CheckBatch(r) ==
  LET s == run[r] IN
  /\ At(r, "batch")
  /\ \/ /\ BatchGate(r, s.batch)
        /\ Set(r, Go(s, "tools"))
        /\ act' = act
     \/ /\ Forbidden(r, s.batch)
        /\ Set(r, End(s, IF s.specific THEN "answered" ELSE "silent"))
        /\ act' = act
     \/ /\ ~Forbidden(r, s.batch) /\ SilentConflict(s.batch)
        /\ LET u == IF s.enforcing THEN Missed(s) ELSE s IN
             Set(r, [NextIteration(u) EXCEPT !.answered = DOMAIN s.batch])
        /\ act' = IF s.enforcing /\ Forgives(s) THEN GrantGrace(Applied) ELSE act
  /\ UNCHANGED <<setting, incoming, trouble>>

(* One tool call: inspect its arguments, start its executor, wait for it,  *)
(* inspect its result, deliver what it prepared.                           *)

\* Mutant: the second call of a pair is skipped without a message.
ReplyOnce(s) ==
  [s EXCEPT !.pc = "tools", !.answered = @ \cup {s.at}, !.at = @ + (IF s.pair THEN 2 ELSE 1),
            !.pair = FALSE]
\* A tool message for the call at hand, and for its partner in a pair.
Reply(s) ==
  LET calls == IF s.pair THEN {i \in DOMAIN s.batch : i \in {s.at, s.at + 1}} ELSE {s.at} IN
  [s EXCEPT !.pc = "tools", !.answered = @ \cup calls, !.at = @ + Cardinality(calls),
            !.pair = FALSE]

\* The result of a pair's second call stands for both.
ReplyBoth(s) ==
  IF s.pair /\ Call(s) = "sticker" THEN Reply([s EXCEPT !.at = @ - 1]) ELSE Reply(s)

\* The call is marked as started before its executor's goroutine exists.
MarksNothing(s) == s
MarksBeforeStart(s) == [s EXCEPT !.started = @ \cup {s.at}]
Launch(s) ==
  [MarksBeforeStart(s) EXCEPT !.pc = "exec", !.live = @ \cup {s.at}]

PairsWithSticker(r, s) ==
  /\ Explicit(r)
  /\ Call(s) = "send"
  /\ s.at < Len(s.batch)
  /\ s.batch[s.at + 1] = "sticker"

StartTool(r) ==
  LET s == run[r]
      paired == PairsWithSticker(r, s) /\ Due(Applied)
      p == [s EXCEPT !.pair = paired,
                     !.started = IF paired THEN @ \cup {s.at, s.at + 1} ELSE @]
  IN
  /\ At(r, "tools")
  /\ s.at <= Len(s.batch)
  /\ \/ /\ s.interrupted
        /\ Set(r, End(s, "canceled"))
        /\ act' = act
     \/ /\ ~s.interrupted
        /\ \/ Set(r, Launch(p))
           \/ May("block") /\ Set(r, Reply(p))
        /\ act' = IF PairsWithSticker(r, s) THEN Applied ELSE act
  /\ UNCHANGED <<setting, incoming, trouble>>

\* The executor runs in its own goroutine, also after the run stopped waiting
\* for it.  send_sticker fails while stickers are off.
Execute(r, i) ==
  /\ i \in run[r].live
  /\ \/ /\ run[r].batch[i] = "sticker" => setting.level > 0
        /\ Set(r, [run[r] EXCEPT !.live = @ \ {i}, !.executed = @ \cup {i}])
     \/ /\ May("tool") \/ (run[r].batch[i] = "sticker" /\ setting.level = 0)
        /\ Set(r, [run[r] EXCEPT !.live = @ \ {i}, !.failed = @ \cup {i}])
  /\ UNCHANGED <<act, setting, incoming, trouble>>

\* The run stops waiting for an executor, which may still write.
NoAbandonedWrite(s) == FALSE
AbandonedWrite(s) == Call(s) = "memory"
AbandonTool(r) ==
  LET s == run[r] IN
  /\ At(r, "exec")
  /\ s.interrupted
  /\ IF s.pair
     THEN Set(r, [s EXCEPT !.pc = "done", !.outcome = "canceled"])
     ELSE Set(r, [s EXCEPT !.pc = "done", !.outcome = "canceled",
                           !.memory = @ \/ AbandonedWrite(s)])
  /\ UNCHANGED <<act, setting, incoming, trouble>>

\* What a rejected result leads to: nothing is delivered.
StillDelivered(s) == IF Call(s) = "send" THEN Go(s, "deliver") ELSE ReplyBoth(s)
Quarantine(s) == ReplyBoth(s)

\* The executor's result comes back and is inspected.  send_message and
\* send_sticker have prepared a message; stay_silent ends the run unless a
\* sticker is owed; ban_user ends it.
ReturnTool(r) ==
  LET s == run[r]
      m == [s EXCEPT !.memory = @ \/ Call(s) = "memory"]
      ok == [m EXCEPT !.passed = @ \cup {s.at}]
  IN
  /\ At(r, "exec")
  /\ s.at \in s.executed
  /\ ~s.interrupted
  /\ \/ May("block") /\ Set(r, Quarantine(m))
     \/ /\ May("ban") /\ Call(s) = "other"
        /\ Set(r, End(s, "banned"))
     \/ /\ Call(s) = "silent" /\ ~s.enforcing
        /\ Set(r, End(m, "silent"))
     \/ /\ Call(s) \in {"silent", "memory", "other"}
        /\ Call(s) = "silent" => s.enforcing
        /\ Set(r, Reply(ok))
     \/ /\ Call(s) = "send" /\ s.pair
        /\ \/ Set(r, Launch([ok EXCEPT !.at = @ + 1]))
           \/ May("block") /\ Set(r, ReplyBoth([ok EXCEPT !.at = @ + 1]))
     \/ /\ Call(s) = "send" /\ ~s.pair
        /\ Set(r, Go(ok, "deliver"))
     \/ /\ Call(s) = "sticker"
        /\ \/ Set(r, Go(ok, "deliver"))
           \/ Set(r, ReplyBoth(ok))   \* a query: no message was prepared
  /\ UNCHANGED <<act, setting, incoming, trouble>>

\* The executor reports an error.
FailTool(r) ==
  /\ At(r, "exec")
  /\ run[r].at \in run[r].failed
  /\ ~run[r].interrupted
  /\ Set(r, ReplyBoth(run[r]))
  /\ UNCHANGED <<act, setting, incoming, trouble>>

\* deliverToolResult.  A lone text is turned back while a sticker is owed;
\* otherwise the send starts in its own goroutine.
Deliver(r) ==
  LET s == run[r]
      sent == IF s.pair THEN {s.at - 1, s.at} ELSE {s.at}
  IN
  /\ At(r, "deliver")
  /\ \/ /\ s.interrupted
        /\ Set(r, End(s, "canceled"))
     \/ /\ ~s.interrupted
        /\ Explicit(r) /\ Call(s) = "send" /\ Due(Applied)
        /\ Set(r, Reply(s))
     \/ /\ ~s.interrupted
        /\ ~(Explicit(r) /\ Call(s) = "send" /\ Due(Applied))
        /\ Set(r, [s EXCEPT !.pc = "sending", !.flight = sent])
  /\ act' = IF Explicit(r) /\ Call(s) = "send" /\ ~s.interrupted THEN Applied ELSE act
  /\ UNCHANGED <<setting, incoming, trouble>>

\* The platform confirms the message; the hook's callback counts it, whether
\* or not the run still waits.
HasSticker(s) == \E i \in s.flight : s.batch[i] = "sticker"
Confirmed(r, s) ==
  [s EXCEPT !.flight = {}, !.pleased = @ \/ HasSticker(s),
            !.said = IF r \in Proactive THEN @ + 1 ELSE @]
\* What the loop does with a confirmed send: remember a specific reply.
RecordsSpecific(r) == r \in Proactive
SendDone(r) ==
  LET s == run[r]
      c == [Confirmed(r, s) EXCEPT !.specific = @ \/ RecordsSpecific(r)]
  IN
  /\ At(r, "sending")
  /\ s.flight # {}
  /\ Set(r, IF s.interrupted THEN End(c, "canceled") ELSE ReplyBoth(c))
  /\ act' = RecordBotMessage(Applied, HasSticker(s))
  /\ UNCHANGED <<setting, incoming, trouble>>

\* The platform refuses the message, or the run is interrupted while it waits.
SendFails(r) ==
  LET s == run[r] IN
  /\ At(r, "sending")
  /\ \/ May("send") /\ ~s.interrupted /\ Set(r, ReplyBoth([s EXCEPT !.flight = {}]))
     \/ s.interrupted /\ Set(r, End(s, "canceled"))
  /\ UNCHANGED <<act, setting, incoming, trouble>>

\* A send the run no longer waits for is confirmed after all.
LateSend(r) ==
  /\ At(r, "done")
  /\ run[r].flight # {}
  /\ Set(r, Confirmed(r, run[r]))
  /\ act' = RecordBotMessage(Applied, HasSticker(run[r]))
  /\ UNCHANGED <<setting, incoming, trouble>>

\* The end of a batch: a sticker that is owed counts as missed, unless the
\* counter says that one was sent.
Owes(r) == Explicit(r) /\ (run[r].enforcing \/ Due(Applied))
QuotaMissed(a) == a.since = Interval(a)
QuotaMet(a) == Remaining(a) = Interval(a)
EndBatch(r) ==
  LET s == run[r]
      counts == Interval(Applied) > 0 /\ Applied.grace = 0
  IN
  /\ At(r, "tools")
  /\ s.at > Len(s.batch)
  /\ IF Owes(r) /\ counts
     THEN IF QuotaMet(Applied)
          THEN /\ Set(r, NextIteration([s EXCEPT !.enforcing = FALSE, !.attempts = 0]))
               /\ act' = Applied
          ELSE /\ Set(r, NextIteration(Missed(s)))
               /\ act' = AfterMiss(Applied, s)
     ELSE /\ Set(r, NextIteration(s))
          /\ act' = IF Explicit(r) THEN Applied ELSE act
  /\ UNCHANGED <<setting, incoming, trouble>>

\* The adapter sends the final text; only a confirmed one is counted.
FinalSend(r) ==
  LET s == run[r] IN
  /\ At(r, "final")
  /\ \/ /\ s.text = "empty" \/ s.interrupted \/ May("send")
        /\ Set(r, Go(s, "done"))
        /\ act' = act
     \/ /\ s.text # "empty" /\ ~s.interrupted
        /\ Set(r, [s EXCEPT !.pc = "done",
                            !.said = IF r \in Proactive /\ s.text = "echo" THEN @ + 1 ELSE @])
        /\ act' = RecordBotMessage(Applied, s.text = "sticker")
  /\ UNCHANGED <<setting, incoming, trouble>>

(* The environment.                                                        *)

Interrupt(r) ==
  /\ May("interrupt")
  /\ run[r].pc \notin {"idle", "done"}
  /\ ~run[r].interrupted
  /\ Set(r, [run[r] EXCEPT !.interrupted = TRUE])
  /\ UNCHANGED <<act, setting, incoming, trouble>>

\* RecordIncomingMessage.
IncomingMessage ==
  /\ setting.all
  /\ incoming < MaxIncoming
  /\ incoming' = incoming + 1
  /\ act' = CountTurn(Applied)
  /\ UNCHANGED <<run, setting, trouble>>

\* The operator changes STICKER_ACTIVITY or its mode.
SetActivity ==
  /\ incoming < MaxIncoming
  /\ incoming' = incoming + 1
  /\ setting' \in Setting \ {setting}
  /\ UNCHANGED <<run, act, trouble>>

Loop(r) ==
  \/ StartLoop(r) \/ Think(r) \/ CallFails(r) \/ ReceiveText(r)
  \/ ReceiveBatch(r) \/ Answer(r) \/ CheckBatch(r) \/ StartTool(r)
  \/ (\E i \in 1..Len(run[r].batch) : Execute(r, i))
  \/ AbandonTool(r) \/ ReturnTool(r) \/ FailTool(r) \/ Deliver(r) \/ SendDone(r) \/ SendFails(r)
  \/ EndBatch(r) \/ FinalSend(r)

Next ==
  \/ \E r \in Run : Begin(r) \/ Loop(r) \/ LateSend(r) \/ Interrupt(r)
  \/ IncomingMessage
  \/ SetActivity

Spec == Init /\ [][Next]_vars

\* Model, tools and platform answer: their calls carry timeouts.
Fairness == WF_vars(\E r \in Run : Loop(r))

----------------------------------------------------------------------------
(* Properties.                                                             *)

RunState ==
  [pc : {"idle", "start", "top", "calling", "answer", "batch", "tools", "exec",
         "deliver", "sending", "final", "done"},
   iter : Nat, extra : Nat, enforcing : BOOLEAN, attempts : 0..(AttemptLimit - 1),
   batch : Batch \cup {<<>>}, at : Nat, pair : BOOLEAN, text : Final,
   started : SUBSET Nat, answered : SUBSET Nat, memory : BOOLEAN, specific : BOOLEAN,
   interrupted : BOOLEAN, paid : BOOLEAN, live : SUBSET Nat, failed : SUBSET Nat,
   flight : SUBSET Nat, executed : SUBSET Nat, passed : SUBSET Nat, said : Nat,
   misses : Nat, tools : BOOLEAN, pleased : BOOLEAN,
   outcome : {"none", "canceled", "failed", "exhausted", "silent", "banned", "blocked", "answered"}]

\* The type invariant of the loop's state and of the quota.
TypeOK ==
  /\ \A r \in Run : run[r] \in RunState
  /\ act \in [setting : Setting, since : Nat, grace : 0..2]
  /\ act.since <= Interval(act)
  /\ setting \in Setting
  /\ trouble \in Troubles
  /\ incoming \in 0..MaxIncoming

\* "A later forbidden call must not leave an earlier partial send": when any
\* tool of a batch is started, the batch as a whole is one the run may execute
\* (CheckBatch; the proactive check and staySilentConflict).
BatchIsAllOrNothing ==
  \A r \in Run : run[r].started # {} =>
    /\ Len(run[r].batch) > 1 => \A i \in DOMAIN run[r].batch : run[r].batch[i] # "silent"
    /\ r \in Proactive => /\ \A i \in DOMAIN run[r].batch : run[r].batch[i] \notin {"sticker", "other"}
                          /\ Count(run[r].batch, "send") <= 1

\* completeInterruptedTranscript tells the successor that a call "was not
\* started" only if its executor never ran and never will, however late its
\* goroutine is scheduled.
TranscriptIsHonest ==
  \A r \in Run : run[r].executed \cup run[r].live \subseteq run[r].started

\* The model is called again only when every call of its last batch has its
\* tool message, also for refused calls, conflicts and sticker pairs.
EveryCallIsAnswered ==
  \A r \in Run : run[r].pc \in {"top", "calling"} => run[r].answered = DOMAIN run[r].batch

\* A memory the run wrote, or may still write in an abandoned executor, is
\* reported in MemoryWritten, so that extraction does not write it again.
MemoryIsReported ==
  \A r \in Run : \A i \in run[r].executed :
    run[r].batch[i] = "memory" /\ (i \in run[r].answered \/ run[r].pc = "done") => run[r].memory

\* No tool runs for a model call whose charge could not be committed.
UnpaidToolsDoNotRun == \A r \in Run : run[r].started # {} => run[r].paid

\* Whatever is handed to the platform has passed both inspections, also when
\* text and sticker are sent as one chain (deliverStickerPair).
OnlyInspectedIsSent == \A r \in Run : run[r].flight \subseteq run[r].passed

\* A proactive run says its specific reply at most once: not by a second
\* send_message, and not again in the final text.
SaysOnce == \A r \in Proactive : run[r].said <= 1

\* Tools run and messages leave only after the whole batch, its charge and
\* both inspections allow it, and a proactive reply leaves once
\* (runLoopWithResult).
OnlyAllowedEffects ==
  BatchIsAllOrNothing /\ UnpaidToolsDoNotRun /\ OnlyInspectedIsSent /\ SaysOnce

\* What the run tells the model, its successor and the memory extraction of
\* its tools is what they did (completeInterruptedTranscript, MemoryWritten).
ToolsAccounted == TranscriptIsHonest /\ EveryCallIsAnswered /\ MemoryIsReported

\* The demands for a sticker lengthen a run by at most four model calls.
IterationsAreBounded == \A r \in Run : run[r].iter <= MaxIterations + 4

\* No other run and no incoming message has used the quota they share.
Alone(r) == incoming = 0 /\ \A o \in Run \ {r} : run[o].pc = "idle"

\* A model that only answers with text is sent back for a missing sticker at
\* most three times, unless replies of other runs use up the grace it gets.
AtMostThreeAttempts == \A r \in Run : Alone(r) /\ ~run[r].tools => run[r].misses <= 3

\* A run that sent a sticker in its batch is not asked for one after it, unless
\* another run has begun, or a message was counted, between the delivery and
\* the check.
StickerSettlesTheDebt ==
  \A r \in Run : Alone(r) /\ run[r].pc = "top" /\ run[r].pleased => ~run[r].enforcing

\* The quota asks for stickers within its bounds (sticker_activity.go).
QuotaIsFair == IterationsAreBounded /\ AtMostThreeAttempts /\ StickerSettlesTheDebt

\* A run that has begun comes to an end, whatever the model answers.
EveryRunEnds == \A r \in Run : (run[r].pc = "start") ~> (run[r].pc = "done")
=============================================================================
