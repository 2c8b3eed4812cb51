--------------------------- MODULE SessionHistory ---------------------------
(***************************************************************************)
(* The history of one session: the inputs of its turns, what the assistant *)
(* said in public (internal/llm/public_replies.go), trimming, dropping and *)
(* resetting (session.go, sequence.go), and the compaction of a private    *)
(* chat that an administrator starts (internal/admincmd/executor.go).      *)
(*                                                                         *)
(* History and historySeq are one function from sequence number to         *)
(* message.  Numbers ascend along the slice, so their order is its order.  *)
(* A message is [kind, by, parts]: an input of a turn; a reply of a turn,  *)
(* which shows the texts in parts (1, 2, ... for sends of tools, 0 for the *)
(* model's own final text); a summary or its acknowledgement.              *)
(***************************************************************************)
EXTENDS Integers, FiniteSets, FiniteSetsExt, Functions, TLC

CONSTANTS Turn, Compaction,
          MaxSend,     \* bound on the sends of tools in a turn
          MaxReset,    \* bound on the resets
          Settings     \* [oneBot, billed, maxHistory] records, see settings

VARIABLES
  history,     \* History, by historySeq
  nextMsgSeq,
  epoch,
  settings,    \* the adapter is OneBot, otherwise AstrBot; answers carry a
               \* receipt; MAX_CONTEXT_MESSAGES
  compacting,  \* privateCompacting
  turn,        \* the turns with their PublicReplyLog
  comp         \* the private compactions

vars == <<history, nextMsgSeq, epoch, settings, compacting, turn, comp>>

TurnPC == {"none", "reserved", "running", "ended", "answering",
           "delivering", "exit", "finishing", "done"}

NewTurn == [pc |-> "none", epoch |-> 0, proactive |-> FALSE, cancelled |-> FALSE,
            input |-> 0,          \* inputID
            sends |-> 0,          \* sends of tools that were started
            pending |-> {},       \* sends the transport has not confirmed
            ids |-> {}, texts |-> {}, closed |-> FALSE,   \* PublicReplyLog
            fallback |-> {},      \* fallbackText
            sending |-> "none",   \* the final reply the transport has
            dropped |-> FALSE]    \* the input was to be dropped

NewCompaction == [pc |-> "none", epoch |-> 0, lastSeq |-> 0, covers |-> {}]

Init ==
  /\ history = <<>> /\ nextMsgSeq = 0 /\ epoch = 1 /\ compacting = FALSE
  /\ settings \in Settings
  /\ turn = [t \in Turn |-> NewTurn]
  /\ comp = [c \in Compaction |-> NewCompaction]

-----------------------------------------------------------------------------
Message(kind, by, parts) == [kind |-> kind, by |-> by, parts |-> parts]
Input(t) == Message("input", t, {})
Reply(t, parts) == Message("reply", t, parts)

\* Removing by exact number: every other message keeps its place and number.
Without(h, ids) == Restrict(h, DOMAIN h \ ids)

\* TrimHistory keeps the newest maxHistory messages.
TrimHistory(h) ==
  Restrict(h, {s \in DOMAIN h : Cardinality({u \in DOMAIN h : u >= s}) <= settings.maxHistory})

Current(t) == turn[t].epoch = epoch

KeepReplies(t, parts, interrupted) == (nextMsgSeq + 1 :> Reply(t, parts)) @@ history

SkipNumber(t, parts, interrupted) ==
  (nextMsgSeq + 2 :> Reply(t, parts)) @@ Without(history, turn[t].ids)

\* commitFinalLocked: the provisional replies go in the step in which the
\* final one comes, unless the attempt was interrupted.
ReplaceReplies(t, parts, interrupted) ==
  (nextMsgSeq + 1 :> Reply(t, parts))
  @@ (IF interrupted THEN history ELSE Without(history, turn[t].ids))

\* CommitFinal and TrimSession, in a step after which the turn is `after`.
CommitFinal(t, parts, interrupted, after) ==
  IF turn[t].fallback = parts
  THEN /\ history' = TrimHistory(history)
       /\ turn' = [turn EXCEPT ![t] = after]
       /\ UNCHANGED nextMsgSeq
  ELSE /\ history' = TrimHistory(ReplaceReplies(t, parts, interrupted))
       /\ turn' = [turn EXCEPT ![t] = [after EXCEPT !.ids = {}, !.closed = TRUE]]
       /\ nextMsgSeq' = nextMsgSeq + 1

-----------------------------------------------------------------------------
(* A turn: PrepareTurnMessages, the run with its tools, and the outcomes.  *)

ReserveTurn(t) ==
  /\ turn[t].pc = "none"
  /\ \E p \in BOOLEAN :
       turn' = [turn EXCEPT ![t].pc = "reserved", ![t].epoch = epoch, ![t].proactive = p]
  /\ UNCHANGED <<history, nextMsgSeq, epoch, settings, compacting, comp>>

\* A turn of an older epoch adds nothing, and its run ends at once.
PrepareTurnMessages(t) ==
  /\ turn[t].pc = "reserved"
  /\ IF Current(t)
     THEN /\ nextMsgSeq' = nextMsgSeq + 1
          /\ history' = (nextMsgSeq + 1 :> Input(t)) @@ history
          /\ turn' = [turn EXCEPT ![t].pc = "running", ![t].input = nextMsgSeq + 1]
     ELSE /\ turn' = [turn EXCEPT ![t].pc = "exit"]
          /\ UNCHANGED <<history, nextMsgSeq>>
  /\ UNCHANGED <<epoch, settings, compacting, comp>>

\* A newer input of the sender cancels the turn.
Interrupt(t) ==
  /\ turn[t].pc \notin {"none", "done"} /\ ~turn[t].cancelled
  /\ turn' = [turn EXCEPT ![t].cancelled = TRUE]
  /\ UNCHANGED <<history, nextMsgSeq, epoch, settings, compacting, comp>>

\* A tool sends a message; the transport confirms it later, perhaps after the
\* turn was interrupted and is over.
SendMessage(t) ==
  /\ turn[t].pc = "running" /\ turn[t].pending = {}
  /\ ~turn[t].cancelled /\ Current(t) /\ turn[t].sends < MaxSend
  /\ turn' = [turn EXCEPT ![t].sends = @ + 1, ![t].pending = {turn[t].sends + 1}]
  /\ UNCHANGED <<history, nextMsgSeq, epoch, settings, compacting, comp>>

SendFails(t) ==
  /\ turn[t].pending # {}
  /\ turn' = [turn EXCEPT ![t].pending = {}]
  /\ UNCHANGED <<history, nextMsgSeq, epoch, settings, compacting, comp>>

Record(t) ==
  /\ turn[t].pending # {}
  /\ IF Current(t)
     THEN /\ nextMsgSeq' = nextMsgSeq + 1
          /\ history' = (nextMsgSeq + 1 :> Reply(t, turn[t].pending)) @@ history
          /\ turn' = [turn EXCEPT ![t].pending = {},
                        ![t].ids = IF turn[t].closed THEN @ ELSE @ \cup {nextMsgSeq + 1},
                        ![t].texts = IF turn[t].closed THEN @ ELSE @ \cup turn[t].pending]
     ELSE turn' = [turn EXCEPT ![t].pending = {}] /\ UNCHANGED <<history, nextMsgSeq>>
  /\ UNCHANGED <<epoch, settings, compacting, comp>>

\* RunMessagesWithContext returned.  The checks that follow see a cancelled
\* turn or an old epoch; what happens after them may not.  Only a cancelled
\* run leaves a send behind.
EndRun(t) ==
  /\ turn[t].pc = "running"
  /\ turn[t].pending # {} => turn[t].cancelled
  /\ turn' = [turn EXCEPT ![t].pc = IF turn[t].cancelled \/ ~Current(t) THEN "exit" ELSE "ended"]
  /\ UNCHANGED <<history, nextMsgSeq, epoch, settings, compacting, comp>>

NewestMessage(t) == IF DOMAIN history = {} THEN {} ELSE {Max(DOMAIN history)}

InputMessage(t) == {turn[t].input}

\* DropMessage: the sender was banned, or nothing was billed before an error.
DropInput(t) ==
  /\ turn[t].pc = "ended"
  /\ history' = Without(history, InputMessage(t))
  /\ turn' = [turn EXCEPT ![t].pc = "exit", ![t].dropped = TRUE]
  /\ UNCHANGED <<nextMsgSeq, epoch, settings, compacting, comp>>

\* A silent turn, or an error that is not shown.
EndWithoutReply(t) ==
  /\ turn[t].pc = "ended"
  /\ history' = TrimHistory(history)
  /\ turn' = [turn EXCEPT ![t].pc = "exit"]
  /\ UNCHANGED <<nextMsgSeq, epoch, settings, compacting, comp>>

\* OneBot with an empty final text: what the tools sent becomes the answer.
\* The receipt, if any, is still to be sent.
EmptyReply(t) ==
  /\ settings.oneBot /\ turn[t].pc = "ended"
  /\ LET after == [turn[t] EXCEPT !.pc = IF settings.billed THEN "answering" ELSE "exit"]
     IN IF turn[t].texts # {} /\ Current(t)
        THEN CommitFinal(t, turn[t].texts, turn[t].cancelled, after)
        ELSE /\ history' = IF turn[t].texts # {} THEN history ELSE TrimHistory(history)
             /\ turn' = [turn EXCEPT ![t] = after]
             /\ UNCHANGED nextMsgSeq
  /\ UNCHANGED <<epoch, settings, compacting, comp>>

\* AwaitDelivery.  The final reply is a text; or the receipt alone; or, with
\* AstrBot, a noop.
StartDelivery(t) ==
  /\ \E kind \in {"text", "receipt", "noop"} :
       /\ turn[t].pc = "ended" => kind = "text" \/ ~settings.oneBot
       /\ turn[t].pc = "answering" => kind = "receipt"
       /\ kind = "receipt" => settings.billed
       /\ kind = "noop" => ~settings.billed
       /\ turn[t].pc \in {"ended", "answering"}
       /\ turn' = IF turn[t].cancelled \/ ~Current(t)
                  THEN [turn EXCEPT ![t].pc = "exit"]
                  ELSE [turn EXCEPT ![t].pc = "delivering", ![t].sending = kind]
  /\ UNCHANGED <<history, nextMsgSeq, epoch, settings, compacting, comp>>

\* awaitDelivery returns when the turn is cancelled; its operation goes on.
LeaveDelivery(t) ==
  /\ turn[t].pc = "delivering" /\ turn[t].cancelled
  /\ turn' = [turn EXCEPT ![t].pc = "exit"]
  /\ UNCHANGED <<history, nextMsgSeq, epoch, settings, compacting, comp>>

AfterDelivery(t) ==
  [turn[t] EXCEPT !.sending = "none", !.pc = IF @ = "delivering" THEN "exit" ELSE @]

\* historyReplyText; OneBot has none when the answer is the receipt alone.
FinalParts(t) ==
  IF turn[t].sending = "text" THEN {0} ELSE IF settings.oneBot THEN {} ELSE turn[t].texts

\* The transport confirmed: WithEpochCommit, which excludes a reset.
Delivered(t) ==
  /\ turn[t].sending # "none"
  /\ IF Current(t) /\ FinalParts(t) # {}
     THEN CommitFinal(t, FinalParts(t), turn[t].cancelled /\ turn[t].sending # "noop",
                      AfterDelivery(t))
     ELSE /\ history' = IF Current(t) THEN TrimHistory(history) ELSE history
          /\ turn' = [turn EXCEPT ![t] = AfterDelivery(t)]
          /\ UNCHANGED nextMsgSeq
  /\ UNCHANGED <<epoch, settings, compacting, comp>>

DeliveryFails(t) ==
  /\ turn[t].sending # "none"
  /\ history' = IF Current(t) /\ ~turn[t].cancelled THEN TrimHistory(history) ELSE history
  /\ turn' = [turn EXCEPT ![t] = AfterDelivery(t)]
  /\ UNCHANGED <<nextMsgSeq, epoch, settings, compacting, comp>>

\* The deferred calls of the handler: CommitDelivered for a proactive turn ...
CommitDelivered(t) ==
  /\ turn[t].pc = "exit"
  /\ IF turn[t].proactive /\ Current(t) /\ ~turn[t].closed /\ turn[t].texts # {}
     THEN /\ history' = ReplaceReplies(t, turn[t].texts, FALSE)
          /\ nextMsgSeq' = nextMsgSeq + 1
          /\ turn' = [turn EXCEPT ![t].pc = "finishing", ![t].ids = {}, ![t].closed = TRUE,
                                  ![t].fallback = turn[t].texts]
     ELSE turn' = [turn EXCEPT ![t].pc = "finishing"] /\ UNCHANGED <<history, nextMsgSeq>>
  /\ UNCHANGED <<epoch, settings, compacting, comp>>

FinishDropsAlways(t) == ~turn[t].closed

\* ... and Finish: an attempt that was not interrupted takes its provisional
\* replies back.
FinishDrops(t) == ~turn[t].closed /\ ~turn[t].cancelled

Finish(t) ==
  /\ turn[t].pc = "finishing"
  /\ history' = IF FinishDrops(t) THEN Without(history, turn[t].ids) ELSE history
  /\ turn' = [turn EXCEPT ![t].pc = "done", ![t].closed = TRUE]
  /\ UNCHANGED <<nextMsgSeq, epoch, settings, compacting, comp>>

-----------------------------------------------------------------------------
(* Compaction of a private chat, and the reset of the session.             *)

\* The messages that a message stands for.
Covered(m) ==
  IF m.kind = "summary" THEN comp[m.by].covers ELSE {m}

Remembered == UNION {Covered(history[s]) : s \in DOMAIN history}

SnapshotPrivateCompact(c) ==
  /\ comp[c].pc = "none" /\ ~compacting /\ DOMAIN history # {}
  /\ compacting' = TRUE
  /\ comp' = [comp EXCEPT ![c] = [pc |-> "running", epoch |-> epoch,
                                  lastSeq |-> Max(DOMAIN history), covers |-> Remembered]]
  /\ UNCHANGED <<history, nextMsgSeq, epoch, settings, turn>>

RemainingOfNone(c) == {}

RemainingFromLast(c) == {s \in DOMAIN history : s >= comp[c].lastSeq}

\* The messages newer than the snapshot stay, in their order, under new
\* numbers after those of the summary and its acknowledgement.
Remaining(c) == {s \in DOMAIN history : s > comp[c].lastSeq}

Compacted(c) ==
  LET rest == Remaining(c)
      Rank(s) == Cardinality({u \in rest : u <= s})
      Old(n) == CHOOSE s \in rest : Rank(s) = n - nextMsgSeq - 2
  IN [n \in (nextMsgSeq + 1)..(nextMsgSeq + 2 + Cardinality(rest)) |->
        IF n = nextMsgSeq + 1 THEN Message("summary", c, {})
        ELSE IF n = nextMsgSeq + 2 THEN Message("ack", c, {})
        ELSE history[Old(n)]]

CommitAlways(c) == TRUE

CommitAtEpoch(c) == comp[c].epoch = epoch

\* The flag is cleared on every path.
CommitPrivateCompact(c) ==
  /\ comp[c].pc = "running"
  /\ compacting' = FALSE
  /\ comp' = [comp EXCEPT ![c].pc = "done"]
  /\ IF CommitAtEpoch(c)
     THEN /\ history' = Compacted(c)
          /\ nextMsgSeq' = nextMsgSeq + 2 + Cardinality(Remaining(c))
     ELSE UNCHANGED <<history, nextMsgSeq>>
  /\ UNCHANGED <<epoch, settings, turn>>

\* The scope refused the goroutine, there is no provider, the call failed, or
\* the summary is empty.
CancelPrivateCompact(c) ==
  /\ comp[c].pc = "running"
  /\ compacting' = FALSE
  /\ comp' = [comp EXCEPT ![c].pc = "done"]
  /\ UNCHANGED <<history, nextMsgSeq, epoch, settings, turn>>

SeqFromZero == 0

\* nextMsgSeq goes on counting: numbers of the old history are never reused.
SeqAfterReset == nextMsgSeq

ResetSession ==
  /\ epoch <= MaxReset
  /\ epoch' = epoch + 1
  /\ history' = <<>> /\ nextMsgSeq' = SeqAfterReset /\ compacting' = FALSE
  /\ turn' = [t \in Turn |-> IF turn[t].pc \in {"none", "done"} THEN turn[t]
                             ELSE [turn[t] EXCEPT !.cancelled = TRUE]]
  /\ UNCHANGED <<settings, comp>>

-----------------------------------------------------------------------------
TurnStep(t) ==
  \/ ReserveTurn(t) \/ PrepareTurnMessages(t) \/ Interrupt(t)
  \/ SendMessage(t) \/ SendFails(t) \/ Record(t)
  \/ EndRun(t) \/ DropInput(t) \/ EndWithoutReply(t) \/ EmptyReply(t)
  \/ StartDelivery(t) \/ LeaveDelivery(t) \/ Delivered(t) \/ DeliveryFails(t)
  \/ CommitDelivered(t) \/ Finish(t)

Next ==
  \/ \E t \in Turn : TurnStep(t)
  \/ \E c \in Compaction : SnapshotPrivateCompact(c) \/ CommitPrivateCompact(c)
                             \/ CancelPrivateCompact(c)
  \/ ResetSession

Spec == Init /\ [][Next]_vars

-----------------------------------------------------------------------------
AnyMessage ==
  [kind : {"input", "reply"}, by : Turn, parts : SUBSET (0..MaxSend)]
  \cup [kind : {"summary", "ack"}, by : Compaction, parts : {{}}]

\* Types.  History and historySeq stay parallel and ascending, nextMsgSeq is
\* the highest number ever given (session.go, addMessageLocked).
TypeOK ==
  /\ nextMsgSeq \in Nat /\ epoch \in 1..(MaxReset + 1) /\ compacting \in BOOLEAN
  /\ settings \in Settings
  /\ IsFiniteSet(DOMAIN history) /\ DOMAIN history \subseteq 1..nextMsgSeq
  /\ \A s \in DOMAIN history : history[s] \in AnyMessage
  /\ turn \in [Turn -> [pc : TurnPC, epoch : 0..(MaxReset + 1), proactive : BOOLEAN,
                        cancelled : BOOLEAN, input : 0..nextMsgSeq, sends : 0..MaxSend,
                        pending : SUBSET (1..MaxSend), ids : SUBSET (1..nextMsgSeq),
                        texts : SUBSET (1..MaxSend), closed : BOOLEAN,
                        fallback : SUBSET (1..MaxSend),
                        sending : {"none", "text", "receipt", "noop"}, dropped : BOOLEAN]]
  /\ comp \in [Compaction -> [pc : {"none", "running", "done"}, epoch : 0..(MaxReset + 1),
                              lastSeq : 0..nextMsgSeq, covers : SUBSET AnyMessage]]

NoCompaction == \A c \in Compaction : comp[c].pc = "none"

TextsOnce(h) ==
  \A s, u \in DOMAIN h :
    h[s].by = h[u].by /\ h[s].parts \cap h[u].parts # {} => s = u

\* "concurrent readers never observe both the provisional and final copies of
\* a tool-only answer" (public_replies.go, CommitFinal): no text of a turn is
\* in the history twice.
PublicCopiesReplaced == TextsOnce(history)

\* The same for the cases the code covers: no compaction has given the
\* provisional replies other numbers, and a OneBot turn was not interrupted
\* between the handler's last check and the commit.
OnePublicCopy ==
  NoCompaction
    => TextsOnce(Restrict(history, {s \in DOMAIN history :
                   settings.oneBot => ~turn[history[s].by].cancelled}))

\* A number that a turn holds, as the input to drop or as provisional replies
\* to replace, names that turn's own message or nothing ("removes only the
\* caller's input, never another sender's tail", sequence.go, DropMessage).
HandlesAreExact ==
  \A s \in DOMAIN history, t \in Turn :
    /\ s = turn[t].input => history[s] = Input(t)
    /\ s \in turn[t].ids => history[s].kind = "reply" /\ history[s].by = t

\* A reset is a boundary for history: nothing a turn or a compaction of an
\* older epoch does afterwards puts anything back ("without reviving reset
\* history", session.go, AddMessageAtEpoch).
HistoryIsCurrent ==
  \A m \in Remembered : m.kind \in {"input", "reply"} => Current(m.by)

\* An input whose sender was banned, or that cost nothing before it failed,
\* does not stay in the history (ws_server.go, the calls of DropMessage),
\* unless a compaction gave it another number or summarised it.
DroppedInputIsGone ==
  NoCompaction =>
    \A t \in Turn : turn[t].dropped => \A s \in DOMAIN history : history[s] # Input(t)

NothingTrimmed == nextMsgSeq <= settings.maxHistory

\* What a proactive or interrupted turn said in public is remembered: by its
\* provisional replies, by the fallback that replaced them, or by the final
\* answer (public_replies.go, CommitDelivered and Finish).
DeliveredIsRemembered ==
  NothingTrimmed =>
    \A t \in Turn :
      turn[t].pc = "done" /\ Current(t) /\ (turn[t].proactive \/ turn[t].cancelled)
        => LET said == UNION {m.parts : m \in {x \in Remembered : x.kind = "reply" /\ x.by = t}}
           IN turn[t].texts \subseteq said \/ 0 \in said

\* "replacing the summarized messages while preserving messages that arrived
\* during the compaction LLM call" (session.go, CommitPrivateCompact).  No
\* input or final answer is both in the history and in a summary of it, or in
\* two.  After a reset two compactions may overlap: each clears the flag of both.
SummarisedOnce ==
  epoch = 1 =>
    \A s, u \in DOMAIN history :
      (\E m \in Covered(history[s]) \cap Covered(history[u]) : m.parts \subseteq {0}) => s = u

\* The other half: no input is lost.  An input of the current epoch that was
\* not dropped is in the history or in a summary of it.
InputsAreRemembered ==
  NothingTrimmed =>
    \A t \in Turn :
      turn[t].input # 0 /\ Current(t) /\ ~turn[t].dropped => Input(t) \in Remembered

\* Replies and inputs are found under their numbers, and only there, by the
\* turn that replaces or drops them, and nothing of an older epoch comes back
\* (PublicReplyLog, DropMessage, AddMessageAtEpoch).
NumbersHold == OnePublicCopy /\ HandlesAreExact /\ DroppedInputIsGone /\ HistoryIsCurrent

\* Nothing that was heard or said is forgotten or told twice (CommitFinal,
\* Finish, CommitPrivateCompact).
NothingForgotten == DeliveredIsRemembered /\ InputsAreRemembered /\ SummarisedOnce
=============================================================================
