------------------------- MODULE ExecutionSequence -------------------------
(***************************************************************************)
(* Turns of one chat session.  Every wake-up message reserves a turn in    *)
(* the lane of its sender (llm/sequence.go); turns of a lane run one after *)
(* the other, an explicit new input interrupts the earlier ones, and an    *)
(* interrupted turn hands its inputs and its billing ledger to its         *)
(* successor.  The module follows a turn from the adapter's read loop      *)
(* (adapter/onebot/adapter.go) through processEvent and reply              *)
(* (adapter/onebot/ws_server.go), the agent loop (llm/agent.go) and the    *)
(* settlement of its model calls (llm/inflight.go) to SessionTurn.Done.    *)
(*                                                                         *)
(* A turn is a number, in order of reservation.  It also stands for the    *)
(* input it carries and for the history id PrepareTurnMessages gives that  *)
(* input, and for the BillingRunState it brings along.  A lane object is   *)
(* the pair of its key and the session epoch that created it: ResetSession *)
(* drops the map of lanes and increments the epoch in one critical         *)
(* section.                                                                *)
(***************************************************************************)
EXTENDS Integers, Sequences, FiniteSets

CONSTANTS
    Key,            \* lane keys ("sender:<id>", "proactive")
    ProactiveKey,   \* the keys whose lanes are proactive
    MaxTurn,        \* bound on the turns reserved
    MaxCall,        \* bound on the model calls of one turn
    MaxEpoch,       \* bound on the session epoch
    Mock,           \* the connection is a mock (direct chat) one
    Toggles,        \* replies may be switched off while turns are queued
    MayStop         \* the instance may be stopped while turns are queued

ASSUME ConstantsAssumption ==
    /\ Key # {}
    /\ ProactiveKey \subseteq Key
    /\ MaxTurn \in Nat \ {0}
    /\ MaxCall \in Nat
    /\ MaxEpoch \in Nat \ {0}
    /\ Mock \in BOOLEAN
    /\ Toggles \in BOOLEAN
    /\ MayStop \in BOOLEAN

Turn == 1 .. MaxTurn
NoTurn == 0
Epoch == 1 .. MaxEpoch
LaneObject == Key \X Epoch
Call == Turn \X (1 .. MaxCall)

VARIABLES
    epoch,      \* SessionContext.epoch
    history,    \* the inputs in SessionContext.History (as a set: ids are unique)
    lane,       \* the executionSequence objects
    last,       \* the number of turns reserved so far
    pc,         \* where each turn is
    laneOf,     \* the lane object of a turn
    wait,       \* the turn whose done channel a turn waits for
    cancelled,  \* the turns whose context is cancelled
    refused,    \* the turns whose goroutine was never started
    prompt,     \* what PrepareTurnMessages put before the model
    ledger,     \* the BillingRunState a turn charges to
    call,       \* the state of every model call
    reported,   \* the turns that set billingReported
    receipt,    \* the calls covered by the receipt a turn is about to send
    sent,       \* the calls covered by the receipt a turn has sent
    lost,       \* the calls of receipts whose transport write failed
    ignored,    \* the turns that left because replies were switched off
    handed,     \* the turns that left their state to a successor
    stopped,    \* runtimescope.Scope.Cancel was called
    closed      \* the connection is closed

laneVars == <<lane, laneOf, wait, refused, handed>>
billVars == <<ledger, call, reported, receipt, sent, lost, ignored>>
vars == <<epoch, history, lane, last, pc, laneOf, wait, cancelled, refused,
          prompt, ledger, call, reported, receipt, sent, lost, ignored,
          handed, stopped, closed>>

(* The places of a turn between Wait and Done. *)
Running == {"admitted", "thinking", "calling", "settling", "answering",
            "sending", "acking", "exit", "tailing", "closing"}

PC == {"free", "spawned", "waiting", "refused", "leaked", "done"} \cup Running

Prompt == [shared : SUBSET Turn, chain : Seq(Turn)]

NoPrompt == [shared |-> {}, chain |-> <<>>]

(* lane.tail is the last element of queue; the chain of previous pointers   *)
(* from tail is queue read backwards.  A nil tail is an empty queue.        *)
Lane == [queue : Seq(Turn), active : Turn \cup {NoTurn},
         transcript : Seq(Turn), messageIDs : SUBSET Turn,
         billing : Turn \cup {NoTurn}]

EmptyLane == [queue |-> <<>>, active |-> NoTurn, transcript |-> <<>>,
              messageIDs |-> {}, billing |-> NoTurn]

Elements(s) == {s[i] : i \in 1 .. Len(s)}

Tail0(l) == IF lane[l].queue = <<>> THEN NoTurn
            ELSE lane[l].queue[Len(lane[l].queue)]

(* The turn whose done channel a new turn t of lane l waits for. *)
WaitsForItself(l, t) == t
WaitsForActive(l, t) == lane[l].active
Predecessor(l, t) == Tail0(l)

(* The turns an interrupt or a reset of lane l cancels. *)
ChainWithNil(l) == Elements(lane[l].queue) \cup {lane[l].active}
ChainActiveOnly(l) == {lane[l].active} \ {NoTurn}
Chain(l) == Elements(lane[l].queue) \cup ({lane[l].active} \ {NoTurn})

Init ==
    /\ epoch = 1
    /\ history = {}
    /\ lane = [l \in LaneObject |-> EmptyLane]
    /\ last = 0
    /\ pc = [t \in Turn |-> "free"]
    /\ laneOf = [t \in Turn |-> <<CHOOSE k \in Key : TRUE, 1>>]
    /\ wait = [t \in Turn |-> NoTurn]
    /\ cancelled = {}
    /\ refused = {}
    /\ prompt = [t \in Turn |-> NoPrompt]
    /\ ledger = [t \in Turn |-> NoTurn]
    /\ call = [c \in Call |-> "none"]
    /\ reported = {}
    /\ receipt = [t \in Turn |-> {}]
    /\ sent = [t \in Turn |-> {}]
    /\ lost = {}
    /\ ignored = {}
    /\ handed = {}
    /\ stopped = FALSE
    /\ closed = FALSE

Goto(t, p) == pc' = [pc EXCEPT ![t] = p]

Valid(t) == laneOf[t][2] = epoch

(* The calls charged to ledger b, and the ones still in flight on it. *)
OnLedger(b) == {c \in Call : ledger[c[1]] = b}
Pending(b) == {c \in OnLedger(b) : call[c] = "inflight"}
Billed(b) == {c \in OnLedger(b) : call[c] = "committed"}

(* The read loop reserves a turn and starts its goroutine.  With interrupt  *)
(* set the active turn and every queued one is cancelled.  Once the scope   *)
(* is stopped engine.Go refuses the goroutine.                              *)
ReserveSequenceTurn(k, interrupt) ==
    LET t == last + 1
        l == <<k, epoch>>
    IN  /\ last < MaxTurn
        /\ ~closed
        /\ last' = t
        /\ laneOf' = [laneOf EXCEPT ![t] = l]
        /\ wait' = [wait EXCEPT ![t] = Predecessor(l, t)]
        /\ cancelled' = IF interrupt THEN cancelled \cup Chain(l) ELSE cancelled
        /\ lane' = [lane EXCEPT ![l].queue = Append(@, t)]
        /\ Goto(t, IF stopped THEN "refused" ELSE "spawned")
        /\ refused' = IF stopped THEN refused \cup {t} ELSE refused
        /\ UNCHANGED <<epoch, history, prompt, handed, billVars, stopped, closed>>

(* processEvent begins: a mock connection that is closed by now returns at  *)
(* once, before the deferred Done is registered.                            *)
StartEvent(t) ==
    /\ pc[t] = "spawned"
    /\ Goto(t, IF Mock /\ closed THEN "leaked" ELSE "waiting")
    /\ UNCHANGED <<epoch, history, last, cancelled, prompt, laneVars, billVars,
                   stopped, closed>>

(* turn.Wait returns.  A turn of an older epoch, and one of a closed mock   *)
(* connection, goes straight to Done.                                       *)
Wait(t) ==
    /\ pc[t] = "waiting"
    /\ wait[t] # NoTurn => pc[wait[t]] = "done"
    /\ Goto(t, IF Valid(t) /\ ~(Mock /\ closed) THEN "admitted" ELSE "closing")
    /\ UNCHANGED <<epoch, history, last, cancelled, prompt, laneVars, billVars,
                   stopped, closed>>

(* The settings read after Wait no longer allow a reply. *)
IgnoreEvent(t) ==
    /\ Toggles
    /\ pc[t] = "admitted"
    /\ Goto(t, "closing")
    /\ ignored' = ignored \cup {t}
    /\ UNCHANGED <<epoch, history, last, cancelled, prompt, laneVars, ledger,
                   call, reported, receipt, sent, lost, stopped, closed>>

(* reply returns before PrepareTurnMessages: the input is refused (length,  *)
(* balance for its images), or the epoch has moved on.                      *)
RejectInput(t) ==
    /\ pc[t] = "admitted"
    /\ Goto(t, "exit")
    /\ UNCHANGED <<epoch, history, last, cancelled, prompt, laneVars, billVars,
                   stopped, closed>>

(* The lane's transcript with the turn's own input behind it; a proactive   *)
(* lane carries nothing over.                                               *)
TranscriptOfInputOnly(t, l) == <<t>>
CarriedTranscript(t, l) ==
    IF l[1] \in ProactiveKey THEN <<t>> ELSE Append(lane[l].transcript, t)

(* The prompt: the history that is not already in this lane's transcript,   *)
(* then the transcript with the turn's own input.                           *)
PromptWithAllHistory(t, l) ==
    [shared |-> history, chain |-> CarriedTranscript(t, l)]
PromptOf(t, l) ==
    [shared |-> history \ lane[l].messageIDs, chain |-> CarriedTranscript(t, l)]

LedgerFor(t, l) == IF lane[l].billing = NoTurn THEN t ELSE lane[l].billing

PreparedLane(t, l) ==
    [queue      |-> lane[l].queue,
     active     |-> t,
     transcript |-> CarriedTranscript(t, l),
     messageIDs |-> lane[l].messageIDs \cup {t},
     billing    |-> LedgerFor(t, l)]

PrepareTurnMessages(t) ==
    LET l == laneOf[t] IN
    /\ pc[t] = "admitted"
    /\ Goto(t, "thinking")
    /\ IF Valid(t)
       THEN /\ history' = history \cup {t}
            /\ prompt' = [prompt EXCEPT ![t] = PromptOf(t, l)]
            /\ lane' = [lane EXCEPT ![l] = PreparedLane(t, l)]
            /\ ledger' = [ledger EXCEPT ![t] = LedgerFor(t, l)]
       ELSE /\ ledger' = [ledger EXCEPT ![t] = t]
            /\ UNCHANGED <<history, prompt, lane>>
    /\ UNCHANGED <<epoch, last, laneOf, wait, cancelled, refused, handed, call,
                   reported, receipt, sent, lost, ignored, stopped, closed>>

RunCanceled(t) == t \in cancelled \/ stopped

(* One iteration of runLoopWithResult reserves a charge and starts the      *)
(* provider call; the worker of chatAndSettle owns it from there.           *)
StartCall(t) ==
    /\ pc[t] = "thinking"
    /\ ~RunCanceled(t)
    /\ Valid(t)
    /\ \E n \in 1 .. MaxCall :
         /\ call[<<t, n>>] = "none"
         /\ \A m \in 1 .. (n - 1) : call[<<t, m>>] # "none"
         /\ call' = [call EXCEPT ![<<t, n>>] = "inflight"]
    /\ Goto(t, "calling")
    /\ UNCHANGED <<epoch, history, last, cancelled, prompt, laneVars, ledger,
                   reported, receipt, sent, lost, ignored, stopped, closed>>

(* The worker settles: a successful answer is committed (also when nobody   *)
(* waits for it any more), a failed or never started call is released.      *)
Settle(c) ==
    /\ call[c] = "inflight"
    /\ \E outcome \in {"committed", "released"} :
         call' = [call EXCEPT ![c] = outcome]
    /\ UNCHANGED <<epoch, history, last, pc, cancelled, prompt, laneVars,
                   ledger, reported, receipt, sent, lost, ignored,
                   stopped, closed>>

(* chatAndSettle returns to the loop: with the answer, or because the turn  *)
(* was cancelled, which abandons the call and ends the loop.                *)
ReturnCall(t) ==
    /\ pc[t] = "calling"
    /\ \/ /\ \A n \in 1 .. MaxCall : call[<<t, n>>] # "inflight"
          /\ Goto(t, "thinking")
       \/ /\ RunCanceled(t)
          /\ Goto(t, "settling")
    /\ UNCHANGED <<epoch, history, last, cancelled, prompt, laneVars, billVars,
                   stopped, closed>>

(* The loop ends: a final answer, an error, cancellation or an old epoch. *)
EndLoop(t) ==
    /\ pc[t] = "thinking"
    /\ Goto(t, "settling")
    /\ UNCHANGED <<epoch, history, last, cancelled, prompt, laneVars, billVars,
                   stopped, closed>>

(* The deferred waitBilling: until no call of the ledger is in flight, or   *)
(* the run is cancelled.                                                    *)
WaitBilling(t) ==
    /\ pc[t] = "settling"
    /\ Pending(ledger[t]) = {} \/ RunCanceled(t)
    /\ Goto(t, "answering")
    /\ UNCHANGED <<epoch, history, last, cancelled, prompt, laneVars, billVars,
                   stopped, closed>>

(* reply after the run.  An interrupted turn, or one of an older epoch,     *)
(* returns; a refused input is dropped from the history; a silent or        *)
(* blocked result (always the case once the scope is stopped) sends         *)
(* nothing; otherwise the answer and the receipt of the whole ledger go out *)
(* together.                                                                *)
NoAnswer(t) ==
    /\ Goto(t, "exit")
    /\ UNCHANGED <<history, reported, receipt>>

DropAnswer(t) ==
    /\ t \notin cancelled
    /\ Valid(t)
    /\ history' = history \ {t}
    /\ Goto(t, "exit")
    /\ UNCHANGED <<reported, receipt>>

SendAnswer(t) ==
    /\ t \notin cancelled
    /\ Valid(t)
    /\ ~stopped
    /\ receipt' = [receipt EXCEPT ![t] = Billed(ledger[t])]
    /\ reported' = reported \cup {t}
    /\ Goto(t, "sending")
    /\ UNCHANGED history

Answer(t) ==
    /\ pc[t] = "answering"
    /\ NoAnswer(t) \/ DropAnswer(t) \/ SendAnswer(t)
    /\ UNCHANGED <<epoch, last, cancelled, prompt, laneVars, ledger, call, sent,
                   lost, ignored, stopped, closed>>

(* writeTurnMessage: WithAuthority refuses the write of a cancelled turn;   *)
(* an admitted write reaches the platform or fails.                         *)
Transmit(t, next) ==
    /\ \/ /\ t \notin cancelled
          /\ ~closed
          /\ sent' = [sent EXCEPT ![t] = receipt[t]]
          /\ Goto(t, next)
          /\ UNCHANGED lost
       \/ /\ t \notin cancelled
          /\ lost' = lost \cup receipt[t]
          /\ Goto(t, next)
          /\ UNCHANGED sent
       \/ /\ t \in cancelled
          /\ Goto(t, next)
          /\ UNCHANGED <<sent, lost>>
    /\ UNCHANGED <<epoch, history, last, cancelled, prompt, laneVars, ledger,
                   call, reported, receipt, ignored, stopped, closed>>

SendReply(t) == pc[t] = "sending" /\ Transmit(t, "acking")

(* AwaitDelivery returns: the ACK, its timeout, or cancellation. *)
AwaitDelivery(t) ==
    /\ pc[t] = "acking"
    /\ Goto(t, "exit")
    /\ UNCHANGED <<epoch, history, last, cancelled, prompt, laneVars, billVars,
                   stopped, closed>>

(* The deferred UnreportedReceipt of reply: unless a receipt went out or    *)
(* the turn is cancelled, the lane's ledger is reported, once no call on it *)
(* is in flight.                                                            *)
Unreported(t) ==
    /\ t \notin reported
    /\ t \notin cancelled
    /\ ~stopped
    /\ lane[laneOf[t]].billing # NoTurn

UnreportedReceipt(t) ==
    LET b == lane[laneOf[t]].billing IN
    /\ pc[t] = "exit"
    /\ \/ /\ ~Unreported(t)
          /\ Goto(t, "closing")
          /\ UNCHANGED receipt
       \/ /\ Unreported(t)
          /\ Pending(b) = {}
          /\ receipt' = [receipt EXCEPT ![t] = Billed(b)]
          /\ Goto(t, IF Billed(b) = {} THEN "closing" ELSE "tailing")
    /\ UNCHANGED <<epoch, history, last, cancelled, prompt, laneVars, ledger,
                   call, reported, sent, lost, ignored, stopped, closed>>

SendReceipt(t) == pc[t] = "tailing" /\ Transmit(t, "closing")

(* SessionTurn.Done with finishSequence: the task state is cleared unless   *)
(* the turn was interrupted and has a successor; everything up to the turn  *)
(* leaves the chain; the done channel is closed.                            *)
After(q, t) ==
    LET i == CHOOSE j \in 1 .. Len(q) : q[j] = t
    IN  IF t \in Elements(q) THEN SubSeq(q, i + 1, Len(q)) ELSE q

Hands(t) == t \in cancelled /\ Tail0(laneOf[t]) # t

KeepsLedgerForQueued(t, x) ==
    [x EXCEPT !.queue = After(@, t),
              !.active = IF @ = t THEN NoTurn ELSE @,
              !.billing = IF Tail0(laneOf[t]) = t THEN NoTurn ELSE @]
ClearsLedgerAlways(t, x) ==
    [EmptyLane EXCEPT !.queue = After(x.queue, t)]
FinishedLane(t, x) ==
    [queue      |-> After(x.queue, t),
     active     |-> IF x.active = t THEN NoTurn ELSE x.active,
     transcript |-> IF Hands(t) THEN x.transcript ELSE <<>>,
     messageIDs |-> IF Hands(t) THEN x.messageIDs ELSE {},
     billing    |-> IF Hands(t) THEN x.billing ELSE NoTurn]

Done(t) ==
    /\ pc[t] \in {"closing", "refused"}
    /\ lane' = [lane EXCEPT ![laneOf[t]] = FinishedLane(t, @)]
    /\ handed' = IF Hands(t) THEN handed \cup {t} ELSE handed
    /\ cancelled' = cancelled \cup {t}
    /\ Goto(t, "done")
    /\ UNCHANGED <<epoch, history, last, laneOf, wait, refused, prompt,
                   billVars, stopped, closed>>

(* SessionContext.ResetSession: cancel every turn, forget the lanes and the *)
(* history, start a new epoch.                                              *)
ResetSession ==
    /\ epoch < MaxEpoch
    /\ epoch' = epoch + 1
    /\ cancelled' = cancelled \cup
                      {t \in Turn : \E k \in Key : t \in Chain(<<k, epoch>>)}
    /\ history' = {}
    /\ UNCHANGED <<last, pc, prompt, laneVars, billVars, stopped, closed>>

(* runtimescope.Scope.Cancel, by the instance manager or by                 *)
(* PauseOnStorageError; it is never undone for this engine.                 *)
Stop ==
    /\ MayStop
    /\ ~stopped
    /\ stopped' = TRUE
    /\ UNCHANGED <<epoch, history, last, pc, cancelled, prompt, laneVars,
                   billVars, closed>>

CloseConnection ==
    /\ Mock
    /\ ~closed
    /\ closed' = TRUE
    /\ UNCHANGED <<epoch, history, last, pc, cancelled, prompt, laneVars,
                   billVars, stopped>>

TurnStep(t) ==
    \/ StartEvent(t) \/ Wait(t) \/ IgnoreEvent(t) \/ RejectInput(t)
    \/ PrepareTurnMessages(t) \/ StartCall(t) \/ ReturnCall(t) \/ EndLoop(t)
    \/ WaitBilling(t) \/ Answer(t) \/ SendReply(t) \/ AwaitDelivery(t)
    \/ UnreportedReceipt(t) \/ SendReceipt(t) \/ Done(t)

Next ==
    \/ \E k \in Key, interrupt \in BOOLEAN : ReserveSequenceTurn(k, interrupt)
    \/ \E t \in Turn : TurnStep(t)
    \/ \E c \in Call : Settle(c)
    \/ ResetSession
    \/ Stop
    \/ CloseConnection

Spec == Init /\ [][Next]_vars

(* Goroutines are scheduled and provider calls end (the HTTP client has a   *)
(* timeout); nothing forces a message, a reset or a stop to happen.         *)
Fairness ==
    /\ \A t \in Turn : WF_vars(TurnStep(t))
    /\ \A c \in Call : WF_vars(Settle(c))

FairSpec == Spec /\ Fairness
-----------------------------------------------------------------------------
(* Every variable of the sequence model has its type.                       *)
TypeOK ==
    /\ epoch \in Epoch
    /\ history \subseteq Turn
    /\ lane \in [LaneObject -> Lane]
    /\ last \in 0 .. MaxTurn
    /\ pc \in [Turn -> PC]
    /\ laneOf \in [Turn -> LaneObject]
    /\ wait \in [Turn -> Turn \cup {NoTurn}]
    /\ cancelled \subseteq Turn
    /\ refused \subseteq Turn
    /\ prompt \in [Turn -> Prompt]
    /\ ledger \in [Turn -> Turn \cup {NoTurn}]
    /\ call \in [Call -> {"none", "inflight", "committed", "released"}]
    /\ reported \subseteq Turn
    /\ receipt \in [Turn -> SUBSET Call]
    /\ sent \in [Turn -> SUBSET Call]
    /\ lost \subseteq Call
    /\ ignored \subseteq Turn
    /\ handed \subseteq Turn
    /\ stopped \in BOOLEAN
    /\ closed \in BOOLEAN

SameLane(t, u) == laneOf[t] = laneOf[u]

(* t inherits from u: both are in one lane and every turn of the lane from  *)
(* u to the one before t was interrupted and handed its state on.           *)
Inherits(t, u) ==
    /\ u < t
    /\ SameLane(t, u)
    /\ \A v \in u .. (t - 1) : SameLane(v, t) => v \in handed

(* Turns of a lane run in arrival order and one at a time: whoever is past  *)
(* Wait finds every earlier turn of its lane done (SessionTurn.Wait and     *)
(* Done, also when refused goroutines call Done without Wait).              *)
LaneFIFO ==
    \A t, u \in Turn :
        pc[t] \in Running /\ u < t /\ SameLane(t, u) => pc[u] = "done"

(* No input reaches the model twice in one request, once from the shared    *)
(* history and once from the carried transcript (lane.messageIDs).          *)
PromptOnce ==
    \A t \in Turn :
        LET chain == prompt[t].chain IN
        /\ prompt[t].shared \cap Elements(chain) = {}
        /\ \A i, j \in 1 .. Len(chain) : chain[i] = chain[j] => i = j

(* The inputs of interrupted turns are neither lost nor reordered on the    *)
(* way to the model call of the turn that answers for them; a proactive     *)
(* lane replaces them instead (PrepareTurnMessages, finishSequence).        *)
InputsHandedOver ==
    \A t, u \in Turn :
        /\ \E c \in Call : c[1] = t /\ call[c] # "none"
        /\ prompt[u] # NoPrompt
        /\ Inherits(t, u)
        => LET chain == prompt[t].chain IN
           IF laneOf[t][1] \in ProactiveKey
           THEN u \notin prompt[t].shared \cup Elements(chain)
           ELSE \E i, j \in 1 .. Len(chain) :
                   i < j /\ chain[i] = u /\ chain[j] = t

(* A billing ledger passes only along an unbroken chain of interrupted      *)
(* turns of one lane: an ordinary queued wake-up starts with its own        *)
(* (finishSequence).                                                        *)
LedgerInherited ==
    \A t \in Turn :
        ledger[t] \notin {NoTurn, t} => Inherits(t, ledger[t])

(* What an interrupted turn leaves, its input, its transcript and its       *)
(* ledger, passes to its heir, once and in order (PrepareTurnMessages,      *)
(* finishSequence).                                                         *)
HandedOverOnce == PromptOnce /\ InputsHandedOver /\ LedgerInherited

(* A charge whose lane has come to rest was in a receipt that was sent, or  *)
(* whose transport write failed.  A reset of the session, a stop of the     *)
(* instance or the end of a mock connection gives the receipts up.          *)
Reported(c) ==
    /\ call[c] = "committed"
    /\ laneOf[c[1]][2] = epoch
    /\ ~stopped
    /\ ~closed
    /\ lane[laneOf[c[1]]].queue = <<>>
    => c \in lost \/ \E t \in Turn : c \in sent[t]

(* No charge is lost (UnreportedReceipt): an inherited ledger is reported   *)
(* by whichever heir finishes, even when its own input was rejected, unless *)
(* replies were switched off under the heir.                                *)
ChargeReported ==
    \A c \in Call :
        (\A t \in ignored : ~Inherits(t, c[1])) => Reported(c)

(* The same without the exception: the terminal owner of a lane never       *)
(* discards an inherited ledger on an early exit (UnreportedReceipt).       *)
EveryChargeReported == \A c \in Call : Reported(c)

(* A charge is reported a second time only by the heir of a turn that was   *)
(* interrupted between sending its receipt and Done.                        *)
RepeatOnlyByHeir ==
    \A t, u \in Turn :
        u < t /\ sent[t] \cap sent[u] # {} => Inherits(t, u)

(* The receipts of a lane account for its charges (UnreportedReceipt and    *)
(* finishSequence).                                                         *)
ChargesAccounted == ChargeReported /\ RepeatOnlyByHeir

(* What an interrupted turn leaves reaches its heir once, and the receipts  *)
(* of the lane account for what it was charged.                             *)
InheritedOnce == HandedOverOnce /\ ChargesAccounted

(* A turn of an earlier epoch sends nothing after ResetSession, as long as  *)
(* the instance is not stopping (cancelSequencesLocked reaches every turn   *)
(* that has not finished).                                                  *)
NoStaleSend ==
    [][\A t \in Turn :
         ~stopped /\ sent'[t] # sent[t] => laneOf[t][2] = epoch]_vars

(* A turn that waits for its predecessor eventually runs and calls Done, so *)
(* that the connection's inFlight.Wait and Scope.Wait are never blocked for *)
(* good (processEvent), unless a closed mock connection took an earlier     *)
(* turn of the lane away before its deferred Done was registered.           *)
EveryWaiterDone ==
    \A t \in Turn :
        pc[t] = "waiting" ~>
            \/ pc[t] = "done"
            \/ \E u \in Turn : u < t /\ SameLane(t, u) /\ pc[u] = "leaked"
=============================================================================
