----------------------- MODULE ExecutionReceiptProofs -----------------------
(***************************************************************************)
(* What an interrupted turn leaves to its heir, for any number of turns,   *)
(* lanes, calls and epochs: InheritedOnce.  While an epoch is in force the *)
(* lane holds the ledger of every charge that no receipt covers yet, and a *)
(* turn that finishes without handing it on has settled it.                *)
(***************************************************************************)
EXTENDS ExecutionLedgerProofs

(* While an epoch is in force, the lane holds the ledger of every charge    *)
(* that is owed, and of the turn that runs.                                 *)
LaneHoldsLedger ==
    /\ ~stopped => \A l \in LaneObject : lane[l].billing # NoTurn => lane[l].queue # <<>>
    /\ ~stopped => \A t \in Turn :
         pc[t] \in Running /\ Valid(t) /\ ledger[t] # NoTurn =>
             lane[laneOf[t]].billing = ledger[t]
    /\ ~stopped /\ ~closed => \A c \in Call :
         /\ Owed(c)
         /\ Valid(c[1])
         /\ \A t \in ignored : ~Inherits(t, c[1])
         => ledger[c[1]] = lane[laneOf[c[1]]].billing

(* What a turn that is not cancelled has settled, by the place it is at.    *)
Settled(t) ==
    LET b == lane[laneOf[t]].billing IN
    /\ pc[t] = "answering" => Pending(ledger[t]) = {}
    /\ pc[t] = "sending" => /\ ledger[t] # NoTurn
                            /\ Pending(ledger[t]) = {}
                            /\ receipt[t] = Billed(ledger[t])
    /\ pc[t] \in {"acking", "exit"} /\ t \in reported =>
         ledger[t] # NoTurn /\ NothingOwed(ledger[t])
    /\ pc[t] = "tailing" => b # NoTurn /\ Pending(b) = {} /\ receipt[t] = Billed(b)
    /\ pc[t] = "closing" /\ ~closed => t \in ignored \/ b = NoTurn \/ NothingOwed(b)

(* The same for every turn.                                                 *)
SettledInOrder ==
    ~stopped => \A t \in Turn : Valid(t) /\ t \notin cancelled => Settled(t)

(* What makes the billing half of InheritedOnce inductive.                  *)
LedgerInv == LedgersPass /\ SentOnce /\ LaneHoldsLedger /\ SettledInOrder

-----------------------------------------------------------------------------
(* The ledgers a turn may report are of its own lane.                       *)
LEMMA OwnLedgers ==
    ASSUME CancelInv, LedgersPass, NEW t \in Turn
    PROVE  /\ ledger[t] # NoTurn => ledger[t] \in Turn /\ laneOf[ledger[t]] = laneOf[t]
           /\ LET b == lane[laneOf[t]].billing
              IN  b # NoTurn => b \in Turn /\ laneOf[b] = laneOf[t]
<1>1. laneOf[t] \in LaneObject
  BY DEF CancelInv, TypeOK
<1>2. lane[laneOf[t]].billing \in Turn \cup {NoTurn}
  BY <1>1 DEF CancelInv, TypeOK, Lane
<1> QED
  BY <1>1, <1>2 DEF LedgersPass, Heir, Inherits, SameLane

(* Nobody else disturbs what a turn has settled.                            *)
LEMMA SettledStays ==
    ASSUME CancelInv, NoTrace, LedgersPass, SentOnce, [Next]_vars, ~stopped, NEW t \in Turn,
           Settled(t), pc'[t] = pc[t], receipt'[t] = receipt[t], t \in reported' <=> t \in reported,
           ~PrepareTurnMessages(t), ~StartCall(t), ~Done(t)
    PROVE  Settled(t)'
<1>1. CASE pc[t] \notin {"answering", "sending", "acking", "exit", "tailing", "closing"}
  BY <1>1 DEF Settled
<1>2. CASE pc[t] \in {"answering", "sending", "acking", "exit", "tailing", "closing"}
  <2>1. pc[t] \in Running /\ Passed(t)
    BY <1>2 DEF Running, Passed, CancelInv, LaneInv, Numbered
  <2>2. laneOf'[t] = laneOf[t] /\ ledger'[t] = ledger[t]
    BY <2>1, PassedStays, PassedKeeps
  <2>3. lane'[laneOf[t]].billing = lane[laneOf[t]].billing
    BY <2>1, BillingKept
  <2>4. closed => closed'
    BY EndsAreFinal DEF CancelInv
  <2>5. ignored \subseteq ignored'
    BY BillingMoves DEF BillingMove
  <2>6. PICK b : b = ledger[t]
    OBVIOUS
  <2>7. PICK d : d = lane[laneOf[t]].billing
    OBVIOUS
  <2>8. b # NoTurn => /\ Pending(b) = {} => Pending(b)' = {} /\ Billed(b)' = Billed(b)
                      /\ NothingOwed(b) => NothingOwed(b)'
    BY <2>1, <2>6, OwnLedgers, SettledKept
  <2>9. d # NoTurn => /\ Pending(d) = {} => Pending(d)' = {} /\ Billed(d)' = Billed(d)
                      /\ NothingOwed(d) => NothingOwed(d)'
    BY <2>1, <2>7, OwnLedgers, SettledKept
  <2>10. pc[t] = "answering" => b # NoTurn
    BY <2>6 DEF LedgersPass
  <2>11. CASE pc[t] = "answering"
    <3>1. Pending(b)' = {}
      BY <2>6, <2>8, <2>10, <2>11 DEF Settled
    <3> QED
      BY <2>2, <2>6, <2>11, <3>1 DEF Settled, Pending, OnLedger
  <2>12. CASE pc[t] = "sending"
    <3>1. b # NoTurn /\ Pending(b)' = {} /\ receipt'[t] = Billed(b)'
      BY <2>6, <2>8, <2>12 DEF Settled
    <3> QED
      BY <2>2, <2>6, <2>12, <3>1 DEF Settled, Pending, Billed, OnLedger
  <2>13. CASE pc[t] \in {"acking", "exit"}
    <3>1. t \in reported => b # NoTurn /\ NothingOwed(b)'
      BY <2>6, <2>8, <2>13 DEF Settled
    <3> QED
      BY <2>2, <2>6, <2>13, <3>1 DEF Settled, NothingOwed, OnLedger, Owed
  <2>14. CASE pc[t] = "tailing"
    <3>1. d # NoTurn /\ Pending(d)' = {} /\ receipt'[t] = Billed(d)'
      BY <2>7, <2>9, <2>14 DEF Settled
    <3> QED
      BY <2>2, <2>3, <2>7, <2>14, <3>1 DEF Settled, Pending, Billed, OnLedger
  <2>15. CASE pc[t] = "closing"
    <3>1. ~closed' => t \in ignored' \/ d = NoTurn \/ NothingOwed(d)'
      BY <2>4, <2>5, <2>7, <2>9, <2>15 DEF Settled
    <3> QED
      BY <2>2, <2>3, <2>7, <2>15, <3>1 DEF Settled, NothingOwed, OnLedger, Owed
  <2> QED
    BY <1>2, <2>11, <2>12, <2>13, <2>14, <2>15
<1> QED
  BY <1>1, <1>2

(* A receipt that was sent, or whose write failed, settles its ledger.      *)
LEMMA TransmitSettles ==
    ASSUME CancelInv, SentOnce, NEW t \in Turn, NEW next, Transmit(t, next),
           pc[t] \in {"sending", "tailing"}, t \notin cancelled,
           NEW b, Pending(b) = {}, receipt[t] = Billed(b)
    PROVE  NothingOwed(b)'
<1>1. UNCHANGED <<call, ledger>>
  BY DEF Transmit
<1>2. (sent' = [sent EXCEPT ![t] = receipt[t]] /\ lost' = lost) \/ (lost' = lost \cup receipt[t] /\ sent' = sent)
  BY DEF Transmit
<1>3. \A c \in receipt[t] : c \in lost' \/ c \in sent'[t]
  BY <1>2 DEF CancelInv, TypeOK
<1> SUFFICES ASSUME NEW c \in Call, ledger[c[1]] = b, Owed(c)'
             PROVE  FALSE
  BY <1>1 DEF NothingOwed, OnLedger
<1>4. call[c] = "committed"
  BY <1>1 DEF Owed, Pending, OnLedger
<1>5. c \in receipt[t]
  BY <1>4 DEF Billed, OnLedger
<1> QED
  BY <1>3, <1>5 DEF Owed

(* What a turn's own steps settle.                                          *)
LEMMA SettlesOwn ==
    ASSUME CancelInv, NoTrace, LedgersPass, LaneHoldsLedger, SentOnce, [Next]_vars, ~stopped,
           NEW t \in Turn, Valid(t), t \notin cancelled, Settled(t), QuietStep(t)
    PROVE  Settled(t)'
<1> DEFINE b == lane[laneOf[t]].billing
<1>1. UNCHANGED <<lane, laneOf, ledger>>
  BY QuietStepIsQuiet DEF CancelInv, Quiet
<1>2. CASE StartEvent(t) \/ StartCall(t) \/ ReturnCall(t) \/ EndLoop(t)
  <2>1. pc'[t] \in {"leaked", "waiting", "calling", "thinking", "settling"}
    BY <1>2 DEF StartEvent, StartCall, ReturnCall, EndLoop, Goto, CancelInv, TypeOK
  <2> QED
    BY <2>1 DEF Settled
<1>3. CASE Wait(t)
  <2>1. pc'[t] = "admitted" \/ (pc'[t] = "closing" /\ closed')
    BY <1>3 DEF Wait, Goto, CancelInv, TypeOK
  <2> QED
    BY <2>1 DEF Settled
<1>4. CASE IgnoreEvent(t)
  <2>1. pc'[t] = "closing" /\ t \in ignored'
    BY <1>4 DEF IgnoreEvent, Goto, CancelInv, TypeOK
  <2> QED
    BY <2>1 DEF Settled
<1>5. CASE RejectInput(t)
  <2>1. pc'[t] = "exit" /\ t \notin reported'
    BY <1>5 DEF RejectInput, Goto, CancelInv, TypeOK, NoTrace, Passed, Running, billVars
  <2> QED
    BY <2>1 DEF Settled
<1>6. CASE WaitBilling(t)
  <2>1. pc'[t] = "answering" /\ Pending(ledger[t]) = {} /\ UNCHANGED <<call, ledger>>
    BY <1>6 DEF WaitBilling, RunCanceled, Goto, CancelInv, TypeOK, billVars
  <2> QED
    BY <2>1 DEF Settled, Pending, OnLedger
<1>7. CASE Answer(t)
  <2>1. CASE NoAnswer(t) \/ DropAnswer(t)
    <3>1. pc'[t] = "exit" /\ t \notin reported'
      BY <1>7, <2>1 DEF Answer, NoAnswer, DropAnswer, Goto, CancelInv, TypeOK, SentOnce
    <3> QED
      BY <3>1 DEF Settled
  <2>2. CASE SendAnswer(t)
    <3>1. pc[t] = "answering" /\ pc'[t] = "sending" /\ receipt'[t] = Billed(ledger[t]) /\ UNCHANGED <<call, ledger>>
      BY <1>7, <2>2 DEF Answer, SendAnswer, Goto, CancelInv, TypeOK
    <3>2. ledger[t] # NoTurn /\ Pending(ledger[t]) = {}
      BY <3>1, Zenon DEF LedgersPass, Settled
    <3> QED
      BY <3>1, <3>2 DEF Settled, Pending, Billed, OnLedger
  <2> QED
    BY <1>7, <2>1, <2>2 DEF Answer
<1>8. CASE SendReply(t)
  <2>1. pc[t] = "sending" /\ Transmit(t, "acking") /\ pc'[t] = "acking"
    BY <1>8 DEF SendReply, Transmit, Goto, CancelInv, TypeOK
  <2>2. PICK d : d = ledger[t]
    OBVIOUS
  <2>3. d # NoTurn /\ Pending(d) = {} /\ receipt[t] = Billed(d)
    BY <2>1, <2>2 DEF Settled
  <2>4. NothingOwed(d)'
    BY <2>1, <2>3, TransmitSettles
  <2> QED
    BY <1>1, <2>1, <2>2, <2>3, <2>4, Zenon DEF Settled, NothingOwed, OnLedger, Owed
<1>9. CASE AwaitDelivery(t)
  <2>1. pc[t] = "acking" /\ pc'[t] = "exit" /\ UNCHANGED <<call, ledger, lost, sent, reported>>
    BY <1>9 DEF AwaitDelivery, Goto, CancelInv, TypeOK, billVars
  <2>2. t \in reported => ledger[t] # NoTurn /\ NothingOwed(ledger[t])
    BY <2>1 DEF Settled
  <2> QED
    BY <2>1, <2>2 DEF Settled, NothingOwed, OnLedger, Owed
<1>10. CASE UnreportedReceipt(t)
  <2>1. pc[t] = "exit" /\ UNCHANGED <<call, ledger, lost, sent, reported>>
    BY <1>10 DEF UnreportedReceipt
  <2>2. CASE ~Unreported(t)
    <3>1. pc'[t] = "closing"
      BY <1>10, <2>2 DEF UnreportedReceipt, Goto, CancelInv, TypeOK
    <3>2. b = NoTurn \/ t \in reported
      BY <2>2 DEF Unreported
    <3>3. t \in reported => b = ledger[t] /\ NothingOwed(ledger[t])
      BY <2>1 DEF Settled, LaneHoldsLedger, Running
    <3> QED
      BY <1>1, <2>1, <3>1, <3>2, <3>3 DEF Settled, NothingOwed, OnLedger, Owed
  <2>3. CASE Unreported(t)
    <3>1. /\ b # NoTurn /\ Pending(b) = {} /\ receipt'[t] = Billed(b)
          /\ pc'[t] = IF Billed(b) = {} THEN "closing" ELSE "tailing"
      BY <1>10, <2>3 DEF UnreportedReceipt, Unreported, Goto, CancelInv, TypeOK
    <3>2. CASE Billed(b) = {}
      <4>1. NothingOwed(b)
        BY <3>1, <3>2 DEF NothingOwed, Owed, Pending, Billed
      <4> QED
        BY <1>1, <2>1, <3>1, <3>2, <4>1, Zenon DEF Settled, NothingOwed, OnLedger, Owed
    <3>3. CASE Billed(b) # {}
      BY <1>1, <2>1, <3>1, <3>3 DEF Settled, Pending, Billed, OnLedger
    <3> QED
      BY <3>2, <3>3
  <2> QED
    BY <2>2, <2>3
<1>11. CASE SendReceipt(t)
  <2>1. pc[t] = "tailing" /\ Transmit(t, "closing") /\ pc'[t] = "closing"
    BY <1>11 DEF SendReceipt, Transmit, Goto, CancelInv, TypeOK
  <2>2. PICK d : d = b
    OBVIOUS
  <2>3. Pending(d) = {} /\ receipt[t] = Billed(d)
    BY <2>1, <2>2 DEF Settled
  <2>4. NothingOwed(d)'
    BY <2>1, <2>3, TransmitSettles
  <2> QED
    BY <1>1, <2>1, <2>2, <2>4 DEF Settled, NothingOwed, OnLedger, Owed
<1> QED
  BY <1>2, <1>3, <1>4, <1>5, <1>6, <1>7, <1>8, <1>9, <1>10, <1>11 DEF QuietStep

(* What a turn that is not cancelled has settled.                           *)
LEMMA SettledInOrderStep ==
    CancelInv /\ NoTrace /\ LedgersPass /\ LaneHoldsLedger /\ SentOnce /\ SettledInOrder /\ [Next]_vars
      => SettledInOrder'
<1> SUFFICES ASSUME CancelInv, NoTrace, LedgersPass, LaneHoldsLedger, SentOnce, SettledInOrder,
                    [Next]_vars, ~stopped', NEW t \in Turn, Valid(t)', t \notin cancelled'
             PROVE  Settled(t)'
  BY DEF SettledInOrder
<1>1. ~stopped /\ t \notin cancelled
  <2>1. ASSUME NEW k \in Key, NEW interrupt \in BOOLEAN, ReserveSequenceTurn(k, interrupt)
        PROVE  ~stopped /\ t \notin cancelled
    BY <2>1 DEF ReserveSequenceTurn
  <2>2. ASSUME NEW u \in Turn, PrepareTurnMessages(u) \/ Done(u)
        PROVE  ~stopped /\ t \notin cancelled
    BY <2>2 DEF PrepareTurnMessages, Done
  <2>3. CASE ResetSession \/ Quiet
    BY <2>3 DEF ResetSession, Quiet
  <2> QED
    BY <2>1, <2>2, <2>3, StepCases DEF CancelInv
<1>2. CASE pc[t] = "free"
  <2>1. pc'[t] \in {"free", "spawned", "refused"}
    <3>1. ASSUME NEW u \in Turn, TurnStep(u)
          PROVE  pc'[t] = pc[t]
      <4>1. u # t
        BY <1>2, <3>1, Zenon DEF TurnStep, StartEvent, Wait, IgnoreEvent, RejectInput, PrepareTurnMessages,
           StartCall, ReturnCall, EndLoop, WaitBilling, Answer, SendReply, AwaitDelivery,
           UnreportedReceipt, SendReceipt, Done
      <4>2. CASE QuietStep(u)
        BY <4>1, <4>2, OthersStay
      <4>3. CASE PrepareTurnMessages(u)
        BY <4>1, <4>3, PrepareEffect DEF CancelInv
      <4>4. CASE Done(u)
        BY <4>1, <4>4, DoneEffect DEF CancelInv
      <4> QED
        BY <3>1, <4>2, <4>3, <4>4 DEF TurnStep, QuietStep
    <3>2. ASSUME NEW k \in Key, NEW interrupt \in BOOLEAN, ReserveSequenceTurn(k, interrupt)
          PROVE  pc'[t] \in {"free", "spawned", "refused"}
      BY <1>2, <3>2, ReserveEffect, Zenon DEF CancelInv
    <3>3. ASSUME (\E c \in Call : Settle(c)) \/ ResetSession \/ Stop \/ CloseConnection \/ UNCHANGED vars
          PROVE  pc' = pc
      BY <3>3 DEF Settle, ResetSession, Stop, CloseConnection, vars
    <3> QED
      BY <1>2, <3>1, <3>2, <3>3 DEF Next
  <2> QED
    BY <2>1 DEF Settled
<1>3. CASE pc[t] # "free"
  <2>1. Valid(t)
    BY <1>3, ValidBefore
  <2>2. Settled(t)
    BY <1>1, <2>1 DEF SettledInOrder
  <2>3. CASE QuietStep(t)
    BY <1>1, <2>1, <2>2, <2>3, SettlesOwn
  <2>4. CASE PrepareTurnMessages(t)
    <3>1. pc'[t] = "thinking"
      BY <2>4, PrepareEffect DEF CancelInv
    <3> QED
      BY <3>1 DEF Settled
  <2>5. ~Done(t)
    BY DEF Done
  <2>6. CASE ~QuietStep(t) /\ ~PrepareTurnMessages(t)
    <3> DEFINE Same == pc'[t] = pc[t] /\ receipt'[t] = receipt[t] /\ (t \in reported' <=> t \in reported)
    <3>1. ~StartCall(t)
      BY <2>6 DEF QuietStep
    <3>2. ASSUME NEW u \in Turn, TurnStep(u)
          PROVE  Same
      <4>1. u # t
        BY <2>5, <2>6, <3>2 DEF TurnStep, QuietStep
      <4>2. CASE QuietStep(u)
        BY <4>1, <4>2, OthersStay
      <4>3. CASE PrepareTurnMessages(u)
        BY <4>1, <4>3, PrepareEffect DEF CancelInv
      <4>4. CASE Done(u)
        BY <4>1, <4>4, DoneEffect, Zenon DEF CancelInv, billVars
      <4> QED
        BY <3>2, <4>2, <4>3, <4>4, Zenon DEF TurnStep, QuietStep
    <3>3. ASSUME NEW k \in Key, NEW interrupt \in BOOLEAN, ReserveSequenceTurn(k, interrupt)
          PROVE  Same
      BY <1>3, <3>3, ReserveEffect, Zenon DEF CancelInv, billVars
    <3>4. ASSUME (\E c \in Call : Settle(c)) \/ ResetSession \/ Stop \/ CloseConnection \/ UNCHANGED vars
          PROVE  Same
      BY <3>4, Zenon DEF Settle, ResetSession, Stop, CloseConnection, vars, billVars
    <3>5. Same
      BY <3>2, <3>3, <3>4, Zenon DEF Next
    <3> QED
      BY <1>1, <2>2, <2>5, <2>6, <3>1, <3>5, SettledStays
  <2> QED
    BY <2>3, <2>4, <2>6
<1> QED
  BY <1>2, <1>3

-----------------------------------------------------------------------------
(* A lane that holds a ledger has a turn to report it.                      *)
LEMMA LedgerHasHeir ==
    ASSUME CancelInv, LaneHoldsLedger, [Next]_vars, ~stopped, NEW l \in LaneObject,
           lane'[l].billing # NoTurn
    PROVE  lane'[l].queue # <<>>
<1>0. lane[l] \in Lane /\ lane[l].queue \in Seq(Turn)
  BY DEF CancelInv, TypeOK, Lane
<1>1. lane[l].billing # NoTurn => lane[l].queue # <<>>
  BY DEF LaneHoldsLedger
<1>2. ASSUME NEW k \in Key, NEW interrupt \in BOOLEAN, ReserveSequenceTurn(k, interrupt)
      PROVE  lane'[l].queue # <<>>
  <2>1. CASE l = <<k, epoch>>
    <3>1. lane'[l].queue = Append(lane[l].queue, last + 1)
      BY <1>2, <2>1, ReserveEffect DEF CancelInv
    <3> QED
      BY <1>0, <3>1
  <2>2. CASE l # <<k, epoch>>
    BY <1>1, <1>2, <2>2, ReserveEffect, Zenon DEF CancelInv
  <2> QED
    BY <2>1, <2>2
<1>3. ASSUME NEW t \in Turn, PrepareTurnMessages(t)
      PROVE  lane'[l].queue # <<>>
  <2>1. CASE l = laneOf[t]
    <3>1. pc[t] = "admitted" /\ (lane'[l] = lane[l] \/ lane'[l] = PreparedLane(t, l))
      BY <1>3, <2>1, PrepareEffect DEF CancelInv
    <3>2. PreparedLane(t, l).queue = lane[l].queue
      BY DEF PreparedLane
    <3>3. t <= last
      BY <3>1 DEF CancelInv, LaneInv, Numbered, TypeOK, Turn
    <3>4. \E i \in 1 .. Len(lane[l].queue) : lane[l].queue[i] = t
      BY <2>1, <3>1, <3>3 DEF CancelInv, LaneInv, Queued
    <3> QED
      BY <1>0, <3>1, <3>2, <3>4
  <2>2. CASE l # laneOf[t]
    BY <1>1, <1>3, <2>2, PrepareEffect DEF CancelInv
  <2> QED
    BY <2>1, <2>2
<1>4. ASSUME NEW t \in Turn, Done(t)
      PROVE  lane'[l].queue # <<>>
  <2>1. CASE l = laneOf[t]
    <3> DEFINE q == lane[l].queue
    <3>1. lane'[l] = FinishedLane(t, lane[l]) /\ pc[t] # "done" /\ pc[t] # "free"
      BY <1>4, <2>1, DoneEffect DEF CancelInv
    <3>2. lane'[l].queue = After(q, t) /\ Hands(t)
      BY <3>1 DEF FinishedLane
    <3>3. t <= last
      BY <3>1 DEF CancelInv, LaneInv, Numbered, TypeOK, Turn
    <3>4. PICK i \in 1 .. Len(q) : q[i] = t
      BY <2>1, <3>1, <3>3 DEF CancelInv, LaneInv, Queued
    <3>5. \A x \in 1 .. Len(q) : \A j \in 1 .. (x - 1) : q[j] < q[x]
      BY DEF CancelInv, LaneInv, QueueSorted
    <3>6. q # <<>> /\ q[Len(q)] # t
      BY <1>0, <2>1, <3>2, <3>4 DEF Hands, Tail0
    <3>7. i < Len(q)
      BY <1>0, <3>4, <3>6
    <3>8. Len(q) \in 1 .. Len(q) /\ i \in 1 .. (Len(q) - 1)
      BY <1>0, <3>7
    <3>9. t < q[Len(q)] /\ q[Len(q)] \in Elements(q)
      BY <3>4, <3>5, <3>8 DEF Elements
    <3> QED
      BY <1>0, <3>2, <3>5, <3>9, TailStays
  <2>2. CASE l # laneOf[t]
    BY <1>1, <1>4, <2>2, DoneEffect DEF CancelInv
  <2> QED
    BY <2>1, <2>2
<1>5. CASE ResetSession \/ Quiet
  BY <1>1, <1>5 DEF ResetSession, Quiet, laneVars
<1> QED
  BY <1>2, <1>3, <1>4, <1>5, StepCases DEF CancelInv

(* The turn that runs charges to the ledger its lane holds.                 *)
LEMMA RunnerHoldsLedger ==
    ASSUME CancelInv, NoTrace, LaneHoldsLedger, [Next]_vars, ~stopped, NEW t \in Turn,
           pc'[t] \in Running, Valid(t)', ledger'[t] # NoTurn
    PROVE  lane'[laneOf'[t]].billing = ledger'[t]
<1>1. CASE PrepareTurnMessages(t)
  <2>1. Valid(t) /\ laneOf' = laneOf
    BY <1>1, PrepareEffect DEF CancelInv, Valid
  <2>2. lane'[laneOf[t]] = PreparedLane(t, laneOf[t]) /\ ledger'[t] = LedgerFor(t, laneOf[t])
    BY <1>1, <2>1, PrepareEffect DEF CancelInv
  <2> QED
    BY <2>1, <2>2 DEF PreparedLane
<1>2. CASE ~PrepareTurnMessages(t)
  <2>1. ledger'[t] = ledger[t]
    BY <1>2, BillingMoves DEF BillingMove
  <2>2. Passed(t)
    BY <2>1 DEF NoTrace
  <2>3. pc[t] # "done"
    BY <2>2, StepCases, DoneEffect, PrepareEffect, ReserveEffect, Zenon
       DEF CancelInv, Quiet, ResetSession, Running
  <2>4. pc[t] \in Running /\ ~Done(t)
    BY <2>2, <2>3, DoneEffect DEF Passed, CancelInv, Running
  <2>5. Valid(t) /\ laneOf'[t] = laneOf[t]
    BY <2>2, PassedStays, PassedKeeps
  <2>6. lane[laneOf[t]].billing = ledger[t]
    BY <2>1, <2>4, <2>5 DEF LaneHoldsLedger
  <2>7. lane'[laneOf[t]].billing = lane[laneOf[t]].billing
    BY <1>2, <2>4, BillingKept
  <2> QED
    BY <2>1, <2>5, <2>6, <2>7
<1> QED
  BY <1>1, <1>2

(* What is owed stays on the ledger the lane holds.                         *)
LEMMA OwedIsHeld ==
    ASSUME CancelInv, NoTrace, LedgersPass, LaneHoldsLedger, SentOnce, SettledInOrder,
           [Next]_vars, ~stopped, ~closed, NEW c \in Call, Owed(c)', Valid(c[1])',
           \A t \in ignored' : ~Inherits(t, c[1])'
    PROVE  ledger'[c[1]] = lane'[laneOf'[c[1]]].billing
<1> DEFINE u == c[1]
<1>0. u \in Turn
  BY DEF Call
<1>1. CASE StartCall(u)
  <2>1. pc[u] = "thinking" /\ Valid(u) /\ UNCHANGED <<lane, laneOf, ledger>>
    BY <1>1 DEF StartCall, laneVars
  <2>2. ledger[u] # NoTurn
    BY <1>0, <2>1 DEF LedgersPass
  <2> QED
    BY <1>0, <2>1, <2>2 DEF LaneHoldsLedger, Running
<1>2. CASE ~StartCall(u)
  <2>1. Owed(c)
    BY <1>2, OwedBefore
  <2>2. call[c] # "none" /\ HasCalled(u)
    BY <2>1 DEF Owed, HasCalled
  <2>3. Passed(u)
    <3>1. PICK x \in Turn, n \in 1 .. MaxCall : c = <<x, n>>
      BY DEF Call
    <3> QED
      BY <2>2, <3>1 DEF NoTrace
  <2>4. ledger[u] # NoTurn /\ ledger[u] \in Turn
    BY <1>0, <2>2, Zenon DEF LedgersPass, CancelInv, TypeOK
  <2>5. Valid(u) /\ laneOf'[u] = laneOf[u] /\ ledger'[u] = ledger[u]
    BY <1>0, <2>3, PassedStays, PassedKeeps
  <2>6. ASSUME NEW t \in ignored, Inherits(t, u)
        PROVE  FALSE
    <3>1. t \in Turn /\ t \in ignored' /\ t \notin refused
      BY BillingMoves, Zenon DEF CancelInv, TypeOK, BillingMove, LaneInv, Numbered
    <3>2. Passed(t)
      BY <3>1, Zenon DEF NoTrace, Passed, Running
    <3> QED
      BY <1>0, <2>6, <3>1, <3>2, InheritsSettled
  <2>7. ledger[u] = lane[laneOf[u]].billing
    BY <2>1, <2>5, <2>6, Zenon DEF LaneHoldsLedger
  <2>8. laneOf[u] \in LaneObject
    BY <1>0 DEF CancelInv, TypeOK
  <2>9. lane'[laneOf[u]].billing = lane[laneOf[u]].billing
    <3>1. ASSUME NEW k \in Key, NEW interrupt \in BOOLEAN, ReserveSequenceTurn(k, interrupt)
          PROVE  lane'[laneOf[u]].billing = lane[laneOf[u]].billing
      BY <2>8, <3>1, ReserveEffect, Zenon DEF CancelInv
    <3>2. ASSUME NEW t \in Turn, PrepareTurnMessages(t)
          PROVE  lane'[laneOf[u]].billing = lane[laneOf[u]].billing
      <4>1. PreparedLane(t, laneOf[u]).billing = lane[laneOf[u]].billing
        BY <2>4, <2>7 DEF PreparedLane, LedgerFor
      <4>2. lane'[laneOf[u]] \in {lane[laneOf[u]], PreparedLane(t, laneOf[u])}
        BY <2>8, <3>2, PrepareEffect DEF CancelInv
      <4> QED
        BY <4>1, <4>2, Zenon
    <3>3. ASSUME NEW t \in Turn, Done(t)
          PROVE  lane'[laneOf[u]].billing = lane[laneOf[u]].billing
      <4>1. CASE laneOf[t] # laneOf[u]
        BY <2>8, <3>3, <4>1, DoneEffect DEF CancelInv
      <4>2. CASE laneOf[t] = laneOf[u] /\ Hands(t)
        <5>1. lane'[laneOf[u]] = FinishedLane(t, lane[laneOf[u]])
          BY <3>3, <4>2, DoneEffect, Zenon DEF CancelInv
        <5> QED
          BY <4>2, <5>1 DEF FinishedLane
      <4>3. CASE laneOf[t] = laneOf[u] /\ ~Hands(t)
        <5>1. pc[t] = "closing" /\ Valid(t)
          BY <2>5, <3>3, <4>3, DoneEffect, Zenon DEF CancelInv, LaneInv, Numbered, Valid
        <5>2. t \notin cancelled
          BY <4>3, <5>1 DEF CancelInv, Cancelled, Hands, Turn
        <5>3. Settled(t)
          BY <5>1, <5>2 DEF SettledInOrder
        <5>4. ~NothingOwed(ledger[u])
          BY <2>1, Zenon DEF NothingOwed, OnLedger
        <5>5. t \in ignored
          BY <2>4, <2>7, <4>3, <5>1, <5>3, <5>4 DEF Settled
        <5>6. Unbroken(ledger[u]) /\ Heir(u, ledger[u])
          BY <1>0, <2>4, <2>7, <2>8, Zenon DEF LedgersPass
        <5>7. Unbroken(u)
          BY <1>0, <2>4, <5>6 DEF Unbroken, Heir, Inherits, SameLane, Turn
        <5>8. Heir(t, u)
          BY <1>0, <2>3, <4>3, <5>1, <5>7, UnbrokenLeads, Zenon DEF SameLane, Running
        <5>9. t # u
          BY <2>4, <5>5 DEF NoTrace
        <5> QED
          BY <2>6, <5>5, <5>8, <5>9, Zenon DEF Heir
      <4> QED
        BY <4>1, <4>2, <4>3
    <3>4. CASE ResetSession \/ Quiet
      BY <3>4 DEF ResetSession, Quiet, laneVars
    <3> QED
      BY <3>1, <3>2, <3>3, <3>4, StepCases, Zenon DEF CancelInv
  <2> QED
    BY <2>5, <2>7, <2>9
<1> QED
  BY <1>1, <1>2

(* While an epoch is in force, the lane holds the ledger of every charge    *)
(* that is owed.                                                            *)
LEMMA LaneHoldsLedgerStep ==
    CancelInv /\ NoTrace /\ LedgersPass /\ LaneHoldsLedger /\ SentOnce /\ SettledInOrder /\ [Next]_vars
      => LaneHoldsLedger'
<1> SUFFICES ASSUME CancelInv, NoTrace, LedgersPass, LaneHoldsLedger, SentOnce, SettledInOrder,
                    [Next]_vars, ~stopped'
             PROVE  LaneHoldsLedger'
  BY DEF LaneHoldsLedger
<1>1. ~stopped /\ (~closed' => ~closed)
  BY EndsAreFinal DEF CancelInv
<1> QED
  BY <1>1, LedgerHasHeir, RunnerHoldsLedger, OwedIsHeld, Zenon DEF LaneHoldsLedger

-----------------------------------------------------------------------------
(* No charge is owed in a fresh scope.                                      *)
LEMMA ReceiptInit == Init => LaneHoldsLedger /\ SettledInOrder
<1> SUFFICES ASSUME Init
             PROVE  LaneHoldsLedger /\ SettledInOrder
  OBVIOUS
<1>1. \A l \in LaneObject : lane[l].billing = NoTurn
  BY DEF Init, EmptyLane
<1>2. /\ \A t \in Turn : pc[t] = "free" /\ ledger[t] = NoTurn
      /\ \A c \in Call : call[c] = "none"
  BY DEF Init
<1> QED
  BY <1>1, <1>2, Zenon DEF LaneHoldsLedger, SettledInOrder, Settled, Owed

(* Every step keeps LedgerInv.                                              *)
LEMMA LedgerStep == CancelInv /\ InputInv /\ LedgerInv /\ [Next]_vars => LedgerInv'
  BY LedgersPassStep, LaneHoldsLedgerStep, SettledInOrderStep, SentOnceStep DEF InputInv, LedgerInv

(* No charge is given up while the lane is in force.                        *)
LEMMA LedgerReports == TypeOK /\ LedgerInv => ChargeReported
<1> SUFFICES ASSUME TypeOK, LedgerInv, NEW c \in Call,
                    \A t \in ignored : ~Inherits(t, c[1]), ~Reported(c)
             PROVE  FALSE
  BY DEF ChargeReported
<1>1. /\ Owed(c) /\ Valid(c[1]) /\ ~stopped /\ ~closed /\ lane[laneOf[c[1]]].queue = <<>>
      /\ call[c] # "none"
  BY DEF Reported, Owed, Valid
<1>2. c[1] \in Turn /\ laneOf[c[1]] \in LaneObject
  BY DEF Call, TypeOK
<1>3. ledger[c[1]] = lane[laneOf[c[1]]].billing
  BY <1>1 DEF LedgerInv, LaneHoldsLedger
<1>4. ledger[c[1]] # NoTurn
  BY <1>1, <1>2, Zenon DEF LedgerInv, LedgersPass, HasCalled
<1> QED
  BY <1>1, <1>2, <1>3, <1>4 DEF LedgerInv, LaneHoldsLedger

(* InheritedOnce for every number of turns, lanes, calls and epochs: what   *)
(* an interrupted turn leaves reaches its heir once and in order            *)
(* (PrepareTurnMessages, finishSequence), and no charge is lost or repeated *)
(* except by the heir (UnreportedReceipt).                                  *)
THEOREM InheritedOnceHolds == Spec => []InheritedOnce
<1>1. Init => InputInv /\ LedgerInv
  BY InputInit, LedgerInit, ReceiptInit DEF LedgerInv
<1>2. CancelInv /\ InputInv /\ LedgerInv /\ [Next]_vars => (InputInv /\ LedgerInv)'
  BY InputStep, LedgerStep
<1>3. ASSUME CancelInv, InputInv, LedgerInv
      PROVE  InheritedOnce
  <2>1. PromptOnce /\ InputsHandedOver
    BY <1>3, Zenon DEF InputInv, PromptsCarry, HasCalled, PromptCarries, InputsHandedOver
  <2>2. LedgerInherited /\ RepeatOnlyByHeir
    BY <1>3, LedgersReachHeirs DEF LedgerInv
  <2>3. ChargeReported
    BY <1>3, LedgerReports DEF CancelInv
  <2> QED
    BY <2>1, <2>2, <2>3 DEF InheritedOnce, HandedOverOnce, ChargesAccounted
<1> QED
  BY <1>1, <1>2, <1>3, CancelInvHolds, PTL DEF Spec
=============================================================================
