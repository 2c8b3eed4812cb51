----------------------- MODULE ExecutionLedgerProofs ------------------------
(***************************************************************************)
(* Whose charges a receipt covers, for any number of turns, lanes, calls   *)
(* and epochs: a ledger passes only along a chain of interrupted turns, and*)
(* only the heir of a turn reports one of its charges again.               *)
(***************************************************************************)
EXTENDS ExecutionInheritanceProofs

(* The ledger a lane holds is one of its own turns', left by an unbroken    *)
(* chain; a turn that runs its loop, or has made a call, has a ledger;      *)
(* ledgers and receipts pass to heirs only.                                 *)
LedgersPass ==
    /\ \A l \in LaneObject :
         LET b == lane[l].billing IN
         b # NoTurn => laneOf[b] = l /\ Passed(b) /\ Unbroken(b)
    /\ \A t \in Turn :
         pc[t] \in {"thinking", "calling", "settling", "answering"} \/ HasCalled(t) =>
             ledger[t] # NoTurn
    /\ \A t \in Turn : ledger[t] # NoTurn => Heir(t, ledger[t])
    /\ \A t \in Turn : \A c \in sent[t] \cup receipt[t] : Heir(t, ledger[c[1]])

(* A turn sends one receipt.                                                *)
SentOnce ==
    \A t \in Turn :
        /\ pc[t] \in {"thinking", "calling", "settling", "answering", "sending", "tailing"} => sent[t] = {}
        /\ pc[t] = "exit" /\ t \notin reported => sent[t] = {}
        /\ pc[t] \in {"thinking", "calling", "settling", "answering"} => t \notin reported
        /\ pc[t] \in {"sending", "acking"} => t \in reported

(* A charge that may have to be reported, and is in no receipt yet.         *)
Owed(c) ==
    /\ call[c] \in {"inflight", "committed"}
    /\ c \notin lost
    /\ \A t \in Turn : c \notin sent[t]

(* Every charge on ledger b is reported, or will never be one.              *)
NothingOwed(b) == \A c \in OnLedger(b) : ~Owed(c)

-----------------------------------------------------------------------------
(* A chain stays unbroken unless a turn of the lane finishes without        *)
(* handing on.                                                              *)
LEMMA UnbrokenAfter ==
    ASSUME CancelInv, [Next]_vars, NEW u \in Turn, Passed(u), Unbroken(u),
           \A v \in Turn : Done(v) /\ laneOf[v] = laneOf[u] => Hands(v)
    PROVE  Unbroken(u)'
<1> USE DEF CancelInv
<1> SUFFICES ASSUME NEW v \in Turn, u <= v, SameLane(v, u)', pc'[v] = "done", v \notin refused'
             PROVE  v \in handed'
  BY DEF Unbroken
<1>1. laneOf'[u] = laneOf[u]
  BY PassedStays
<1>2. CASE Done(v)
  <2>1. laneOf' = laneOf /\ handed' = IF Hands(v) THEN handed \cup {v} ELSE handed
    BY <1>2, DoneEffect
  <2> QED
    BY <1>2, <2>1 DEF SameLane
<1>3. CASE ~Done(v)
  <2>1. pc[v] = "done" /\ laneOf'[v] = laneOf[v] /\ v \notin refused
    <3>1. ASSUME NEW k \in Key, NEW interrupt \in BOOLEAN, ReserveSequenceTurn(k, interrupt)
          PROVE  pc[v] = "done" /\ laneOf'[v] = laneOf[v] /\ v \notin refused
      <4>1. v # last + 1
        BY <3>1, ReserveEffect, Zenon
      <4>2. refused \subseteq refused'
        BY <3>1, ReserveEffect, Zenon
      <4> QED
        BY <3>1, <4>1, <4>2, ReserveEffect, Zenon
    <3>2. ASSUME NEW t \in Turn, PrepareTurnMessages(t)
          PROVE  pc[v] = "done" /\ laneOf'[v] = laneOf[v] /\ v \notin refused
      BY <3>2, PrepareEffect
    <3>3. ASSUME NEW t \in Turn, Done(t)
          PROVE  pc[v] = "done" /\ laneOf'[v] = laneOf[v] /\ v \notin refused
      BY <1>3, <3>3, DoneEffect
    <3>4. CASE ResetSession \/ Quiet
      BY <3>4 DEF ResetSession, Quiet, laneVars
    <3> QED
      BY <3>1, <3>2, <3>3, <3>4, StepCases
  <2>2. v \in handed
    BY <1>1, <2>1 DEF Unbroken, SameLane
  <2> QED
    BY <2>2, HandedGrows
<1> QED
  BY <1>2, <1>3

(* The ledger a lane holds stays one of its own turns'.                     *)
LEMMA HeldLedger ==
    ASSUME CancelInv, NoTrace, LedgersPass, [Next]_vars, NEW l \in LaneObject,
           lane'[l].billing # NoTurn
    PROVE  \E b \in Turn : b = lane'[l].billing /\ laneOf'[b] = l /\ Passed(b)' /\ Unbroken(b)'
<1> USE DEF CancelInv
<1>1. \A m \in LaneObject : lane[m].billing # NoTurn =>
         \E b \in Turn : b = lane[m].billing /\ laneOf[b] = m /\ Passed(b) /\ Unbroken(b)
  BY DEF LedgersPass, TypeOK, Lane
<1>2. ASSUME lane'[l].billing = lane[l].billing,
             \A v \in Turn : Done(v) /\ laneOf[v] = l => Hands(v)
      PROVE  \E b \in Turn : b = lane'[l].billing /\ laneOf'[b] = l /\ Passed(b)' /\ Unbroken(b)'
  <2>2. PICK b \in Turn : b = lane[l].billing /\ laneOf[b] = l /\ Passed(b) /\ Unbroken(b)
    BY <1>1, <1>2
  <2>3. Unbroken(b)'
    BY <1>2, <2>2, UnbrokenAfter
  <2> QED
    BY <1>2, <2>2, <2>3, PassedStays
<1>3. \E b \in Turn : b = lane'[l].billing /\ laneOf'[b] = l /\ Passed(b)' /\ Unbroken(b)'
  <2>1. ASSUME NEW k \in Key, NEW interrupt \in BOOLEAN, ReserveSequenceTurn(k, interrupt)
        PROVE  lane'[l].billing = lane[l].billing
    BY <2>1, ReserveEffect, Zenon
  <2>2. ASSUME NEW t \in Turn, PrepareTurnMessages(t)
        PROVE  \E b \in Turn : b = lane'[l].billing /\ laneOf'[b] = l /\ Passed(b)' /\ Unbroken(b)'
    <3>1. pc[t] = "admitted" /\ pc'[t] = "thinking" /\ t \notin refused
          /\ UNCHANGED <<laneOf, refused, handed>> /\ \A v \in Turn \ {t} : pc'[v] = pc[v]
      BY <2>2, PrepareEffect
    <3>2. \A v \in Turn : ~Done(v)
      <4> SUFFICES ASSUME NEW v \in Turn, Done(v) PROVE FALSE
        OBVIOUS
      <4>1. pc'[v] = "done" /\ pc[v] # "done"
        BY DoneEffect
      <4> QED
        BY <3>1, <4>1
    <3>3. CASE lane'[l].billing = lane[l].billing
      BY <1>2, <3>2, <3>3
    <3>4. CASE lane'[l].billing # lane[l].billing
      <4>1. l = laneOf[t] /\ lane'[l] = PreparedLane(t, l)
        BY <2>2, <3>4, PrepareEffect
      <4>2. lane'[l].billing = t
        BY <3>4, <4>1 DEF PreparedLane, LedgerFor
      <4>3. Passed(t)'
        BY <3>1 DEF Passed, Running
      <4>4. Unbroken(t)'
        <5> SUFFICES ASSUME NEW v \in Turn, t <= v, laneOf[v] = laneOf[t], pc'[v] = "done", v \notin refused
                     PROVE  FALSE
          BY <3>1 DEF Unbroken, SameLane
        <5>1. v # t /\ pc[v] = "done" /\ Passed(v) /\ pc[t] \in Running /\ SameLane(t, v)
          BY <3>1 DEF Passed, Running, SameLane
        <5>2. v <= t
          BY <5>1, PassedFirst
        <5> QED
          BY <5>1, <5>2 DEF Turn
      <4> QED
        BY <3>1, <4>1, <4>2, <4>3, <4>4
    <3> QED
      BY <3>3, <3>4
  <2>3. ASSUME NEW t \in Turn, Done(t)
        PROVE  lane'[l].billing = lane[l].billing /\ (laneOf[t] = l => Hands(t))
    <3>1. CASE laneOf[t] # l
      BY <2>3, <3>1, DoneEffect
    <3>2. CASE laneOf[t] = l
      <4>1. lane'[l].billing = FinishedLane(t, lane[l]).billing
        BY <2>3, <3>2, DoneEffect
      <4> QED
        BY <4>1 DEF FinishedLane
    <3> QED
      BY <3>1, <3>2
  <2>4. CASE ResetSession \/ Quiet
    <3>1. lane' = lane
      BY <2>4 DEF ResetSession, Quiet, laneVars
    <3>2. \A v \in Turn : ~Done(v)
      <4> SUFFICES ASSUME NEW v \in Turn, Done(v) PROVE FALSE
        OBVIOUS
      <4>1. pc'[v] = "done" /\ pc[v] # "done"
        BY DoneEffect
      <4> QED
        BY <2>4, <4>1 DEF ResetSession, Quiet
    <3> QED
      BY <1>2, <3>1, <3>2
  <2>5. ASSUME NEW k \in Key, NEW interrupt \in BOOLEAN, ReserveSequenceTurn(k, interrupt)
        PROVE  \A v \in Turn : ~Done(v)
    <3> SUFFICES ASSUME NEW v \in Turn, Done(v) PROVE FALSE
      OBVIOUS
    <3>1. last' = last /\ last \in Nat /\ last' = last + 1
      BY <2>5, DoneEffect, ReserveEffect, Zenon
    <3> QED
      BY <3>1
  <2>6. CASE \E t \in Turn : Done(t)
    BY <1>2, <2>3, <2>6
  <2> QED
    BY <1>2, <2>1, <2>2, <2>4, <2>5, <2>6, StepCases
<1> QED
  BY <1>3

-----------------------------------------------------------------------------
(* How the billing state moves: calls are started by their turn and settled *)
(* by their worker, a receipt covers the turn's ledger or the one its lane  *)
(* holds, and it is sent once from its two places.                          *)
CallMove(c) ==
    \/ StartCall(c[1]) /\ call[c] = "none" /\ call'[c] = "inflight"
    \/ call[c] = "inflight" /\ call'[c] \in {"committed", "released"}

(* A receipt covers the turn's ledger, or the one its lane holds.           *)
ReceiptMove(t) ==
    \/ pc[t] = "answering" /\ receipt'[t] = Billed(ledger[t])
    \/ /\ pc[t] = "exit"
       /\ lane[laneOf[t]].billing # NoTurn
       /\ receipt'[t] = Billed(lane[laneOf[t]].billing)

(* A receipt is sent from its two places only.                              *)
SentMove(t) ==
    pc[t] \in {"sending", "tailing"} /\ sent'[t] = receipt[t]

(* A step's effect on the calls, the ledgers and the receipts.              *)
BillingMove ==
    /\ \A t \in Turn : ledger'[t] # ledger[t] => PrepareTurnMessages(t)
    /\ \A c \in Call : call'[c] # call[c] => CallMove(c)
    /\ \A t \in Turn : receipt'[t] # receipt[t] => ReceiptMove(t)
    /\ \A t \in Turn : sent'[t] # sent[t] => SentMove(t)
    /\ lost \subseteq lost'
    /\ ignored \subseteq ignored'
    /\ reported \subseteq reported'

(* Every step moves the billing state in this way.                          *)
LEMMA BillingMoves ==
    ASSUME CancelInv, [Next]_vars
    PROVE  BillingMove
<1> USE DEF CancelInv
<1>1. CASE UNCHANGED billVars
  BY <1>1 DEF BillingMove, billVars
<1>2. ASSUME NEW t \in Turn, PrepareTurnMessages(t)
      PROVE  BillingMove
  BY <1>2, PrepareEffect DEF BillingMove
<1>3. ASSUME NEW t \in Turn, StartCall(t)
      PROVE  BillingMove
  <2>1. PICK n \in 1 .. MaxCall : call[<<t, n>>] = "none" /\ call' = [call EXCEPT ![<<t, n>>] = "inflight"]
    BY <1>3, Zenon DEF StartCall
  <2>2. \A c \in Call : call'[c] # call[c] => c = <<t, n>>
    BY <2>1 DEF TypeOK
  <2>3. <<t, n>> \in Call /\ <<t, n>>[1] = t
    BY DEF Call
  <2>4. \A c \in Call : call'[c] # call[c] => CallMove(c)
    BY <1>3, <2>1, <2>2, <2>3 DEF TypeOK, CallMove
  <2> QED
    BY <1>3, <2>4 DEF StartCall, BillingMove
<1>4. ASSUME NEW d \in Call, Settle(d)
      PROVE  BillingMove
  <2>1. \A c \in Call : call'[c] # call[c] => CallMove(c)
    BY <1>4 DEF Settle, TypeOK, CallMove
  <2> QED
    BY <1>4, <2>1 DEF Settle, BillingMove
<1>5. ASSUME NEW t \in Turn, Answer(t)
      PROVE  BillingMove
  BY <1>5 DEF Answer, NoAnswer, DropAnswer, SendAnswer, BillingMove, ReceiptMove, TypeOK
<1>6. ASSUME NEW t \in Turn, SendReply(t) \/ SendReceipt(t)
      PROVE  BillingMove
  BY <1>6 DEF SendReply, SendReceipt, Transmit, BillingMove, SentMove, TypeOK
<1>7. ASSUME NEW t \in Turn, UnreportedReceipt(t)
      PROVE  BillingMove
  BY <1>7 DEF UnreportedReceipt, Unreported, BillingMove, ReceiptMove, TypeOK
<1>8. ASSUME NEW t \in Turn, IgnoreEvent(t)
      PROVE  BillingMove
  BY <1>8 DEF IgnoreEvent, BillingMove
<1>9. ASSUME NEW t \in Turn,
             \/ StartEvent(t) \/ Wait(t) \/ RejectInput(t) \/ ReturnCall(t) \/ EndLoop(t)
             \/ WaitBilling(t) \/ AwaitDelivery(t) \/ Done(t)
      PROVE  UNCHANGED billVars
  BY <1>9 DEF StartEvent, Wait, RejectInput, ReturnCall, EndLoop, WaitBilling, AwaitDelivery, Done
<1>10. ASSUME \/ \E k \in Key, interrupt \in BOOLEAN : ReserveSequenceTurn(k, interrupt)
              \/ ResetSession \/ Stop \/ CloseConnection \/ UNCHANGED vars
       PROVE  UNCHANGED billVars
  BY <1>10, Zenon DEF ReserveSequenceTurn, ResetSession, Stop, CloseConnection, vars, billVars
<1> QED
  BY <1>1, <1>2, <1>3, <1>4, <1>5, <1>6, <1>7, <1>8, <1>9, <1>10 DEF Next, TurnStep

(* Whoever runs, or has run, its loop prepared its messages.                *)
LEMMA LoopMoves ==
    ASSUME CancelInv, [Next]_vars, NEW t \in Turn,
           pc'[t] \in {"thinking", "calling", "settling", "answering"}
    PROVE  PrepareTurnMessages(t) \/ pc[t] \in {"thinking", "calling", "settling", "answering"}
<1> USE DEF CancelInv
<1>1. ASSUME NEW u \in Turn, QuietStep(u), u # t
      PROVE  pc'[t] = pc[t]
  BY <1>1 DEF QuietStep, StartEvent, Wait, IgnoreEvent, RejectInput, StartCall, ReturnCall,
     EndLoop, WaitBilling, Answer, NoAnswer, DropAnswer, SendAnswer, SendReply, AwaitDelivery,
     UnreportedReceipt, SendReceipt, Transmit, Goto, TypeOK
<1>2. CASE QuietStep(t)
  BY <1>2, Zenon DEF QuietStep, StartEvent, Wait, IgnoreEvent, RejectInput, StartCall, ReturnCall,
     EndLoop, WaitBilling, Answer, NoAnswer, DropAnswer, SendAnswer, SendReply, AwaitDelivery,
     UnreportedReceipt, SendReceipt, Transmit, Goto, TypeOK
<1>3. ASSUME NEW k \in Key, NEW interrupt \in BOOLEAN, ReserveSequenceTurn(k, interrupt)
      PROVE  pc'[t] = pc[t]
  BY <1>3, ReserveEffect, Zenon
<1>4. ASSUME NEW u \in Turn, PrepareTurnMessages(u)
      PROVE  u = t \/ pc'[t] = pc[t]
  BY <1>4, PrepareEffect, Zenon
<1>5. ASSUME NEW u \in Turn, Done(u)
      PROVE  pc'[t] = pc[t]
  BY <1>5, DoneEffect
<1>6. ASSUME (\E c \in Call : Settle(c)) \/ ResetSession \/ Stop \/ CloseConnection \/ UNCHANGED vars
      PROVE  pc' = pc
  BY <1>6 DEF Settle, ResetSession, Stop, CloseConnection, vars
<1> QED
  BY <1>1, <1>2, <1>3, <1>4, <1>5, <1>6 DEF Next, TurnStep, QuietStep

(* An heir stays one.                                                       *)
LEMMA HeirStays ==
    ASSUME CancelInv, [Next]_vars, NEW t \in Turn, Passed(t), NEW b, Heir(t, b)
    PROVE  Heir(t, b)'
  BY InheritsSettled DEF Heir

(* Ledgers and receipts pass to heirs only.                                 *)
LEMMA LedgersPassStep ==
    CancelInv /\ NoTrace /\ LedgersPass /\ [Next]_vars => LedgersPass'
<1> SUFFICES ASSUME CancelInv, NoTrace, LedgersPass, [Next]_vars
             PROVE  LedgersPass'
  OBVIOUS
<1> DEFINE Loop == {"thinking", "calling", "settling", "answering"}
<1>0. BillingMove
  BY BillingMoves
<1>1. \A l \in LaneObject :
         lane'[l].billing # NoTurn =>
            laneOf'[lane'[l].billing] = l /\ (Passed(lane[l].billing) /\ Unbroken(lane[l].billing))'
  <2> SUFFICES ASSUME NEW l \in LaneObject, lane'[l].billing # NoTurn
               PROVE  laneOf'[lane'[l].billing] = l /\ (Passed(lane[l].billing) /\ Unbroken(lane[l].billing))'
    OBVIOUS
  <2>1. PICK b \in Turn : b = lane'[l].billing /\ laneOf'[b] = l /\ Passed(b)' /\ Unbroken(b)'
    BY HeldLedger
  <2> QED
    BY <2>1 DEF Passed, Unbroken, SameLane
<1>2. \A t \in Turn : ledger[t] # NoTurn => Passed(t) /\ ledger[t] \in Turn
  BY DEF NoTrace, CancelInv, TypeOK
<1>3. ASSUME NEW t \in Turn, PrepareTurnMessages(t)
      PROVE  ledger'[t] # NoTurn /\ Heir(t, ledger[t])'
  <2>1. laneOf[t] \in LaneObject /\ pc[t] = "admitted" /\ UNCHANGED <<laneOf, handed>>
    BY <1>3, PrepareEffect DEF CancelInv
  <2>2. CASE ledger'[t] = t
    BY <2>2 DEF Heir, Turn, NoTurn
  <2>3. CASE ledger'[t] # t
    <3> DEFINE b == lane[laneOf[t]].billing
    <3>1. ledger'[t] = b /\ b # NoTurn
      BY <1>3, <2>3, PrepareEffect DEF CancelInv, LedgerFor
    <3>2. b \in Turn /\ laneOf[b] = laneOf[t] /\ Passed(b) /\ Unbroken(b)
      BY <2>1, <3>1 DEF LedgersPass, CancelInv, TypeOK, Lane
    <3>3. Heir(t, b)
      BY <2>1, <3>2, UnbrokenLeads DEF SameLane, Running
    <3> QED
      BY <2>1, <3>1, <3>3 DEF Heir, Inherits, SameLane
  <2> QED
    BY <2>2, <2>3
<1>4. ASSUME NEW t \in Turn, pc'[t] \in Loop \/ HasCalled(t)'
      PROVE  ledger'[t] # NoTurn
  <2>1. CASE PrepareTurnMessages(t)
    BY <1>3, <2>1
  <2>2. CASE ~PrepareTurnMessages(t)
    <3>1. pc[t] \in Loop \/ HasCalled(t)
      BY <1>4, <2>2, LoopMoves, CallBegins
    <3>2. ledger[t] # NoTurn
      BY <3>1 DEF LedgersPass
    <3> QED
      BY <1>0, <2>2, <3>2 DEF BillingMove
  <2> QED
    BY <2>1, <2>2
<1>5. ASSUME NEW t \in Turn, ledger'[t] # NoTurn
      PROVE  Heir(t, ledger[t])'
  <2>1. CASE PrepareTurnMessages(t)
    BY <1>3, <2>1
  <2>2. CASE ~PrepareTurnMessages(t)
    <3>1. ledger'[t] = ledger[t]
      BY <1>0, <2>2 DEF BillingMove
    <3>2. Passed(t) /\ Heir(t, ledger[t])
      BY <1>2, <1>5, <3>1 DEF LedgersPass
    <3>3. PICK b : b = ledger[t]
      OBVIOUS
    <3>4. Heir(t, b)'
      BY <3>2, <3>3, HeirStays
    <3> QED
      BY <3>1, <3>3, <3>4 DEF Heir
  <2> QED
    BY <2>1, <2>2
<1>6. ASSUME NEW t \in Turn, NEW c \in Call, Passed(t), NEW b \in Turn, ledger[c[1]] = b, Heir(t, b)
      PROVE  Heir(t, ledger[c[1]])'
  <2>1. c[1] \in Turn
    BY DEF Call
  <2>2. b # NoTurn
    BY DEF Turn, NoTurn
  <2>3. ledger'[c[1]] = ledger[c[1]]
    BY <1>2, <1>6, <2>1, <2>2, PassedKeeps
  <2>4. Heir(t, b)'
    BY <1>6, HeirStays
  <2> QED
    BY <1>6, <2>3, <2>4 DEF Heir
<1>7. ASSUME NEW t \in Turn, NEW c \in sent[t] \cup receipt[t]
      PROVE  Heir(t, ledger[c[1]])'
  <2>1. c \in Call
    BY <1>7 DEF CancelInv, TypeOK
  <2>2. Passed(t)
    BY <1>7 DEF NoTrace
  <2>3. Heir(t, ledger[c[1]])
    BY <1>7 DEF LedgersPass
  <2>4. ledger[c[1]] \in Turn
    BY <2>3 DEF Heir
  <2> QED
    BY <1>6, <2>1, <2>2, <2>3, <2>4
<1>8. ASSUME NEW t \in Turn, NEW c \in receipt'[t], receipt'[t] # receipt[t]
      PROVE  Heir(t, ledger[c[1]])'
  <2>1. ReceiptMove(t)
    BY <1>0, <1>8 DEF BillingMove
  <2>2. CASE pc[t] = "answering" /\ receipt'[t] = Billed(ledger[t])
    <3>1. Passed(t)
      BY <2>2 DEF Passed, Running, CancelInv, LaneInv, Numbered
    <3>2. ledger[t] \in Turn /\ Heir(t, ledger[t])
      BY <1>2, <2>2 DEF LedgersPass
    <3>3. c \in Call /\ ledger[c[1]] = ledger[t]
      BY <1>8, <2>2 DEF Billed, OnLedger
    <3> QED
      BY <1>6, <3>1, <3>2, <3>3
  <2>3. CASE /\ pc[t] = "exit" /\ lane[laneOf[t]].billing # NoTurn
             /\ receipt'[t] = Billed(lane[laneOf[t]].billing)
    <3> DEFINE b == lane[laneOf[t]].billing
    <3>1. Passed(t) /\ pc[t] \in Running
      BY <2>3 DEF Passed, Running, CancelInv, LaneInv, Numbered
    <3>2. laneOf[t] \in LaneObject
      BY DEF CancelInv, TypeOK
    <3>3. b \in Turn /\ laneOf[b] = laneOf[t] /\ Passed(b) /\ Unbroken(b)
      BY <2>3, <3>2 DEF LedgersPass, CancelInv, TypeOK, Lane
    <3>4. Heir(t, b)
      BY <3>1, <3>3, UnbrokenLeads DEF SameLane
    <3>5. c \in Call /\ ledger[c[1]] = b
      BY <1>8, <2>3 DEF Billed, OnLedger
    <3> HIDE DEF b
    <3> QED
      BY <1>6, <3>1, <3>3, <3>4, <3>5
  <2> QED
    BY <2>1, <2>2, <2>3 DEF ReceiptMove
<1>9. ASSUME NEW t \in Turn, NEW c \in sent'[t] \cup receipt'[t]
      PROVE  Heir(t, ledger[c[1]])'
  <2>1. sent'[t] = sent[t] \/ sent'[t] = receipt[t]
    BY <1>0 DEF BillingMove, SentMove
  <2> QED
    BY <1>7, <1>8, <1>9, <2>1
<1> QED
  BY <1>1, <1>4, <1>5, <1>9 DEF LedgersPass

(* A step of one turn leaves the place and the receipts of the others.      *)
LEMMA OthersStay ==
    ASSUME CancelInv, NEW t \in Turn, QuietStep(t), NEW u \in Turn, u # t
    PROVE  /\ pc'[u] = pc[u] /\ sent'[u] = sent[u] /\ receipt'[u] = receipt[u]
           /\ u \in reported' <=> u \in reported
  BY Zenon DEF QuietStep, StartEvent, Wait, IgnoreEvent, RejectInput, StartCall, ReturnCall,
     EndLoop, WaitBilling, Answer, NoAnswer, DropAnswer, SendAnswer, SendReply, AwaitDelivery,
     UnreportedReceipt, SendReceipt, Transmit, Goto, TypeOK, CancelInv, billVars

(* A turn sends one receipt.                                                *)
LEMMA SentOnceStep ==
    CancelInv /\ NoTrace /\ SentOnce /\ [Next]_vars => SentOnce'
<1> SUFFICES ASSUME CancelInv, NoTrace, SentOnce, [Next]_vars
             PROVE  SentOnce'
  OBVIOUS
<1>0. BillingMove
  BY BillingMoves
<1> DEFINE Once(t) ==
      /\ pc[t] \in {"thinking", "calling", "settling", "answering", "sending", "tailing"} => sent[t] = {}
      /\ pc[t] = "exit" /\ t \notin reported => sent[t] = {}
      /\ pc[t] \in {"thinking", "calling", "settling", "answering"} => t \notin reported
      /\ pc[t] \in {"sending", "acking"} => t \in reported
<1>1. \A t \in Turn : Once(t) /\ (pc[t] = "admitted" => sent[t] = {} /\ t \notin reported)
  BY DEF SentOnce, NoTrace, Passed, CancelInv, LaneInv, Numbered
<1>2. ASSUME NEW t \in Turn, pc'[t] = pc[t], sent'[t] = sent[t], t \in reported' => t \in reported
      PROVE  Once(t)'
  BY <1>0, <1>1, <1>2 DEF BillingMove
<1>4. ASSUME NEW t \in Turn, QuietStep(t)
      PROVE  Once(t)'
  <2>1. CASE StartEvent(t) \/ Wait(t) \/ IgnoreEvent(t) \/ RejectInput(t)
    BY <1>1, <2>1 DEF StartEvent, Wait, IgnoreEvent, RejectInput, Goto, TypeOK, CancelInv, billVars
  <2>2. CASE StartCall(t) \/ ReturnCall(t) \/ EndLoop(t) \/ WaitBilling(t) \/ AwaitDelivery(t)
    BY <1>1, <2>2 DEF StartCall, ReturnCall, EndLoop, WaitBilling, AwaitDelivery, Goto, TypeOK,
                      CancelInv, billVars
  <2>3. CASE Answer(t)
    BY <1>1, <2>3 DEF Answer, NoAnswer, DropAnswer, SendAnswer, Goto, TypeOK, CancelInv
  <2>4. CASE SendReply(t) \/ SendReceipt(t)
    BY <1>1, <2>4 DEF SendReply, SendReceipt, Transmit, Goto, TypeOK, CancelInv
  <2>5. CASE UnreportedReceipt(t)
    BY <1>1, <2>5 DEF UnreportedReceipt, Unreported, Goto, TypeOK, CancelInv
  <2> QED
    BY <1>4, <2>1, <2>2, <2>3, <2>4, <2>5, Zenon DEF QuietStep
<1>5. ASSUME NEW t \in Turn, PrepareTurnMessages(t)
      PROVE  \A u \in Turn : Once(u)'
  BY <1>1, <1>5, PrepareEffect DEF CancelInv
<1>6. ASSUME NEW t \in Turn, Done(t)
      PROVE  \A u \in Turn : Once(u)'
  BY <1>1, <1>6, DoneEffect, Zenon DEF CancelInv, billVars
<1>7. ASSUME NEW k \in Key, NEW interrupt \in BOOLEAN, ReserveSequenceTurn(k, interrupt)
      PROVE  \A u \in Turn : Once(u)'
  BY <1>1, <1>7, ReserveEffect, Zenon DEF CancelInv, billVars
<1>8. CASE (\E c \in Call : Settle(c)) \/ ResetSession \/ Stop \/ CloseConnection \/ UNCHANGED vars
  <2>1. UNCHANGED <<pc, sent, reported>>
    BY <1>8 DEF Settle, ResetSession, Stop, CloseConnection, vars, billVars
  <2> QED
    BY <2>1 DEF SentOnce
<1> QED
  BY <1>2, <1>4, <1>5, <1>6, <1>7, <1>8, OthersStay, Zenon DEF Next, TurnStep, QuietStep, SentOnce

-----------------------------------------------------------------------------
(* Nobody else of its lane runs beside a running turn.                      *)
LEMMA OnlyRunner ==
    ASSUME CancelInv, NEW t \in Turn, pc[t] \in Running, NEW v \in Turn, pc[v] \in Running,
           laneOf[v] = laneOf[t]
    PROVE  v = t
<1>1. t \notin refused /\ v \notin refused /\ pc[t] # "done" /\ pc[v] # "done"
  BY DEF CancelInv, LaneInv, Numbered, Running
<1>2. ~(t < v) /\ ~(v < t)
  BY <1>1 DEF CancelInv, LaneInv, PredecessorsDone
<1> QED
  BY <1>2 DEF Turn

(* So its lane keeps the ledger it holds ...                                *)
LEMMA BillingKept ==
    ASSUME CancelInv, [Next]_vars, ~stopped, NEW t \in Turn, pc[t] \in Running,
           ~PrepareTurnMessages(t), ~Done(t)
    PROVE  lane'[laneOf[t]].billing = lane[laneOf[t]].billing
<1> USE DEF CancelInv
<1>0. laneOf[t] \in LaneObject
  BY DEF TypeOK
<1>1. ASSUME NEW k \in Key, NEW interrupt \in BOOLEAN, ReserveSequenceTurn(k, interrupt)
      PROVE  lane'[laneOf[t]].billing = lane[laneOf[t]].billing
  BY <1>0, <1>1, ReserveEffect, Zenon
<1>2. ASSUME NEW v \in Turn, PrepareTurnMessages(v)
      PROVE  lane'[laneOf[t]].billing = lane[laneOf[t]].billing
  <2>1. pc[v] \in Running
    BY <1>2, PrepareEffect DEF Running
  <2>2. laneOf[v] # laneOf[t]
    BY <1>2, <2>1, OnlyRunner
  <2> QED
    BY <1>0, <1>2, <2>2, PrepareEffect, Zenon
<1>3. ASSUME NEW v \in Turn, Done(v)
      PROVE  lane'[laneOf[t]].billing = lane[laneOf[t]].billing
  <2>1. v \notin refused
    BY DEF LaneInv, Numbered
  <2>2. pc[v] \in Running
    BY <1>3, <2>1, DoneEffect DEF Running
  <2>3. laneOf[v] # laneOf[t]
    BY <1>3, <2>2, OnlyRunner
  <2> QED
    BY <1>0, <1>3, <2>3, DoneEffect
<1>4. CASE ResetSession \/ Quiet
  BY <1>4 DEF ResetSession, Quiet, laneVars
<1> QED
  BY <1>1, <1>2, <1>3, <1>4, StepCases

(* ... and nobody joins a ledger of the lane.                               *)
LEMMA LedgerKept ==
    ASSUME CancelInv, NoTrace, LedgersPass, [Next]_vars, NEW t \in Turn, pc[t] \in Running,
           ~PrepareTurnMessages(t), NEW b \in Turn, laneOf[b] = laneOf[t], NEW v \in Turn
    PROVE  ledger'[v] = b <=> ledger[v] = b
<1> USE DEF CancelInv
<1>1. CASE ledger'[v] = ledger[v]
  BY <1>1
<1>2. CASE ledger'[v] # ledger[v]
  <2>1. PrepareTurnMessages(v) /\ v # t
    BY <1>2, BillingMoves DEF BillingMove
  <2>2. laneOf[v] \in LaneObject /\ pc[v] = "admitted"
    BY <2>1, PrepareEffect, Zenon
  <2>3. laneOf[v] # laneOf[t]
    BY <2>1, <2>2, OnlyRunner DEF Running
  <2>4. ledger[v] = NoTurn
    BY <2>2 DEF NoTrace, Passed, Running
  <2>5. ledger'[v] = v \/ (lane[laneOf[v]].billing # NoTurn /\ ledger'[v] = lane[laneOf[v]].billing)
    BY <2>1, PrepareEffect, Zenon DEF LedgerFor
  <2>6. laneOf[ledger'[v]] = laneOf[v]
    BY <2>2, <2>5 DEF LedgersPass
  <2> QED
    BY <2>3, <2>4, <2>6 DEF Turn, NoTurn
<1> QED
  BY <1>1, <1>2

(* A charge that is owed was so before, unless its call has just begun.     *)
LEMMA OwedBefore ==
    ASSUME CancelInv, SentOnce, [Next]_vars, NEW c \in Call, Owed(c)'
    PROVE  Owed(c) \/ StartCall(c[1])
<1>0. BillingMove
  BY BillingMoves
<1>1. call[c] \in {"inflight", "committed"} \/ StartCall(c[1])
  BY <1>0 DEF BillingMove, CallMove, Owed
<1>2. c \notin lost
  BY <1>0 DEF BillingMove, Owed
<1>3. ASSUME NEW t \in Turn, c \in sent[t]
      PROVE  FALSE
  <2>1. sent'[t] # sent[t]
    BY <1>3 DEF Owed
  <2>2. pc[t] \in {"sending", "tailing"}
    BY <1>0, <2>1 DEF BillingMove, SentMove
  <2> QED
    BY <1>3, <2>2 DEF SentOnce
<1> QED
  BY <1>1, <1>2, <1>3 DEF Owed

(* What is settled on a ledger of a running turn's lane stays settled until *)
(* the turn itself makes a call.                                            *)
LEMMA SettledKept ==
    ASSUME CancelInv, NoTrace, LedgersPass, SentOnce, [Next]_vars, NEW t \in Turn,
           pc[t] \in Running, ~PrepareTurnMessages(t), ~StartCall(t),
           NEW b \in Turn, laneOf[b] = laneOf[t]
    PROVE  /\ Pending(b) = {} => Pending(b)' = {} /\ Billed(b)' = Billed(b)
           /\ NothingOwed(b) => NothingOwed(b)'
<1>1. ASSUME NEW c \in Call
      PROVE  ledger'[c[1]] = b <=> ledger[c[1]] = b
  <2>1. c[1] \in Turn
    BY DEF Call
  <2> QED
    BY <2>1, LedgerKept
<1>2. ASSUME NEW c \in Call, ledger[c[1]] = b
      PROVE  ~StartCall(c[1])
  <2>1. c[1] \in Turn /\ b # NoTurn
    BY DEF Call, Turn, NoTurn
  <2>2. laneOf[c[1]] = laneOf[b]
    BY <1>2, <2>1, Zenon DEF LedgersPass, Heir, Inherits, SameLane
  <2>3. StartCall(c[1]) => pc[c[1]] \in Running
    BY DEF StartCall, Running
  <2> QED
    BY <2>1, <2>2, <2>3, OnlyRunner
<1>3. ASSUME NEW c \in Call, ledger[c[1]] = b, call[c] # "inflight"
      PROVE  call'[c] = call[c]
  BY <1>2, <1>3, BillingMoves, Zenon DEF BillingMove, CallMove
<1>4. ASSUME Pending(b) = {}
      PROVE  Pending(b)' = {} /\ Billed(b)' = Billed(b)
  <2>1. \A c \in Call : ledger[c[1]] = b => call'[c] = call[c] /\ call[c] # "inflight"
    BY <1>3, <1>4 DEF Pending, OnLedger
  <2> QED
    BY <1>1, <2>1 DEF Pending, Billed, OnLedger
<1>5. ASSUME NothingOwed(b)
      PROVE  NothingOwed(b)'
  <2> SUFFICES ASSUME NEW c \in Call, ledger'[c[1]] = b, Owed(c)'
               PROVE  FALSE
    BY DEF NothingOwed, OnLedger
  <2>1. ledger[c[1]] = b
    BY <1>1
  <2>2. Owed(c)
    BY <1>2, <2>1, OwedBefore
  <2> QED
    BY <1>5, <2>1, <2>2 DEF NothingOwed, OnLedger
<1> QED
  BY <1>4, <1>5

-----------------------------------------------------------------------------
(* Nothing was billed in a fresh scope.                                     *)
LEMMA LedgerInit == Init => LedgersPass /\ SentOnce
<1> SUFFICES ASSUME Init
             PROVE  LedgersPass /\ SentOnce
  OBVIOUS
<1>1. \A l \in LaneObject : lane[l].billing = NoTurn
  BY DEF Init, EmptyLane
<1>2. /\ \A t \in Turn : pc[t] = "free" /\ ledger[t] = NoTurn /\ sent[t] = {} /\ receipt[t] = {}
      /\ \A c \in Call : call[c] = "none"
  BY DEF Init
<1> QED
  BY <1>1, <1>2 DEF LedgersPass, SentOnce, HasCalled

(* What LedgersPass says of the receipts.                                   *)
LEMMA LedgersReachHeirs == LedgersPass => LedgerInherited /\ RepeatOnlyByHeir
<1> SUFFICES ASSUME LedgersPass
             PROVE  LedgerInherited /\ RepeatOnlyByHeir
  OBVIOUS
<1>1. LedgerInherited
  BY DEF LedgersPass, Heir, LedgerInherited
<1>2. ASSUME NEW t \in Turn, NEW u \in Turn, u < t, NEW c \in sent[t] \cap sent[u]
      PROVE  Inherits(t, u)
  <2>1. Heir(t, ledger[c[1]]) /\ Heir(u, ledger[c[1]])
    BY <1>2 DEF LedgersPass
  <2>2. PICK b \in Turn : Heir(t, b) /\ Heir(u, b)
    BY <2>1 DEF Heir
  <2>3. b <= u /\ SameLane(u, b) /\ b < t /\ Inherits(t, b)
    BY <1>2, <2>2 DEF Heir, Inherits, SameLane, Turn
  <2> QED
    BY <1>2, <2>3 DEF Inherits, SameLane, Turn
<1> QED
  BY <1>1, <1>2 DEF RepeatOnlyByHeir

(* LedgerInherited and RepeatOnlyByHeir for every number of turns, lanes,   *)
(* calls and epochs: an ordinary queued wake-up starts with a ledger of its *)
(* own (finishSequence), and a charge is in two receipts only if the second *)
(* sender inherits from the first (UnreportedReceipt).                      *)
THEOREM LedgersPassToHeirs == Spec => [](LedgerInherited /\ RepeatOnlyByHeir)
<1>1. Init => InputInv /\ LedgersPass
  BY InputInit, LedgerInit
<1>2. CancelInv /\ InputInv /\ LedgersPass /\ [Next]_vars => (InputInv /\ LedgersPass)'
  BY InputStep, LedgersPassStep DEF InputInv
<1>3. LedgersPass => LedgerInherited /\ RepeatOnlyByHeir
  BY LedgersReachHeirs
<1> QED
  BY <1>1, <1>2, <1>3, CancelInvHolds, PTL DEF Spec
=============================================================================
