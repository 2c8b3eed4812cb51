---------------------- MODULE ExecutionSequenceProofs ----------------------
(***************************************************************************)
(* Proofs about ExecutionSequence: the type invariant, and LaneFIFO (turns *)
(* of a lane run in arrival order, one at a time) for any number of turns, *)
(* lanes and epochs.                                                       *)
(***************************************************************************)
EXTENDS ExecutionSequence, TLAPS

(* Turns are numbered in the order of reservation, and only a stopped scope *)
(* refuses one.                                                             *)
Numbered ==
    /\ \A t \in Turn : pc[t] = "free" <=> t > last
    /\ \A t \in Turn : pc[t] = "refused" => t \in refused
    /\ \A t \in refused : stopped /\ pc[t] \in {"refused", "done"}

(* A lane's queue holds turns of that lane in arrival order. *)
QueueSorted ==
    \A l \in LaneObject : \A i \in 1 .. Len(lane[l].queue) :
        /\ lane[l].queue[i] <= last
        /\ laneOf[lane[l].queue[i]] = l
        /\ \A j \in 1 .. (i - 1) : lane[l].queue[j] < lane[l].queue[i]

(* Until the scope stops, every turn that is not done is in the queue of    *)
(* its lane.                                                                *)
Queued ==
    ~stopped => \A t \in Turn :
        t <= last /\ pc[t] # "done" =>
            \E i \in 1 .. Len(lane[laneOf[t]].queue) : lane[laneOf[t]].queue[i] = t

(* A turn that may run waits for a turn at least as late as every unfinished*)
(* earlier turn of its lane.                                                *)
WaitsForLatest ==
    \A t \in Turn : t <= last /\ t \notin refused =>
        /\ wait[t] # NoTurn =>
             wait[t] < t /\ laneOf[wait[t]] = laneOf[t] /\ wait[t] \notin refused
        /\ \A u \in Turn :
             u < t /\ laneOf[u] = laneOf[t] /\ pc[u] # "done" =>
                wait[t] # NoTurn /\ u <= wait[t]

(* Whoever is past Wait comes after finished turns only. *)
PredecessorsDone ==
    \A t, u \in Turn :
        /\ pc[t] \in Running \cup {"done"}
        /\ t \notin refused
        /\ u < t
        /\ laneOf[u] = laneOf[t]
        => pc[u] = "done"

(* What makes LaneFIFO inductive.                                           *)
LaneInv == Numbered /\ QueueSorted /\ Queued /\ WaitsForLatest /\ PredecessorsDone

-----------------------------------------------------------------------------
(* After keeps a queue a sequence of turns. *)
LEMMA AfterType ==
    ASSUME NEW q \in Seq(Turn), NEW t
    PROVE  After(q, t) \in Seq(Turn)
<1>1. CASE t \in Elements(q)
  <2> DEFINE i == CHOOSE j \in 1 .. Len(q) : q[j] = t
  <2>1. i \in 1 .. Len(q) /\ q[i] = t
    BY <1>1 DEF Elements
  <2>2. SubSeq(q, i + 1, Len(q)) \in Seq(Turn)
    BY <2>1
  <2> QED
    BY <1>1, <2>2 DEF After
<1>2. CASE t \notin Elements(q)
  BY <1>2 DEF After
<1> QED
  BY <1>1, <1>2

(* Finishing a turn leaves a well-formed lane. *)
LEMMA FinishedLaneType ==
    ASSUME NEW t \in Turn, NEW x \in Lane
    PROVE  FinishedLane(t, x) \in Lane
<1>1. After(x.queue, t) \in Seq(Turn)
  BY AfterType DEF Lane
<1>2. <<>> \in Seq(Turn)
  OBVIOUS
<1> QED
  BY <1>1, <1>2 DEF FinishedLane, Lane, NoTurn

(* The tail of a lane and the turns it can cancel are turns. *)
LEMMA ChainType ==
    ASSUME TypeOK, NEW l \in LaneObject
    PROVE  Tail0(l) \in Turn \cup {NoTurn} /\ Chain(l) \subseteq Turn
<1> DEFINE q == lane[l].queue
<1>1. q \in Seq(Turn) /\ lane[l].active \in Turn \cup {NoTurn}
  BY DEF TypeOK, Lane
<1>2. \A i \in 1 .. Len(q) : q[i] \in Turn
  BY <1>1
<1>3. q # <<>> => Len(q) \in 1 .. Len(q)
  BY <1>1
<1>4. Elements(q) \subseteq Turn
  BY <1>2 DEF Elements
<1> QED
  BY <1>1, <1>2, <1>3, <1>4 DEF Tail0, Chain

(* The steps of a turn that only move it from one place to another keep the *)
(* types; so do all others.                                                 *)
LEMMA TypeStep == TypeOK /\ [Next]_vars => TypeOK'
<1> SUFFICES ASSUME TypeOK, [Next]_vars PROVE TypeOK'
  OBVIOUS
<1> USE ConstantsAssumption
<1>1. ASSUME NEW k \in Key, NEW interrupt \in BOOLEAN,
             ReserveSequenceTurn(k, interrupt)
      PROVE  TypeOK'
  <2> DEFINE t == last + 1
             l == <<k, epoch>>
  <2>1. t \in Turn /\ l \in LaneObject
    BY <1>1 DEF ReserveSequenceTurn, TypeOK, Turn, LaneObject
  <2>2. lane[l] \in Lane
    BY <2>1 DEF TypeOK
  <2>3. Tail0(l) \in Turn \cup {NoTurn} /\ Chain(l) \subseteq Turn
    BY <2>1, ChainType
  <2>4. Append(lane[l].queue, t) \in Seq(Turn)
    BY <2>1, <2>2 DEF Lane
  <2>5. [lane[l] EXCEPT !.queue = Append(@, t)] \in Lane
    BY <2>2, <2>4 DEF Lane
  <2>6. lane' \in [LaneObject -> Lane]
    BY <1>1, <2>1, <2>5 DEF ReserveSequenceTurn, TypeOK
  <2>7. pc' \in [Turn -> PC]
    BY <1>1, <2>1 DEF ReserveSequenceTurn, TypeOK, Goto, PC
  <2>8. cancelled' \subseteq Turn /\ refused' \subseteq Turn
    BY <1>1, <2>1, <2>3 DEF ReserveSequenceTurn, TypeOK
  <2>9. /\ wait' \in [Turn -> Turn \cup {NoTurn}]
        /\ laneOf' \in [Turn -> LaneObject]
        /\ last' \in 0 .. MaxTurn
    BY <1>1, <2>1, <2>3 DEF ReserveSequenceTurn, TypeOK, Predecessor, Turn
  <2> QED
    BY <1>1, <2>6, <2>7, <2>8, <2>9 DEF ReserveSequenceTurn, TypeOK, billVars
<1>2. ASSUME NEW t \in Turn, TurnStep(t)
      PROVE  TypeOK'
  <2>1. CASE StartEvent(t) \/ Wait(t) \/ IgnoreEvent(t) \/ RejectInput(t)
    BY <2>1 DEF StartEvent, Wait, IgnoreEvent, RejectInput, Goto, TypeOK, PC,
                Running, laneVars, billVars
  <2>2. CASE PrepareTurnMessages(t)
    <3> DEFINE l == laneOf[t]
    <3>1. l \in LaneObject /\ lane[l] \in Lane
      BY DEF TypeOK
    <3>2. CarriedTranscript(t, l) \in Seq(Turn)
      BY <3>1 DEF CarriedTranscript, Lane
    <3>3. PromptOf(t, l) \in Prompt
      BY <3>1, <3>2 DEF PromptOf, Prompt, TypeOK
    <3>4. LedgerFor(t, l) \in Turn \cup {NoTurn} /\ PreparedLane(t, l) \in Lane
      BY <3>1, <3>2 DEF Lane, LedgerFor, PreparedLane
    <3>5. CASE Valid(t)
      <4>2. lane' \in [LaneObject -> Lane]
        BY <2>2, <3>1, <3>4, <3>5 DEF PrepareTurnMessages, TypeOK
      <4>4. ledger' \in [Turn -> Turn \cup {NoTurn}]
        BY <2>2, <3>4, <3>5 DEF PrepareTurnMessages, TypeOK
      <4>5. prompt' \in [Turn -> Prompt] /\ history' \subseteq Turn
        BY <2>2, <3>5, <3>3 DEF PrepareTurnMessages, TypeOK
      <4>6. pc' \in [Turn -> PC]
        BY <2>2 DEF PrepareTurnMessages, TypeOK, Goto, PC, Running
      <4> QED
        BY <2>2, <4>2, <4>4, <4>5, <4>6 DEF PrepareTurnMessages, TypeOK
    <3>6. CASE ~Valid(t)
      BY <2>2, <3>6 DEF PrepareTurnMessages, TypeOK, Goto, PC, Running
    <3> QED
      BY <3>5, <3>6
  <2>3. CASE StartCall(t)
    <3>1. call' \in [Call -> {"none", "inflight", "committed", "released"}]
      BY <2>3 DEF StartCall, TypeOK, Call
    <3> QED
      BY <2>3, <3>1 DEF StartCall, Goto, TypeOK, PC, Running, laneVars
  <2>4. CASE ReturnCall(t) \/ EndLoop(t) \/ WaitBilling(t) \/ AwaitDelivery(t)
    BY <2>4 DEF ReturnCall, EndLoop, WaitBilling, AwaitDelivery, Goto, TypeOK,
                PC, Running, laneVars, billVars
  <2>5. CASE Answer(t)
    <3>1. Billed(ledger[t]) \subseteq Call
      BY DEF Billed, OnLedger
    <3>2. /\ history' \subseteq Turn /\ reported' \subseteq Turn
          /\ receipt' \in [Turn -> SUBSET Call] /\ pc' \in [Turn -> PC]
      BY <2>5, <3>1 DEF Answer, NoAnswer, DropAnswer, SendAnswer, Goto, TypeOK,
                        PC, Running
    <3> QED
      BY <2>5, <3>2 DEF Answer, TypeOK, laneVars
  <2>6. CASE SendReply(t) \/ SendReceipt(t)
    <3>1. receipt[t] \subseteq Call
      BY DEF TypeOK
    <3>2. sent' \in [Turn -> SUBSET Call] /\ lost' \subseteq Call /\ pc' \in [Turn -> PC]
      BY <2>6, <3>1 DEF SendReply, SendReceipt, Transmit, Goto, TypeOK, PC, Running
    <3> QED
      BY <2>6, <3>2 DEF SendReply, SendReceipt, Transmit, TypeOK, laneVars
  <2>7. CASE UnreportedReceipt(t)
    <3>1. \A b : Billed(b) \subseteq Call
      BY DEF Billed, OnLedger
    <3>2. receipt' \in [Turn -> SUBSET Call] /\ pc' \in [Turn -> PC]
      BY <2>7, <3>1 DEF UnreportedReceipt, Goto, TypeOK, PC, Running
    <3> QED
      BY <2>7, <3>2 DEF UnreportedReceipt, TypeOK, laneVars
  <2>8. CASE Done(t)
    <3>1. laneOf[t] \in LaneObject /\ lane[laneOf[t]] \in Lane
      BY DEF TypeOK
    <3>2. FinishedLane(t, lane[laneOf[t]]) \in Lane
      BY <3>1, FinishedLaneType
    <3>3. lane' \in [LaneObject -> Lane]
      BY <2>8, <3>1, <3>2 DEF Done, TypeOK
    <3> QED
      BY <2>8, <3>3 DEF Done, Goto, TypeOK, PC, billVars
  <2> QED
    BY <1>2, <2>1, <2>2, <2>3, <2>4, <2>5, <2>6, <2>7, <2>8 DEF TurnStep
<1>3. ASSUME NEW c \in Call, Settle(c)
      PROVE  TypeOK'
  BY <1>3 DEF Settle, TypeOK, laneVars
<1>4. CASE ResetSession
  <2>3. cancelled' \subseteq Turn
    BY <1>4 DEF ResetSession, TypeOK
  <2>4. epoch' \in Epoch
    BY <1>4 DEF ResetSession, TypeOK, Epoch
  <2> QED
    BY <1>4, <2>3, <2>4 DEF ResetSession, TypeOK, laneVars, billVars
<1>5. CASE Stop \/ CloseConnection
  BY <1>5 DEF Stop, CloseConnection, TypeOK, laneVars, billVars
<1>6. CASE UNCHANGED vars
  BY <1>6 DEF vars, TypeOK
<1> QED
  BY <1>1, <1>2, <1>3, <1>4, <1>5, <1>6 DEF Next

(* A fresh scope is well-typed.                                             *)
LEMMA TypeInit == Init => TypeOK
<1> SUFFICES ASSUME Init PROVE TypeOK
  OBVIOUS
<1> USE ConstantsAssumption
<1>1. EmptyLane \in Lane
  BY DEF EmptyLane, Lane, NoTurn
<1>2. <<CHOOSE k \in Key : TRUE, 1>> \in LaneObject
  BY DEF LaneObject, Epoch
<1>3. NoPrompt \in Prompt
  BY DEF NoPrompt, Prompt
<1>4. lane \in [LaneObject -> Lane] /\ laneOf \in [Turn -> LaneObject]
  BY <1>1, <1>2 DEF Init
<1>5. epoch \in Epoch /\ last \in 0 .. MaxTurn
  BY DEF Init, Epoch
<1>6. /\ prompt \in [Turn -> Prompt]
      /\ pc \in [Turn -> PC]
      /\ wait \in [Turn -> Turn \cup {NoTurn}]
      /\ ledger \in [Turn -> Turn \cup {NoTurn}]
  BY <1>3 DEF Init, PC
<1>7. /\ call \in [Call -> {"none", "inflight", "committed", "released"}]
      /\ receipt \in [Turn -> SUBSET Call]
      /\ sent \in [Turn -> SUBSET Call]
  BY DEF Init
<1> QED
  BY <1>4, <1>5, <1>6, <1>7 DEF Init, TypeOK

(* Every variable keeps its type. *)
THEOREM TypeCorrect == Spec => []TypeOK
  BY TypeInit, TypeStep, PTL DEF Spec

-----------------------------------------------------------------------------
(* No turn exists in a fresh scope, so LaneInv holds.                       *)
LEMMA LaneInit == Init => LaneInv
  BY ConstantsAssumption
     DEF Init, LaneInv, Numbered, QueueSorted, Queued, WaitsForLatest,
         PredecessorsDone, EmptyLane, Turn, Running

(* A step that moves turns within the same side of Wait and Done, and       *)
(* leaves the lanes alone, keeps LaneInv.                                   *)
LEMMA LaneStutter ==
    ASSUME TypeOK, LaneInv,
           UNCHANGED <<last, laneOf, wait, refused>>,
           \A l \in LaneObject : lane'[l].queue = lane[l].queue,
           stopped => stopped',
           \A t \in Turn :
              /\ pc'[t] = "free" <=> pc[t] = "free"
              /\ pc'[t] = "done" <=> pc[t] = "done"
              /\ pc'[t] = "refused" <=> pc[t] = "refused"
              /\ pc'[t] \in Running => pc[t] \in Running
    PROVE  LaneInv'
<1>1. Numbered'
  BY DEF LaneInv, Numbered, TypeOK
<1>2. QueueSorted'
  BY DEF LaneInv, QueueSorted
<1>3. Queued'
  BY DEF LaneInv, Queued, TypeOK
<1>4. WaitsForLatest'
  BY DEF LaneInv, WaitsForLatest
<1>5. PredecessorsDone'
  BY DEF LaneInv, PredecessorsDone
<1> QED
  BY <1>1, <1>2, <1>3, <1>4, <1>5 DEF LaneInv

(* Reserving a turn: the tail of the queue is the latest unfinished turn of *)
(* the lane, so the new turn waits for the right one.                       *)
LEMMA LaneReserve ==
    ASSUME TypeOK, LaneInv, NEW k \in Key, NEW interrupt \in BOOLEAN,
           ReserveSequenceTurn(k, interrupt)
    PROVE  LaneInv'
<1> DEFINE n == last + 1
           l == <<k, epoch>>
           q == lane[l].queue
<1>0. /\ n \in Turn /\ l \in LaneObject
      /\ lane[l] \in Lane /\ q \in Seq(Turn)
      /\ last \in Nat
  <2>1. n \in Turn /\ l \in LaneObject /\ last \in Nat
    BY ConstantsAssumption DEF ReserveSequenceTurn, TypeOK, Turn, LaneObject
  <2>2. lane[l] \in Lane
    BY <2>1 DEF TypeOK
  <2> QED
    BY <2>1, <2>2 DEF Lane
<1>1. /\ n \in Turn /\ n = last + 1 /\ l \in LaneObject
      /\ q \in Seq(Turn) /\ q = lane[l].queue
      /\ lane' = [lane EXCEPT ![l].queue = Append(q, n)]
      /\ last' = n
      /\ stopped' = stopped
      /\ refused' = IF stopped THEN refused \cup {n} ELSE refused
  BY <1>0 DEF ReserveSequenceTurn
<1>11. /\ laneOf'[n] = l
       /\ wait'[n] = Tail0(l)
       /\ pc'[n] = IF stopped THEN "refused" ELSE "spawned"
       /\ \A t \in Turn \ {n} :
            pc'[t] = pc[t] /\ laneOf'[t] = laneOf[t] /\ wait'[t] = wait[t]
  BY <1>0 DEF ReserveSequenceTurn, Predecessor, Goto, TypeOK
<1> HIDE DEF n, l, q
<1>12. /\ lane'[l].queue = Append(q, n)
       /\ \A m \in LaneObject \ {l} : lane'[m].queue = lane[m].queue
  BY <1>0, <1>1 DEF TypeOK, Lane
<1>2. Len(q) \in Nat /\ \A i \in 1 .. Len(q) : q[i] \in Turn /\ q[i] <= last
  <2>1. \A i \in 1 .. Len(q) : q[i] <= last
    BY <1>1 DEF LaneInv, QueueSorted
  <2> QED
    BY <1>1, <2>1
<1>3. /\ Len(Append(q, n)) = Len(q) + 1
      /\ \A i \in 1 .. Len(q) : Append(q, n)[i] = q[i]
      /\ Append(q, n)[Len(q) + 1] = n
  BY <1>1
<1>4. last \in Nat /\ n \notin refused /\ pc[n] = "free"
  BY <1>1, <1>11, <1>12 DEF TypeOK, LaneInv, Numbered
<1>5. Numbered'
  BY <1>1, <1>11, <1>12, <1>4 DEF LaneInv, Numbered, TypeOK, Turn
<1>6. QueueSorted'
  <2> SUFFICES ASSUME NEW m \in LaneObject, NEW i \in 1 .. Len(lane'[m].queue)
               PROVE  /\ lane'[m].queue[i] <= last'
                      /\ laneOf'[lane'[m].queue[i]] = m
                      /\ \A j \in 1 .. (i - 1) :
                           lane'[m].queue[j] < lane'[m].queue[i]
    BY DEF QueueSorted
  <2>1. CASE m # l
    <3>1. lane[m].queue \in Seq(Turn)
      BY DEF TypeOK, Lane
    <3>2. lane[m].queue[i] \in Turn /\ lane[m].queue[i] <= last
      BY <1>1, <1>11, <1>12, <2>1, <3>1 DEF LaneInv, QueueSorted
    <3> QED
      BY <1>1, <1>11, <1>12, <1>4, <2>1, <3>2 DEF LaneInv, QueueSorted, Turn, TypeOK
  <2>2. CASE m = l /\ i = Len(q) + 1
    BY <1>1, <1>11, <1>12, <1>2, <1>3, <1>4, <2>2 DEF TypeOK, Turn
  <2>3. CASE m = l /\ i # Len(q) + 1
    <3>1. i \in 1 .. Len(q)
      BY <1>1, <1>11, <1>12, <1>2, <1>3, <2>3
    <3> QED
      BY <1>1, <1>11, <1>12, <1>2, <1>3, <1>4, <2>3, <3>1 DEF LaneInv, QueueSorted, TypeOK, Turn
  <2> QED
    BY <2>1, <2>2, <2>3
<1>7. Queued'
  <2> SUFFICES ASSUME ~stopped, NEW t \in Turn, t <= n, pc'[t] # "done"
               PROVE  \E i \in 1 .. Len(lane'[laneOf'[t]].queue) :
                          lane'[laneOf'[t]].queue[i] = t
    BY <1>1, <1>11, <1>12 DEF Queued
  <2>1. CASE t = n
    <3>1. Len(q) + 1 \in 1 .. Len(lane'[laneOf'[t]].queue)
      BY <1>11, <1>12, <1>2, <1>3, <2>1
    <3>2. lane'[laneOf'[t]].queue[Len(q) + 1] = t
      BY <1>11, <1>12, <1>3, <2>1
    <3> QED
      BY <3>1, <3>2
  <2>2. CASE t # n
    <3>1. t <= last /\ pc[t] # "done" /\ laneOf'[t] = laneOf[t]
      BY <1>1, <1>11, <1>12, <1>4, <2>2 DEF TypeOK, Turn
    <3>2. PICK i \in 1 .. Len(lane[laneOf[t]].queue) : lane[laneOf[t]].queue[i] = t
      BY <3>1 DEF LaneInv, Queued
    <3>3. laneOf[t] \in LaneObject
      BY DEF TypeOK
    <3> QED
      BY <1>1, <1>11, <1>12, <1>2, <1>3, <3>1, <3>2, <3>3
  <2> QED
    BY <2>1, <2>2
<1>8. WaitsForLatest'
  <2> SUFFICES ASSUME NEW t \in Turn, t <= n, t \notin refused'
               PROVE  /\ wait'[t] # NoTurn =>
                            /\ wait'[t] < t
                            /\ laneOf'[wait'[t]] = laneOf'[t]
                            /\ wait'[t] \notin refused'
                      /\ \A u \in Turn :
                            u < t /\ laneOf'[u] = laneOf'[t] /\ pc'[u] # "done" =>
                               wait'[t] # NoTurn /\ u <= wait'[t]
    BY <1>1, <1>11, <1>12 DEF WaitsForLatest
  <2>1. CASE t = n
    <3>1. ~stopped /\ refused = {} /\ refused' = {}
      BY <1>1, <1>11, <1>12, <2>1 DEF LaneInv, Numbered
    <3>2. ASSUME wait'[t] # NoTurn
          PROVE  wait'[t] < t /\ laneOf'[wait'[t]] = laneOf'[t]
      <4>1. q # <<>> /\ wait'[t] = q[Len(q)] /\ Len(q) \in 1 .. Len(q)
        BY <1>1, <1>11, <1>12, <1>2, <2>1, <3>2 DEF Tail0, TypeOK
      <4>2. q[Len(q)] \in Turn /\ q[Len(q)] <= last /\ laneOf[q[Len(q)]] = l
        BY <1>1, <1>11, <1>12, <1>2, <4>1 DEF LaneInv, QueueSorted
      <4> QED
        BY <1>1, <1>11, <1>12, <1>4, <2>1, <4>1, <4>2 DEF TypeOK, Turn
    <3>3. ASSUME NEW u \in Turn, u < t, laneOf'[u] = laneOf'[t], pc'[u] # "done"
          PROVE  wait'[t] # NoTurn /\ u <= wait'[t]
      <4>1. u <= last /\ pc[u] # "done" /\ laneOf[u] = l
        BY <1>1, <1>11, <1>12, <1>4, <2>1, <3>3 DEF TypeOK, Turn
      <4>2. PICK i \in 1 .. Len(q) : q[i] = u
        BY <1>1, <3>1, <4>1 DEF LaneInv, Queued
      <4>3. Len(q) \in 1 .. Len(q) /\ q # <<>>
        BY <1>1, <1>11, <1>12, <1>2, <4>2
      <4>4. i = Len(q) \/ q[i] < q[Len(q)]
        BY <1>1, <1>11, <1>12, <1>2, <4>2, <4>3 DEF LaneInv, QueueSorted
      <4> QED
        <5>1. wait'[t] = q[Len(q)]
          BY <1>1, <1>11, <2>1, <4>3 DEF Tail0
        <5>2. q[Len(q)] \in Turn
          BY <1>2, <4>3
        <5> QED
          BY <4>2, <4>4, <5>1, <5>2 DEF Turn, NoTurn
    <3> QED
      BY <3>1, <3>2, <3>3
  <2>2. CASE t # n
    <3>1. t <= last /\ t \notin refused
      BY <1>1, <1>11, <1>12, <1>4, <2>2 DEF Turn
    <3>2. wait[t] # NoTurn => wait[t] \in Turn /\ wait[t] < t
      BY <3>1 DEF LaneInv, WaitsForLatest, TypeOK
    <3>3. wait'[t] = wait[t] /\ laneOf'[t] = laneOf[t]
      BY <1>1, <1>11, <1>12, <2>2 DEF TypeOK
    <3>4. wait[t] # NoTurn => laneOf'[wait[t]] = laneOf[wait[t]] /\ wait[t] # n
      BY <1>1, <1>11, <1>12, <1>4, <3>1, <3>2 DEF TypeOK, Turn
    <3>5. \A u \in Turn : u < t => laneOf'[u] = laneOf[u] /\ pc'[u] = pc[u]
      BY <1>1, <1>11, <1>12, <1>4, <3>1 DEF TypeOK, Turn
    <3>6. wait[t] # NoTurn => wait[t] \notin refused'
      BY <1>1, <1>11, <1>12, <3>1, <3>4 DEF LaneInv, WaitsForLatest
    <3> QED
      BY <3>1, <3>3, <3>4, <3>5, <3>6 DEF LaneInv, WaitsForLatest
  <2> QED
    BY <2>1, <2>2
<1>9. PredecessorsDone'
  <2> SUFFICES ASSUME NEW t \in Turn, NEW u \in Turn,
                      pc'[t] \in Running \cup {"done"}, t \notin refused',
                      u < t, laneOf'[u] = laneOf'[t]
               PROVE  pc'[u] = "done"
    BY DEF PredecessorsDone
  <2>1. t # n
    BY <1>1, <1>11, <1>12 DEF TypeOK, Running
  <2>2. pc[t] = pc'[t] /\ t <= last /\ t \notin refused
    BY <1>1, <1>11, <1>12, <1>4, <2>1 DEF TypeOK, LaneInv, Numbered, Running, Turn
  <2>3. u # n /\ laneOf'[u] = laneOf[u] /\ laneOf'[t] = laneOf[t]
    BY <1>1, <1>11, <1>12, <1>4, <2>1, <2>2 DEF TypeOK, Turn
  <2> QED
    <3>1. pc[u] = "done"
      BY <2>2, <2>3 DEF LaneInv, PredecessorsDone
    <3> QED
      BY <1>11, <2>3, <3>1
<1> QED
  BY <1>5, <1>6, <1>7, <1>8, <1>9 DEF LaneInv

(* After cuts a prefix off a queue, and in a sorted one nothing later than  *)
(* the finished turn is cut.                                                *)
LEMMA AfterSuffix ==
    ASSUME NEW q \in Seq(Turn), NEW t \in Turn,
           \A i \in 1 .. Len(q) : \A j \in 1 .. (i - 1) : q[j] < q[i]
    PROVE  \E d \in 0 .. Len(q) :
              /\ Len(After(q, t)) = Len(q) - d
              /\ \A i \in 1 .. (Len(q) - d) : After(q, t)[i] = q[i + d]
              /\ \A i \in 1 .. Len(q) : q[i] > t => i > d
<1>0. Len(q) \in Nat /\ \A i \in 1 .. Len(q) : q[i] \in Int
  <2>1. Len(q) \in Nat /\ \A i \in 1 .. Len(q) : q[i] \in Turn
    OBVIOUS
  <2>2. Turn \subseteq Int
    BY DEF Turn
  <2> QED
    BY <2>1, <2>2
<1>1. CASE t \in Elements(q)
  <2> DEFINE d == CHOOSE j \in 1 .. Len(q) : q[j] = t
  <2>1. d \in 1 .. Len(q) /\ q[d] = t
    BY <1>1 DEF Elements
  <2>2. After(q, t) = SubSeq(q, d + 1, Len(q))
    BY <1>1 DEF After
  <2> HIDE DEF d
  <2>3. /\ Len(SubSeq(q, d + 1, Len(q))) = Len(q) - d
        /\ \A i \in 1 .. (Len(q) - d) : SubSeq(q, d + 1, Len(q))[i] = q[i + d]
    BY <1>0, <2>1
  <2>4. ASSUME NEW i \in 1 .. Len(q), q[i] > t
        PROVE  i > d
    <3>1. CASE i < d
      <4>1. q[i] < q[d]
        BY <1>0, <2>1, <3>1
      <4> QED
        BY <1>0, <2>1, <2>4, <4>1 DEF Turn
    <3>2. CASE i = d
      BY <2>1, <2>4, <3>2 DEF Turn
    <3> QED
      BY <1>0, <2>1, <3>1, <3>2
  <2> QED
    BY <1>0, <2>1, <2>2, <2>3, <2>4
<1>2. CASE t \notin Elements(q)
  <2>1. After(q, t) = q
    BY <1>2 DEF After
  <2>2. 0 \in 0 .. Len(q) /\ Len(q) = Len(q) - 0
    BY <1>0
  <2>3. \A i \in 1 .. (Len(q) - 0) : q[i] = q[i + 0]
    BY <1>0
  <2>4. \A i \in 1 .. Len(q) : i > 0
    BY <1>0
  <2> QED
    BY <2>1, <2>2, <2>3, <2>4
<1> QED
  BY <1>1, <1>2

(* Leaving Wait: everything the turn had to wait for is done. *)
LEMMA LaneWait ==
    ASSUME TypeOK, LaneInv, NEW t \in Turn, Wait(t)
    PROVE  LaneInv'
<1>1. /\ pc[t] = "waiting"
      /\ pc'[t] \in {"admitted", "closing"}
      /\ \A u \in Turn \ {t} : pc'[u] = pc[u]
      /\ UNCHANGED <<last, lane, laneOf, wait, refused, stopped>>
  BY DEF Wait, Goto, TypeOK, laneVars
<1>2. t <= last /\ t \notin refused
  BY <1>1 DEF LaneInv, Numbered, TypeOK, Turn
<1>3. \A u \in Turn : u < t /\ laneOf[u] = laneOf[t] => pc[u] = "done"
  <2> SUFFICES ASSUME NEW u \in Turn, u < t, laneOf[u] = laneOf[t], pc[u] # "done"
               PROVE  FALSE
    OBVIOUS
  <2> DEFINE w == wait[t]
  <2>1. w # NoTurn /\ u <= w /\ w < t /\ laneOf[w] = laneOf[t] /\ w \notin refused
    BY <1>2 DEF LaneInv, WaitsForLatest
  <2>2. w \in Turn /\ pc[w] = "done"
    BY <2>1 DEF Wait, TypeOK
  <2>3. u < w
    BY <2>1, <2>2 DEF Turn
  <2> QED
    BY <2>1, <2>2, <2>3 DEF LaneInv, PredecessorsDone
<1>4. Numbered'
  BY <1>1, <1>2 DEF LaneInv, Numbered, TypeOK, Turn
<1>5. QueueSorted'
  BY <1>1 DEF LaneInv, QueueSorted
<1>6. Queued'
  BY <1>1 DEF LaneInv, Queued
<1>7. WaitsForLatest'
  BY <1>1 DEF LaneInv, WaitsForLatest
<1>8. PredecessorsDone'
  BY <1>1, <1>3 DEF LaneInv, PredecessorsDone
<1> QED
  BY <1>4, <1>5, <1>6, <1>7, <1>8 DEF LaneInv

(* Finishing a turn: only earlier turns, done already, leave the queue with *)
(* it, unless the scope is stopped.                                         *)
LEMMA LaneDone ==
    ASSUME TypeOK, LaneInv, NEW t \in Turn, Done(t)
    PROVE  LaneInv'
<1> DEFINE l == laneOf[t]
           q == lane[l].queue
<1>0. l \in LaneObject /\ q \in Seq(Turn) /\ q = lane[l].queue /\ l = laneOf[t]
  BY DEF TypeOK, Lane
<1>1. /\ pc[t] \in {"closing", "refused"}
      /\ pc'[t] = "done"
      /\ \A u \in Turn \ {t} : pc'[u] = pc[u]
      /\ UNCHANGED <<last, laneOf, wait, refused, stopped>>
  BY DEF Done, Goto, TypeOK
<1>2. /\ lane'[l].queue = After(q, t)
      /\ \A m \in LaneObject \ {l} : lane'[m].queue = lane[m].queue
  BY <1>0 DEF Done, FinishedLane, TypeOK
<1> HIDE DEF l, q
<1>3. Len(q) \in Nat /\ \A i \in 1 .. Len(q) :
         /\ q[i] \in Turn /\ q[i] <= last /\ laneOf[q[i]] = l
         /\ \A j \in 1 .. (i - 1) : q[j] < q[i]
  <2>1. \A i \in 1 .. Len(q) :
           /\ q[i] <= last /\ laneOf[q[i]] = l
           /\ \A j \in 1 .. (i - 1) : q[j] < q[i]
    BY <1>0 DEF LaneInv, QueueSorted
  <2> QED
    BY <1>0, <2>1
<1>4. PICK d \in 0 .. Len(q) :
         /\ Len(After(q, t)) = Len(q) - d
         /\ \A i \in 1 .. (Len(q) - d) : After(q, t)[i] = q[i + d]
         /\ \A i \in 1 .. Len(q) : q[i] > t => i > d
  BY <1>0, <1>3, AfterSuffix
<1>5. Numbered'
  <2>1. t <= last
    BY <1>1 DEF LaneInv, Numbered, TypeOK, Turn
  <2> QED
    BY <1>1, <2>1 DEF LaneInv, Numbered, TypeOK, Turn
<1>6. QueueSorted'
  <2> SUFFICES ASSUME NEW m \in LaneObject, NEW i \in 1 .. Len(lane'[m].queue)
               PROVE  /\ lane'[m].queue[i] <= last
                      /\ laneOf[lane'[m].queue[i]] = m
                      /\ \A j \in 1 .. (i - 1) :
                           lane'[m].queue[j] < lane'[m].queue[i]
    BY <1>1 DEF QueueSorted
  <2>1. CASE m # l
    BY <1>2, <2>1 DEF LaneInv, QueueSorted
  <2>2. CASE m = l
    <3>1. i \in 1 .. (Len(q) - d) /\ lane'[m].queue[i] = q[i + d]
      BY <1>2, <1>3, <1>4, <2>2
    <3>2. i + d \in 1 .. Len(q)
      BY <1>3, <1>4, <3>1
    <3>3. \A j \in 1 .. (i - 1) :
             /\ lane'[m].queue[j] = q[j + d]
             /\ j + d \in 1 .. ((i + d) - 1)
      BY <1>2, <1>3, <1>4, <2>2, <3>1
    <3> QED
      BY <1>3, <2>2, <3>1, <3>2, <3>3
  <2> QED
    BY <2>1, <2>2
<1>7. Queued'
  <2> SUFFICES ASSUME ~stopped, NEW u \in Turn, u <= last, pc'[u] # "done"
               PROVE  \E i \in 1 .. Len(lane'[laneOf[u]].queue) :
                          lane'[laneOf[u]].queue[i] = u
    BY <1>1 DEF Queued
  <2>1. u # t /\ pc[u] # "done" /\ laneOf[u] \in LaneObject
    BY <1>1 DEF TypeOK
  <2>2. PICK i \in 1 .. Len(lane[laneOf[u]].queue) : lane[laneOf[u]].queue[i] = u
    BY <2>1 DEF LaneInv, Queued
  <2>3. CASE laneOf[u] # l
    BY <1>2, <2>1, <2>2, <2>3
  <2>4. CASE laneOf[u] = l
    <3>1. pc[t] \in Running /\ t \notin refused
      BY <1>1 DEF LaneInv, Numbered, Running
    <3>2. u > t
      BY <1>0, <2>1, <2>4, <3>1 DEF LaneInv, PredecessorsDone, Turn
    <3>3. i \in 1 .. Len(q) /\ q[i] = u
      BY <1>0, <2>2, <2>4
    <3>4. i > d
      BY <1>4, <3>2, <3>3
    <3>5. i - d \in 1 .. (Len(q) - d) /\ q[(i - d) + d] = u
      BY <1>3, <1>4, <3>3, <3>4
    <3> QED
      BY <1>2, <1>4, <2>4, <3>5
  <2> QED
    BY <2>3, <2>4
<1>8. WaitsForLatest'
  BY <1>1 DEF LaneInv, WaitsForLatest
<1>9. PredecessorsDone'
  <2> SUFFICES ASSUME NEW v \in Turn, NEW u \in Turn,
                      pc'[v] \in Running \cup {"done"}, v \notin refused,
                      u < v, laneOf[u] = laneOf[v]
               PROVE  pc'[u] = "done"
    BY <1>1 DEF PredecessorsDone
  <2>1. pc[v] \in Running \cup {"done"}
    BY <1>1 DEF LaneInv, Numbered, Running
  <2>2. pc[u] = "done"
    BY <2>1 DEF LaneInv, PredecessorsDone
  <2> QED
    BY <1>1, <2>2
<1> QED
  BY <1>5, <1>6, <1>7, <1>8, <1>9 DEF LaneInv

(* Reserve, Wait and Done keep LaneInv; no other step moves a lane.         *)
LEMMA LaneStep == TypeOK /\ LaneInv /\ [Next]_vars => LaneInv'
<1> SUFFICES ASSUME TypeOK, LaneInv, [Next]_vars PROVE LaneInv'
  OBVIOUS
<1>1. ASSUME NEW k \in Key, NEW interrupt \in BOOLEAN,
             ReserveSequenceTurn(k, interrupt)
      PROVE  LaneInv'
  BY <1>1, LaneReserve
<1>2. ASSUME NEW t \in Turn, TurnStep(t)
      PROVE  LaneInv'
  <2>1. CASE Wait(t)
    BY <2>1, LaneWait
  <2>2. CASE Done(t)
    BY <2>2, LaneDone
  <2>3. CASE StartEvent(t)
    BY <2>3, LaneStutter DEF StartEvent, Goto, TypeOK, laneVars, Running
  <2>4. CASE PrepareTurnMessages(t)
    <3>1. \A l \in LaneObject : lane'[l].queue = lane[l].queue
      BY <2>4 DEF PrepareTurnMessages, PreparedLane, TypeOK
    <3> QED
      BY <2>4, <3>1, LaneStutter DEF PrepareTurnMessages, Goto, TypeOK, Running
  <2>5. CASE IgnoreEvent(t) \/ RejectInput(t) \/ ReturnCall(t) \/ EndLoop(t)
             \/ WaitBilling(t) \/ AwaitDelivery(t)
    BY <2>5, LaneStutter
       DEF IgnoreEvent, RejectInput, ReturnCall, EndLoop, WaitBilling,
           AwaitDelivery, Goto, TypeOK, laneVars, Running
  <2>6. CASE StartCall(t) \/ Answer(t) \/ UnreportedReceipt(t)
    BY <2>6, LaneStutter
       DEF StartCall, Answer, NoAnswer, DropAnswer, SendAnswer,
           UnreportedReceipt, Goto, TypeOK, laneVars, Running
  <2>7. CASE SendReply(t) \/ SendReceipt(t)
    BY <2>7, LaneStutter
       DEF SendReply, SendReceipt, Transmit, Goto, TypeOK, laneVars, Running
  <2> QED
    BY <1>2, <2>1, <2>2, <2>3, <2>4, <2>5, <2>6, <2>7 DEF TurnStep
<1>3. ASSUME NEW c \in Call, Settle(c)
      PROVE  LaneInv'
  BY <1>3, LaneStutter DEF Settle, laneVars
<1>4. CASE ResetSession \/ Stop \/ CloseConnection
  BY <1>4, LaneStutter DEF ResetSession, Stop, CloseConnection, laneVars
<1>5. CASE UNCHANGED vars
  BY <1>5, LaneStutter DEF vars
<1> QED
  BY <1>1, <1>2, <1>3, <1>4, <1>5 DEF Next

(* LaneFIFO for every number of turns, lanes and epochs: a turn that is     *)
(* past Wait finds all earlier turns of its lane done.                      *)
THEOREM TurnsRunInOrder == Spec => []LaneFIFO
<1>1. Init => TypeOK /\ LaneInv
  BY TypeInit, LaneInit
<1>2. TypeOK /\ LaneInv /\ [Next]_vars => (TypeOK /\ LaneInv)'
  BY TypeStep, LaneStep
<1>3. TypeOK /\ LaneInv => LaneFIFO
  BY DEF LaneInv, PredecessorsDone, Numbered, LaneFIFO, SameLane, Running
<1> QED
  BY <1>1, <1>2, <1>3, PTL DEF Spec
=============================================================================
