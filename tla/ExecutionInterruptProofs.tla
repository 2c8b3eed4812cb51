---------------------- MODULE ExecutionInterruptProofs ----------------------
(***************************************************************************)
(* Whom an interrupt or a reset of the session cancels, for any number of  *)
(* turns, lanes and epochs: until the scope stops, every unfinished turn   *)
(* of an earlier epoch is, so nothing is sent for one (NoStaleSend). The   *)
(* lemmas at the end say who inherits along a lane, and that this is       *)
(* settled once the heir has passed Wait.                                  *)
(***************************************************************************)
EXTENDS ExecutionSequenceProofs

(* A turn that was let through Wait, and is past the place where it may     *)
(* prepare its messages.                                                    *)
Passed(t) == pc[t] \in (Running \ {"admitted"}) \cup {"done"} /\ t \notin refused

(* The turns that have passed Wait.                                         *)
AllPassed == {t \in Turn : Passed(t)}

(* Whoever is reserved after a refused turn is refused too; a turn belongs  *)
(* to an epoch that has begun; only finished turns have handed on.          *)
Reserved ==
    /\ \A t \in refused, u \in Turn : t < u /\ u <= last => u \in refused
    /\ \A t \in Turn : t <= last => laneOf[t][2] <= epoch
    /\ \A t \in Turn : t \in handed => pc[t] = "done"
    /\ \A t \in Turn : t \in cancelled => t <= last
    /\ \A l \in LaneObject :
         lane[l].active # NoTurn => lane[l].active <= last /\ laneOf[lane[l].active] = l

(* Until the scope stops, the turns of an earlier epoch and the finished    *)
(* ones are cancelled, and whoever is cancelled in the current epoch is no  *)
(* longer the last of its lane.                                             *)
Cancelled ==
    /\ \A t \in Turn : pc[t] = "done" => t \in cancelled
    /\ ~stopped => \A t \in Turn :
         /\ t <= last /\ ~Valid(t) => t \in cancelled
         /\ t \in cancelled /\ Valid(t) /\ pc[t] # "done" => Tail0(laneOf[t]) > t

(* What makes NoStaleSend inductive.                                        *)
CancelInv == TypeOK /\ LaneInv /\ Reserved /\ Cancelled

-----------------------------------------------------------------------------
(* The steps that leave the lanes and what they hold alone.                 *)
QuietStep(t) ==
    \/ StartEvent(t) \/ Wait(t) \/ IgnoreEvent(t) \/ RejectInput(t)
    \/ StartCall(t) \/ ReturnCall(t) \/ EndLoop(t) \/ WaitBilling(t)
    \/ Answer(t) \/ SendReply(t) \/ AwaitDelivery(t) \/ UnreportedReceipt(t)
    \/ SendReceipt(t)

(* What such a step leaves as it is.                                        *)
Quiet ==
    /\ UNCHANGED <<epoch, last, lane, laneOf, cancelled, refused, handed, prompt, ledger>>
    /\ history' \subseteq history
    /\ stopped => stopped'
    /\ closed => closed'
    /\ ignored \subseteq ignored'
    /\ \A t \in Turn :
         /\ pc'[t] = "done" <=> pc[t] = "done"
         /\ Passed(t) => Passed(t)'

(* The loop, the answer and the receipts of a turn leave the lanes alone.   *)
LEMMA QuietStepIsQuiet ==
    ASSUME TypeOK, LaneInv, NEW t \in Turn, QuietStep(t)
    PROVE  Quiet
<1>1. CASE StartEvent(t) \/ Wait(t) \/ IgnoreEvent(t) \/ RejectInput(t)
  BY <1>1 DEF StartEvent, Wait, IgnoreEvent, RejectInput, Quiet, Goto, TypeOK, laneVars,
              billVars, Passed, Running, LaneInv, Numbered
<1>2. CASE StartCall(t) \/ ReturnCall(t) \/ EndLoop(t) \/ WaitBilling(t) \/ AwaitDelivery(t)
  BY <1>2 DEF StartCall, ReturnCall, EndLoop, WaitBilling, AwaitDelivery, Quiet, Goto,
              TypeOK, laneVars, billVars, Passed, Running
<1>3. CASE Answer(t)
  BY <1>3 DEF Answer, NoAnswer, DropAnswer, SendAnswer, Quiet, Goto, TypeOK, laneVars,
              Passed, Running
<1>4. CASE SendReply(t) \/ SendReceipt(t)
  BY <1>4 DEF SendReply, SendReceipt, Transmit, Quiet, Goto, TypeOK, laneVars,
              Passed, Running
<1>5. CASE UnreportedReceipt(t)
  BY <1>5 DEF UnreportedReceipt, Quiet, Goto, TypeOK, laneVars, Passed, Running
<1> QED
  BY <1>1, <1>2, <1>3, <1>4, <1>5 DEF QuietStep

(* Every step is one of these. *)
LEMMA StepCases ==
    ASSUME TypeOK, LaneInv, [Next]_vars
    PROVE  \/ \E k \in Key, interrupt \in BOOLEAN : ReserveSequenceTurn(k, interrupt)
           \/ \E t \in Turn : PrepareTurnMessages(t)
           \/ \E t \in Turn : Done(t)
           \/ ResetSession
           \/ Quiet
<1>1. CASE \E t \in Turn : QuietStep(t)
  BY <1>1, QuietStepIsQuiet
<1>2. CASE \E c \in Call : Settle(c)
  BY <1>2 DEF Settle, Quiet, laneVars, Passed
<1>3. CASE Stop \/ CloseConnection \/ UNCHANGED vars
  BY <1>3 DEF Stop, CloseConnection, vars, Quiet, laneVars, billVars, Passed
<1> QED
  BY <1>1, <1>2, <1>3 DEF Next, TurnStep, QuietStep

(* A stop and the end of a connection are never undone.                     *)
LEMMA EndsAreFinal ==
    ASSUME TypeOK, LaneInv, [Next]_vars
    PROVE  (stopped => stopped') /\ (closed => closed')
<1>1. stopped => stopped'
  BY StepCases, Zenon DEF ReserveSequenceTurn, PrepareTurnMessages, Done, ResetSession, Quiet
<1>2. closed => closed'
  BY StepCases, Zenon DEF ReserveSequenceTurn, PrepareTurnMessages, Done, ResetSession, Quiet
<1> QED
  BY <1>1, <1>2

(* What a reservation changes.                                              *)
LEMMA ReserveEffect ==
    ASSUME TypeOK, LaneInv, NEW k \in Key, NEW interrupt \in BOOLEAN,
           ReserveSequenceTurn(k, interrupt)
    PROVE  LET n == last + 1
               l == <<k, epoch>>
           IN  /\ n \in Turn /\ last \in Nat /\ l \in LaneObject
               /\ last' = n /\ laneOf'[n] = l
               /\ pc[n] = "free" /\ pc'[n] \in {"refused", "spawned"}
               /\ pc'[n] = "refused" <=> stopped
               /\ refused' = IF stopped THEN refused \cup {n} ELSE refused
               /\ \A t \in Turn \ {n} : laneOf'[t] = laneOf[t] /\ pc'[t] = pc[t]
               /\ \A m \in LaneObject : /\ lane'[m].active = lane[m].active
                                        /\ lane'[m].transcript = lane[m].transcript
                                        /\ lane'[m].messageIDs = lane[m].messageIDs
                                        /\ lane'[m].billing = lane[m].billing
               /\ lane'[l].queue = Append(lane[l].queue, n)
               /\ \A m \in LaneObject \ {l} : lane'[m] = lane[m]
               /\ cancelled' = IF interrupt THEN cancelled \cup Chain(l) ELSE cancelled
               /\ n \notin refused
               /\ UNCHANGED <<epoch, history, prompt, handed, billVars, stopped, closed>>
<1> DEFINE n == last + 1
           l == <<k, epoch>>
<1>1. n \in Turn /\ last \in Nat /\ l \in LaneObject
  BY ConstantsAssumption DEF ReserveSequenceTurn, TypeOK, Turn, LaneObject
<1>2. pc[n] = "free" /\ n \notin refused
  BY <1>1 DEF LaneInv, Numbered, TypeOK, Turn
<1>3. lane[l] \in Lane
  BY <1>1 DEF TypeOK
<1>4. lane' = [lane EXCEPT ![l].queue = Append(@, n)]
  BY DEF ReserveSequenceTurn
<1>5. /\ \A m \in LaneObject : /\ lane'[m].active = lane[m].active
                               /\ lane'[m].transcript = lane[m].transcript
                               /\ lane'[m].messageIDs = lane[m].messageIDs
                               /\ lane'[m].billing = lane[m].billing
      /\ lane'[l].queue = Append(lane[l].queue, n)
      /\ \A m \in LaneObject \ {l} : lane'[m] = lane[m]
  BY <1>1, <1>3, <1>4, Zenon DEF TypeOK, Lane
<1> QED
  BY <1>1, <1>2, <1>5, Zenon DEF ReserveSequenceTurn, Goto, TypeOK

(* What finishing a turn changes.                                           *)
LEMMA DoneEffect ==
    ASSUME TypeOK, LaneInv, NEW t \in Turn, Done(t)
    PROVE  LET l == laneOf[t] IN
           /\ l \in LaneObject
           /\ pc[t] \in {"closing", "refused"} /\ pc'[t] = "done"
           /\ pc[t] = "closing" <=> t \notin refused
           /\ \A u \in Turn \ {t} : pc'[u] = pc[u]
           /\ lane'[l] = FinishedLane(t, lane[l])
           /\ \A m \in LaneObject \ {l} : lane'[m] = lane[m]
           /\ handed' = IF Hands(t) THEN handed \cup {t} ELSE handed
           /\ cancelled' = cancelled \cup {t}
           /\ UNCHANGED <<epoch, history, last, laneOf, wait, refused, prompt,
                          billVars, stopped, closed>>
  BY DEF Done, Goto, TypeOK, LaneInv, Numbered

(* What preparing the messages of a turn changes.                           *)
LEMMA PrepareEffect ==
    ASSUME TypeOK, LaneInv, NEW t \in Turn, PrepareTurnMessages(t)
    PROVE  LET l == laneOf[t] IN
           /\ l \in LaneObject
           /\ pc[t] = "admitted" /\ pc'[t] = "thinking" /\ t \notin refused
           /\ \A u \in Turn \ {t} : /\ pc'[u] = pc[u] /\ prompt'[u] = prompt[u]
                                    /\ ledger'[u] = ledger[u]
           /\ ~Valid(t) => /\ ledger'[t] = t
                           /\ UNCHANGED <<history, prompt, lane>>
           /\ Valid(t) => /\ history' = history \cup {t}
                          /\ prompt'[t] = PromptOf(t, l)
                          /\ lane'[l] = PreparedLane(t, l)
                          /\ \A m \in LaneObject \ {l} : lane'[m] = lane[m]
                          /\ ledger'[t] = LedgerFor(t, l)
           /\ UNCHANGED <<epoch, last, laneOf, wait, cancelled, refused, handed, call,
                          reported, receipt, sent, lost, ignored, stopped, closed>>
<1>1. pc[t] = "admitted" /\ t \notin refused
  BY DEF PrepareTurnMessages, LaneInv, Numbered
<1>2. laneOf[t] \in LaneObject
  BY DEF TypeOK
<1> QED
  BY <1>1, <1>2 DEF PrepareTurnMessages, Goto, TypeOK

-----------------------------------------------------------------------------
(* Every step keeps Reserved.                                               *)
LEMMA ReservedStep ==
    TypeOK /\ LaneInv /\ Reserved /\ [Next]_vars => Reserved'
<1> SUFFICES ASSUME TypeOK, LaneInv, Reserved, [Next]_vars PROVE Reserved'
  OBVIOUS
<1>1. ASSUME NEW k \in Key, NEW interrupt \in BOOLEAN, ReserveSequenceTurn(k, interrupt)
      PROVE  Reserved'
  <2> DEFINE n == last + 1
             l == <<k, epoch>>
  <2>0. LET e == epoch IN l \in LaneObject /\ l[2] = e /\ epoch \in Int
    BY <1>1, ReserveEffect DEF TypeOK, Epoch
  <2>1. \A t \in refused' : \A u \in Turn : t < u /\ u <= last' => u \in refused'
    <3> SUFFICES ASSUME NEW t \in refused', NEW u \in Turn, t < u, u <= last'
                 PROVE  u \in refused'
      OBVIOUS
    <3>1. /\ refused' = IF stopped THEN refused \cup {n} ELSE refused
          /\ n \in Turn /\ last \in Nat /\ n = last + 1 /\ last' = n
          /\ refused \subseteq Turn /\ Turn \subseteq Int
      <4>1. refused \subseteq Turn /\ Turn \subseteq Int
        BY DEF TypeOK, Turn
      <4> QED
        BY <1>1, <4>1, ReserveEffect, Zenon
    <3> HIDE DEF n
    <3>2. CASE u = n
      <4>1. t \in refused
        BY <3>1, <3>2
      <4>2. stopped
        BY <4>1 DEF LaneInv, Numbered
      <4> QED
        BY <3>1, <3>2, <4>2
    <3>3. CASE u # n
      <4>1. u <= last
        BY <3>1, <3>3
      <4>2. t \in refused
        BY <3>1, <3>3, <4>1
      <4> QED
        BY <3>1, <4>1, <4>2 DEF Reserved
    <3> QED
      BY <3>2, <3>3
  <2>2. \A t \in Turn : t <= last' => laneOf'[t][2] <= epoch'
    BY <1>1, <2>0, ReserveEffect DEF Reserved, Turn
  <2>3. \A t \in Turn : t \in handed' => pc'[t] = "done"
    BY <1>1, ReserveEffect, Zenon DEF Reserved
  <2>4. \A t \in Turn : t \in cancelled' => t <= last'
    <3>1. \A t \in Chain(l) : t <= last
      BY <2>0 DEF Chain, Elements, LaneInv, QueueSorted, Reserved
    <3> QED
      BY <1>1, <3>1, ReserveEffect DEF Reserved, Turn
  <2>5. \A m \in LaneObject :
          lane'[m].active # NoTurn => lane'[m].active <= last' /\ laneOf'[lane'[m].active] = m
    <3> SUFFICES ASSUME NEW m \in LaneObject, lane'[m].active # NoTurn
                 PROVE  lane'[m].active <= last' /\ laneOf'[lane'[m].active] = m
      OBVIOUS
    <3>1. lane'[m].active = lane[m].active
      BY <1>1, ReserveEffect, Zenon
    <3>2. lane[m].active \in Turn
      BY <3>1 DEF TypeOK, Lane
    <3>3. lane[m].active <= last /\ laneOf[lane[m].active] = m
      BY <3>1 DEF Reserved
    <3>4. last' = last + 1 /\ last \in Nat /\ \A t \in Turn \ {last + 1} : laneOf'[t] = laneOf[t]
      BY <1>1, ReserveEffect, Zenon
    <3>5. lane[m].active \in Int
      BY <3>2 DEF Turn
    <3> QED
      BY <3>1, <3>2, <3>3, <3>4, <3>5
  <2> QED
    BY <2>1, <2>2, <2>3, <2>4, <2>5 DEF Reserved
<1>2. ASSUME NEW t \in Turn, PrepareTurnMessages(t)
      PROVE  Reserved'
  <2>1. t <= last
    BY <1>2, PrepareEffect DEF LaneInv, Numbered, TypeOK, Turn
  <2>2. \A m \in LaneObject :
          lane'[m].active # NoTurn => lane'[m].active <= last' /\ laneOf'[lane'[m].active] = m
    <3> SUFFICES ASSUME NEW m \in LaneObject, lane'[m].active # NoTurn
                 PROVE  lane'[m].active <= last' /\ laneOf'[lane'[m].active] = m
      OBVIOUS
    <3>1. CASE m = laneOf[t] /\ Valid(t)
      <4>1. PreparedLane(t, m).active = t
        BY DEF PreparedLane
      <4> QED
        BY <1>2, <2>1, <3>1, <4>1, PrepareEffect
    <3>2. CASE ~(m = laneOf[t] /\ Valid(t))
      <4>1. lane'[m] = lane[m]
        BY <1>2, <3>2, PrepareEffect
      <4> QED
        BY <1>2, <4>1, PrepareEffect DEF Reserved
    <3> QED
      BY <3>1, <3>2
  <2> QED
    BY <1>2, <2>2, PrepareEffect DEF Reserved
<1>3. ASSUME NEW t \in Turn, Done(t)
      PROVE  Reserved'
  <2>1. t <= last
    BY <1>3, DoneEffect DEF LaneInv, Numbered, TypeOK, Turn
  <2>2. \A m \in LaneObject :
          lane'[m].active # NoTurn => lane'[m].active <= last' /\ laneOf'[lane'[m].active] = m
    <3> SUFFICES ASSUME NEW m \in LaneObject, lane'[m].active # NoTurn
                 PROVE  lane'[m].active <= last' /\ laneOf'[lane'[m].active] = m
      OBVIOUS
    <3>1. FinishedLane(t, lane[m]).active \in {NoTurn, lane[m].active}
      BY DEF FinishedLane
    <3>2. lane'[m].active = lane[m].active
      BY <1>3, <3>1, DoneEffect
    <3> QED
      BY <1>3, <3>2, DoneEffect DEF Reserved
  <2> QED
    BY <1>3, <2>1, <2>2, DoneEffect DEF Reserved
<1>4. CASE ResetSession
  <2>1. \A t \in Turn : t \in cancelled' => t <= last
    <3>1. \A l \in LaneObject : \A t \in Chain(l) : t <= last
      BY DEF Chain, Elements, LaneInv, QueueSorted, Reserved
    <3>2. \A k \in Key : <<k, epoch>> \in LaneObject
      BY DEF LaneObject, TypeOK
    <3> QED
      BY <1>4, <3>1, <3>2, Zenon DEF ResetSession, Reserved
  <2>2. \A t \in Turn : t <= last => laneOf[t][2] <= epoch'
    <3>1. \A t \in Turn : laneOf[t][2] \in Int
      BY DEF TypeOK, LaneObject, Epoch
    <3> QED
      BY <1>4, <3>1 DEF ResetSession, Reserved, TypeOK, Epoch
  <2> QED
    BY <1>4, <2>1, <2>2 DEF ResetSession, Reserved, laneVars
<1>5. CASE Quiet
  BY <1>5 DEF Quiet, Reserved
<1> QED
  BY <1>1, <1>2, <1>3, <1>4, <1>5, StepCases

(* The queue of a turn's lane ends with a later turn; finishing an earlier  *)
(* one leaves the end of the queue in place.                                *)
LEMMA TailStays ==
    ASSUME NEW q \in Seq(Turn), NEW t \in Turn, NEW u \in Elements(q), t < u,
           \A i \in 1 .. Len(q) : \A j \in 1 .. (i - 1) : q[j] < q[i]
    PROVE  After(q, t) # <<>> /\ After(q, t)[Len(After(q, t))] = q[Len(q)]
<1>1. PICK d \in 0 .. Len(q) :
         /\ Len(After(q, t)) = Len(q) - d
         /\ \A i \in 1 .. (Len(q) - d) : After(q, t)[i] = q[i + d]
         /\ \A i \in 1 .. Len(q) : q[i] > t => i > d
  BY AfterSuffix, Zenon
<1>2. PICK i \in 1 .. Len(q) : q[i] = u
  BY DEF Elements
<1>3. i > d /\ Len(q) \in Nat
  BY <1>1, <1>2 DEF Turn
<1>4. Len(q) - d \in 1 .. (Len(q) - d) /\ (Len(q) - d) + d = Len(q)
  BY <1>1, <1>2, <1>3
<1> QED
  BY <1>1, <1>4

(* Every step keeps Cancelled: Reserve interrupts its predecessor,          *)
(* ResetSession and Done cancel.                                            *)
LEMMA CancelledStep ==
    TypeOK /\ LaneInv /\ Reserved /\ Cancelled /\ [Next]_vars => Cancelled'
<1> SUFFICES ASSUME TypeOK, LaneInv, Reserved, Cancelled, [Next]_vars PROVE Cancelled'
  OBVIOUS
<1>0. \A t \in Turn : laneOf[t] \in LaneObject /\ laneOf[t][2] \in Int
  BY DEF TypeOK, LaneObject, Epoch
<1>1. ASSUME NEW k \in Key, NEW interrupt \in BOOLEAN, ReserveSequenceTurn(k, interrupt)
      PROVE  Cancelled'
  <2> DEFINE n == last + 1
             l == <<k, epoch>>
  <2>1. l \in LaneObject /\ n \in Turn /\ lane[l].queue \in Seq(Turn) /\ last \in Nat
    BY <1>1, ReserveEffect DEF TypeOK, Lane
  <2>2. lane'[l].queue # <<>> /\ lane'[l].queue[Len(lane'[l].queue)] = n
    <3>1. lane'[l].queue = Append(lane[l].queue, n)
      BY <1>1, ReserveEffect
    <3> QED
      BY <2>1, <3>1
  <2>3. \A t \in Turn : pc'[t] = "done" => t \in cancelled'
    BY <1>1, ReserveEffect, Zenon DEF Cancelled
  <2> SUFFICES ASSUME ~stopped, NEW t \in Turn
               PROVE  /\ t <= last' /\ ~Valid(t)' => t \in cancelled'
                      /\ t \in cancelled' /\ Valid(t)' /\ pc'[t] # "done" => Tail0(laneOf[t])' > t
    BY <1>1, <2>3, ReserveEffect, Zenon DEF Cancelled
  <2>4. t <= last' /\ ~Valid(t)' => t \in cancelled'
    <3>1. CASE t = n
      <4>1. laneOf'[n] = l /\ epoch' = epoch
        BY <1>1, ReserveEffect, Zenon
      <4> QED
        BY <3>1, <4>1 DEF Valid
    <3>2. CASE t # n
      BY <1>1, <2>1, <3>2, ReserveEffect DEF Valid, Cancelled, Turn
    <3> QED
      BY <3>1, <3>2
  <2>5. ASSUME t \in cancelled', Valid(t)', pc'[t] # "done"
        PROVE  Tail0(laneOf[t])' > t
    <3>1. t \in cancelled \/ (interrupt /\ t \in Chain(l))
      BY <1>1, <2>5, ReserveEffect
    <3>2. t # n /\ t <= last
      <4>1. \A u \in Chain(l) : u <= last
        BY <2>1 DEF Chain, Elements, LaneInv, QueueSorted, Reserved
      <4> QED
        BY <2>1, <3>1, <4>1 DEF Reserved
    <3>3. laneOf'[t] = laneOf[t] /\ pc[t] # "done" /\ Valid(t)
      BY <1>1, <2>5, <3>2, ReserveEffect, Zenon DEF Valid
    <3>4. CASE laneOf[t] = l
      BY <2>1, <2>2, <3>2, <3>3, <3>4 DEF Tail0, Turn
    <3>5. CASE laneOf[t] # l
      <4>1. t \notin Chain(l)
        BY <2>1, <3>5 DEF Chain, Elements, LaneInv, QueueSorted, Reserved
      <4>2. lane'[laneOf[t]] = lane[laneOf[t]]
        BY <1>0, <1>1, <3>5, ReserveEffect, Zenon
      <4> QED
        BY <3>1, <3>3, <4>1, <4>2 DEF Cancelled, Tail0
    <3> QED
      BY <3>4, <3>5
  <2> QED
    BY <2>4, <2>5
<1>2. ASSUME NEW t \in Turn, PrepareTurnMessages(t)
      PROVE  Cancelled'
  <2>1. \A m \in LaneObject : lane'[m].queue = lane[m].queue
    <3>1. PreparedLane(t, laneOf[t]).queue = lane[laneOf[t]].queue
      BY DEF PreparedLane
    <3> QED
      BY <1>2, <3>1, PrepareEffect
  <2>2. \A u \in Turn : /\ Tail0(laneOf[u])' = Tail0(laneOf[u])
                        /\ Valid(u)' <=> Valid(u)
                        /\ pc'[u] = "done" <=> pc[u] = "done"
    BY <1>0, <1>2, <2>1, PrepareEffect DEF Tail0, Valid
  <2> QED
    BY <1>2, <2>2, PrepareEffect DEF Cancelled
<1>3. ASSUME NEW t \in Turn, Done(t)
      PROVE  Cancelled'
  <2>1. \A u \in Turn : Valid(u)' <=> Valid(u)
    BY <1>3, DoneEffect DEF Valid
  <2>2. \A u \in Turn : pc'[u] = "done" => u \in cancelled'
    BY <1>3, DoneEffect DEF Cancelled
  <2> SUFFICES ASSUME ~stopped, NEW u \in Turn, u \in cancelled', Valid(u), pc'[u] # "done"
               PROVE  Tail0(laneOf[u])' > u
    BY <1>3, <2>1, <2>2, DoneEffect DEF Cancelled
  <2>3. u # t /\ u \in cancelled /\ pc[u] # "done" /\ u <= last
    BY <1>3, DoneEffect DEF Reserved
  <2>4. Tail0(laneOf[u]) > u
    BY <2>3 DEF Cancelled
  <2>5. CASE laneOf[u] # laneOf[t]
    BY <1>0, <1>3, <2>4, <2>5, DoneEffect DEF Tail0
  <2>6. CASE laneOf[u] = laneOf[t]
    <3> DEFINE q == lane[laneOf[t]].queue
    <3>1. q \in Seq(Turn)
      BY <1>0 DEF TypeOK, Lane
    <3>2. \A i \in 1 .. Len(q) : \A j \in 1 .. (i - 1) : q[j] < q[i]
      BY <1>0 DEF LaneInv, QueueSorted
    <3>3. u \in Elements(q)
      BY <2>3, <2>6 DEF LaneInv, Queued, Elements
    <3>4. t < u
      <4>1. pc[t] \in Running /\ t \notin refused
        BY <1>3, DoneEffect DEF LaneInv, Numbered, Running
      <4> QED
        BY <2>3, <2>6, <4>1 DEF LaneInv, PredecessorsDone, Turn
    <3>5. After(q, t) # <<>> /\ After(q, t)[Len(After(q, t))] = q[Len(q)]
      BY <3>1, <3>2, <3>3, <3>4, TailStays
    <3>6. lane'[laneOf[t]].queue = After(q, t)
      <4>1. FinishedLane(t, lane[laneOf[t]]).queue = After(q, t)
        BY Zenon DEF FinishedLane
      <4> QED
        BY <1>3, <4>1, DoneEffect
    <3>7. q # <<>>
      BY <3>3 DEF Elements
    <3> QED
      BY <1>3, <2>4, <2>6, <3>5, <3>6, <3>7, DoneEffect DEF Tail0
  <2> QED
    BY <2>5, <2>6
<1>4. CASE ResetSession
  <2>1. \A t \in Turn : pc'[t] = "done" => t \in cancelled'
    BY <1>4 DEF ResetSession, Cancelled
  <2>2. ASSUME ~stopped, NEW t \in Turn, t <= last
        PROVE  t \in cancelled' /\ ~Valid(t)'
    <3>1. laneOf[t][2] <= epoch /\ epoch \in Int
      BY <2>2 DEF Reserved, TypeOK, Epoch
    <3>2. ~Valid(t)'
      BY <1>0, <1>4, <3>1 DEF ResetSession, Valid, laneVars
    <3>3. CASE ~Valid(t) \/ pc[t] = "done"
      <4>1. t \in cancelled
        BY <2>2, <3>3 DEF Cancelled
      <4> QED
        BY <1>4, <3>2, <4>1 DEF ResetSession
    <3>4. CASE Valid(t) /\ pc[t] # "done"
      <4>1. PICK k \in Key : laneOf[t] = <<k, epoch>>
        BY <1>0, <3>4 DEF Valid, LaneObject
      <4>2. t \in Chain(<<k, epoch>>)
        BY <2>2, <3>4, <4>1 DEF Chain, Elements, LaneInv, Queued
      <4> QED
        BY <1>4, <3>2, <4>2 DEF ResetSession
    <3> QED
      BY <3>2, <3>3, <3>4
  <2>3. \A t \in Turn : t \in cancelled' => t <= last
    <3>1. Reserved'
      BY ReservedStep
    <3> QED
      BY <1>4, <3>1, Zenon DEF Reserved, ResetSession
  <2> QED
    BY <1>4, <2>1, <2>2, <2>3 DEF Cancelled, ResetSession
<1>5. CASE Quiet
  BY <1>5 DEF Quiet, Cancelled, Valid, Tail0
<1> QED
  BY <1>1, <1>2, <1>3, <1>4, <1>5, StepCases

(* CancelInv holds in every reachable state.                                *)
LEMMA CancelInvHolds == Spec => []CancelInv
<1>1. Init => CancelInv
  <2>1. ASSUME Init PROVE Reserved /\ Cancelled
    BY <2>1, ConstantsAssumption DEF Init, Reserved, Cancelled, EmptyLane, Turn, LaneObject
  <2> QED
    BY <2>1, TypeInit, LaneInit DEF CancelInv
<1>2. CancelInv /\ [Next]_vars => CancelInv'
  BY TypeStep, LaneStep, ReservedStep, CancelledStep DEF CancelInv
<1> QED
  BY <1>1, <1>2, PTL DEF Spec

(* NoStaleSend for every number of turns, lanes and epochs: ResetSession    *)
(* has cancelled whoever may still write for an earlier epoch, so           *)
(* WithAuthority refuses the write.                                         *)
THEOREM NothingSentForOldEpoch == Spec => NoStaleSend
<1> DEFINE Step == \A t \in Turn : ~stopped /\ sent'[t] # sent[t] => laneOf[t][2] = epoch
<1>1. ASSUME CancelInv, [Next]_vars
      PROVE  [Step]_vars
  <2> SUFFICES ASSUME NEW t \in Turn, ~stopped, sent'[t] # sent[t]
               PROVE  laneOf[t][2] = epoch
    OBVIOUS
  <2> USE <1>1 DEF CancelInv
  <2>1. SendReply(t) \/ SendReceipt(t)
    <3>1. ASSUME NEW u \in Turn, TurnStep(u) PROVE u = t /\ (SendReply(t) \/ SendReceipt(t))
      <4>1. CASE SendReply(u) \/ SendReceipt(u)
        BY <4>1 DEF SendReply, SendReceipt, Transmit, TypeOK
      <4>2. CASE Answer(u) \/ UnreportedReceipt(u)
        BY <4>2, Zenon DEF Answer, UnreportedReceipt
      <4> QED
        BY <3>1, <4>1, <4>2, Zenon
           DEF TurnStep, StartEvent, Wait, IgnoreEvent, RejectInput, PrepareTurnMessages,
               StartCall, ReturnCall, EndLoop, WaitBilling, AwaitDelivery, Done, billVars
    <3> QED
      BY <3>1, Zenon DEF Next, ReserveSequenceTurn, Settle, ResetSession, Stop, CloseConnection,
                  billVars, vars
  <2>2. t \notin cancelled /\ pc[t] # "free"
    BY <2>1, Zenon DEF SendReply, SendReceipt, Transmit
  <2> QED
    BY <2>2 DEF Cancelled, Valid, LaneInv, Numbered, TypeOK, Turn
<1>2. NoStaleSend <=> [][Step]_vars
  BY DEF NoStaleSend
<1> QED
  BY <1>1, <1>2, CancelInvHolds, PTL DEF Spec

-----------------------------------------------------------------------------
(* Every turn of u's lane that finished since u was reserved has handed on. *)
(* (A turn that was refused runs nothing and inherits nothing.)             *)
Unbroken(u) ==
    \A v \in Turn :
        u <= v /\ SameLane(v, u) /\ pc[v] = "done" /\ v \notin refused => v \in handed

(* t charges to ledger b, which it brought along or inherited.              *)
Heir(t, b) == b \in Turn /\ (t = b \/ Inherits(t, b))

-----------------------------------------------------------------------------
(* A turn that passed Wait keeps its number and its lane.                   *)
LEMMA PassedStays ==
    ASSUME CancelInv, [Next]_vars, NEW t \in Turn, Passed(t)
    PROVE  Passed(t)' /\ t <= last /\ laneOf'[t] = laneOf[t]
<1> USE DEF CancelInv
<1>1. t <= last
  BY DEF Passed, Running, LaneInv, Numbered, TypeOK, Turn
<1>2. ASSUME NEW k \in Key, NEW interrupt \in BOOLEAN, ReserveSequenceTurn(k, interrupt)
      PROVE  Passed(t)' /\ laneOf'[t] = laneOf[t]
  <2>0. t \in Int /\ last \in Nat
    <3>1. t \in Int
      BY DEF Turn
    <3> QED
      BY <1>2, <3>1, ReserveEffect, Zenon
  <2>1. t # last + 1
    BY <1>1, <2>0
  <2>2. t \notin refused' /\ pc'[t] = pc[t] /\ laneOf'[t] = laneOf[t]
    <3>1. t \notin refused
      BY DEF Passed
    <3>2. refused' = IF stopped THEN refused \cup {last + 1} ELSE refused
      BY <1>2, ReserveEffect, Zenon
    <3>3. pc'[t] = pc[t] /\ laneOf'[t] = laneOf[t]
      BY <1>2, <2>1, ReserveEffect, Zenon
    <3> QED
      BY <2>1, <3>1, <3>2, <3>3
  <2> QED
    BY <2>2 DEF Passed
<1>3. ASSUME NEW u \in Turn, PrepareTurnMessages(u)
      PROVE  Passed(t)' /\ laneOf'[t] = laneOf[t]
  BY <1>3, PrepareEffect DEF Passed, Running
<1>4. ASSUME NEW u \in Turn, Done(u)
      PROVE  Passed(t)' /\ laneOf'[t] = laneOf[t]
  BY <1>4, DoneEffect DEF Passed, Running
<1>5. CASE ResetSession
  <2>1. pc' = pc /\ refused' = refused /\ laneOf' = laneOf
    BY <1>5 DEF ResetSession, laneVars
  <2> QED
    BY <1>1, <2>1 DEF Passed
<1>6. CASE Quiet
  <2>1. Passed(t)'
    BY <1>6 DEF Quiet
  <2>2. laneOf' = laneOf
    BY <1>6 DEF Quiet
  <2> QED
    BY <1>1, <2>1, <2>2
<1> QED
  BY <1>1, <1>2, <1>3, <1>4, <1>5, <1>6, StepCases, Zenon

(* Nobody who passed Wait comes after a turn of the lane that runs.         *)
LEMMA PassedFirst ==
    ASSUME TypeOK, LaneInv, NEW t \in Turn, NEW b \in Turn, pc[t] \in Running,
           Passed(b), SameLane(t, b)
    PROVE  b <= t
<1> SUFFICES ASSUME t < b PROVE FALSE
  BY DEF Turn
<1>1. pc[t] = "done"
  BY DEF Passed, LaneInv, PredecessorsDone, SameLane
<1> QED
  BY <1>1 DEF Running

(* Every earlier turn of a running turn's lane has finished, and was not    *)
(* refused.                                                                 *)
LEMMA EarlierDone ==
    ASSUME CancelInv, NEW t \in Turn, Passed(t) \/ pc[t] \in Running, NEW u \in Turn, u < t,
           SameLane(t, u)
    PROVE  pc[u] = "done" /\ u \notin refused
<1>1. t \notin refused /\ pc[t] \in Running \cup {"done"}
  BY DEF CancelInv, Passed, LaneInv, Numbered, Running
<1>2. t <= last
  BY <1>1 DEF CancelInv, LaneInv, Numbered, TypeOK, Turn, Running
<1>3. u \notin refused
  BY <1>1, <1>2 DEF CancelInv, Reserved
<1>4. pc[u] = "done"
  BY <1>1 DEF CancelInv, LaneInv, PredecessorsDone, SameLane
<1> QED
  BY <1>3, <1>4

(* Only a turn that finishes hands on.                                      *)
LEMMA HandedGrows ==
    ASSUME CancelInv, [Next]_vars
    PROVE  handed \subseteq handed' /\ \A v \in handed' \ handed : pc[v] # "done"
<1> USE DEF CancelInv
<1>1. ASSUME NEW t \in Turn, Done(t)
      PROVE  handed \subseteq handed' /\ \A v \in handed' \ handed : pc[v] # "done"
  BY <1>1, DoneEffect
<1>2. CASE ~ \E t \in Turn : Done(t)
  BY <1>2, StepCases, Zenon DEF ReserveSequenceTurn, PrepareTurnMessages, ResetSession, Quiet, laneVars
<1> QED
  BY <1>1, <1>2

(* Inheritance is settled once a turn has passed Wait.                      *)
LEMMA InheritsSettled ==
    ASSUME CancelInv, [Next]_vars, NEW t \in Turn, Passed(t), NEW u \in Turn
    PROVE  Inherits(t, u)' <=> Inherits(t, u)
<1>1. \A v \in Turn : v <= t => laneOf'[v] = laneOf[v]
  <2> SUFFICES ASSUME NEW v \in Turn, v <= t PROVE laneOf'[v] = laneOf[v]
    OBVIOUS
  <2>1. CASE v = t
    BY <2>1, PassedStays
  <2>2. CASE v < t
    <3>1. v <= last /\ v # last + 1
      BY PassedStays DEF CancelInv, TypeOK, Turn
    <3>2. CASE \E k \in Key, interrupt \in BOOLEAN : ReserveSequenceTurn(k, interrupt)
      BY <3>1, <3>2, ReserveEffect, Zenon DEF CancelInv
    <3>3. CASE ~ \E k \in Key, interrupt \in BOOLEAN : ReserveSequenceTurn(k, interrupt)
      BY <3>3, StepCases DEF CancelInv, PrepareTurnMessages, Done, ResetSession, Quiet, laneVars
    <3> QED
      BY <3>2, <3>3
  <2> QED
    BY <2>1, <2>2 DEF Turn
<1>2. \A v \in Turn : v < t /\ SameLane(v, t) => (v \in handed' <=> v \in handed)
  <2> SUFFICES ASSUME NEW v \in Turn, v < t, SameLane(v, t) PROVE v \in handed' <=> v \in handed
    OBVIOUS
  <2>1. pc[v] = "done"
    BY EarlierDone DEF SameLane
  <2> QED
    BY <2>1, HandedGrows
<1>3. CASE u < t
  <2>1. \A v \in u .. (t - 1) : v \in Turn /\ v < t /\ v <= t
    BY <1>3, ConstantsAssumption DEF Turn
  <2>2. u <= t /\ t <= t
    BY <1>3 DEF Turn
  <2>3. /\ SameLane(t, u)' <=> SameLane(t, u)
        /\ \A v \in u .. (t - 1) : SameLane(v, t)' <=> SameLane(v, t)
    BY <1>1, <2>1, <2>2 DEF SameLane
  <2>4. \A v \in u .. (t - 1) : SameLane(v, t) => (v \in handed' <=> v \in handed)
    BY <1>2, <2>1
  <2> QED
    BY <2>3, <2>4 DEF Inherits
<1>4. CASE ~(u < t)
  BY <1>4 DEF Inherits
<1> QED
  BY <1>3, <1>4

(* An unbroken chain of the lane leads to the turn that runs.               *)
LEMMA UnbrokenLeads ==
    ASSUME CancelInv, NEW t \in Turn, pc[t] \in Running, NEW b \in Turn, SameLane(t, b),
           Passed(b), Unbroken(b)
    PROVE  Heir(t, b)
<1>1. b <= t
  BY PassedFirst DEF CancelInv
<1>2. CASE b = t
  BY <1>2 DEF Heir
<1>3. CASE b < t
  <2>1. ASSUME NEW v \in b .. (t - 1), SameLane(v, t) PROVE v \in handed
    <3>1. v \in Turn /\ v < t /\ b <= v
      BY <1>3, ConstantsAssumption DEF Turn
    <3>2. pc[v] = "done" /\ v \notin refused
      BY <2>1, <3>1, EarlierDone DEF SameLane
    <3> QED
      BY <2>1, <3>1, <3>2 DEF Unbroken, SameLane
  <2> QED
    BY <1>3, <2>1 DEF Heir, Inherits
<1> QED
  BY <1>1, <1>2, <1>3 DEF Turn

(* A chain that is unbroken after a step was so before it.                  *)
LEMMA UnbrokenBefore ==
    ASSUME CancelInv, [Next]_vars, NEW u \in Turn, Passed(u), Unbroken(u)'
    PROVE  Unbroken(u)
<1> SUFFICES ASSUME NEW v \in Turn, u <= v, SameLane(v, u), pc[v] = "done", v \notin refused
             PROVE  v \in handed
  BY DEF Unbroken
<1>1. Passed(v)
  BY DEF Passed
<1>2. pc'[v] = "done"
  <2> USE DEF CancelInv
  <2>1. v # last + 1
    BY DEF LaneInv, Numbered, TypeOK, Turn
  <2> QED
    BY <2>1, StepCases, ReserveEffect, PrepareEffect, DoneEffect, Zenon DEF ResetSession, Quiet
<1>3. v \notin refused' /\ SameLane(v, u)'
  BY <1>1, PassedStays DEF Passed, SameLane
<1>4. v \in handed'
  BY <1>2, <1>3 DEF Unbroken
<1> QED
  BY <1>4, HandedGrows
=============================================================================
