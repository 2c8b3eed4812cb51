--------------------- MODULE ExecutionInheritanceProofs ---------------------
(***************************************************************************)
(* What reaches the model, for any number of turns, lanes, calls and       *)
(* epochs: the inputs of interrupted turns are in the prompt of their      *)
(* heir, in order, and no input is in a prompt twice (PromptOnce,          *)
(* InputsHandedOver).                                                      *)
(***************************************************************************)
EXTENDS ExecutionInterruptProofs

(* A turn that has not prepared its messages has left no trace.             *)
NoTrace ==
    /\ \A t \in Turn : t \in history \cup reported => Passed(t)
    /\ \A t \in ignored : pc[t] \in {"closing", "done"} /\ ledger[t] = NoTurn
    /\ \A t \in Turn : ~Passed(t) =>
         /\ prompt[t] = NoPrompt
         /\ ledger[t] = NoTurn
         /\ sent[t] = {}
         /\ receipt[t] = {}
         /\ \A n \in 1 .. MaxCall : call[<<t, n>>] = "none"

(* A lane's transcript holds inputs that were prepared, each once and each  *)
(* marked as carried.                                                       *)
Carried ==
    \A l \in LaneObject :
        LET s == lane[l].transcript IN
        /\ \A i \in 1 .. Len(s) : s[i] \in AllPassed /\ s[i] \in lane[l].messageIDs
        /\ \A i, j \in 1 .. Len(s) : s[i] = s[j] => i = j

(* The inputs an unbroken chain left are still in the lane, and are in the  *)
(* prompt of whoever prepared its messages since.                           *)
StillCarried ==
    ~stopped => \A u \in Turn :
        prompt[u] # NoPrompt /\ Unbroken(u) =>
            /\ u \in lane[laneOf[u]].messageIDs
            /\ laneOf[u][1] \notin ProactiveKey =>
                 \E i \in 1 .. Len(lane[laneOf[u]].transcript) : lane[laneOf[u]].transcript[i] = u

(* t has made a call to the model.                                          *)
HasCalled(t) == \E c \in Call : c[1] = t /\ call[c] # "none"

(* What t's prompt owes u, from whom t inherits: an ordinary lane has u's   *)
(* input before t's own, a proactive one keeps it out.                      *)
PromptCarries(t, u) ==
    LET chain == prompt[t].chain IN
    IF laneOf[t][1] \in ProactiveKey
    THEN u \notin prompt[t].shared \cup Elements(chain)
    ELSE \E i, j \in 1 .. Len(chain) : i < j /\ chain[i] = u /\ chain[j] = t

(* The prompt of whoever has made a call, or may make one, has all that is  *)
(* inherited.                                                               *)
PromptsCarry ==
    /\ \A t \in Turn : pc[t] \in {"thinking", "calling"} /\ Valid(t) => prompt[t] # NoPrompt
    /\ \A t \in Turn : HasCalled(t) => prompt[t] # NoPrompt
    /\ \A t, u \in Turn :
         /\ prompt[t] # NoPrompt
         /\ ~stopped \/ HasCalled(t)
         /\ prompt[u] # NoPrompt
         /\ Inherits(t, u)
         => PromptCarries(t, u)

(* What makes PromptOnce and InputsHandedOver inductive.                    *)
InputInv == NoTrace /\ Carried /\ StillCarried /\ PromptsCarry /\ PromptOnce

-----------------------------------------------------------------------------
(* Every step keeps NoTrace.                                                *)
LEMMA NoTraceStep ==
    CancelInv /\ NoTrace /\ [Next]_vars => NoTrace'
<1> SUFFICES ASSUME CancelInv, NoTrace, [Next]_vars PROVE NoTrace'
  OBVIOUS
<1> USE DEF CancelInv
<1>0. \A t \in Turn : Passed(t) => Passed(t)'
  BY PassedStays
<1> DEFINE Traceless(t) == /\ prompt'[t] = prompt[t] /\ ledger'[t] = ledger[t]
                           /\ sent'[t] = sent[t] /\ receipt'[t] = receipt[t]
                           /\ \A n \in 1 .. MaxCall : call'[<<t, n>>] = call[<<t, n>>]
<1>a. ASSUME \A t \in Turn : ~Passed(t)' => Traceless(t),
             \A t \in Turn : t \in history' \cup reported' => t \in history \cup reported \/ Passed(t)',
             \A t \in ignored' : pc'[t] \in {"closing", "done"} /\ ledger'[t] = NoTurn
      PROVE  NoTrace'
  <2>1. \A t \in Turn : t \in history' \cup reported' => Passed(t)'
    BY <1>0, <1>a DEF NoTrace
  <2>2. ASSUME NEW t \in Turn, ~Passed(t)'
        PROVE  /\ prompt'[t] = NoPrompt /\ ledger'[t] = NoTurn /\ sent'[t] = {} /\ receipt'[t] = {}
               /\ \A n \in 1 .. MaxCall : call'[<<t, n>>] = "none"
    BY <1>0, <1>a, <2>2 DEF NoTrace
  <2> QED
    BY <1>a, <2>1, <2>2 DEF NoTrace
<1>1. ASSUME NEW k \in Key, NEW interrupt \in BOOLEAN, ReserveSequenceTurn(k, interrupt)
      PROVE  NoTrace'
  <2>1. UNCHANGED <<history, prompt, billVars>>
    BY <1>1, ReserveEffect, Zenon
  <2>2. \A t \in ignored : pc'[t] = pc[t]
    <3>1. \A t \in ignored : pc[t] # "free" /\ t \in Turn
      BY DEF NoTrace, TypeOK
    <3> QED
      BY <1>1, <3>1, ReserveEffect, Zenon
  <2> QED
    BY <1>a, <2>1, <2>2 DEF billVars, NoTrace
<1>2. ASSUME NEW u \in Turn, PrepareTurnMessages(u)
      PROVE  NoTrace'
  <2>1. Passed(u)' /\ pc[u] = "admitted"
    BY <1>2, PrepareEffect DEF Passed, Running
  <2>2. u \notin ignored
    BY <2>1 DEF NoTrace
  <2>3. history' \subseteq history \cup {u} /\ UNCHANGED <<call, reported, sent, receipt, ignored>>
    BY <1>2, PrepareEffect
  <2>4. \A t \in Turn \ {u} : pc'[t] = pc[t] /\ prompt'[t] = prompt[t] /\ ledger'[t] = ledger[t]
    BY <1>2, PrepareEffect
  <2>5. ignored \subseteq Turn
    BY DEF TypeOK
  <2> QED
    BY <1>a, <2>1, <2>2, <2>3, <2>4, <2>5 DEF NoTrace
<1>3. ASSUME NEW u \in Turn, Done(u)
      PROVE  NoTrace'
  <2>1. UNCHANGED <<history, prompt, billVars>> /\ ignored \subseteq Turn
    BY <1>3, DoneEffect DEF TypeOK
  <2>2. \A t \in Turn : pc'[t] \in {pc[t], "done"}
    BY <1>3, DoneEffect
  <2> QED
    BY <1>a, <2>1, <2>2 DEF billVars, NoTrace
<1>4. CASE ResetSession
  <2>1. history' = {} /\ UNCHANGED <<pc, prompt, billVars>>
    BY <1>4 DEF ResetSession
  <2> QED
    BY <1>a, <2>1 DEF billVars, NoTrace
<1>5. ASSUME NEW u \in Turn, QuietStep(u)
      PROVE  NoTrace'
  <2>1. Quiet /\ ignored \subseteq Turn
    BY <1>5, QuietStepIsQuiet DEF TypeOK
  <2>2. CASE IgnoreEvent(u)
    <3>1. pc[u] = "admitted" /\ pc'[u] = "closing" /\ u \notin refused
      BY <2>2 DEF IgnoreEvent, Goto, TypeOK, LaneInv, Numbered
    <3>2. ledger[u] = NoTurn
      BY <3>1 DEF NoTrace, Passed
    <3>3. ignored' = ignored \cup {u} /\ UNCHANGED <<history, prompt, ledger, call, reported, sent, receipt>>
      BY <2>2 DEF IgnoreEvent
    <3>4. \A t \in Turn \ {u} : pc'[t] = pc[t]
      BY <2>2 DEF IgnoreEvent, Goto, TypeOK
    <3> QED
      BY <1>a, <2>1, <3>1, <3>2, <3>3, <3>4 DEF NoTrace
  <2>3. ASSUME ~IgnoreEvent(u),
               \A t \in Turn : ~Passed(t) => Traceless(t),
               \A t \in Turn : t \in history' \cup reported' => t \in history \cup reported \/ Passed(t)',
               ignored' = ignored,
               pc[u] # "closing",
               \A t \in Turn \ {u} : pc'[t] = pc[t]
        PROVE  NoTrace'
    <3>1. \A t \in ignored' : pc'[t] \in {"closing", "done"} /\ ledger'[t] = NoTurn
      BY <2>1, <2>3 DEF NoTrace, Quiet
    <3> QED
      BY <1>0, <1>a, <2>3, <3>1
  <2>4. CASE StartEvent(u) \/ Wait(u) \/ RejectInput(u) \/ ReturnCall(u) \/ EndLoop(u)
             \/ WaitBilling(u) \/ AwaitDelivery(u)
    <3>1. /\ pc[u] # "closing"
          /\ \A t \in Turn \ {u} : pc'[t] = pc[t]
          /\ UNCHANGED <<history, prompt, billVars>>
      BY <2>4 DEF StartEvent, Wait, RejectInput, ReturnCall, EndLoop, WaitBilling, AwaitDelivery,
                  Goto, TypeOK
    <3>2. CASE IgnoreEvent(u)
      BY <2>2, <3>2
    <3>3. CASE ~IgnoreEvent(u)
      BY <2>3, <3>1, <3>3 DEF billVars
    <3> QED
      BY <3>2, <3>3
  <2>5. CASE StartCall(u)
    <3>1. /\ pc[u] = "thinking" /\ u \notin refused
          /\ \A t \in Turn \ {u} : pc'[t] = pc[t]
          /\ UNCHANGED <<history, prompt, ledger, sent, receipt, reported, ignored>>
      BY <2>5 DEF StartCall, Goto, TypeOK, LaneInv, Numbered
    <3>2. \A t \in Turn \ {u}, n \in 1 .. MaxCall : call'[<<t, n>>] = call[<<t, n>>]
      <4>1. \A t \in Turn, n \in 1 .. MaxCall : <<t, n>> \in Call
        BY DEF Call
      <4>2. PICK m \in 1 .. MaxCall : call' = [call EXCEPT ![<<u, m>>] = "inflight"]
        BY <2>5, Zenon DEF StartCall
      <4> QED
        BY <4>1, <4>2 DEF TypeOK
    <3>3. Passed(u)
      BY <3>1 DEF Passed, Running
    <3>4. \A t \in Turn : ~Passed(t) => Traceless(t)
      BY <3>1, <3>2, <3>3
    <3>5. CASE ~IgnoreEvent(u)
      BY <2>3, <3>1, <3>4, <3>5
    <3> QED
      BY <2>2, <3>5
  <2>6. CASE Answer(u)
    <3>1. /\ pc[u] = "answering" /\ u \notin refused
          /\ \A t \in Turn \ {u} : pc'[t] = pc[t] /\ receipt'[t] = receipt[t]
          /\ UNCHANGED <<prompt, ledger, sent, call, ignored>>
          /\ history' \subseteq history /\ reported' \subseteq reported \cup {u}
      BY <2>6 DEF Answer, NoAnswer, DropAnswer, SendAnswer, Goto, TypeOK, LaneInv, Numbered
    <3>2. Passed(u)
      BY <3>1 DEF Passed, Running
    <3>5. CASE ~IgnoreEvent(u)
      BY <1>0, <2>3, <3>1, <3>2, <3>5
    <3> QED
      BY <2>2, <3>5
  <2>7. CASE SendReply(u) \/ SendReceipt(u)
    <3>1. /\ pc[u] \in {"sending", "tailing"} /\ u \notin refused
          /\ \A t \in Turn \ {u} : pc'[t] = pc[t] /\ sent'[t] = sent[t]
          /\ UNCHANGED <<prompt, ledger, call, receipt, ignored, history, reported>>
      BY <2>7 DEF SendReply, SendReceipt, Transmit, Goto, TypeOK, LaneInv, Numbered
    <3>2. Passed(u)
      BY <3>1 DEF Passed, Running
    <3>5. CASE ~IgnoreEvent(u)
      BY <2>3, <3>1, <3>2, <3>5
    <3> QED
      BY <2>2, <3>5
  <2>8. CASE UnreportedReceipt(u)
    <3>1. /\ pc[u] = "exit" /\ u \notin refused
          /\ \A t \in Turn \ {u} : pc'[t] = pc[t] /\ receipt'[t] = receipt[t]
          /\ UNCHANGED <<prompt, ledger, call, sent, ignored, history, reported>>
      BY <2>8 DEF UnreportedReceipt, Goto, TypeOK, LaneInv, Numbered
    <3>2. Passed(u)
      BY <3>1 DEF Passed, Running
    <3>5. CASE ~IgnoreEvent(u)
      BY <2>3, <3>1, <3>2, <3>5
    <3> QED
      BY <2>2, <3>5
  <2> QED
    BY <1>5, <2>2, <2>4, <2>5, <2>6, <2>7, <2>8 DEF QuietStep
<1>6. ASSUME NEW c \in Call, Settle(c)
      PROVE  NoTrace'
  <2>1. /\ call[c] = "inflight" /\ UNCHANGED <<pc, history, reported, prompt, ledger, sent, receipt, ignored>>
        /\ \A d \in Call \ {c} : call'[d] = call[d]
    BY <1>6 DEF Settle, TypeOK
  <2>2. c[1] \in Turn /\ c[2] \in 1 .. MaxCall /\ c = <<c[1], c[2]>>
    BY DEF Call
  <2>3. Passed(c[1])
    BY <2>1, <2>2 DEF NoTrace
  <2>4. \A t \in Turn : ~Passed(t)' => Traceless(t)
    <3> SUFFICES ASSUME NEW t \in Turn, ~Passed(t)' PROVE Traceless(t)
      OBVIOUS
    <3>1. \A n \in 1 .. MaxCall : <<t, n>> \in Call /\ <<t, n>> # c
      BY <1>0, <2>2, <2>3 DEF Call
    <3> QED
      BY <2>1, <3>1
  <2> QED
    BY <1>a, <2>1, <2>4 DEF NoTrace
<1>7. CASE Stop \/ CloseConnection \/ UNCHANGED vars
  <2>1. UNCHANGED <<pc, history, prompt, billVars>>
    BY <1>7 DEF Stop, CloseConnection, vars, billVars
  <2> QED
    BY <1>a, <2>1 DEF billVars, NoTrace
<1> QED
  BY <1>1, <1>2, <1>3, <1>4, <1>5, <1>6, <1>7 DEF Next, TurnStep, QuietStep

-----------------------------------------------------------------------------
(* The transcript a turn goes on with: what the lane carries, each input    *)
(* once, and then its own.                                                  *)
LEMMA CarriedChain ==
    ASSUME TypeOK, Carried, NEW t \in Turn, ~Passed(t), NEW l \in LaneObject
    PROVE  LET s == CarriedTranscript(t, l) IN
           /\ s \in Seq(Turn) /\ Len(s) > 0 /\ s[Len(s)] = t
           /\ \A i \in 1 .. (Len(s) - 1) : s[i] \in AllPassed /\ s[i] \in lane[l].messageIDs
           /\ \A i, j \in 1 .. Len(s) : s[i] = s[j] => i = j
<1> DEFINE q == lane[l].transcript
<1>1. q \in Seq(Turn) /\ \A i \in 1 .. Len(q) : q[i] \in Turn
  BY DEF TypeOK, Lane
<1>2. /\ \A i \in 1 .. Len(q) : q[i] \in AllPassed /\ q[i] \in lane[l].messageIDs
      /\ \A i, j \in 1 .. Len(q) : q[i] = q[j] => i = j
  BY DEF Carried
<1>3. CASE l[1] \in ProactiveKey
  BY <1>3 DEF CarriedTranscript
<1>4. CASE l[1] \notin ProactiveKey
  <2>1. CarriedTranscript(t, l) = Append(q, t)
    BY <1>4 DEF CarriedTranscript
  <2> HIDE DEF q
  <2>2. /\ Append(q, t) \in Seq(Turn) /\ Len(Append(q, t)) = Len(q) + 1 /\ Len(q) \in Nat
        /\ Append(q, t)[Len(q) + 1] = t
        /\ \A i \in 1 .. Len(q) : Append(q, t)[i] = q[i]
    BY <1>1
  <2>3. \A i \in 1 .. Len(q) : q[i] # t
    BY <1>2 DEF AllPassed
  <2>4. \A i, j \in 1 .. (Len(q) + 1) : Append(q, t)[i] = Append(q, t)[j] => i = j
    <3> SUFFICES ASSUME NEW i \in 1 .. (Len(q) + 1), NEW j \in 1 .. (Len(q) + 1),
                        Append(q, t)[i] = Append(q, t)[j], i # j
                 PROVE  FALSE
      OBVIOUS
    <3>1. CASE i = Len(q) + 1
      <4>1. j \in 1 .. Len(q)
        BY <2>2, <3>1
      <4> QED
        BY <2>2, <2>3, <3>1, <4>1
    <3>2. CASE j = Len(q) + 1
      <4>1. i \in 1 .. Len(q)
        BY <2>2, <3>2
      <4> QED
        BY <2>2, <2>3, <3>2, <4>1
    <3>3. CASE i # Len(q) + 1 /\ j # Len(q) + 1
      <4>1. i \in 1 .. Len(q) /\ j \in 1 .. Len(q)
        BY <2>2, <3>3
      <4> QED
        BY <1>2, <2>2, <4>1 DEF q
    <3> QED
      BY <3>1, <3>2, <3>3
  <2>5. \A i \in 1 .. ((Len(q) + 1) - 1) : i \in 1 .. Len(q)
    BY <2>2
  <2>6. \A i \in 1 .. Len(q) : q[i] \in AllPassed /\ q[i] \in lane[l].messageIDs
    BY <1>2 DEF q
  <2> QED
    BY <2>1, <2>2, <2>4, <2>5, <2>6
<1> QED
  BY <1>3, <1>4

(* Every step keeps Carried: only Done and PrepareTurnMessages move a       *)
(* transcript.                                                              *)
LEMMA CarriedStep ==
    CancelInv /\ Carried /\ [Next]_vars => Carried'
<1> SUFFICES ASSUME CancelInv, Carried, [Next]_vars PROVE Carried'
  OBVIOUS
<1> USE DEF CancelInv
<1>0. AllPassed \subseteq AllPassed'
  BY PassedStays DEF AllPassed
<1>b. ASSUME \A l \in LaneObject : /\ lane'[l].transcript = lane[l].transcript
                                   /\ lane'[l].messageIDs = lane[l].messageIDs
      PROVE  Carried'
  BY <1>0, <1>b DEF Carried
<1>1. ASSUME NEW k \in Key, NEW interrupt \in BOOLEAN, ReserveSequenceTurn(k, interrupt)
      PROVE  Carried'
  BY <1>1, <1>b, ReserveEffect, Zenon
<1>2. ASSUME NEW t \in Turn, PrepareTurnMessages(t)
      PROVE  Carried'
  <2>1. CASE ~Valid(t)
    BY <1>2, <1>b, <2>1, PrepareEffect
  <2>2. CASE Valid(t)
    <3> DEFINE l == laneOf[t]
               s == CarriedTranscript(t, l)
    <3>1. l \in LaneObject /\ ~Passed(t) /\ t \in AllPassed'
      BY <1>2, PrepareEffect DEF Passed, AllPassed, Running
    <3>2. lane'[l].transcript = s /\ lane'[l].messageIDs = lane[l].messageIDs \cup {t}
      <4>1. /\ PreparedLane(t, l).transcript = s
            /\ PreparedLane(t, l).messageIDs = lane[l].messageIDs \cup {t}
        BY DEF PreparedLane
      <4> QED
        BY <1>2, <2>2, <4>1, PrepareEffect
    <3>3. \A m \in LaneObject \ {l} : lane'[m] = lane[m]
      BY <1>2, <2>2, PrepareEffect
    <3>4. /\ s \in Seq(Turn) /\ Len(s) > 0 /\ s[Len(s)] = t
          /\ \A i \in 1 .. (Len(s) - 1) : s[i] \in AllPassed /\ s[i] \in lane[l].messageIDs
          /\ \A i, j \in 1 .. Len(s) : s[i] = s[j] => i = j
      BY <3>1, CarriedChain
    <3> HIDE DEF l, s
    <3>5. ASSUME NEW i \in 1 .. Len(s)
          PROVE  s[i] \in AllPassed' /\ s[i] \in lane[l].messageIDs \cup {t}
      <4>1. CASE i = Len(s)
        BY <3>1, <3>4, <4>1
      <4>2. CASE i # Len(s)
        <5>1. i \in 1 .. (Len(s) - 1) /\ s[i] \in Turn
          BY <3>4, <4>2
        <5> QED
          BY <1>0, <3>4, <5>1
      <4> QED
        BY <4>1, <4>2
    <3> SUFFICES ASSUME NEW m \in LaneObject
                 PROVE  LET x == lane'[m].transcript IN
                        /\ \A i \in 1 .. Len(x) : x[i] \in AllPassed' /\ x[i] \in lane'[m].messageIDs
                        /\ \A i, j \in 1 .. Len(x) : x[i] = x[j] => i = j
      BY DEF Carried
    <3>6. CASE m = l
      BY <3>2, <3>4, <3>5, <3>6
    <3>7. CASE m # l
      BY <1>0, <3>3, <3>7 DEF Carried
    <3> QED
      BY <3>6, <3>7
  <2> QED
    BY <2>1, <2>2
<1>3. ASSUME NEW t \in Turn, Done(t)
      PROVE  Carried'
  <2>1. \/ /\ lane'[laneOf[t]].transcript = lane[laneOf[t]].transcript
           /\ lane'[laneOf[t]].messageIDs = lane[laneOf[t]].messageIDs
        \/ lane'[laneOf[t]].transcript = <<>>
    <3> DEFINE x == FinishedLane(t, lane[laneOf[t]])
    <3>1. \/ /\ x.transcript = lane[laneOf[t]].transcript
             /\ x.messageIDs = lane[laneOf[t]].messageIDs
          \/ x.transcript = <<>>
      BY DEF FinishedLane
    <3> QED
      BY <1>3, <3>1, DoneEffect
  <2>2. \A m \in LaneObject \ {laneOf[t]} : lane'[m] = lane[m]
    BY <1>3, DoneEffect
  <2> SUFFICES ASSUME NEW m \in LaneObject
               PROVE  LET x == lane'[m].transcript IN
                      /\ \A i \in 1 .. Len(x) : x[i] \in AllPassed' /\ x[i] \in lane'[m].messageIDs
                      /\ \A i, j \in 1 .. Len(x) : x[i] = x[j] => i = j
    BY DEF Carried
  <2> QED
    BY <1>0, <2>1, <2>2 DEF Carried
<1>4. CASE ResetSession
  BY <1>4, <1>b DEF ResetSession, laneVars
<1>5. CASE Quiet
  BY <1>5, <1>b DEF Quiet
<1> QED
  BY <1>1, <1>2, <1>3, <1>4, <1>5, StepCases

(* The prompt of a turn that prepares its messages: its own input comes     *)
(* last, and nothing is in it twice.                                        *)
LEMMA PromptOnceStep ==
    CancelInv /\ NoTrace /\ Carried /\ PromptOnce /\ [Next]_vars => PromptOnce'
<1> SUFFICES ASSUME CancelInv, NoTrace, Carried, PromptOnce, [Next]_vars PROVE PromptOnce'
  OBVIOUS
<1> USE DEF CancelInv
<1>1. ASSUME NEW t \in Turn, PrepareTurnMessages(t)
      PROVE  PromptOnce'
  <2>1. CASE ~Valid(t)
    BY <1>1, <2>1, PrepareEffect DEF PromptOnce
  <2>2. CASE Valid(t)
    <3> DEFINE l == laneOf[t]
               s == CarriedTranscript(t, l)
    <3>1. l \in LaneObject /\ ~Passed(t)
      BY <1>1, PrepareEffect DEF Passed, Running
    <3>2. prompt'[t].shared = history \ lane[l].messageIDs /\ prompt'[t].chain = s
      <4>1. PromptOf(t, l).shared = history \ lane[l].messageIDs /\ PromptOf(t, l).chain = s
        BY DEF PromptOf
      <4> QED
        BY <1>1, <2>2, <4>1, PrepareEffect
    <3>3. /\ s \in Seq(Turn) /\ Len(s) > 0 /\ s[Len(s)] = t
          /\ \A i \in 1 .. (Len(s) - 1) : s[i] \in AllPassed /\ s[i] \in lane[l].messageIDs
          /\ \A i, j \in 1 .. Len(s) : s[i] = s[j] => i = j
      BY <3>1, CarriedChain
    <3>4. t \notin history
      BY <3>1 DEF NoTrace
    <3> HIDE DEF l, s
    <3>5. (history \ lane[l].messageIDs) \cap Elements(s) = {}
      <4> SUFFICES ASSUME NEW i \in 1 .. Len(s), s[i] \in history, s[i] \notin lane[l].messageIDs
                   PROVE  FALSE
        BY DEF Elements
      <4>1. i = Len(s)
        BY <3>3
      <4> QED
        BY <3>3, <3>4, <4>1
    <3>6. \A u \in Turn \ {t} : prompt'[u] = prompt[u]
      BY <1>1, PrepareEffect
    <3> SUFFICES ASSUME NEW u \in Turn
                 PROVE  LET chain == prompt'[u].chain IN
                        /\ prompt'[u].shared \cap Elements(chain) = {}
                        /\ \A i, j \in 1 .. Len(chain) : chain[i] = chain[j] => i = j
      BY DEF PromptOnce
    <3>7. CASE u = t
      BY <3>2, <3>3, <3>5, <3>7
    <3>8. CASE u # t
      BY <3>6, <3>8 DEF PromptOnce
    <3> QED
      BY <3>7, <3>8
  <2> QED
    BY <2>1, <2>2
<1>2. CASE prompt' = prompt
  BY <1>2 DEF PromptOnce
<1> QED
  BY <1>1, <1>2, StepCases, Zenon DEF ReserveSequenceTurn, Done, ResetSession, Quiet

-----------------------------------------------------------------------------
(* A turn that has passed Wait keeps the prompt and the ledger it has, and  *)
(* its lane starts no epoch again that is over.                             *)
LEMMA PassedKeeps ==
    ASSUME CancelInv, [Next]_vars, NEW t \in Turn, Passed(t)
    PROVE  /\ prompt'[t] = prompt[t] /\ ledger'[t] = ledger[t]
           /\ Valid(t)' => Valid(t)
<1> USE DEF CancelInv
<1>1. prompt'[t] = prompt[t] /\ ledger'[t] = ledger[t]
  <2>1. ASSUME NEW u \in Turn, PrepareTurnMessages(u) PROVE u # t
    BY <2>1, PrepareEffect DEF Passed, Running
  <2>2. CASE \E u \in Turn : PrepareTurnMessages(u)
    BY <2>1, <2>2, PrepareEffect
  <2>3. CASE ~ \E u \in Turn : PrepareTurnMessages(u)
    BY <2>3, StepCases, Zenon DEF ReserveSequenceTurn, Done, ResetSession, Quiet, billVars
  <2> QED
    BY <2>2, <2>3
<1>2. laneOf'[t] = laneOf[t] /\ t <= last
  BY PassedStays
<1>3. laneOf[t][2] <= epoch /\ laneOf[t][2] \in Int /\ epoch \in Int
  BY <1>2 DEF Reserved, TypeOK, LaneObject, Epoch
<1>4. epoch' = epoch \/ epoch' = epoch + 1
  BY StepCases, Zenon DEF ReserveSequenceTurn, PrepareTurnMessages, Done, ResetSession, Quiet
<1> QED
  BY <1>1, <1>2, <1>3, <1>4 DEF Valid

(* The same before Wait, for a turn that was reserved.                      *)
LEMMA ValidBefore ==
    ASSUME CancelInv, [Next]_vars, NEW t \in Turn, pc[t] # "free", Valid(t)'
    PROVE  Valid(t)
<1> USE DEF CancelInv
<1>1. t <= last
  BY DEF LaneInv, Numbered, TypeOK, Turn
<1>2. laneOf'[t] = laneOf[t]
  <2>1. CASE \E k \in Key, interrupt \in BOOLEAN : ReserveSequenceTurn(k, interrupt)
    BY <2>1, ReserveEffect, Zenon
  <2>2. CASE ~ \E k \in Key, interrupt \in BOOLEAN : ReserveSequenceTurn(k, interrupt)
    BY <2>2, StepCases, Zenon DEF PrepareTurnMessages, Done, ResetSession, Quiet, laneVars
  <2> QED
    BY <2>1, <2>2
<1>3. laneOf[t][2] <= epoch /\ laneOf[t][2] \in Int /\ epoch \in Int
  BY <1>1 DEF Reserved, TypeOK, LaneObject, Epoch
<1>4. epoch' = epoch \/ epoch' = epoch + 1
  BY StepCases, Zenon DEF ReserveSequenceTurn, PrepareTurnMessages, Done, ResetSession, Quiet
<1> QED
  BY <1>2, <1>3, <1>4 DEF Valid

(* Every step keeps StillCarried.                                           *)
LEMMA StillCarriedStep ==
    CancelInv /\ NoTrace /\ Carried /\ StillCarried /\ [Next]_vars => StillCarried'
<1> SUFFICES ASSUME CancelInv, NoTrace, Carried, StillCarried, [Next]_vars, ~stopped',
                    NEW u \in Turn, prompt'[u] # NoPrompt, Unbroken(u)'
             PROVE  /\ u \in lane'[laneOf'[u]].messageIDs
                    /\ laneOf'[u][1] \notin ProactiveKey =>
                         \E i \in 1 .. Len(lane'[laneOf'[u]].transcript) :
                             lane'[laneOf'[u]].transcript[i] = u
  BY DEF StillCarried
<1> USE DEF CancelInv
<1>0. ~stopped
  BY EndsAreFinal
<1> DEFINE l == laneOf[u]
<1>1. l \in LaneObject
  BY DEF TypeOK
<1>2. CASE prompt[u] # NoPrompt
  <2>1. Passed(u)
    BY <1>2 DEF NoTrace
  <2>2. laneOf'[u] = l
    BY <2>1, PassedStays
  <2>3. Unbroken(u)
    BY <2>1, UnbrokenBefore
  <2>4. /\ u \in lane[l].messageIDs
        /\ l[1] \notin ProactiveKey =>
             \E i \in 1 .. Len(lane[l].transcript) : lane[l].transcript[i] = u
    BY <1>0, <1>2, <2>3 DEF StillCarried
  <2>5. CASE lane'[l].messageIDs = lane[l].messageIDs /\ lane'[l].transcript = lane[l].transcript
    BY <2>2, <2>4, <2>5
  <2>6. ASSUME NEW t \in Turn, PrepareTurnMessages(t)
        PROVE  \/ lane'[l] = lane[l]
               \/ /\ lane'[l].messageIDs = lane[l].messageIDs \cup {t}
                  /\ lane'[l].transcript = CarriedTranscript(t, l)
    <3>1. /\ PreparedLane(t, l).messageIDs = lane[l].messageIDs \cup {t}
          /\ PreparedLane(t, l).transcript = CarriedTranscript(t, l)
      BY DEF PreparedLane
    <3> QED
      BY <1>1, <2>6, <3>1, PrepareEffect
  <2>7. ASSUME NEW t \in Turn, PrepareTurnMessages(t)
        PROVE  /\ u \in lane'[l].messageIDs
               /\ l[1] \notin ProactiveKey =>
                    \E i \in 1 .. Len(lane'[l].transcript) : lane'[l].transcript[i] = u
    <3>1. CASE lane'[l] = lane[l]
      BY <2>4, <3>1
    <3>2. CASE /\ lane'[l].messageIDs = lane[l].messageIDs \cup {t}
               /\ lane'[l].transcript = CarriedTranscript(t, l)
      <4>1. u \in lane'[l].messageIDs
        BY <2>4, <3>2
      <4>2. ASSUME l[1] \notin ProactiveKey
            PROVE  \E i \in 1 .. Len(lane'[l].transcript) : lane'[l].transcript[i] = u
        <5> DEFINE q == lane[l].transcript
        <5>1. q \in Seq(Turn)
          BY <1>1 DEF TypeOK, Lane
        <5>2. PICK i \in 1 .. Len(q) : q[i] = u
          BY <2>4, <4>2
        <5>3. lane'[l].transcript = Append(q, t)
          BY <3>2, <4>2 DEF CarriedTranscript
        <5> HIDE DEF q
        <5>4. i \in 1 .. Len(Append(q, t)) /\ Append(q, t)[i] = u
          BY <5>1, <5>2
        <5> QED
          BY <5>3, <5>4
      <4> QED
        BY <4>1, <4>2
    <3> QED
      BY <2>6, <2>7, <3>1, <3>2
  <2>8. ASSUME NEW v \in Turn, Done(v)
        PROVE  lane'[l].messageIDs = lane[l].messageIDs /\ lane'[l].transcript = lane[l].transcript
    <3>1. CASE laneOf[v] # l
      BY <1>1, <2>8, <3>1, DoneEffect
    <3>2. CASE laneOf[v] = l /\ Hands(v)
      <4>1. /\ FinishedLane(v, lane[l]).messageIDs = lane[l].messageIDs
            /\ FinishedLane(v, lane[l]).transcript = lane[l].transcript
        BY <3>2 DEF FinishedLane
      <4> QED
        BY <2>8, <3>2, <4>1, DoneEffect
    <3>3. CASE laneOf[v] = l /\ ~Hands(v)
      <4>1. v \notin refused
        BY <1>0 DEF LaneInv, Numbered
      <4>2. pc[v] = "closing" /\ pc'[v] = "done" /\ handed' = handed /\ refused' = refused
            /\ laneOf' = laneOf
        BY <2>8, <3>3, <4>1, DoneEffect
      <4>3. v \notin handed'
        BY <4>2 DEF Reserved
      <4>4. ~(u <= v)
        BY <3>3, <4>1, <4>2, <4>3 DEF Unbroken, SameLane
      <4>5. v < u
        BY <4>4 DEF Turn
      <4>6. pc[v] = "done"
        BY <2>1, <3>3, <4>5, EarlierDone DEF SameLane
      <4> QED
        BY <4>2, <4>6
    <3> QED
      BY <3>1, <3>2, <3>3
  <2>9. ASSUME NEW k \in Key, NEW interrupt \in BOOLEAN, ReserveSequenceTurn(k, interrupt)
        PROVE  lane'[l].messageIDs = lane[l].messageIDs /\ lane'[l].transcript = lane[l].transcript
    BY <1>1, <2>9, ReserveEffect, Zenon
  <2>10. CASE ResetSession \/ Quiet
    BY <2>5, <2>10 DEF ResetSession, Quiet, laneVars
  <2> QED
    BY <2>2, <2>5, <2>7, <2>8, <2>9, <2>10, StepCases, Zenon
<1>3. CASE prompt[u] = NoPrompt
  <2>1. PrepareTurnMessages(u) /\ Valid(u)
    <3>1. PICK t \in Turn : PrepareTurnMessages(t)
      BY <1>3, StepCases, Zenon DEF ReserveSequenceTurn, Done, ResetSession, Quiet
    <3> QED
      BY <1>3, <3>1, PrepareEffect
  <2>2. ~Passed(u) /\ laneOf' = laneOf
    BY <2>1, PrepareEffect DEF Passed, Running
  <2> DEFINE s == CarriedTranscript(u, l)
  <2>3. lane'[l].messageIDs = lane[l].messageIDs \cup {u} /\ lane'[l].transcript = s
    <3>1. /\ PreparedLane(u, l).messageIDs = lane[l].messageIDs \cup {u}
          /\ PreparedLane(u, l).transcript = s
      BY DEF PreparedLane
    <3> QED
      BY <2>1, <3>1, PrepareEffect
  <2>4. s \in Seq(Turn) /\ Len(s) > 0 /\ s[Len(s)] = u
    BY <1>1, <2>2, CarriedChain
  <2> HIDE DEF s
  <2>5. Len(s) \in 1 .. Len(s)
    BY <2>4
  <2> QED
    BY <2>2, <2>3, <2>4, <2>5
<1> QED
  BY <1>2, <1>3

-----------------------------------------------------------------------------
(* A turn's first call is made by a running turn of the current epoch.      *)
LEMMA CallBegins ==
    ASSUME CancelInv, [Next]_vars, NEW t \in Turn, HasCalled(t)', ~HasCalled(t)
    PROVE  pc[t] = "thinking" /\ Valid(t) /\ ~stopped
<1> USE DEF CancelInv
<1>1. PICK c \in Call : c[1] = t /\ call'[c] # "none"
  BY DEF HasCalled
<1>2. call[c] = "none"
  BY <1>1 DEF HasCalled
<1>3. call' # call
  BY <1>1, <1>2
<1>4. ASSUME NEW d \in Call, Settle(d) PROVE FALSE
  <2>1. call[d] = "inflight" /\ \A e \in Call \ {d} : call'[e] = call[e]
    BY <1>4 DEF Settle, TypeOK
  <2> QED
    BY <1>1, <1>2, <2>1
<1>5. PICK u \in Turn : StartCall(u)
  BY <1>3, <1>4, Zenon DEF Next, TurnStep, ReserveSequenceTurn, ResetSession, Stop, CloseConnection, vars,
        billVars, StartEvent, Wait, IgnoreEvent, RejectInput, PrepareTurnMessages, ReturnCall, EndLoop,
        WaitBilling, Answer, SendReply, AwaitDelivery, UnreportedReceipt, SendReceipt, Transmit, Done
<1>6. PICK n \in 1 .. MaxCall : call' = [call EXCEPT ![<<u, n>>] = "inflight"]
  BY <1>5, Zenon DEF StartCall
<1>7. c = <<u, n>>
  BY <1>1, <1>2, <1>6 DEF TypeOK
<1>8. u = t
  BY <1>1, <1>7
<1> QED
  BY <1>5, <1>8 DEF StartCall, RunCanceled

(* The chain of a prompt that a turn has prepared ends with its own input.  *)
LEMMA PreparedPrompt ==
    ASSUME CancelInv, Carried, NEW t \in Turn, PrepareTurnMessages(t), Valid(t)
    PROVE  LET l == laneOf[t]
               s == CarriedTranscript(t, l)
           IN  /\ l \in LaneObject /\ ~Passed(t)
               /\ prompt'[t].shared = history \ lane[l].messageIDs
               /\ prompt'[t].chain = s
               /\ prompt'[t] # NoPrompt
               /\ s \in Seq(Turn) /\ Len(s) > 0 /\ s[Len(s)] = t
<1> DEFINE l == laneOf[t]
           s == CarriedTranscript(t, l)
<1>1. l \in LaneObject /\ ~Passed(t) /\ prompt'[t] = PromptOf(t, l)
  BY PrepareEffect DEF Passed, Running, CancelInv
<1>2. prompt'[t].shared = history \ lane[l].messageIDs /\ prompt'[t].chain = s
  BY <1>1 DEF PromptOf
<1>3. s \in Seq(Turn) /\ Len(s) > 0 /\ s[Len(s)] = t
  BY <1>1, CarriedChain, Zenon DEF CancelInv
<1>4. NoPrompt.chain = <<>>
  BY DEF NoPrompt
<1>5. s # <<>>
  BY <1>3
<1> QED
  BY <1>1, <1>2, <1>3, <1>4, <1>5

(* Every step keeps PromptsCarry.                                           *)
LEMMA PromptsCarryStep ==
    CancelInv /\ NoTrace /\ Carried /\ StillCarried /\ PromptsCarry /\ [Next]_vars => PromptsCarry'
<1> SUFFICES ASSUME CancelInv, NoTrace, Carried, StillCarried, PromptsCarry, [Next]_vars
             PROVE  PromptsCarry'
  OBVIOUS
<1> USE DEF CancelInv
<1>0. stopped => stopped'
  BY EndsAreFinal
<1>1. ASSUME NEW t \in Turn, pc'[t] \in {"thinking", "calling"}, Valid(t)'
      PROVE  prompt'[t] # NoPrompt
  <2>1. CASE PrepareTurnMessages(t)
    <3>1. Valid(t)
      BY <1>1, <2>1, PrepareEffect, Zenon DEF Valid
    <3> QED
      BY <2>1, <3>1, PreparedPrompt
  <2>2. CASE ~PrepareTurnMessages(t)
    <3>1. pc[t] \in {"thinking", "calling"}
      <4>1. ASSUME NEW u \in Turn, QuietStep(u) PROVE pc[t] \in {"thinking", "calling"}
        <5>1. CASE StartEvent(u) \/ Wait(u) \/ IgnoreEvent(u) \/ RejectInput(u) \/ StartCall(u)
                   \/ ReturnCall(u) \/ EndLoop(u) \/ WaitBilling(u) \/ AwaitDelivery(u)
          BY <1>1, <5>1 DEF StartEvent, Wait, IgnoreEvent, RejectInput, StartCall, ReturnCall,
                            EndLoop, WaitBilling, AwaitDelivery, Goto, TypeOK
        <5>2. CASE Answer(u) \/ SendReply(u) \/ UnreportedReceipt(u) \/ SendReceipt(u)
          BY <1>1, <5>2 DEF Answer, NoAnswer, DropAnswer, SendAnswer, SendReply, SendReceipt,
                            Transmit, UnreportedReceipt, Goto, TypeOK
        <5> QED
          BY <4>1, <5>1, <5>2 DEF QuietStep
      <4>2. ASSUME NEW u \in Turn, PrepareTurnMessages(u) \/ Done(u)
            PROVE  pc[t] \in {"thinking", "calling"}
        BY <1>1, <2>2, <4>2, PrepareEffect, DoneEffect, Zenon
      <4>3. ASSUME NEW k \in Key, NEW interrupt \in BOOLEAN, ReserveSequenceTurn(k, interrupt)
            PROVE  pc[t] \in {"thinking", "calling"}
        BY <1>1, <4>3, ReserveEffect, Zenon
      <4>4. CASE ResetSession \/ Stop \/ CloseConnection \/ UNCHANGED vars \/ \E c \in Call : Settle(c)
        BY <1>1, <4>4 DEF ResetSession, Stop, CloseConnection, vars, Settle
      <4> QED
        BY <4>1, <4>2, <4>3, <4>4 DEF Next, TurnStep, QuietStep
    <3>2. Passed(t)
      BY <3>1 DEF Passed, Running, LaneInv, Numbered
    <3> QED
      BY <1>1, <3>1, <3>2, PassedKeeps DEF PromptsCarry
  <2> QED
    BY <2>1, <2>2
<1>2. ASSUME NEW t \in Turn, HasCalled(t)'
      PROVE  prompt'[t] # NoPrompt
  <2>1. prompt[t] # NoPrompt
    <3>1. CASE HasCalled(t)
      BY <3>1 DEF PromptsCarry
    <3>2. CASE ~HasCalled(t)
      BY <1>2, <3>2, CallBegins DEF PromptsCarry
    <3> QED
      BY <3>1, <3>2
  <2>2. Passed(t)
    BY <2>1 DEF NoTrace
  <2> QED
    BY <2>1, <2>2, PassedKeeps
<1>3. ASSUME NEW t \in Turn, NEW u \in Turn, prompt'[t] # NoPrompt, ~stopped' \/ HasCalled(t)',
             prompt'[u] # NoPrompt, Inherits(t, u)'
      PROVE  PromptCarries(t, u)'
  <2>1. CASE prompt[t] # NoPrompt
    <3>1. Passed(t)
      BY <2>1 DEF NoTrace
    <3>2. Inherits(t, u)
      BY <1>3, <3>1, InheritsSettled
    <3>3. prompt[u] # NoPrompt
      <4>1. pc[u] = "done" /\ u \notin refused
        BY <3>1, <3>2, EarlierDone DEF Inherits, SameLane
      <4>2. Passed(u)
        BY <4>1 DEF Passed
      <4> QED
        BY <1>3, <4>2, PassedKeeps
    <3>4. ~stopped \/ HasCalled(t)
      BY <1>0, <1>3, CallBegins
    <3>5. PromptCarries(t, u)
      BY <2>1, <3>2, <3>3, <3>4 DEF PromptsCarry
    <3>6. prompt'[t] = prompt[t] /\ laneOf'[t] = laneOf[t]
      BY <3>1, PassedKeeps, PassedStays
    <3> QED
      BY <3>5, <3>6 DEF PromptCarries
  <2>2. CASE prompt[t] = NoPrompt
    <3>1. PrepareTurnMessages(t) /\ Valid(t)
      <4>1. PICK v \in Turn : PrepareTurnMessages(v)
        BY <1>3, <2>2, StepCases, Zenon DEF ReserveSequenceTurn, Done, ResetSession, Quiet
      <4> QED
        BY <1>3, <2>2, <4>1, PrepareEffect, Zenon
    <3> DEFINE l == laneOf[t]
               s == CarriedTranscript(t, l)
    <3>2. /\ l \in LaneObject /\ ~Passed(t)
          /\ prompt'[t].shared = history \ lane[l].messageIDs
          /\ prompt'[t].chain = s
          /\ s \in Seq(Turn) /\ Len(s) > 0 /\ s[Len(s)] = t
      BY <3>1, PreparedPrompt, Zenon
    <3>3. /\ laneOf' = laneOf /\ handed' = handed /\ pc[t] = "admitted" /\ call' = call
          /\ stopped' = stopped
      BY <3>1, PrepareEffect
    <3>4. Inherits(t, u)
      BY <1>3, <3>3 DEF Inherits, SameLane
    <3>5. u < t /\ laneOf[u] = l /\ u # t
      BY <3>4 DEF Inherits, SameLane, Turn
    <3>6. prompt[u] # NoPrompt
      BY <1>3, <3>1, <3>5, PrepareEffect, Zenon
    <3>7. ~stopped
      <4>1. ~HasCalled(t)
        <5> SUFFICES ASSUME NEW c \in Call, c[1] = t PROVE call[c] = "none"
          BY DEF HasCalled
        <5>1. c = <<t, c[2]>> /\ c[2] \in 1 .. MaxCall
          BY DEF Call
        <5> QED
          BY <3>2, <5>1 DEF NoTrace
      <4> QED
        BY <1>3, <3>3, <4>1 DEF HasCalled
    <3>8. Unbroken(u)
      <4> SUFFICES ASSUME NEW v \in Turn, u <= v, SameLane(v, u), pc[v] = "done", v \notin refused
                   PROVE  v \in handed
        BY DEF Unbroken
      <4>1. Passed(v) /\ SameLane(t, v) /\ pc[t] \in Running
        BY <3>3, <3>5 DEF Passed, SameLane, Running
      <4>2. v <= t /\ v # t
        BY <3>3, <4>1, PassedFirst
      <4>3. v \in u .. (t - 1)
        BY <4>2 DEF Turn
      <4> QED
        BY <3>4, <4>1, <4>3 DEF Inherits, SameLane
    <3>9. /\ u \in lane[l].messageIDs
          /\ l[1] \notin ProactiveKey =>
               \E i \in 1 .. Len(lane[l].transcript) : lane[l].transcript[i] = u
      BY <3>5, <3>6, <3>7, <3>8 DEF StillCarried
    <3>10. CASE l[1] \in ProactiveKey
      <4>1. s = <<t>>
        BY <3>10 DEF CarriedTranscript
      <4>2. u \notin Elements(<<t>>)
        BY <3>5 DEF Elements
      <4> QED
        BY <3>2, <3>3, <3>9, <3>10, <4>1, <4>2 DEF PromptCarries
    <3>11. CASE l[1] \notin ProactiveKey
      <4> DEFINE q == lane[l].transcript
      <4>1. s = Append(q, t) /\ q \in Seq(Turn)
        BY <3>2, <3>11, Zenon DEF CarriedTranscript, TypeOK, Lane
      <4>2. PICK i \in 1 .. Len(q) : q[i] = u
        BY <3>9, <3>11
      <4> HIDE DEF q, s
      <4>3. /\ i \in 1 .. Len(s) /\ Len(s) \in 1 .. Len(s) /\ i < Len(s)
            /\ s[i] = u /\ s[Len(s)] = t
        BY <4>1, <4>2
      <4> QED
        BY <3>2, <3>3, <3>11, <4>3, Zenon DEF PromptCarries
    <3> QED
      BY <3>10, <3>11
  <2> QED
    BY <2>1, <2>2
<1> QED
  BY <1>1, <1>2, <1>3, Zenon DEF PromptsCarry

-----------------------------------------------------------------------------
(* Nothing was said in a fresh scope.                                       *)
LEMMA InputInit == Init => InputInv
<1> SUFFICES ASSUME Init
             PROVE  InputInv
  OBVIOUS
<1>1. \A l \in LaneObject : lane[l].transcript = <<>>
  BY DEF Init, EmptyLane
<1>2. /\ \A t \in Turn : pc[t] = "free" /\ prompt[t] = NoPrompt /\ ledger[t] = NoTurn
                         /\ sent[t] = {} /\ receipt[t] = {}
      /\ \A c \in Call : call[c] = "none"
      /\ history = {} /\ reported = {} /\ ignored = {}
  BY DEF Init
<1>3. NoTrace
  BY <1>2, Zenon DEF NoTrace, Call
<1>4. Carried /\ StillCarried
  BY <1>1, <1>2 DEF Carried, StillCarried
<1>5. PromptsCarry /\ PromptOnce
  <2>1. NoPrompt.shared = {} /\ NoPrompt.chain = <<>>
    BY DEF NoPrompt
  <2> QED
    BY <1>2, <2>1 DEF PromptsCarry, PromptOnce, HasCalled
<1> QED
  BY <1>3, <1>4, <1>5 DEF InputInv

(* Every step keeps InputInv.                                               *)
LEMMA InputStep == CancelInv /\ InputInv /\ [Next]_vars => InputInv'
  BY NoTraceStep, CarriedStep, StillCarriedStep, PromptsCarryStep, PromptOnceStep DEF InputInv

(* PromptOnce and InputsHandedOver for every number of turns, lanes, calls  *)
(* and epochs: PrepareTurnMessages puts every input an unbroken chain of    *)
(* interrupted turns left before the model, once and in order.              *)
THEOREM InputsReachHeir == Spec => [](PromptOnce /\ InputsHandedOver)
<1>1. InputInv => PromptOnce /\ InputsHandedOver
  BY DEF InputInv, PromptsCarry, HasCalled, PromptCarries, InputsHandedOver
<1> QED
  BY <1>1, InputInit, InputStep, CancelInvHolds, PTL DEF Spec
=============================================================================
