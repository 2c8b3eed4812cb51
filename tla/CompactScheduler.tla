-------------------------- MODULE CompactScheduler --------------------------
(***************************************************************************)
(* When a group is compacted (internal/llm/group_compactor.go): triggers,  *)
(* the cooldown between two runs, the timer that bridges it, forced runs,  *)
(* and the shutdown.  One group; the compactor's mutex makes each trigger, *)
(* callback and ending one step.  What a compaction does to the summary is *)
(* in GroupCompact, here it takes the eligible prefix of the buffer away.  *)
(***************************************************************************)
EXTENDS Integers, Sequences, SequencesExt, FiniteSets

CONSTANTS Batch,       \* bufferSize
          MaxMessage,  \* bound on the messages that arrive
          MaxForce,    \* bound on the forced compactions
          MaxToken,    \* bound on the timers and callbacks at one time
          MayDrop,     \* staged messages may be dropped
          MayStop,     \* the runtime may stop
          CancelFirst  \* Runtime.Stop cancels the scope before the timers;
                       \* GroupCompactor.Close stops the timers first

VARIABLES
  buffer,   \* groupCompactBuffer: whether each message is staged
  arrived,  \* messages so far
  inflight, \* inflight[key]
  cooling,  \* less than minInterval has passed since lastRun
  timer,    \* scheduledToken[key], 0 if nothing is scheduled
  armed,    \* tokens of the timers that have neither fired nor been stopped
  fired,    \* tokens whose callback waits for the mutex
  calls,    \* goroutines about to call TriggerWithScope
  comps,    \* compactions: a bag of program counters
  forced,   \* forced compactions so far
  stopped,  \* the scope is cancelled
  stopPC,   \* how far the shutdown is
  excused   \* a drop or a failure without retry, and no trigger since

timerVars == <<timer, armed, fired>>
vars == <<buffer, arrived, inflight, cooling, timerVars, calls, comps, forced,
          stopped, stopPC, excused>>

CompPC == {"starting", "running", "ending", "failing", "broken"}

Init ==
  /\ buffer = <<>> /\ arrived = 0
  /\ inflight = FALSE /\ cooling = FALSE
  /\ timer = 0 /\ armed = {} /\ fired = {}
  /\ calls = 0 /\ comps = [pc \in CompPC |-> 0] /\ forced = 0
  /\ stopped = FALSE /\ stopPC = "none"
  /\ excused = FALSE

-----------------------------------------------------------------------------
\* The messages before the first staged one.
Eligible(b) ==
  LET first == SelectInSeq(b, LAMBDA staged : staged)
  IN IF first = 0 THEN Len(b) ELSE first - 1

GroupCompactReady(b) == Eligible(b) >= Batch

\* A compaction moves from one program counter to another; "none" is outside.
Move(from, to) ==
  comps' = [pc \in CompPC |->
              comps[pc] + (IF pc = to THEN 1 ELSE 0) - (IF pc = from THEN 1 ELSE 0)]

\* scheduledTimerSeq counts up; a number that no callback holds is as good as
\* a new one.
NewToken(t) == t \in (1..MaxToken) \ (armed \cup fired)
               /\ \A u \in 1..(t - 1) : u \in armed \cup fired

scheduleTriggerLocked ==
  IF stopped \/ timer # 0 THEN UNCHANGED timerVars
  ELSE /\ \E t \in 1..MaxToken :
            NewToken(t) /\ timer' = t /\ armed' = armed \cup {t}
       /\ UNCHANGED fired

cancelScheduledLocked ==
  /\ timer' = 0
  /\ armed' = armed \ {timer}
  /\ UNCHANGED fired

Start ==
  /\ cancelScheduledLocked
  /\ inflight' = TRUE /\ cooling' = TRUE
  /\ Move("none", "starting")

-----------------------------------------------------------------------------
(* Messages *)

\* captureGroupCompactText: append, then trigger.
AppendMessage ==
  /\ arrived < MaxMessage
  /\ buffer' = Append(buffer, FALSE)
  /\ arrived' = arrived + 1
  /\ calls' = calls + 1
  /\ UNCHANGED <<inflight, cooling, timerVars, comps, forced, stopped, stopPC, excused>>

Stage ==
  /\ arrived < MaxMessage
  /\ buffer' = Append(buffer, TRUE)
  /\ arrived' = arrived + 1
  /\ UNCHANGED <<inflight, cooling, timerVars, calls, comps, forced, stopped,
                 stopPC, excused>>

\* Promote calls onPromote, which triggers.
Promote(i) ==
  /\ buffer[i]
  /\ buffer' = [buffer EXCEPT ![i] = FALSE]
  /\ calls' = calls + 1
  /\ UNCHANGED <<arrived, inflight, cooling, timerVars, comps, forced, stopped,
                 stopPC, excused>>

\* A drop invalidates the snapshot of a running compaction and triggers nothing.
Drop(i) ==
  /\ MayDrop /\ buffer[i]
  /\ buffer' = RemoveAt(buffer, i)
  /\ comps' = [comps EXCEPT !["running"] = 0, !["failing"] = @ + comps["running"]]
  /\ excused' = TRUE
  /\ UNCHANGED <<arrived, inflight, cooling, timerVars, calls, forced, stopped, stopPC>>

-----------------------------------------------------------------------------
(* Triggers and timers *)

IgnoresInflight == stopped

NotNow == stopped \/ inflight

TriggerWithScope ==
  /\ calls > 0
  /\ calls' = calls - 1
  /\ excused' = FALSE
  /\ IF NotNow THEN UNCHANGED <<inflight, cooling, timerVars, comps>>
     ELSE IF cooling
     THEN /\ IF GroupCompactReady(buffer) THEN scheduleTriggerLocked
                                          ELSE UNCHANGED timerVars
          /\ UNCHANGED <<inflight, cooling, comps>>
     ELSE IF GroupCompactReady(buffer) THEN Start
     ELSE UNCHANGED <<inflight, cooling, timerVars, comps>>
  /\ UNCHANGED <<buffer, arrived, forced, stopped, stopPC>>

ForceCompact ==
  /\ forced < MaxForce
  /\ ~NotNow /\ Eligible(buffer) >= 1
  /\ forced' = forced + 1
  /\ Start
  /\ UNCHANGED <<buffer, arrived, calls, stopped, stopPC, excused>>

\* minInterval has passed.
CooldownEnds ==
  /\ cooling
  /\ cooling' = FALSE
  /\ UNCHANGED <<buffer, arrived, inflight, timerVars, calls, comps, forced,
                 stopped, stopPC, excused>>

\* A timer is armed for a time after the cooldown.
TimerFires(t) ==
  /\ t \in armed /\ ~cooling
  /\ armed' = armed \ {t}
  /\ fired' = fired \cup {t}
  /\ UNCHANGED <<buffer, arrived, inflight, cooling, timer, calls, comps,
                 forced, stopped, stopPC, excused>>

AnyToken(t) == TRUE

\* The callback is that of the timer in the map, not of an older one.
CurrentToken(t) == timer = t

TimerCallback(t) ==
  /\ t \in fired
  /\ fired' = fired \ {t}
  /\ IF CurrentToken(t) THEN timer' = 0 /\ calls' = calls + 1
                        ELSE UNCHANGED <<timer, calls>>
  /\ UNCHANGED <<buffer, arrived, inflight, cooling, armed, comps, forced,
                 stopped, stopPC, excused>>

-----------------------------------------------------------------------------
(* A compaction *)

\* c.Go starts the goroutine unless the scope is cancelled.
Launch ==
  /\ comps["starting"] > 0
  /\ Move("starting", IF stopped THEN "none" ELSE "running")
  /\ UNCHANGED <<buffer, arrived, inflight, cooling, timerVars, calls, forced,
                 stopped, stopPC, excused>>

\* The model answers and the batch, or an older part of it, is committed.
Commit ==
  /\ comps["running"] > 0
  /\ \E n \in 1..Eligible(buffer) : buffer' = SubSeq(buffer, n + 1, Len(buffer))
  /\ Move("running", "ending")
  /\ UNCHANGED <<arrived, inflight, cooling, timerVars, calls, forced, stopped,
                 stopPC, excused>>

\* The call fails, or bindGroupStore does and forbids the retry.
CompactFails(to) ==
  /\ comps["running"] > 0
  /\ Move("running", to)
  /\ UNCHANGED <<buffer, arrived, inflight, cooling, timerVars, calls, forced,
                 stopped, stopPC, excused>>

NoReschedule == UNCHANGED timerVars

\* A batch that became ready during the run is scheduled, also after a failure.
Reschedule ==
  IF GroupCompactReady(buffer) THEN scheduleTriggerLocked ELSE UNCHANGED timerVars

KeepsInflight == inflight

\* inflight[key] after a compaction.
InflightAfter == FALSE

\* The deferred function of compact.
CompactEnds(from) ==
  /\ comps[from] > 0
  /\ Move(from, "none")
  /\ inflight' = InflightAfter
  /\ IF from # "broken" THEN Reschedule ELSE UNCHANGED timerVars
  /\ excused' = (excused \/ from = "broken")
  /\ UNCHANGED <<buffer, arrived, cooling, calls, forced, stopped, stopPC>>

-----------------------------------------------------------------------------
(* Runtime.Stop, or GroupCompactor.Close *)

StopTimersStep ==
  /\ cancelScheduledLocked
  /\ UNCHANGED stopped

CancelStep ==
  /\ stopped' = TRUE
  /\ UNCHANGED timerVars

\* The order of the two steps before the wait.
ShutdownStep(n) ==
  IF CancelFirst = (n = 1) THEN CancelStep ELSE StopTimersStep

Stop(n, from, to) ==
  /\ MayStop /\ stopPC = from
  /\ stopPC' = to
  /\ ShutdownStep(n)
  /\ UNCHANGED <<buffer, arrived, inflight, cooling, calls, comps, forced, excused>>

DoneAtOnce == TRUE

\* Scope.Wait returns when no goroutine of the scope is left.
WaitReturns == \A pc \in CompPC \ {"starting"} : comps[pc] = 0

StopReturns ==
  /\ stopPC = "waiting" /\ WaitReturns
  /\ stopPC' = "done"
  /\ UNCHANGED <<buffer, arrived, inflight, cooling, timerVars, calls, comps,
                 forced, stopped, excused>>

-----------------------------------------------------------------------------
CompactStep ==
  \/ Launch \/ Commit
  \/ \E to \in {"failing", "broken"} : CompactFails(to)
  \/ \E from \in {"ending", "failing", "broken"} : CompactEnds(from)

Next ==
  \/ AppendMessage \/ Stage
  \/ \E i \in DOMAIN buffer : Promote(i) \/ Drop(i)
  \/ TriggerWithScope \/ ForceCompact \/ CooldownEnds
  \/ \E t \in 1..MaxToken : TimerFires(t) \/ TimerCallback(t)
  \/ CompactStep
  \/ Stop(1, "none", "half") \/ Stop(2, "half", "waiting") \/ StopReturns

Spec == Init /\ [][Next]_vars

\* Goroutines run on, time passes, and a compaction that is retried for ever
\* succeeds at last.
Proceeds ==
  \/ TriggerWithScope \/ CooldownEnds \/ CompactStep
  \/ \E t \in 1..MaxToken : TimerFires(t) \/ TimerCallback(t)

Fairness == WF_vars(Proceeds) /\ SF_vars(Commit)

FairSpec == Spec /\ Fairness

-----------------------------------------------------------------------------
(* Properties *)

\* Every variable has its type.
TypeOK ==
  /\ buffer \in Seq(BOOLEAN) /\ arrived \in 0..MaxMessage
  /\ {inflight, cooling, stopped, excused} \subseteq BOOLEAN
  /\ timer \in 0..MaxToken
  /\ armed \subseteq 1..MaxToken /\ fired \subseteq 1..MaxToken
  /\ calls \in Nat /\ comps \in [CompPC -> 0..1] /\ forced \in 0..MaxForce
  /\ stopPC \in {"none", "half", "waiting", "done"}

\* The group is compacted by one goroutine at a time, whatever triggers, timers
\* and forced runs there are, and inflight says so.
OneCompaction ==
  /\ \A pc, qc \in CompPC : comps[pc] + comps[qc] > 1 => pc = qc /\ comps[pc] = 1
  /\ ~stopped => (inflight <=> \E pc \in CompPC : comps[pc] > 0)

\* A batch that is ready is never forgotten: someone is compacting, is about to
\* trigger, or a timer will.  A trigger that falls into the cooldown or into a
\* run leaves a timer or the run's end behind.  (After a drop, or a failure
\* that forbids the retry, the next trigger takes care of it.)
ReadyIsAttended ==
  GroupCompactReady(buffer) /\ ~stopped /\ ~excused /\ stopPC = "none"
    => inflight \/ timer # 0 \/ calls > 0

\* The map knows every timer that may still fire, so that a cancellation stops
\* it: a callback that lost the race does not remove its successor's entry.
NoStrayTimer == armed \subseteq {timer}

\* After the shutdown has returned nothing runs and no timer is left: "Close
\* stops any scheduled timers, cancels in-flight work and waits for all
\* compactor goroutines to exit."
QuietAfterStop ==
  stopPC = "done" => armed = {} /\ \A pc \in CompPC \ {"starting"} : comps[pc] = 0

\* One compaction at a time, a trigger for every full batch, no timer that is
\* not accounted for, and quiet after Close (GroupCompactor).
WellScheduled == OneCompaction /\ ReadyIsAttended /\ NoStrayTimer /\ QuietAfterStop

\* A full batch is compacted in the end.
ReadyIsCompacted ==
  GroupCompactReady(buffer) ~> (~GroupCompactReady(buffer) \/ stopped \/ excused)
=============================================================================
