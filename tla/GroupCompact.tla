---------------------------- MODULE GroupCompact ----------------------------
(***************************************************************************)
(* The running summary of one group session (internal/llm/session.go).     *)
(*                                                                         *)
(* Group messages enter a bounded buffer, as committed or as staged.  A    *)
(* staged slot belongs to a turn that has not been answered yet; the       *)
(* turn's guard later promotes its slots or drops them.  One compaction at *)
(* a time takes the committed prefix of the buffer, asks a model for a new *)
(* running summary and commits it, unless the generation has changed.  It  *)
(* then distils the same messages into the group's memory behind a         *)
(* barrier.  Meanwhile messages are revoked and the session is reset; both *)
(* must stop a distillation that has not been written and wait for one     *)
(* that is being written.                                                  *)
(*                                                                         *)
(* Slots are numbered by groupCompactSequence.  A summary is the set of    *)
(* slots whose content it was made from.                                   *)
(***************************************************************************)
EXTENDS Integers, FiniteSets, Sequences, SequencesExt

CONSTANTS Id,            \* platform message IDs
          NoID,          \* the empty message ID
          MaxSlot,       \* bound on the slots ever appended
          BufferSize,    \* batch size of an automatic compaction
          MaxBuffer,     \* capacity of the buffer
          MaxSources,    \* committed batches remembered as distillable
          MaxDistill,    \* bound on the distillations begun
          MaxGeneration, \* bound on the generation
          Resets,        \* kinds of reset that happen: "session", "group"
          MayFail        \* storage failures happen

Slot == 1..MaxSlot
Ids == Id \cup {NoID}

ASSUME ConstantsAssumption ==
  /\ NoID \notin Id
  /\ MaxSlot \in Nat /\ BufferSize \in Nat \ {0} /\ MaxBuffer \in Nat \ {0}
  /\ MaxSources \in Nat \ {0} /\ MaxDistill \in Nat /\ MaxGeneration \in Nat
  /\ Resets \subseteq {"session", "group"} /\ MayFail \in BOOLEAN

VARIABLES
  seq,        \* groupCompactSequence
  id,         \* message ID of every slot
  buffer,     \* groupCompactBuffer, ordered by slot number
  staged,     \* the slots of the buffer that are staged
  guard,      \* guard of the turn whose first slot is this one
  generation, \* groupCompactGeneration
  summary, prev,           \* groupCompactSummary and the one before it
  lastIDs,                 \* lastCommittedMessageIDs
  groupIDs, prevGroupIDs,  \* message IDs of groupSummaryGroups and the ones before
  sources,    \* validCommittedSources: ThroughSequence to slots
  revoked,    \* revokedMessageIDs
  comp,       \* the compaction in flight
  barrier,    \* its distillation barrier
  store,      \* slots with a distilled entry in the group's memory
  revoke,     \* what a drop of this message ID still has to do
  reset,      \* what a reset still has to do
  stopped,    \* the runtime scope is cancelled
  lost,       \* slots removed on purpose: evicted, dropped, rolled back, reset
  dropped,    \* slots some drop named
  cut         \* slots assigned before the last ResetGroupCompact that returned

bufferVars == <<seq, id, buffer, staged, guard>>
summaryVars == <<summary, prev, lastIDs, groupIDs, prevGroupIDs>>
sourceVars == <<sources, revoked>>
vars == <<bufferVars, generation, summaryVars, sourceVars, comp, barrier,
          store, revoke, reset, stopped, lost, dropped, cut>>

Least(S) == CHOOSE s \in S : \A t \in S : s <= t
Greatest(S) == CHOOSE s \in S : \A t \in S : s >= t

NoSnapshot == [slots |-> {}, through |-> 0, generation |-> 0, summary |-> {}]
NoBarrier == [number |-> 0, state |-> "done", aborted |-> FALSE, registered |-> FALSE]
ClosedGuard == [status |-> "none", slots |-> <<>>, next |-> 1]
Idle == [pc |-> "idle", target |-> 0]

Init ==
  /\ seq = 0 /\ id = [s \in Slot |-> NoID]
  /\ buffer = {} /\ staged = {}
  /\ guard = [s \in Slot |-> ClosedGuard]
  /\ generation = 0
  /\ summary = {} /\ prev = {} /\ lastIDs = {} /\ groupIDs = {} /\ prevGroupIDs = {}
  /\ sources = {} /\ revoked = {}
  /\ comp = [pc |-> "idle", snap |-> NoSnapshot] /\ barrier = NoBarrier
  /\ store = {}
  /\ revoke = [m \in Id |-> Idle]
  /\ reset = [pc |-> "idle", kind |-> "none", target |-> 0, mark |-> 0]
  /\ stopped = FALSE /\ lost = {} /\ dropped = {} /\ cut = 0

-----------------------------------------------------------------------------
(* The buffer *)

EvictsNothing(buf, stg) == {}

\* The slot that an append over capacity removes: the oldest committed one,
\* and the oldest staged one only when every slot is staged.
Evicted(buf, stg) ==
  IF Cardinality(buf) <= MaxBuffer THEN {}
  ELSE IF buf \ stg # {} THEN {Least(buf \ stg)} ELSE {Least(buf)}

appendGroupCompactInternal(m, isStaged) ==
  /\ seq < MaxSlot
  /\ seq' = seq + 1
  /\ id' = [id EXCEPT ![seq + 1] = m]
  /\ LET buf == buffer \cup {seq + 1}
         stg == IF isStaged THEN staged \cup {seq + 1} ELSE staged
         out == Evicted(buf, stg)
     IN /\ buffer' = buf \ out
        /\ staged' = stg \ out
        /\ lost' = lost \cup out
  /\ UNCHANGED <<generation, summaryVars, sourceVars, comp, barrier, store,
                 revoke, reset, stopped, dropped, cut>>

AppendGroupCompactMessage(m) ==
  appendGroupCompactInternal(m, FALSE) /\ UNCHANGED guard

StageGroupCompactWithGuard(m) ==
  /\ appendGroupCompactInternal(m, TRUE)
  /\ guard' = [guard EXCEPT ![seq + 1] =
                 [status |-> "open", slots |-> <<seq + 1>>, next |-> 1]]

\* A tool of the turn sends an intermediate reply: staged, and bound to the
\* turn's guard.
AddSequence(g) ==
  /\ guard[g].status = "open"
  /\ appendGroupCompactInternal(NoID, TRUE)
  /\ guard' = [guard EXCEPT ![g].slots = Append(@, seq + 1)]

\* Finalising a guard takes the session lock once per slot.
Finalised(g, status) ==
  [guard EXCEPT ![g].next = @ + 1,
                ![g].status = IF guard[g].next = Len(guard[g].slots)
                              THEN "closed" ELSE status]

Promote(g) ==
  /\ guard[g].status \in {"open", "promoting"}
  /\ staged' = staged \ {guard[g].slots[guard[g].next]}
  /\ guard' = Finalised(g, "promoting")
  /\ UNCHANGED <<seq, id, buffer, generation, summaryVars, sourceVars, comp,
                 barrier, store, revoke, reset, stopped, lost, dropped, cut>>

-----------------------------------------------------------------------------
(* Dropping a message *)

SlotsOf(m) == {s \in 1..seq : id[s] = m}

Polluted(m) == m \in lastIDs \/ m \in groupIDs

SameGeneration == generation

\* The increment of groupCompactGeneration that outdates a snapshot in flight.
NextGeneration == generation + 1

\* DropGroupCompactSlotChecked under the session lock: out are the slots
\* removed from the buffer, m the message ID passed, if any.
DropLocked(out, m) ==
  /\ generation < MaxGeneration
  /\ generation' = NextGeneration
  /\ buffer' = buffer \ out
  /\ staged' = staged \ out
  /\ IF m # NoID /\ Polluted(m)
     THEN /\ summary' = prev /\ groupIDs' = prevGroupIDs
          /\ prev' = {} /\ prevGroupIDs' = {} /\ lastIDs' = {}
          /\ lost' = lost \cup out \cup (summary \ prev)
     ELSE lost' = lost \cup out /\ UNCHANGED summaryVars
  /\ IF m = NoID
     THEN UNCHANGED <<sourceVars, revoke>>
     ELSE /\ revoked' = revoked \cup {m}
          /\ sources' = {src \in sources : src.slots \cap SlotsOf(m) = {}}
          /\ revoke' = [revoke EXCEPT ![m] =
               [pc |-> "aborting",
                target |-> IF barrier.registered /\ comp.snap.slots \cap SlotsOf(m) # {}
                           THEN barrier.number ELSE 0]]
  /\ UNCHANGED <<seq, id, comp, barrier, store, reset, stopped, cut>>

NotDropping(m) == m # NoID => revoke[m].pc \in {"idle", "returned"}

\* The guard of a refused turn.  Only the last slot carries the message ID.
Drop(g) ==
  LET s == guard[g].slots[guard[g].next]
      m == IF guard[g].next = Len(guard[g].slots) THEN id[g] ELSE NoID
  IN /\ guard[g].status \in {"open", "dropping"}
     /\ NotDropping(m)
     /\ DropLocked({s} \cap staged, m)
     /\ guard' = Finalised(g, "dropping")
     /\ dropped' = dropped \cup {s}

\* A refused message without a guard, named by its ID.
DropGroupCompactMessage(m) ==
  /\ SlotsOf(m) # {}
  /\ NotDropping(m)
  /\ DropLocked(buffer \cap SlotsOf(m), m)
  /\ dropped' = dropped \cup SlotsOf(m)
  /\ UNCHANGED guard

-----------------------------------------------------------------------------
(* groupDistillationBarrier *)

Alive(n) == n # 0 /\ n = barrier.number

Valid == ~barrier.aborted /\ barrier.state \in {"pending", "writing"} /\ ~stopped

\* AbortAndWait on barrier n, up to the wait.
Aborted(n) ==
  IF ~Alive(n) THEN barrier
  ELSE [barrier EXCEPT !.aborted = TRUE,
                       !.state = IF @ = "writing" THEN @ ELSE "aborted"]

WaitsUntilDone(n) == Alive(n) => barrier.state = "done"

\* AbortAndWait on barrier n returns.
Released(n) == Alive(n) => barrier.state # "writing"

\* The part of a drop that runs outside the session lock.
AbortBarriers(m) ==
  /\ revoke[m].pc = "aborting"
  /\ barrier' = Aborted(revoke[m].target)
  /\ revoke' = [revoke EXCEPT ![m].pc = "waiting"]
  /\ UNCHANGED <<bufferVars, generation, summaryVars, sourceVars, comp, store,
                 reset, stopped, lost, dropped, cut>>

StoreFree == comp.pc \notin {"writing", "checked", "ending"}

PurgeDistilledEntries(m) ==
  /\ revoke[m].pc = "waiting" /\ Released(revoke[m].target)
  /\ StoreFree
  /\ \/ /\ store' = store \ SlotsOf(m)
        /\ revoke' = [revoke EXCEPT ![m] = [pc |-> "returned", target |-> 0]]
        /\ UNCHANGED stopped
     \/ /\ MayFail \* PauseOnStorageError
        /\ revoke' = [revoke EXCEPT ![m] = [pc |-> "failed", target |-> 0]]
        /\ stopped' = TRUE
        /\ UNCHANGED store
  /\ UNCHANGED <<bufferVars, generation, summaryVars, sourceVars, comp, barrier,
                 reset, lost, dropped, cut>>

-----------------------------------------------------------------------------
(* Compaction and distillation *)

EligibleIgnoringStaged == buffer

\* The committed slots before the first staged one.
Eligible == {s \in buffer : \A t \in staged : s < t}

\* n is BufferSize for TriggerWithScope and 1 for ForceCompact.
SnapshotGroupCompact(n) ==
  /\ comp.pc = "idle" /\ ~stopped
  /\ Cardinality(Eligible) >= n
  /\ comp' = [pc |-> "calling",
              snap |-> [slots |-> Eligible, through |-> Greatest(Eligible),
                        generation |-> generation, summary |-> summary]]
  /\ UNCHANGED <<bufferVars, generation, summaryVars, sourceVars, barrier,
                 store, revoke, reset, stopped, lost, dropped, cut>>

Finish == comp' = [pc |-> "idle", snap |-> NoSnapshot]

\* The model fails, answers nothing, or the snapshot is out of date; with a
\* database the summary may also fail to persist, which stops the runtime.
CompactFails ==
  /\ comp.pc = "calling"
  /\ Finish
  /\ stopped' \in {stopped, stopped \/ MayFail}
  /\ UNCHANGED <<bufferVars, generation, summaryVars, sourceVars, barrier,
                 store, revoke, reset, lost, dropped, cut>>

\* The newest MaxSources committed batches.
Newest(S) ==
  {src \in S : Cardinality({o \in S : o.through > src.through}) < MaxSources}

SurvivingLast(snap) == {s \in buffer : s >= snap.through}

Surviving(snap) == {s \in buffer : s > snap.through}

CommitGroupCompact ==
  LET snap == comp.snap
      ids == {id[s] : s \in snap.slots} \ {NoID}
  IN /\ comp.pc = "calling"
     /\ snap.generation = generation
     /\ prev' = summary /\ prevGroupIDs' = groupIDs
     /\ summary' = snap.summary \cup snap.slots
     /\ lastIDs' = ids /\ groupIDs' = ids
     /\ sources' = Newest(sources \cup {[through |-> snap.through, slots |-> snap.slots]})
     /\ buffer' = Surviving(snap)
     /\ comp' = [comp EXCEPT !.pc = "committed"]
     /\ UNCHANGED <<seq, id, staged, guard, generation, revoked, barrier, store,
                    revoke, reset, stopped, lost, dropped, cut>>

\* No group, no writer, or the group store cannot be opened.
SkipDistillation ==
  /\ comp.pc = "committed"
  /\ Finish
  /\ UNCHANGED <<bufferVars, generation, summaryVars, sourceVars, barrier, store,
                 revoke, reset, stopped, lost, dropped, cut>>

AlwaysDistillable(snap) == TRUE

Distillable(snap) ==
  /\ \E src \in sources : src.through = snap.through
                          /\ id[Least(src.slots)] = id[Least(snap.slots)]
  /\ \A s \in snap.slots : id[s] \notin revoked

\* A snapshot that is not distillable gets an aborted barrier and a cancelled
\* context, so that the extraction returns at once.
BeginGroupDistillation ==
  /\ comp.pc = "committed"
  /\ IF Distillable(comp.snap)
     THEN /\ barrier.number < MaxDistill
          /\ barrier' = [number |-> barrier.number + 1, state |-> "pending",
                         aborted |-> FALSE, registered |-> TRUE]
          /\ comp' = [comp EXCEPT !.pc = "distilling"]
     ELSE Finish /\ UNCHANGED barrier
  /\ UNCHANGED <<bufferVars, generation, summaryVars, sourceVars, store, revoke,
                 reset, stopped, lost, dropped, cut>>

\* The extraction ends before it saves anything.
ExtractFails ==
  /\ comp.pc = "distilling"
  /\ comp' = [comp EXCEPT !.pc = "cleanup"]
  /\ UNCHANGED <<bufferVars, generation, summaryVars, sourceVars, barrier, store,
                 revoke, reset, stopped, lost, dropped, cut>>

TryBeginCommit ==
  /\ comp.pc = "distilling"
  /\ IF Valid
     THEN barrier' = [barrier EXCEPT !.state = "writing"]
          /\ comp' = [comp EXCEPT !.pc = "writing"]
     ELSE barrier' = [barrier EXCEPT !.state = "aborted"]
          /\ comp' = [comp EXCEPT !.pc = "cleanup"]
  /\ UNCHANGED <<bufferVars, generation, summaryVars, sourceVars, store, revoke,
                 reset, stopped, lost, dropped, cut>>

\* The last verification before the write.
VerifyCommit ==
  /\ comp.pc = "writing"
  /\ comp' = [comp EXCEPT !.pc = IF Valid THEN "checked" ELSE "ending"]
  /\ UNCHANGED <<bufferVars, generation, summaryVars, sourceVars, barrier, store,
                 revoke, reset, stopped, lost, dropped, cut>>

\* The write of the entries found in the messages facts; a failure stops the
\* runtime.
SaveEntries ==
  /\ comp.pc = "checked"
  /\ comp' = [comp EXCEPT !.pc = "ending"]
  /\ \/ \E facts \in SUBSET comp.snap.slots \ {{}} : store' = store \cup facts
        /\ UNCHANGED stopped
     \/ MayFail /\ stopped' = TRUE /\ UNCHANGED store
  /\ UNCHANGED <<bufferVars, generation, summaryVars, sourceVars, barrier,
                 revoke, reset, lost, dropped, cut>>

EndCommitForgetsAborted ==
  /\ comp.pc = "ending"
  /\ barrier' = [barrier EXCEPT !.state = IF barrier.aborted THEN @ ELSE "done"]
  /\ comp' = [comp EXCEPT !.pc = "cleanup"]
  /\ UNCHANGED <<bufferVars, generation, summaryVars, sourceVars, store, revoke,
                 reset, stopped, lost, dropped, cut>>

EndCommit ==
  /\ comp.pc = "ending"
  /\ barrier' = [barrier EXCEPT !.state =
                   IF barrier.aborted \/ stopped THEN "aborted" ELSE "done"]
  /\ comp' = [comp EXCEPT !.pc = "cleanup"]
  /\ UNCHANGED <<bufferVars, generation, summaryVars, sourceVars, store, revoke,
                 reset, stopped, lost, dropped, cut>>

Cleanup ==
  /\ comp.pc = "cleanup"
  /\ barrier' = [barrier EXCEPT !.registered = FALSE,
                                !.state = IF @ = "pending" THEN "done" ELSE @]
  /\ sources' = {src \in sources : src.through # comp.snap.through}
  /\ Finish
  /\ UNCHANGED <<bufferVars, generation, summaryVars, revoked, store, revoke,
                 reset, stopped, lost, dropped, cut>>

-----------------------------------------------------------------------------
(* Resets *)

ForgetNothing(kind) == UNCHANGED sourceVars

\* Only ResetGroupCompact forgets the committed sources and the revocations.
ForgetSources(kind) ==
  IF kind = "group" THEN sources' = {} /\ revoked' = {} ELSE UNCHANGED sourceVars

\* What ResetSession and ResetGroupCompact clear under the session lock.
Reset(kind) ==
  /\ kind \in Resets
  /\ reset.pc = "idle" /\ generation < MaxGeneration
  /\ generation' = NextGeneration
  /\ buffer' = {} /\ staged' = {}
  /\ summary' = {} /\ prev' = {} /\ lastIDs' = {} /\ groupIDs' = {} /\ prevGroupIDs' = {}
  /\ ForgetSources(kind)
  /\ revoke' = [m \in Id |-> IF kind = "group" /\ revoke[m].pc = "returned"
                             THEN Idle ELSE revoke[m]]
  /\ reset' = [pc |-> "aborting", kind |-> kind, mark |-> seq,
               target |-> IF barrier.registered THEN barrier.number ELSE 0]
  /\ barrier' = [barrier EXCEPT !.registered = FALSE]
  /\ lost' = 1..seq
  /\ UNCHANGED <<seq, id, guard, comp, store, stopped, dropped, cut>>

ResetAbort ==
  /\ reset.pc = "aborting"
  /\ barrier' = Aborted(reset.target)
  /\ reset' = [reset EXCEPT !.pc = "waiting"]
  /\ UNCHANGED <<bufferVars, generation, summaryVars, sourceVars, comp, store,
                 revoke, stopped, lost, dropped, cut>>

ResetReturn ==
  /\ reset.pc = "waiting" /\ Released(reset.target)
  /\ reset' = [reset EXCEPT !.pc = "idle", !.target = 0]
  /\ cut' = IF reset.kind = "group" THEN reset.mark ELSE cut
  /\ UNCHANGED <<bufferVars, generation, summaryVars, sourceVars, comp, barrier,
                 store, revoke, stopped, lost, dropped>>

-----------------------------------------------------------------------------
CompactStep ==
  \/ CompactFails \/ CommitGroupCompact
  \/ SkipDistillation \/ BeginGroupDistillation
  \/ ExtractFails \/ TryBeginCommit \/ VerifyCommit \/ SaveEntries
  \/ EndCommit \/ Cleanup

RevokeStep(m) == AbortBarriers(m) \/ PurgeDistilledEntries(m)

Next ==
  \/ \E m \in Ids : AppendGroupCompactMessage(m)
  \/ \E m \in Ids : StageGroupCompactWithGuard(m)
  \/ \E g \in Slot : AddSequence(g)
  \/ \E g \in Slot : Promote(g)
  \/ \E g \in Slot : Drop(g)
  \/ \E m \in Id : DropGroupCompactMessage(m)
  \/ \E m \in Id : RevokeStep(m)
  \/ SnapshotGroupCompact(BufferSize)
  \/ SnapshotGroupCompact(1)
  \/ CompactStep
  \/ \E kind \in Resets : Reset(kind)
  \/ ResetAbort
  \/ ResetReturn

Spec == Init /\ [][Next]_vars

-----------------------------------------------------------------------------
(* Properties *)

Snapshot == [slots : SUBSET Slot, through : 0..MaxSlot,
             generation : 0..MaxGeneration, summary : SUBSET Slot]

\* Every variable has its type, and the buffer never exceeds its capacity.
TypeOK ==
  /\ seq \in 0..MaxSlot /\ id \in [Slot -> Ids]
  /\ buffer \subseteq 1..seq /\ staged \subseteq buffer
  /\ Cardinality(buffer) <= MaxBuffer
  /\ guard \in [Slot -> [status : {"none", "open", "promoting", "dropping", "closed"},
                         slots : Seq(Slot), next : 1..(MaxSlot + 1)]]
  /\ generation \in 0..MaxGeneration
  /\ {summary, prev, store, lost, dropped} \subseteq SUBSET (1..seq)
  /\ {lastIDs, groupIDs, prevGroupIDs, revoked} \subseteq SUBSET Id
  /\ sources \subseteq [through : Slot, slots : SUBSET Slot]
  /\ Cardinality(sources) <= MaxSources
  /\ comp \in [pc : {"idle", "calling", "committed", "distilling", "writing",
                     "checked", "ending", "cleanup"}, snap : Snapshot]
  /\ barrier \in [number : 0..MaxDistill, aborted : BOOLEAN, registered : BOOLEAN,
                  state : {"pending", "writing", "done", "aborted"}]
  /\ revoke \in [Id -> [pc : {"idle", "aborting", "waiting", "returned", "failed"},
                        target : 0..MaxDistill]]
  /\ reset \in [pc : {"idle", "aborting", "waiting"}, kind : {"none", "session", "group"},
                target : 0..MaxDistill, mark : 0..MaxSlot]
  /\ stopped \in BOOLEAN /\ cut \in 0..MaxSlot

\* Compaction loses no message and repeats none.  Every slot ever appended is
\* still in the buffer or in the running summary, unless it was evicted,
\* dropped, rolled back or reset; and the summary covers only slots older than
\* all the buffered ones, so a commit removes exactly what its snapshot held
\* although messages arrived, were promoted or were evicted in the meantime.
SummaryMeetsBuffer ==
  /\ 1..seq = buffer \cup summary \cup lost
  /\ \A s \in summary, b \in buffer : s < b

\* A staged slot stays out of every snapshot and summary until its own turn
\* promotes it: the slots of open guards and the slots that guards dropped are
\* never summarised and never in flight.
UnconfirmedStaysOut ==
  \A g \in Slot :
    guard[g].status \in {"open", "dropping"} =>
      ToSet(guard[g].slots) \cap (summary \cup prev \cup comp.snap.slots) = {}

\* Every message is accounted for, and only by its own confirmation
\* (CommitGroupCompact, PromoteGroupCompactSlot).
MessagesAccounted == SummaryMeetsBuffer /\ UnconfirmedStaysOut

\* A slot that some drop named never enters the running summary later, not
\* through a compaction that was in flight when it was dropped
\* (groupCompactGeneration) and not through a rollback.
DroppedStaysOut ==
  [][\A s \in dropped : s \notin summary => s \notin summary']_vars

\* Once a drop of a message ID has returned without an error, the group's
\* memory holds nothing distilled from that message, whatever stage a
\* distillation of it had reached (AbortAndWait, then PurgeDistilledEntries):
\* the drop promises that "no stale quote writes persist".
RevokedNotDistilled ==
  \A s \in store : id[s] # NoID => revoke[id[s]].pc # "returned"

\* After ResetGroupCompact has returned, nothing from before it is distilled
\* into the group's memory: it aborts every barrier in flight, waits for a
\* write in progress and clears the registry of committed sources.
ResetCutsDistillation ==
  [][\A s \in store' \ store : s > cut]_vars

\* What was dropped or reset does not come back through work in flight
\* (groupCompactGeneration, validCommittedSources, the barriers).
NothingComesBack == DroppedStaysOut /\ ResetCutsDistillation

\* A drop or a reset that waits for a write waits for one in progress, whose
\* EndCommit is still to come (AbortAndWait): no barrier is left "writing".
WaitersHaveAWriter ==
  LET waiting == {revoke[m].target : m \in {m \in Id : revoke[m].pc = "waiting"}}
                   \cup (IF reset.pc = "waiting" THEN {reset.target} ELSE {})
  IN (\E n \in waiting : ~Released(n)) => ~StoreFree

\* A drop ends, and when it has ended nothing of the message is distilled
\* (DropGroupCompactSlotChecked).
RevocationHolds == RevokedNotDistilled /\ WaitersHaveAWriter
=============================================================================
