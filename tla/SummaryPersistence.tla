------------------------- MODULE SummaryPersistence -------------------------
(***************************************************************************)
(* How a group's running summary reaches the disk                          *)
(* (internal/llm/group_compactor.go, internal/groupsummary/store.go).      *)
(*                                                                         *)
(* A compaction commits a new summary to the session.  With a database it  *)
(* writes the summary first, under the session lock.  With a file it       *)
(* leaves a record for a background worker, one per owner, which retries   *)
(* until the newest record is written.  A ban rolls the session's summary  *)
(* back and then synchronises the disk; a reset clears the session and     *)
(* then deletes the record.  Deletions advance the store's generation, and *)
(* a write that carries an older generation is discarded.                  *)
(*                                                                         *)
(* Summaries are versions in the order of the commits; 0 is no summary.    *)
(***************************************************************************)
EXTENDS Integers, FiniteSets

CONSTANTS Worker,      \* persist workers
          Databases,   \* whether the store is a database: one value or both
          MaxVersion,  \* bound on the commits
          MaxDrop,     \* bound on the bans
          MaxReset,    \* bound on the resets
          MaxRestart,  \* bound on the restarts of the process
          MayFail      \* a write to the disk may fail

Version == 0..MaxVersion
Generation == 0..(MaxReset + MaxDrop + 1)
Record == [version : Version \ {0}, generation : Generation]
NoRecord == [version |-> 0, generation |-> 0]

VARIABLES
  database,   \* the store is a database, not a file
  next,       \* versions committed so far
  running,    \* groupCompactSummary
  prev,       \* prevGroupCompactSummary
  generation, \* groupCompactGeneration
  disk,       \* the stored record
  storeGen,   \* the store's generation of this owner
  pending,    \* pendingPersist
  active,     \* persistActive
  worker,     \* the persist workers
  comp,       \* the compaction in flight
  drop,       \* the ban in progress
  reset,      \* the reset in progress
  stopped,    \* the runtime scope is cancelled
  count,      \* bans, resets and restarts so far
  rolledBack, \* versions that a ban took back
  cut         \* versions committed before the last reset, or ban, that deleted

sessionVars == <<database, next, running, prev, generation>>
storeVars == <<disk, storeGen>>
persistVars == <<pending, active, worker>>
vars == <<sessionVars, storeVars, persistVars, comp, drop, reset, stopped,
          count, rolledBack, cut>>

IdleWorker == [pc |-> "none", rec |-> NoRecord]
IdleComp == [pc |-> "idle", generation |-> 0, storeGen |-> 0]
IdleDrop == [pc |-> "idle", clean |-> 0, storeGen |-> 0, mark |-> 0]
IdleReset == [pc |-> "idle", mark |-> 0]

Init ==
  /\ database \in Databases
  /\ next = 0 /\ running = 0 /\ prev = 0 /\ generation = 0
  /\ disk = 0 /\ storeGen = 0
  /\ pending = NoRecord /\ active = FALSE /\ worker = [w \in Worker |-> IdleWorker]
  /\ comp = IdleComp /\ drop = IdleDrop /\ reset = IdleReset
  /\ stopped = FALSE
  /\ count = [drops |-> 0, resets |-> 0, restarts |-> 0]
  /\ rolledBack = {} /\ cut = 0

-----------------------------------------------------------------------------
(* groupsummary.Store *)

WritesAlways(version, gen) == disk' = version

\* Upsert applies only while no deletion has intervened.
Upsert(version, gen) == disk' = IF gen = storeGen THEN version ELSE disk

\* The write fails, which leaves the disk as it was.
Fails(gen) == MayFail /\ gen = storeGen /\ UNCHANGED disk

\* Delete advances the generation even if the disk operation fails.
Delete ==
  /\ storeGen' = storeGen + 1
  /\ \/ disk' = 0
     \/ MayFail /\ UNCHANGED disk

-----------------------------------------------------------------------------
(* The persist worker *)

\* RollbackPersistence holds the compactor's mutex while it reads the store's
\* generation and writes.
Unlocked == drop.pc # "writing"

NoWorker == FALSE

\* A worker takes care of the owner's records.
HasWorker == active

\* Leave a record; launch a worker if none is active.
queuePersistence(rec) ==
  /\ pending' = rec
  /\ active' = TRUE
  /\ IF HasWorker THEN UNCHANGED worker
     ELSE \E w \in Worker :
            /\ worker[w].pc = "none"
            /\ worker' = [worker EXCEPT ![w] = [pc |-> "loop", rec |-> NoRecord]]

GoTo(w, pc) == worker' = [worker EXCEPT ![w].pc = pc]

WorkerLoop(w) ==
  /\ worker[w].pc = "loop" /\ Unlocked
  /\ IF stopped \/ pending = NoRecord
     THEN GoTo(w, "exiting")
     ELSE worker' = [worker EXCEPT ![w] = [pc |-> "writing", rec |-> pending]]
  /\ UNCHANGED <<sessionVars, storeVars, pending, active, comp, drop, reset,
                 stopped, count, rolledBack, cut>>

WorkerWrite(w) ==
  /\ worker[w].pc = "writing"
  /\ \/ Upsert(worker[w].rec.version, worker[w].rec.generation) /\ GoTo(w, "settle")
     \/ Fails(worker[w].rec.generation) /\ GoTo(w, "failed")
  /\ UNCHANGED <<sessionVars, storeGen, pending, active, comp, drop, reset,
                 stopped, count, rolledBack, cut>>

\* The record that remains after rec has been written.
Remaining(rec) == IF pending = rec THEN NoRecord ELSE pending

WorkerSettle(w) ==
  /\ worker[w].pc = "settle" /\ Unlocked
  /\ pending' = Remaining(worker[w].rec)
  /\ GoTo(w, "loop")
  /\ UNCHANGED <<sessionVars, storeVars, active, comp, drop, reset, stopped,
                 count, rolledBack, cut>>

WorkerFailed(w) ==
  /\ worker[w].pc = "failed" /\ Unlocked
  /\ IF pending = NoRecord
     THEN active' = FALSE /\ GoTo(w, "exiting")
     ELSE GoTo(w, "backoff") /\ UNCHANGED active
  /\ UNCHANGED <<sessionVars, storeVars, pending, comp, drop, reset, stopped,
                 count, rolledBack, cut>>

\* The timer fires, the worker is woken, or the scope is cancelled.
WorkerBackoff(w) ==
  /\ worker[w].pc = "backoff"
  /\ GoTo(w, IF stopped THEN "exiting" ELSE "loop")
  /\ UNCHANGED <<sessionVars, storeVars, pending, active, comp, drop, reset,
                 stopped, count, rolledBack, cut>>

\* The deferred function of the worker.
WorkerExit(w) ==
  /\ worker[w].pc = "exiting" /\ Unlocked
  /\ active' = FALSE
  /\ worker' = [worker EXCEPT ![w] = IdleWorker]
  /\ UNCHANGED <<sessionVars, storeVars, pending, comp, drop, reset, stopped,
                 count, rolledBack, cut>>

-----------------------------------------------------------------------------
(* The compaction *)

Snapshot ==
  /\ comp.pc = "idle" /\ ~stopped /\ next < MaxVersion /\ Unlocked
  /\ comp' = [comp EXCEPT !.pc = "snapshot", !.generation = generation]
  /\ UNCHANGED <<sessionVars, storeVars, persistVars, drop, reset, stopped,
                 count, rolledBack, cut>>

\* The store's generation is read after the compactor's mutex is released.
ReadGeneration ==
  /\ comp.pc = "snapshot"
  /\ comp' = [comp EXCEPT !.pc = "calling", !.storeGen = storeGen]
  /\ UNCHANGED <<sessionVars, storeVars, persistVars, drop, reset, stopped,
                 count, rolledBack, cut>>

CompactFails ==
  /\ comp.pc = "calling"
  /\ comp' = IdleComp
  /\ UNCHANGED <<sessionVars, storeVars, persistVars, drop, reset, stopped,
                 count, rolledBack, cut>>

\* The new version becomes the running summary.
NewSummary ==
  /\ next' = next + 1
  /\ running' = next + 1
  /\ prev' = running
  /\ UNCHANGED <<database, generation>>

CommitGroupCompact ==
  /\ comp.pc = "calling" /\ comp.generation = generation
  /\ IF database
     THEN /\ comp' = IdleComp
          /\ \/ comp.storeGen = storeGen /\ disk' = next + 1 /\ NewSummary /\ UNCHANGED stopped
             \/ comp.storeGen # storeGen /\ UNCHANGED <<disk, sessionVars, stopped>>
             \/ Fails(comp.storeGen) /\ stopped' = TRUE /\ UNCHANGED sessionVars
     ELSE /\ NewSummary
          /\ comp' = [comp EXCEPT !.pc = "queueing"]
          /\ UNCHANGED <<disk, stopped>>
  /\ UNCHANGED <<storeGen, persistVars, drop, reset, count, rolledBack, cut>>

RunningVersion == running

\* The summary that the compaction committed, not the one in use by now.
QueuedVersion == next

\* The record of the version this compaction committed.  No other compaction
\* commits in between, as there is one in flight.
QueueSummary ==
  /\ comp.pc = "queueing" /\ Unlocked
  /\ queuePersistence([version |-> QueuedVersion, generation |-> comp.storeGen])
  /\ comp' = IdleComp
  /\ UNCHANGED <<sessionVars, storeVars, drop, reset, stopped, count, rolledBack, cut>>

-----------------------------------------------------------------------------
(* A ban: DropGroupCompactSlotChecked, then RollbackPersistence *)

\* The banned message was in the last batch, or in no summary.
DropMessage ==
  /\ drop.pc = "idle" /\ count.drops < MaxDrop
  /\ count' = [count EXCEPT !.drops = @ + 1]
  /\ generation' = generation + 1
  /\ \/ /\ running # 0
        /\ running' = prev /\ prev' = 0
        /\ rolledBack' = rolledBack \cup {running}
     \/ UNCHANGED <<running, prev, rolledBack>>
  /\ drop' = [drop EXCEPT !.pc = "reading", !.mark = next]
  /\ UNCHANGED <<database, next, storeVars, persistVars, comp, reset, stopped, cut>>

\* session.GroupRunningSummary(), an argument of RollbackPersistence.
ReadClean ==
  /\ drop.pc = "reading"
  /\ drop' = [drop EXCEPT !.pc = "calling", !.clean = running]
  /\ UNCHANGED <<sessionVars, storeVars, persistVars, comp, reset, stopped,
                 count, rolledBack, cut>>

RollbackLock ==
  /\ drop.pc = "calling"
  /\ drop' = [drop EXCEPT !.pc = "writing", !.storeGen = storeGen]
  /\ UNCHANGED <<sessionVars, storeVars, persistVars, comp, reset, stopped,
                 count, rolledBack, cut>>

RollbackNothing == database /\ UNCHANGED <<persistVars, storeVars, stopped>>

\* With a database every failure, and a deletion in between, pauses the runtime.
RollbackDatabase ==
  /\ database
  /\ UNCHANGED persistVars
  /\ IF drop.clean = 0
     THEN Delete /\ stopped' = (stopped \/ disk' # 0)
     ELSE /\ UNCHANGED storeGen
          /\ \/ Upsert(drop.clean, drop.storeGen)
                /\ stopped' = (stopped \/ drop.storeGen # storeGen)
             \/ Fails(drop.storeGen) /\ stopped' = TRUE

RollbackFile ==
  /\ ~database
  /\ UNCHANGED stopped
  /\ IF drop.clean = 0
     THEN pending' = NoRecord /\ Delete /\ UNCHANGED <<active, worker>>
     ELSE LET rec == [version |-> drop.clean, generation |-> drop.storeGen]
          IN /\ UNCHANGED storeGen
             /\ \/ active /\ pending' = rec /\ UNCHANGED <<active, worker, disk>>
                \/ ~active /\ Upsert(drop.clean, drop.storeGen)
                   /\ pending' = NoRecord /\ UNCHANGED <<active, worker>>
                \/ ~active /\ Fails(drop.storeGen) /\ queuePersistence(rec)

RollbackPersistence ==
  /\ drop.pc = "writing"
  /\ RollbackDatabase \/ RollbackFile
  /\ drop' = IdleDrop
  /\ cut' = IF drop.clean = 0 /\ disk' = 0 THEN drop.mark ELSE cut
  /\ UNCHANGED <<sessionVars, comp, reset, count, rolledBack>>

-----------------------------------------------------------------------------
(* A reset: the session first, then the stored record *)

ResetSession ==
  /\ reset.pc = "idle" /\ count.resets < MaxReset
  /\ count' = [count EXCEPT !.resets = @ + 1]
  /\ generation' = generation + 1
  /\ running' = 0 /\ prev' = 0
  /\ reset' = [pc |-> "deleting", mark |-> next]
  /\ UNCHANGED <<database, next, storeVars, persistVars, comp, drop, stopped,
                 rolledBack, cut>>

ResetDelete ==
  /\ reset.pc = "deleting"
  /\ Delete
  /\ cut' = IF disk' = 0 THEN reset.mark ELSE cut
  /\ reset' = IdleReset
  /\ UNCHANGED <<sessionVars, persistVars, comp, drop, stopped, count, rolledBack>>

\* The process restarts; a group session is born with the stored summary.
Restart ==
  /\ count.restarts < MaxRestart
  /\ count' = [count EXCEPT !.restarts = @ + 1]
  /\ running' = disk /\ prev' = 0 /\ generation' = 0
  /\ storeGen' = 0
  /\ pending' = NoRecord /\ active' = FALSE /\ worker' = [w \in Worker |-> IdleWorker]
  /\ comp' = IdleComp /\ drop' = IdleDrop /\ reset' = IdleReset
  /\ stopped' = FALSE
  /\ UNCHANGED <<database, next, disk, rolledBack, cut>>

-----------------------------------------------------------------------------
WorkerStep(w) ==
  \/ WorkerLoop(w) \/ WorkerWrite(w) \/ WorkerSettle(w)
  \/ WorkerFailed(w) \/ WorkerBackoff(w) \/ WorkerExit(w)

CompactStep ==
  Snapshot \/ ReadGeneration \/ CompactFails \/ CommitGroupCompact \/ QueueSummary

DropStep == ReadClean \/ RollbackLock \/ RollbackPersistence

Next ==
  \/ \E w \in Worker : WorkerStep(w)
  \/ CompactStep
  \/ DropMessage \/ DropStep
  \/ ResetSession \/ ResetDelete
  \/ Restart

Spec == Init /\ [][Next]_vars

-----------------------------------------------------------------------------
(* Properties *)

\* Every variable has its type.
TypeOK ==
  /\ database \in BOOLEAN
  /\ {next, running, prev, disk, cut} \subseteq Version
  /\ generation \in Generation /\ storeGen \in Generation
  /\ pending \in Record \cup {NoRecord} /\ active \in BOOLEAN
  /\ worker \in [Worker -> [pc : {"none", "loop", "writing", "settle", "failed",
                                  "backoff", "exiting"},
                            rec : Record \cup {NoRecord}]]
  /\ comp \in [pc : {"idle", "snapshot", "calling", "queueing"},
               generation : Generation, storeGen : Generation]
  /\ drop \in [pc : {"idle", "reading", "calling", "writing"}, clean : Version,
               storeGen : Generation, mark : Version]
  /\ reset \in [pc : {"idle", "deleting"}, mark : Version]
  /\ stopped \in BOOLEAN /\ rolledBack \subseteq Version
  /\ count \in [drops : 0..MaxDrop, resets : 0..MaxReset, restarts : 0..MaxRestart]

\* After a reset, or a ban that leaves no summary, has deleted the record, no
\* summary from before it returns to the disk, neither through a compaction in
\* flight nor through a record that a worker retries: Delete advances the
\* generation "preventing an older in-flight compact from recreating it".
DeletedStaysDeleted ==
  [][disk' \notin {0, disk} => disk' > cut]_vars

\* Until a message is banned, summaries are written in the order of the
\* commits: a newer one on the disk is never overwritten with an older one,
\* although the record is replaced while a write is in progress or retried.
WritesInOrder ==
  [][disk' # disk /\ count.drops = 0 => disk' = 0 \/ disk' > disk]_vars

\* Once a ban has been synchronised, the database does not hold a summary that
\* the ban took back.
RolledBackGone ==
  database /\ drop.pc = "idle" /\ comp.pc = "idle" /\ ~stopped /\ disk # 0
    => disk \notin rolledBack
=============================================================================
