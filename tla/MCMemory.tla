------------------------------ MODULE MCMemory ------------------------------
(***************************************************************************)
(* What is kept of conversations, for TLC: the memory stores with their    *)
(* reflection, the index of embeddings, and the stored group summaries.    *)
(* They share no state, so a behaviour moves one of them: part says which. *)
(***************************************************************************)
EXTENDS Naturals, FiniteSets

CONSTANTS Owner, Text, Msg, Name, MaxWork,
          Mem, Value, Edited, MaxChange, MaxFail,
          Worker, Databases, MaxVersion, MaxDrop, MaxReset, MaxRestart, MayFail

VARIABLES part,
          kind, brain, archives, calling, legacy, boot, manager, bootstrap, job, issued, dropped,
          brought, clock, runs,
          pg, src, dirty, route, dim, st, indexer, query, row, pruned, changes, fails,
          database, next, running, prev, generation, disk, storeGen, pending, active, worker,
          comp, drop, reset, stopped, count, rolledBack, cut

(* A private store with entries of two owners, and a group's with one that *)
(* a message brought and one of the group.                                 *)
Memory(i, o, t, m, s, p) ==
  [id |-> i, owner |-> o, text |-> t, ev |-> IF s = "manual" THEN 0 ELSE t, msg |-> m, src |-> s,
   pub |-> p, ver |-> 0, from |-> {}]
Seeds == {{Memory(1, "u1", 1, 0, "manual", TRUE), Memory(2, "u1", 2, 0, "extract", FALSE),
           Memory(3, "u2", 1, 0, "manual", TRUE)},
          {Memory(1, "u1", 1, 1, "distill", FALSE), Memory(2, "group", 2, 0, "manual", FALSE)}}
Legacy == {Memory(1, "u1", 1, 0, "extract", FALSE), Memory(3, "u1", 1, 0, "extract", FALSE)}

(* Answers of the model: sound ones, overlapping merges, an unknown entry. *)
Reply(m, o, n) == [merges |-> m, outdated |-> o, names |-> n]
Named(u, s) == {[user |-> u, name |-> 1, sources |-> s]}
Replies == {Reply({{1, 2}}, {}, Named("u1", {2})), Reply({{1, 2}, {2, 3}}, {1}, {}),
            Reply({{1, 3}}, {2}, Named("u2", {1})), Reply({{1, 9}}, {1, 2}, {}), Reply({{2, 3}}, {1}, {})}
Draft(o, t, m, s) == [owner |-> o, text |-> t, msg |-> m, src |-> s]
Drafts == {Draft("u1", 2, 0, "manual"), Draft("u1", 1, 0, "extract"), Draft("u2", 1, 1, "distill"),
           Draft("group", 1, 1, "manual")}

(* Another model, a refused key, no route, and the route at the start.     *)
Routes == {[fp |-> 2, ok |-> TRUE], [fp |-> 1, ok |-> FALSE], [fp |-> 0, ok |-> TRUE],
           [fp |-> 1, ok |-> TRUE]}

Store == INSTANCE MemoryStore
Index == INSTANCE Embeddings WITH worker <- indexer
Persistence == INSTANCE SummaryPersistence

storeVars == <<kind, brain, archives, calling, legacy, boot, manager, bootstrap, job, issued,
               dropped, brought, clock, runs>>
indexVars == <<pg, src, dirty, route, dim, st, indexer, query, row, pruned, changes, fails>>
summaryVars == <<database, next, running, prev, generation, disk, storeGen, pending, active,
                 worker, comp, drop, reset, stopped, count, rolledBack, cut>>

(* Bans and resets are kept apart: RollbackPersistence may write a summary *)
(* that it read before a reset.                                            *)
Apart == count.drops > 0 => count.resets = 0 /\ count.restarts = 0

(* A fault of the index takes the place of a change.                       *)
FaultsCost == fails > 0 => changes < MaxChange

MCInit ==
  /\ part \in {"store", "index", "summaries"}
  /\ Store!MemInit /\ Index!EmbInit /\ Persistence!Init
  \* the parts at rest start in one way
  /\ part # "store" => kind = "private"
  /\ part # "index" => ~pg
  /\ part # "summaries" => database

MCNext ==
  /\ UNCHANGED part
  /\ \/ part = "store" /\ Store!MemoryNext /\ UNCHANGED <<indexVars, summaryVars>>
     \/ part = "index" /\ Index!EmbNext /\ FaultsCost' /\ UNCHANGED <<storeVars, summaryVars>>
     \/ part = "summaries" /\ Persistence!Next /\ Apart' /\ UNCHANGED <<storeVars, indexVars>>

MCSpec ==
  /\ MCInit /\ [][MCNext]_<<part, storeVars, indexVars, summaryVars>>
  /\ Store!MemoryFairness
  \* the scan of the index could run at the start of the other parts' behaviours
  /\ WF_indexVars(part = "index" /\ Index!scan)
  /\ WF_indexVars(part = "index" /\ Index!embeddingRecoveryDelay)
  /\ WF_indexVars(part = "index" /\ Index!WorkerNext)

-----------------------------------------------------------------------------

(* Every variable of every part has its type.                              *)
MemoryTypeOK == Store!MemoryTypeOK /\ Index!EmbTypeOK /\ Persistence!TypeOK

(* Whatever users, recalls and extractions do while the model reflects,    *)
(* every entry stored is active, archived under the entry it was merged    *)
(* into, or was removed on purpose; what a reflection takes out, and the   *)
(* names it gives, rest on entries that are as the model was shown them    *)
(* (memory.Store, GroupStore, ReflectionManager).                          *)
MemoriesAccounted ==
  /\ [](Store!EntriesAccounted /\ Store!MergesAreSound)
  /\ [][Store!ReflectsWhatItSaw]_storeVars

(* An index that is served is of one model, and what a search finds was    *)
(* scored by vectors of the entries as they are (EmbeddingManager).        *)
SearchesAreSound == Index!SearchesAreSound

(* The store keeps the newest summary that was not taken back: a deleted   *)
(* summary does not return, writes keep the order of the commits, and a    *)
(* summary that a ban took back is gone (groupsummary.Store, persistWorker,*)
(* RollbackPersistence).                                                   *)
StoreFollowsCommits ==
  /\ Persistence!DeletedStaysDeleted
  /\ Persistence!WritesInOrder
  /\ []Persistence!RolledBackGone

(* A reflection that was started is reported as ended, whatever the model  *)
(* or the store answers.  Once entries, routes and runtimes stop changing, *)
(* the index comes to hold every entry as it is and stays so, unless its   *)
(* route does not resolve or is refused, or the last attempt at this very  *)
(* state met an error that is not retried (ReflectionManager,              *)
(* EmbeddingManager).                                                      *)
MemorySettles ==
  /\ manager.running ~> ~manager.running
  /\ <>[](part = "index" => Index!CaughtUp)

(* Once entries and routes stop changing, the rows that searches of        *)
(* PostgreSQL read hold what the index that is called ready holds.         *)
IndexIsServed == <>[](part = "index" => Index!Served)
=============================================================================
