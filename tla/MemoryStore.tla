---------------------------- MODULE MemoryStore ----------------------------
(***************************************************************************)
(* One memory store of an instance, and the reflection that rewrites it.   *)
(*                                                                         *)
(* A store is the private one (memory.Store, entries of several owners) or *)
(* the one of a group (memory.GroupStore, which also names the group's     *)
(* members).  Each of its operations holds the store's lock from the load  *)
(* to the save, so it is one step.  A reflection does not: it lists the    *)
(* entries, asks a model which of them to merge or to drop, and applies    *)
(* the answer later, while chats, the web panel, imports and recalls keep  *)
(* changing the same store.                                                *)
(*                                                                         *)
(* An entry's "ver" stands for what sameMergeSource compares and an edit   *)
(* changes (content, tags, times, access count); text 0 is the model's     *)
(* synthesis, message and evidence 0 are absent.                           *)
(***************************************************************************)
EXTENDS Integers, FiniteSets, FiniteSetsExt

CONSTANTS Owner,      \* users, as canonical owners
          Text,       \* contents and evidence, positive
          Msg,        \* platform messages, positive
          Name,       \* calling names; 0 is none
          Seeds,      \* the stores a run starts from: sets of entries
          Legacy,     \* the group entries an old brain.json may still hold
          Drafts,     \* what chats, extractions and the panel may write
          Replies,    \* what a model may answer to a reflection
          MaxWork     \* bound on operations and reflections together

VARIABLES kind,       \* "private" | "group": the store of this behaviour
          brain,      \* the active entries
          archives,   \* merge archives: the merged id and its sources
          calling,    \* the member profiles' preferred names
          legacy,     \* group entries still in brain.json
          boot,       \* "off" | "saved" | "up": the migration of a start
          manager,    \* the ReflectionManager's running job
          bootstrap,  \* owners whose index bootstrap waits to reflect
          job,        \* the reflection holding jobMu
          issued,     \* entries ever stored: id -> text (0 if synthesised)
          dropped,    \* ids removed by a user, a recall or as outdated
          brought,    \* ids that an import brought
          clock, runs \* the stamp of the last change; reflections started

memVars == <<kind, brain, archives, calling, legacy, boot, manager, bootstrap,
             job, issued, dropped, brought, clock, runs>>

Group == "group"
Owners == Owner \union {Group}
Source == {"manual", "extract", "distill", "reflect"}
Id == 1 .. (2 * MaxWork + Cardinality(Legacy) + 4)
Bounded == clock + runs < MaxWork

Entry == [id : Id, owner : Owners, text : Text \union {0}, ev : Text \union {0},
          msg : Msg \union {0}, src : Source, pub : BOOLEAN, ver : Nat, from : SUBSET Id]

IdsOf(es) == {e.id : e \in es}
Fresh == 1 + Max(DOMAIN issued \union {0})
Idle == [pc |-> "idle", by |-> "manager", owner |-> Group, snap |-> {}, names |-> [u \in Owner |-> 0],
         merges |-> {}, outdated |-> {}, cand |-> {}]
Up == boot = "up"

(***************************************************************************)
(* Writing.                                                                *)
(***************************************************************************)

\* sameMergeSource: an entry is still exactly what the snapshot holds.
sameMergeSource(e, s) ==
    /\ e.id = s.id /\ e.owner = s.owner /\ e.text = s.text /\ e.src = s.src
    /\ e.pub = s.pub /\ e.ver = s.ver /\ e.from = s.from

\* isSameGroupMemory: an automatic write repeats an entry of the same message
\* (or, when neither has one, of the same owner and automatic source).
isSameGroupMemory(e, x) ==
    /\ x.src # "manual"
    /\ ~(e.src = "manual" /\ e.msg = 0)
    /\ e.msg = x.msg
    /\ e.msg = 0 => e.owner = x.owner
    /\ \/ e.ev # 0 /\ e.ev = x.ev
       \/ e.text # 0 /\ e.text = x.text
       \/ e.msg # 0 /\ e.ev # 0 /\ e.ev = x.text
       \/ e.msg # 0 /\ e.text # 0 /\ e.text = x.ev

\* The merge of a repeated write into the entry it repeats.
Folded(e, x) ==
    [e EXCEPT !.owner = IF e.src # "manual" /\ e.owner # x.owner THEN Group ELSE @,
              !.ev = IF @ = 0 THEN x.ev ELSE @,
              !.ver = x.ver]

\* One entry of SaveGroupEntriesConditionallyContext applied to the entries es.
SaveGroupEntry(es, x) ==
    LET same == {e \in es : isSameGroupMemory(e, x)}
        first == CHOOSE e \in same : \A f \in same : e.id <= f.id
    IN IF same = {} THEN es \union {x} ELSE (es \ {first}) \union {Folded(first, x)}

Tick == clock' = clock + 1
Recorded(es) ==
    issued' = [i \in DOMAIN issued \union IdsOf(es) |->
                  IF i \in DOMAIN issued THEN issued[i] ELSE (CHOOSE e \in es : e.id = i).text]

\* What a chat, an extraction or the panel writes: the memory tool and
\* AddMemory write manual entries, a tool write about an image keeps its
\* message, extractions quote a message and have it as their evidence.
Draft(o, t, m, s) ==
    [id |-> Fresh, owner |-> o, text |-> t, ev |-> IF s = "manual" THEN 0 ELSE t,
     msg |-> m, src |-> s, pub |-> FALSE, ver |-> clock + 1, from |-> {}]

\* Store.SaveEntriesConditionallyContext of the private store: append.
SavePrivate(x) == /\ kind = "private" /\ x.owner # Group /\ x.msg = 0
                  /\ brain' = brain \union {x}

\* The group store deduplicates what automatic extractions repeat.
SaveGroup(x) == /\ kind = "group"
                /\ x.src # "manual" => x.msg # 0
                /\ brain' = SaveGroupEntry(brain, x)

Save(d) ==
    LET x == Draft(d.owner, d.text, d.msg, d.src) IN
        /\ Up /\ Bounded
        /\ SavePrivate(x) \/ SaveGroup(x)
        /\ Recorded(brain') /\ Tick
        /\ UNCHANGED <<kind, archives, calling, legacy, boot, manager, bootstrap, job, dropped, brought, runs>>

AddMemory == \E d \in Drafts : d.src = "manual" /\ d.msg = 0 /\ Save(d)
MemoryTool == \E d \in Drafts : d.src = "manual" /\ (kind = "group" => d.owner = Group) /\ Save(d)
ExtractMemories == \E d \in Drafts : kind = "private" /\ d.src = "extract" /\ Save(d)
ExtractGroupMemories == \E d \in Drafts : kind = "group" /\ d.src # "manual" /\ Save(d)

\* GroupStore.PurgeDistilledEntries: a recalled message takes what was
\* distilled from it.
PurgeDistilledEntries == \E m \in Msg :
    LET purged == {e \in brain : e.src = "distill" /\ e.msg = m} IN
        /\ Up /\ kind = "group" /\ purged # {} /\ Bounded
        /\ brain' = brain \ purged
        /\ dropped' = dropped \union IdsOf(purged)
        /\ Tick
        /\ UNCHANGED <<kind, archives, calling, legacy, boot, manager, bootstrap, job, issued, brought, runs>>

\* The panel deletes an entry of the store it is in.
Delete(e) ==
    /\ Up /\ Bounded
    /\ brain' = brain \ {e}
    /\ dropped' = dropped \union {e.id}
    /\ Tick
    /\ UNCHANGED <<kind, archives, calling, legacy, boot, manager, bootstrap, job, issued, brought, runs>>

DeletePrivate == kind = "private" /\ \E e \in brain : Delete(e)
DeleteGroupEntry == kind = "group" /\ \E e \in brain : Delete(e)
DeleteMemory == DeletePrivate \/ DeleteGroupEntry

\* An edit by the panel: Store.UpdateEntry keeps the entry's provenance,
\* GroupStore.UpdateEntry makes an extracted one manual when its content changes.
Update(e, t, src) ==
    /\ Up /\ Bounded
    /\ brain' = (brain \ {e}) \union {[e EXCEPT !.text = t, !.ver = clock + 1, !.src = src]}
    /\ Tick
    /\ UNCHANGED <<kind, archives, calling, legacy, boot, manager, bootstrap, job, issued, dropped, brought, runs>>

UpdatePrivate == kind = "private" /\ \E e \in brain, t \in Text : Update(e, t, e.src)
UpdateGroupEntry ==
    /\ kind = "group"
    /\ \E e \in brain, t \in Text :
          Update(e, t, IF t # e.text /\ e.src \in {"extract", "distill"} THEN "manual" ELSE e.src)
UpdateMemory == UpdatePrivate \/ UpdateGroupEntry

\* A recall counts on the entries it returned.
Recall(e) ==
    /\ Up /\ Bounded
    /\ brain' = (brain \ {e}) \union {[e EXCEPT !.ver = clock + 1]}
    /\ Tick
    /\ UNCHANGED <<kind, archives, calling, legacy, boot, manager, bootstrap, job, issued, dropped, brought, runs>>

IncrementAccessCount == kind = "private" /\ \E e \in brain : Recall(e)
IncrementGroupAccessCount == kind = "group" /\ \E e \in brain : Recall(e)

\* importDataLocked and GroupStore.ImportData: an entry of the file replaces
\* the one of its id (overwrite), is skipped, or is appended.
Imported(es, x, overwrite) ==
    IF x.id \notin IdsOf(es) THEN es \union {x}
    ELSE IF overwrite THEN {e \in es : e.id # x.id} \union {x}
    ELSE es

ImportData(store) == \E i \in (DOMAIN issued) \union {Fresh}, o \in Owner, overwrite \in BOOLEAN :
    LET x == [Draft(o, 1, 0, "manual") EXCEPT !.id = i] IN
        /\ Up /\ kind = store /\ Bounded
        /\ brain' = Imported(brain, x, overwrite)
        /\ brought' = brought \union {i}
        /\ Recorded(brain') /\ Tick
        /\ UNCHANGED <<kind, archives, calling, legacy, boot, manager, bootstrap, job, dropped, runs>>

ImportMemories == ImportData("private") \/ ImportData("group")

\* A member's calling name, set by the panel or by the memory tool.
SetName(u, n) ==
    /\ Up /\ kind = "group" /\ calling[u] # n /\ Bounded
    /\ calling' = [calling EXCEPT ![u] = n]
    /\ Tick
    /\ UNCHANGED <<kind, brain, archives, legacy, boot, manager, bootstrap, job, issued, dropped, brought, runs>>

UpdateMemberPreferredName == \E u \in Owner, n \in Name \union {0} : SetName(u, n)
SetMemberName == \E u \in Owner, n \in Name \union {0} : SetName(u, n)

(***************************************************************************)
(* Migration of an old brain.json, at a start of the runtime: the group's  *)
(* entries go to its store unless their id is there, then brain.json is    *)
(* replaced by one without them.  A failure or a crash in between starts   *)
(* over at the next start.                                                 *)
(***************************************************************************)
MigrateEntries ==
    /\ boot = "off" /\ legacy # {}
    /\ \E x \in {y \in legacy : y.id \notin IdsOf(brain)} :
         /\ brain' = SaveGroupEntry(brain, x)
         /\ Recorded(brain')
    /\ UNCHANGED <<kind, archives, calling, legacy, boot, manager, bootstrap, job, dropped, brought, clock, runs>>

\* Folding a repeated entry keeps the first one's id, so the loop may end with
\* ids of brain.json that the store does not have; their text is there.
MigrateSaved ==
    /\ boot = "off"
    /\ \A x \in legacy : \E e \in brain : e.id = x.id \/ isSameGroupMemory(e, x)
    /\ boot' = "saved"
    /\ UNCHANGED <<kind, brain, archives, calling, legacy, manager, bootstrap, job, issued, dropped, brought, clock, runs>>

RenameBrain ==
    /\ boot = "saved"
    /\ legacy' = {} /\ boot' = "up"
    /\ UNCHANGED <<kind, brain, archives, calling, manager, bootstrap, job, issued, dropped, brought, clock, runs>>

\* A crash, at any time: the store stays, the reflection and its waiters go.
Restart ==
    /\ boot # "off" /\ Bounded
    /\ boot' = "off" /\ runs' = runs + 1
    /\ job' = Idle /\ bootstrap' = {}
    /\ manager' = [running |-> FALSE, all |-> FALSE, todo |-> {}]
    /\ UNCHANGED <<kind, brain, archives, calling, legacy, issued, dropped, brought, clock>>

(***************************************************************************)
(* Reflection.                                                             *)
(***************************************************************************)
Reflectable == IF kind = "group" THEN {Group} ELSE Owner

\* ReflectionManager.Start and StartGroup: one job at a time.
StartJob(store) == \E o \in Reflectable :
    /\ Up /\ kind = store /\ ~manager.running /\ Bounded
    /\ manager' = [running |-> TRUE, all |-> FALSE, todo |-> {o}]
    /\ runs' = runs + 1
    /\ UNCHANGED <<kind, brain, archives, calling, legacy, boot, bootstrap, job, issued, dropped, brought, clock>>

Start == StartJob("private")
StartGroup == StartJob("group")

\* Start with no owner: Reflector.Reflect lists the owners, then reflects each.
StartAll ==
    /\ Up /\ kind = "private" /\ ~manager.running /\ Bounded
    /\ manager' = [running |-> TRUE, all |-> TRUE, todo |-> {}]
    /\ runs' = runs + 1
    /\ UNCHANGED <<kind, brain, archives, calling, legacy, boot, bootstrap, job, issued, dropped, brought, clock>>

ReflectTool == Start
TriggerReflection == Start \/ StartGroup \/ StartAll

Reflect ==
    /\ manager.all
    /\ LET todo == {e.owner : e \in brain}
       IN manager' = [running |-> todo # {}, all |-> FALSE, todo |-> todo]
    /\ UNCHANGED <<kind, brain, archives, calling, legacy, boot, bootstrap, job, issued, dropped, brought, clock, runs>>

\* The index's worker reflects a scope before it builds its first index.
Bootstrap == \E o \in Reflectable :
    /\ Up /\ o \notin bootstrap /\ Bounded /\ ~(job.pc # "idle" /\ job.by = "index")
    /\ bootstrap' = bootstrap \union {o} /\ runs' = runs + 1
    /\ UNCHANGED <<kind, brain, archives, calling, legacy, boot, manager, job, issued, dropped, brought, clock>>

Seen(o) == {e \in brain : kind = "group" \/ e.owner = o}

\* What the end of a reflection releases: jobMu, and the manager's job when
\* it was the last owner of it.
JobEnds ==
    /\ job' = Idle
    /\ IF job.by = "index"
       THEN bootstrap' = bootstrap \ {job.owner} /\ UNCHANGED manager
       ELSE /\ manager' = [manager EXCEPT !.todo = @ \ {job.owner}, !.running = @ /\ manager.todo # {job.owner}]
            /\ UNCHANGED bootstrap

\* jobMu.Lock and the listing of the entries; an empty store ends at once.
ListEntries == \E by \in {"manager", "index"} :
    LET asked == IF by = "manager" THEN manager.todo ELSE bootstrap IN
        /\ job.pc = "idle"
        /\ \E o \in asked :
             job' = [Idle EXCEPT !.pc = IF kind = "group" THEN "profile" ELSE "call",
                                 !.by = by, !.owner = o, !.snap = Seen(o)]
        /\ UNCHANGED <<kind, brain, archives, calling, legacy, boot, manager, bootstrap, issued, dropped, brought, clock, runs>>

NothingToReflect ==
    /\ job.pc # "idle" /\ job.snap = {}
    /\ JobEnds
    /\ UNCHANGED <<kind, brain, archives, calling, legacy, boot, issued, dropped, brought, clock, runs>>

GetProfile ==
    /\ job.pc = "profile" /\ job.snap # {}
    /\ job' = [job EXCEPT !.pc = "call", !.names = calling]
    /\ UNCHANGED <<kind, brain, archives, calling, legacy, boot, manager, bootstrap, issued, dropped, brought, clock, runs>>

\* validateReflectionMerges: candidates of known entries, two or more of them,
\* each used once and not outdated; every entry a candidate mentions is
\* protected from deletion.
ValidMerges(cands, ids, outdated) ==
    {c \in cands : /\ c \subseteq ids \ outdated /\ Cardinality(c) >= 2
                   /\ \A d \in cands \ {c} : c \intersect d = {}}
Protected(cands, ids) == (UNION cands) \intersect ids

\* applyGroupResult's check of a proposed calling name: a member of the
\* snapshot, cited entries that are listed and not outdated, another name.
ValidName(c, ids, outdated) ==
    /\ c.sources # {} /\ c.sources \subseteq ids \ outdated
    /\ c.name # job.names[c.user]

\* The model answers with merges, outdated ids and, in a group, a calling
\* name; none of it needs to fit the entries it was shown.
Answer == \E r \in Replies :
    LET ids == IdsOf(job.snap)
        late == r.outdated \intersect ids
        cand == {c \in r.names : kind = "group" /\ ValidName(c, ids, late)}
    IN /\ job.pc = "call" /\ job.snap # {}
       /\ job' = [job EXCEPT !.pc = IF cand = {} THEN "apply" ELSE "name",
                             !.merges = ValidMerges(r.merges, ids, late),
                             !.outdated = late \ Protected(r.merges, ids),
                             !.cand = cand]
       /\ UNCHANGED <<kind, brain, archives, calling, legacy, boot, manager, bootstrap, issued, dropped, brought, clock, runs>>

\* Mutation: an error path that forgets the manager's status.
ReflectFailsSilently ==
    /\ job.pc \in {"call", "name", "apply"} /\ job.snap # {}
    /\ job' = Idle /\ manager' = [manager EXCEPT !.todo = {}] /\ bootstrap' = bootstrap \ {job.owner}
    /\ UNCHANGED <<kind, brain, archives, calling, legacy, boot, issued, dropped, brought, clock, runs>>

\* The call fails, times out, is too long or answers something unreadable; or
\* a load or a save of the store fails.
ReflectFails ==
    /\ job.pc \in {"call", "name", "apply"} /\ job.snap # {}
    /\ JobEnds
    /\ UNCHANGED <<kind, brain, archives, calling, legacy, boot, issued, dropped, brought, clock, runs>>

Snapshot(i) == CHOOSE s \in job.snap : s.id = i
Unchanged(i) == \E e \in brain : e.id = i /\ sameMergeSource(e, Snapshot(i))

\* SetObservedMemberPreferredName, from a reflection: only if the name and
\* the cited entries are still those of the snapshot.
NameHolds(c) == /\ \A i \in c.sources : Unchanged(i)
                /\ calling[c.user] = job.names[c.user]

SetObservedMemberPreferredName == \E c \in job.cand :
    /\ job.pc = "name"
    /\ calling' = IF NameHolds(c) THEN [calling EXCEPT ![c.user] = c.name] ELSE calling
    /\ job' = [job EXCEPT !.pc = "apply", !.cand = {}]
    /\ UNCHANGED <<kind, brain, archives, legacy, boot, manager, bootstrap, issued, dropped, brought, clock, runs>>

\* Mutations: merges and deletions applied without looking at the store again.
MergesAsAnswered == job.merges
OutdatedAsAnswered == job.outdated

\* The merges and the outdated ids that are still what the model saw.
Applicable == {m \in job.merges : \A i \in m : Unchanged(i)}
Outdated == {i \in job.outdated : Unchanged(i)}

\* buildMergedEntry, with the owner the caller chose: the reflected owner, in
\* a group the sources' common owner or the group.
MergedOwner(sources) ==
    IF kind = "private" THEN job.owner
    ELSE IF Cardinality({s.owner : s \in sources}) = 1 THEN (CHOOSE s \in sources : TRUE).owner
    ELSE Group

buildMergedEntry(i, sources) ==
    [id |-> i, owner |-> MergedOwner(sources), text |-> 0, ev |-> 0, msg |-> 0, src |-> "reflect",
     pub |-> \A s \in sources : s.pub, ver |-> clock + 1, from |-> IdsOf(sources)]

\* applyReflectionWithMerges of both stores: the sources of each applicable
\* merge are archived and give way to one entry, outdated ones go.
ApplyMerges(store) ==
    LET sources(m) == {e \in brain : e.id \in m}
        number == CHOOSE f \in [Applicable -> Fresh .. (Fresh + Cardinality(Applicable))] :
                     \A m, n \in Applicable : m # n => f[m] # f[n]
        merged == {buildMergedEntry(number[m], sources(m)) : m \in Applicable}
        gone == (UNION Applicable) \union Outdated
    IN /\ job.pc = "apply" /\ kind = store
       /\ brain' = {e \in brain : e.id \notin gone} \union merged
       /\ archives' = archives \union {[merged |-> number[m], sources |-> sources(m)] : m \in Applicable}
       /\ dropped' = dropped \union Outdated
       /\ Recorded(merged)
       /\ JobEnds
       /\ UNCHANGED <<kind, calling, legacy, boot, brought, clock, runs>>

applyReflectionWithMerges == ApplyMerges("private")
applyGroupReflection == ApplyMerges("group")

(***************************************************************************)
(* Specification.                                                          *)
(***************************************************************************)
MemInit ==
    /\ kind \in {"private", "group"}
    /\ brain \in {s \in Seeds : kind = "private" => \A e \in s : e.owner # Group}
    /\ archives = {} /\ dropped = {} /\ brought = {} /\ bootstrap = {}
    /\ calling = [u \in Owner |-> 0]
    /\ legacy \in IF kind = "group" THEN {{}, Legacy} ELSE {{}}
    /\ boot = "off" /\ job = Idle
    /\ manager = [running |-> FALSE, all |-> FALSE, todo |-> {}]
    /\ issued = [i \in IdsOf(brain) |-> (CHOOSE e \in brain : e.id = i).text]
    /\ clock = 0 /\ runs = 0

ReflectionNext ==
    TriggerReflection \/ ReflectTool \/ Reflect \/ Bootstrap \/ ListEntries \/ NothingToReflect \/ GetProfile
      \/ Answer \/ ReflectFails \/ SetObservedMemberPreferredName
      \/ applyReflectionWithMerges \/ applyGroupReflection

StoreNext ==
    AddMemory \/ MemoryTool \/ ExtractMemories \/ ExtractGroupMemories \/ PurgeDistilledEntries
      \/ DeleteMemory \/ UpdateMemory \/ IncrementAccessCount \/ IncrementGroupAccessCount
      \/ ImportMemories \/ UpdateMemberPreferredName \/ SetMemberName
      \/ MigrateEntries \/ MigrateSaved \/ RenameBrain \/ Restart

MemoryNext == StoreNext \/ ReflectionNext

\* A started reflection goes on: the call has a timeout and the locks are
\* held for one load and one save.
JobSteps == Reflect \/ ListEntries \/ NothingToReflect \/ GetProfile \/ Answer \/ ReflectFails
              \/ SetObservedMemberPreferredName \/ applyReflectionWithMerges \/ applyGroupReflection
MemoryFairness == WF_memVars(JobSteps)

\* Types.
MemoryTypeOK ==
    /\ kind \in {"private", "group"} /\ boot \in {"off", "saved", "up"}
    /\ brain \subseteq Entry
    /\ \A a \in archives : a.merged \in Id /\ a.sources \subseteq Entry
    /\ calling \in [Owner -> Name \union {0}]
    /\ job.pc \in {"idle", "profile", "call", "name", "apply"} /\ job.owner \in Owners
    /\ job.snap \subseteq Entry
    /\ dropped \subseteq DOMAIN issued /\ manager.todo \subseteq Owners

\* Reflection loses nothing it was not told to lose.  Every entry ever stored
\* is active, archived as the source of a merge, or was removed by a user, a
\* recall or as outdated.
EntriesAccounted ==
    \A i \in DOMAIN issued : \/ i \in IdsOf(brain) \union dropped
                            \/ \E a \in archives : i \in IdsOf(a.sources)

\* A merged entry has its sources in full in an archive, is public only if all
\* of them were, and speaks for one owner only if all of them did; no entry is
\* merged twice.  Two automatic entries never quote the same message twice.
MergesAreSound ==
    /\ \A e \in brain : e.src = "reflect" /\ e.id \notin brought =>
         \E a \in archives :
            /\ a.merged = e.id /\ IdsOf(a.sources) = e.from /\ Cardinality(e.from) >= 2
            /\ \A s \in a.sources : (e.pub => s.pub) /\ (e.owner \in {Group, s.owner})
    /\ \A a, b \in archives :
         a # b => IdsOf(a.sources) \intersect IdsOf(b.sources) \subseteq brought
    /\ \A e, f \in brain : e # f =>
         /\ e.id # f.id
         /\ {e.src, f.src} \subseteq {"extract", "distill"} /\ e.msg # 0 => <<e.msg, e.ev>> # <<f.msg, f.ev>>

\* What a reflection takes out of the store, or the name it gives a member, is
\* based on what the model was shown: an entry edited, recalled or replaced
\* during the call stays, a name set meanwhile stays, and a name is given only
\* while the memories cited for it are unchanged.
ReflectsWhatItSaw ==
    /\ job.pc = "apply" /\ job'.pc = "idle" =>
            \A e \in brain : e.id \in IdsOf(brain') \/ e \in job.snap
    /\ job.pc = "name" =>
            \A u \in Owner : calling'[u] # calling[u] /\ job'.pc = "apply" =>
                /\ calling[u] = job.names[u]
                /\ \A c \in job.cand : {s \in job.snap : s.id \in c.sources} \subseteq brain
=============================================================================
