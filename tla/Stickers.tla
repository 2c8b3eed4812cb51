------------------------------ MODULE Stickers ------------------------------
(***************************************************************************)
(* The sticker library of one instance: the store that keeps an index in   *)
(* memory, the same index on disk and one image file per sticker           *)
(* (internal/sticker/store.go), the stealer that collects stickers seen in *)
(* chats, by chance or for an administrator (stealer.go), the single       *)
(* worker that asks a vision model to describe each new sticker            *)
(* (summarizer.go), the panel service, and the two tools of the model.     *)
(*                                                                         *)
(* A sticker is its content hash, so one image has one id.  A text is      *)
(* abstracted to who wrote it.  The store's mutex is `op`: adding and      *)
(* deleting write two things on disk one after the other, and the process  *)
(* may be killed in between.                                               *)
(***************************************************************************)
EXTENDS Integers, Sequences, FiniteSets, SequencesExt

CONSTANTS Image,          \* the images that may be collected
          Collector,      \* goroutines and requests that collect one image
          Session, Gen, Msg,   \* sessions, connection generations, message ids
          MaxConcurrent,  \* slots of the stealer (3 in the code)
          MaxObserved,    \* observed stickers remembered (256)
          MaxQueue,       \* length of the summary queue (256)
          MaxWork,        \* bound on requests, events and restarts
          MaxFail         \* bound on failing disk operations

VARIABLES lib,       \* the index in memory: Image -> entry
          disk,      \* the index as saved
          files,     \* the image files present
          op,        \* the store operation holding the mutex over several writes
          observed,  \* the stealer's list of stickers seen, oldest first
          slots,     \* the collectors holding a slot of the semaphore
          col,       \* what each collector is doing
          queue,     \* ids waiting for a summary
          worker,    \* the summary worker
          pick,      \* the sticker the model has chosen to send, 0 for none
          sent,      \* the sticker handed over by the last answer, 0 for none
          up,        \* the runtime accepts new work
          work,      \* requests, events and restarts so far
          fails,     \* disk failures so far
          torn,      \* history: a deletion could not be rolled back on disk
          blocked,   \* history: blocks the panel was told are in force
          edited,    \* history: texts the panel saved while no call described them
          seen       \* history: <<generation, session, message>> observed

stkVars == <<lib, disk, files, op, observed, slots, col, queue, worker, pick, sent,
             up, work, fails, torn, blocked, edited, seen>>

index   == <<lib, disk, torn>>
history == <<blocked, edited, seen>>
Absent  == [st |-> "none", text |-> "none", model |-> FALSE, manual |-> FALSE, weight |-> 0]
newEntry == [Absent EXCEPT !.st = "unsummarized", !.weight = 1]
Nobody  == [pc |-> "idle", kind |-> "auto", img |-> 0, g |-> 0, s |-> 0, m |-> 0]
Free    == [kind |-> "free", id |-> 0, by |-> 0]
Idle    == [pc |-> "idle", id |-> 0]
Exists(i) == lib[i].st # "none"

StickerInit ==
    /\ lib = [i \in Image |-> Absent] /\ disk = lib /\ files = {} /\ op = Free
    /\ observed = <<>> /\ slots = {} /\ col = [c \in Collector |-> Nobody]
    /\ queue = <<>> /\ worker = Idle /\ pick = 0 /\ sent = 0
    /\ up = TRUE /\ work = 0 /\ fails = 0
    /\ torn = FALSE /\ blocked = {} /\ edited = {} /\ seen = {}

Works   == work < MaxWork /\ work' = work + 1
MayFail == fails < MaxFail /\ fails' = fails + 1

-----------------------------------------------------------------------------
(* The store.                                                              *)

(* Both flags quarantine a sticker: its weight is 0 while one is set.      *)
refreshInappropriateState(e) ==
    [e EXCEPT !.weight = IF e.model \/ e.manual THEN 0 ELSE IF @ < 1 THEN 1 ELSE @]

(* Every change of an entry saves the changed index before memory takes it. *)
saveSnapshot(i, e) ==
    /\ lib' = [lib EXCEPT ![i] = e]
    /\ disk' = lib'
    /\ torn' = FALSE

(* A change of an existing entry: saved, or refused by the disk.           *)
Change(i, e) ==
    /\ op = Free /\ Exists(i)
    /\ \/ saveSnapshot(i, e) /\ fails' = fails
       \/ MayFail /\ UNCHANGED index

(* A flagged sticker is counted as seen again without gaining weight.      *)
IncrementWeight(i) ==
    IF lib[i].model \/ lib[i].manual
    THEN op = Free /\ UNCHANGED <<index, fails>>
    ELSE Change(i, [lib[i] EXCEPT !.weight = @ + 1])

(* The panel's edit makes the sticker ready.                               *)
Update(i) == Change(i, [lib[i] EXCEPT !.st = "ready", !.text = "user"])

(* A mutant: the answer settles both flags.                                *)
AnswerSettlesBoth(e, suspect) ==
    refreshInappropriateState([e EXCEPT !.st = "ready", !.text = "model",
                                        !.model = suspect, !.manual = suspect])

(* The model's answer: the text is replaced whatever it is now, and the    *)
(* model's flag, but never the administrator's, follows the answer.        *)
Described(e, suspect) ==
    refreshInappropriateState([e EXCEPT !.st = "ready", !.text = "model", !.model = suspect])

UpdateSummary(i, suspect) == Change(i, Described(lib[i], suspect))

MarkSuspectedInappropriate(i) ==
    Change(i, refreshInappropriateState([lib[i] EXCEPT !.manual = TRUE]))

ClearSuspectedInappropriate(i) ==
    Change(i, refreshInappropriateState([lib[i] EXCEPT !.model = FALSE, !.manual = FALSE]))

(* Add, under the mutex: the file first ...                                *)
AddWrites(c) ==
    /\ col[c].pc = "add" /\ op = Free /\ ~Exists(col[c].img)
    /\ \/ /\ files' = files \cup {col[c].img} /\ fails' = fails
          /\ op' = [kind |-> "add", id |-> col[c].img, by |-> c] /\ col' = col
       \/ /\ MayFail /\ UNCHANGED <<files, op>>
          /\ col' = [col EXCEPT ![c].pc = "refused"]
    /\ UNCHANGED <<index, history, observed, slots, queue, worker, pick, sent, up, work>>

(* ... then the index; a failed save takes the file away again.            *)
AddSaves ==
    /\ op.kind = "add" /\ op' = Free
    /\ \/ /\ saveSnapshot(op.id, newEntry) /\ UNCHANGED <<files, fails>>
          /\ col' = [col EXCEPT ![op.by].pc = "added"]
       \/ /\ MayFail /\ files' = files \ {op.id} /\ UNCHANGED index
          /\ col' = [col EXCEPT ![op.by].pc = "refused"]
    /\ UNCHANGED <<history, observed, slots, queue, worker, pick, sent, up, work>>

(* A mutant: the file is removed before the index that names it is saved.  *)
DeleteRemovesFirst(i) ==
    /\ op = Free /\ Exists(i) /\ files' = files \ {i}
    /\ op' = [kind |-> "delete", id |-> i, by |-> 0]
    /\ UNCHANGED <<lib, disk, torn, fails>>

(* Delete, under the mutex: the index first, memory last.                  *)
DeleteSaves(i) ==
    /\ op = Free /\ Exists(i)
    /\ \/ /\ disk' = [lib EXCEPT ![i] = Absent] /\ torn' = FALSE /\ fails' = fails
          /\ op' = [kind |-> "delete", id |-> i, by |-> 0]
       \/ MayFail /\ UNCHANGED <<disk, torn, op>>
    /\ UNCHANGED <<lib, files>>

(* A file that cannot be removed brings the saved index back, when the     *)
(* disk allows it.                                                         *)
DeleteRemoves ==
    /\ op.kind = "delete" /\ op' = Free
    /\ \/ /\ files' = files \ {op.id} /\ lib' = disk /\ UNCHANGED <<disk, torn, fails>>
          /\ blocked' = blocked \ {op.id} /\ edited' = edited \ {op.id}
       \/ /\ MayFail /\ UNCHANGED <<lib, files, blocked, edited>>
          /\ \/ disk' = lib /\ torn' = FALSE
             \/ disk' = disk /\ torn' = TRUE
    /\ UNCHANGED <<seen, observed, slots, col, queue, worker, pick, sent, up, work>>

-----------------------------------------------------------------------------
(* The panel.                                                              *)

elsewhere == <<observed, slots, col, queue, worker, pick, sent, up, seen>>

DeleteSticker(i) ==
    /\ Works /\ DeleteSaves(i)
    /\ UNCHANGED <<elsewhere, blocked, edited>>

(* The history notes an edit that no running description is about to meet. *)
UpdateStickerKeywords(i) ==
    /\ Works /\ Update(i)
    /\ edited' = IF fails' = fails /\ worker # [pc |-> "call", id |-> i]
                 THEN edited \cup {i} ELSE edited
    /\ UNCHANGED <<elsewhere, blocked, files, op>>

MarkStickerInappropriateFlag(i) ==
    /\ Works /\ MarkSuspectedInappropriate(i)
    /\ blocked' = IF fails' = fails THEN blocked \cup {i} ELSE blocked
    /\ UNCHANGED <<elsewhere, edited, files, op>>

ClearStickerInappropriateFlag(i) ==
    /\ Works /\ ClearSuspectedInappropriate(i)
    /\ blocked' = IF fails' = fails THEN blocked \ {i} ELSE blocked
    /\ UNCHANGED <<elsewhere, edited, files, op>>

UploadSticker(c, i) ==
    /\ Works /\ col[c] = Nobody
    /\ col' = [col EXCEPT ![c] = [Nobody EXCEPT !.pc = "exists", !.kind = "upload", !.img = i]]
    /\ UNCHANGED <<index, history, files, op, observed, slots, queue, worker, pick, sent,
                   up, fails>>

-----------------------------------------------------------------------------
(* The summary queue.                                                      *)

(* A full queue drops the id: the sticker stays without a summary.         *)
Queued(q, i) == IF Len(q) < MaxQueue THEN Append(q, i) ELSE q

Enqueue(i) == queue' = IF up THEN Queued(queue, i) ELSE queue

Unsummarized(l) == SetToSeq({i \in Image : l[i].st = "unsummarized"})

EnqueueUnsummarized(q, l) == FoldLeft(Queued, q, Unsummarized(l))

RetryAllUnsummarized ==
    /\ Works /\ queue' = IF up THEN EnqueueUnsummarized(queue, lib) ELSE queue
    /\ UNCHANGED <<index, history, files, op, observed, slots, col, worker, pick, sent,
                   up, fails>>

(* A mutant: the worker describes whatever it is handed.                   *)
DescribesAgain(i) == Exists(i) /\ i \in files

(* The worker takes the next id and describes it only while it has no      *)
(* summary: the same id may be queued several times.                       *)
Describable(i) == lib[i].st = "unsummarized" /\ i \in files

TakeId ==
    /\ up /\ worker = Idle /\ queue # <<>> /\ op = Free
    /\ queue' = Tail(queue)
    /\ worker' = IF Describable(Head(queue)) THEN [pc |-> "call", id |-> Head(queue)] ELSE Idle
    /\ UNCHANGED <<index, history, files, op, observed, slots, col, pick, sent, up, work, fails>>

(* The vision call answers or fails within its time limit.  Its answer is  *)
(* applied to the entry of that id, if there still is one.                 *)
process ==
    /\ worker.pc = "call" /\ worker' = Idle
    /\ \/ \E suspect \in BOOLEAN : UpdateSummary(worker.id, suspect)
       \/ op = Free /\ UNCHANGED <<index, fails>>
    /\ UNCHANGED <<history, files, op, observed, slots, col, queue, pick, sent, up, work>>

-----------------------------------------------------------------------------
(* The stealer.                                                            *)

(* The oldest observations make room for new ones.                         *)
pruneObservedLocked(o) ==
    IF Len(o) > MaxObserved THEN SubSeq(o, Len(o) - MaxObserved + 1, Len(o)) ELSE o

Compatible(a, b) == a = 0 \/ b = 0 \/ a = b

(* A sticker in a chat is remembered once.  Chance, a free slot and a      *)
(* running runtime start a collector; without a slot the sticker is let go. *)
ObserveScoped(c, g, s, m, i) ==
    LET e == [s |-> s, m |-> m, g |-> g]
    IN  /\ Works /\ ~\E k \in DOMAIN observed : observed[k] = e
        /\ observed' = pruneObservedLocked(Append(observed, e))
        /\ seen' = seen \cup {<<g, s, m>>}
        /\ \/ /\ up /\ col[c] = Nobody /\ Cardinality(slots) < MaxConcurrent
              /\ slots' = slots \cup {c}
              /\ col' = [col EXCEPT ![c] = [Nobody EXCEPT !.pc = "load", !.img = i]]
           \/ UNCHANGED <<slots, col>>
        /\ UNCHANGED <<index, blocked, edited, files, op, queue, worker, pick, sent, up, fails>>

(* OneBot tags what it sees with its connection's generation, AstrBot does *)
(* not tag it (generation 0).                                              *)
observeStickerSources(c, g, s, m, i) == g # 0 /\ ObserveScoped(c, g, s, m, i)

observeStickers(c, s, m, i) == ObserveScoped(c, 0, s, m, i)

(* A closed connection takes its observations along.                       *)
ClearObservedScope(g) ==
    /\ Works
    /\ observed' = SelectSeq(observed, LAMBDA e : g # 0 /\ e.g # g)
    /\ UNCHANGED <<index, history, files, op, slots, col, queue, worker, pick, sent, up, fails>>

(* The last observation that satisfies a test, 0 for none.                 *)
LastObserved(Test(_)) ==
    LET K == {k \in DOMAIN observed : Test(observed[k])}
    IN  IF K = {} THEN 0 ELSE CHOOSE k \in K : \A j \in K : j <= k

(* A mutant: message ids are looked up by session alone.                   *)
AnyConnection(g, s, m) ==
    LET k == LastObserved(LAMBDA e : e.s = s /\ m \in {0, e.m})
    IN  IF k = 0 THEN 0 ELSE observed[k].m

(* The observed message a run of generation g may collect: the one it      *)
(* names, or the latest of its session (m = 0), unless the latest          *)
(* observation under that message id came over another connection.         *)
findObserved(g, s, m) ==
    LET latest == LastObserved(LAMBDA e : e.s = s /\ Compatible(g, e.g))
        id     == IF m # 0 THEN m ELSE IF latest = 0 THEN 0 ELSE observed[latest].m
        k      == LastObserved(LAMBDA e : e.s = s /\ e.m = id)
    IN  IF k # 0 /\ Compatible(g, observed[k].g) THEN id ELSE 0

(* An administrator asks for a sticker; the run's adapter loads the bytes. *)
StealObservedScoped(c, g, s, m, i) ==
    /\ Works /\ up /\ col[c] = Nobody /\ findObserved(g, s, m) # 0
    /\ col' = [col EXCEPT ![c] = [pc |-> "load", kind |-> "admin", img |-> i,
                                  g |-> g, s |-> s, m |-> findObserved(g, s, m)]]
    /\ UNCHANGED <<index, history, files, op, observed, slots, queue, worker, pick, sent,
                   up, fails>>

(* The tool turns everyone but administrators away, which changes nothing. *)
StealStickerTool(c, s, m, i) == \E g \in Gen \cup {0} : StealObservedScoped(c, g, s, m, i)

(* A mutant: only a success gives the slot back.                           *)
FailureKeepsSlot(c) ==
    /\ col' = [col EXCEPT ![c] = Nobody]
    /\ slots' = IF col[c].pc \in {"load", "refused"} THEN slots ELSE slots \ {c}

(* A collector ends and gives its slot back, however it ends.              *)
Ends(c) == col' = [col EXCEPT ![c] = Nobody] /\ slots' = slots \ {c}

(* The bytes arrive or not.  An explicit steal asks for a slot only now,   *)
(* and is refused when there is none.                                      *)
Load(c) ==
    /\ col[c].pc = "load"
    /\ \/ /\ up /\ (c \in slots \/ Cardinality(slots) < MaxConcurrent)
          /\ slots' = slots \cup {c} /\ col' = [col EXCEPT ![c].pc = "exists"]
       \/ Ends(c)
    /\ UNCHANGED <<index, history, files, op, observed, queue, worker, pick, sent, up, work, fails>>

(* collect: known stickers gain weight, others are added; the loser of a   *)
(* race to add finds the sticker there and counts as having seen it again. *)
collect(c) ==
    LET i == col[c].img
    IN  /\ \/ /\ col[c].pc = "exists" /\ op = Free
              /\ col' = [col EXCEPT ![c].pc = IF Exists(i) THEN "known" ELSE "add"]
              /\ UNCHANGED <<index, fails, slots, queue>>
           \/ /\ col[c].pc = "add" /\ op = Free /\ Exists(i)
              /\ col' = [col EXCEPT ![c].pc = "refused"]
              /\ UNCHANGED <<index, fails, slots, queue>>
           \/ /\ col[c].pc = "refused" /\ op = Free
              /\ \/ /\ Exists(i) /\ col[c].kind # "upload"
                    /\ col' = [col EXCEPT ![c].pc = "known"] /\ UNCHANGED slots
                 \/ (~Exists(i) \/ col[c].kind = "upload") /\ Ends(c)
              /\ UNCHANGED <<index, fails, queue>>
           \/ /\ col[c].pc = "known"
              /\ \/ Exists(i) /\ IncrementWeight(i)
                 \/ op = Free /\ ~Exists(i) /\ UNCHANGED <<index, fails>>
              /\ Ends(c) /\ UNCHANGED queue
           \/ /\ col[c].pc = "added"
              /\ Enqueue(i)
              /\ Ends(c) /\ UNCHANGED <<index, fails>>
        /\ UNCHANGED <<history, files, op, observed, worker, pick, sent, up, work>>

-----------------------------------------------------------------------------
(* The model's tool.                                                       *)

Sendable(e) == e.st = "ready" /\ ~e.model /\ ~e.manual /\ e.weight > 0

(* A search offers sendable stickers only; the choice, by weight or by the *)
(* model, is acted on later.  The model may also name any id.              *)
SendStickerTool(i) ==
    /\ Works /\ op = Free /\ pick = 0
    /\ pick' = i /\ sent' = 0
    /\ UNCHANGED <<index, history, files, op, observed, slots, col, queue, worker, up, fails>>

(* A mutant: what the search offered is sent without another look.         *)
Unlooked(i) == Exists(i)

(* The entry is looked at again when it is handed over.                    *)
HandedOver(i) == Sendable(lib[i])

stickerImageResult ==
    /\ pick # 0 /\ op = Free /\ pick' = 0
    /\ sent' = IF HandedOver(pick) THEN pick ELSE 0
    /\ UNCHANGED <<index, history, files, op, observed, slots, col, queue, worker, up, work, fails>>

-----------------------------------------------------------------------------
(* The process.                                                            *)

(* The runtime stops: no new background work is accepted.                  *)
StopRuntime ==
    /\ Works /\ up /\ up' = FALSE
    /\ UNCHANGED <<index, history, files, op, observed, slots, col, queue, worker, pick, sent, fails>>

(* A new runtime, after a stop or a kill at any point, reads the saved     *)
(* index and queues what has no summary.                                   *)
load ==
    /\ Works /\ up' = TRUE
    /\ lib' = disk /\ disk' = disk /\ torn' = FALSE /\ op' = Free
    /\ observed' = <<>> /\ slots' = {} /\ col' = [c \in Collector |-> Nobody]
    /\ queue' = EnqueueUnsummarized(<<>>, disk)
    /\ worker' = Idle /\ pick' = 0 /\ sent' = 0
    /\ blocked' = {i \in blocked : disk[i].st # "none"}
    /\ edited' = {i \in edited : disk[i].st # "none"}
    /\ UNCHANGED <<files, fails, seen>>

-----------------------------------------------------------------------------

Panel ==
    \/ \E i \in Image : \/ DeleteSticker(i)
                        \/ UpdateStickerKeywords(i)
                        \/ MarkStickerInappropriateFlag(i)
                        \/ ClearStickerInappropriateFlag(i)
    \/ \E c \in Collector, i \in Image : UploadSticker(c, i)
    \/ RetryAllUnsummarized

Chats ==
    \/ \E c \in Collector, s \in Session, m \in Msg, i \in Image :
           \/ \E g \in Gen : observeStickerSources(c, g, s, m, i)
           \/ observeStickers(c, s, m, i)
    \/ \E c \in Collector, s \in Session, m \in Msg \cup {0}, i \in Image :
           StealStickerTool(c, s, m, i)
    \/ \E g \in Gen : ClearObservedScope(g)
    \/ \E i \in Image : SendStickerTool(i)

Proceeds ==
    \/ \E c \in Collector : AddWrites(c) \/ Load(c) \/ collect(c)
    \/ AddSaves \/ DeleteRemoves \/ TakeId \/ process \/ stickerImageResult

StickerNext == Panel \/ Chats \/ Proceeds \/ StopRuntime \/ load

-----------------------------------------------------------------------------

Entry == [st : {"none", "unsummarized", "ready"}, text : {"none", "user", "model"},
          model : BOOLEAN, manual : BOOLEAN, weight : 0..(MaxWork + 1)]

(* Every variable of the sticker library has its type, and the stealer's   *)
(* list, slots and queue keep to their limits.                             *)
StickerTypeOK ==
    /\ lib \in [Image -> Entry] /\ disk \in [Image -> Entry] /\ files \subseteq Image
    /\ op \in [kind : {"free", "add", "delete"}, id : Image \cup {0}, by : Collector \cup {0}]
    /\ observed \in Seq([s : Session, m : Msg, g : Gen \cup {0}]) /\ Len(observed) <= MaxObserved
    /\ slots \subseteq Collector /\ Cardinality(slots) <= MaxConcurrent
    /\ col \in [Collector -> [pc : {"idle", "load", "exists", "known", "add", "refused", "added"},
                              kind : {"auto", "admin", "upload"}, img : Image \cup {0},
                              g : Gen \cup {0}, s : Session \cup {0}, m : Msg \cup {0}]]
    /\ queue \in Seq(Image) /\ Len(queue) <= MaxQueue
    /\ worker \in [pc : {"idle", "call"}, id : Image \cup {0}]
    /\ {pick, sent} \subseteq Image \cup {0} /\ up \in BOOLEAN /\ torn \in BOOLEAN
    /\ work \in 0..MaxWork /\ fails \in 0..MaxFail
    /\ blocked \subseteq Image /\ edited \subseteq Image
    /\ seen \subseteq (Gen \cup {0}) \X Session \X Msg

(* Whatever fails and wherever the process is killed, a sticker the saved  *)
(* index names has its image (store.go Add and Delete), memory and disk    *)
(* agree whenever no operation runs, unless the roll-back of a deletion    *)
(* failed, a block the panel confirmed stands until it is lifted or the    *)
(* sticker goes, an edit is lost only to a description that was already    *)
(* being made when it was saved, and a slot of the stealer is given back   *)
(* however the collection ended.                                           *)
LibraryIsKept ==
    /\ \A i \in Image : disk[i].st # "none" => i \in files
    /\ op = Free /\ ~torn => lib = disk
    /\ \A i \in blocked : lib[i].manual /\ lib[i].weight = 0
    /\ \A i \in edited : lib[i].text = "user"
    /\ \A c \in slots : col[c] # Nobody

(* What send_sticker hands over is described, not blocked and has its      *)
(* image at that moment, however long ago it was chosen; and an explicit   *)
(* steal only ever loads a message that the run's own connection, or one   *)
(* without a generation, has shown in that session, even when two          *)
(* connections reuse a message id.                                         *)
StickerIsFit ==
    /\ (sent' # 0 /\ pick # pick') =>
           /\ lib[sent'].st = "ready" /\ sent' \in files
           /\ sent' \notin blocked /\ ~lib[sent'].model
    /\ \A c \in Collector :
           (col[c] = Nobody /\ col'[c].kind = "admin") =>
               \E g \in Gen \cup {0} :
                   /\ <<g, col'[c].s, col'[c].m>> \in seen
                   /\ 0 \in {g, col'[c].g} \/ g = col'[c].g
=============================================================================
