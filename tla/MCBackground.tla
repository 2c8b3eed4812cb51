---------------------------- MODULE MCBackground ----------------------------
(***************************************************************************)
(* What works beside the turns, for TLC: the extraction of memories, when  *)
(* groups are compacted, the collecting, describing and sending of         *)
(* stickers, the model router that a turn asks for its model, and the      *)
(* security control that may stop it.  They share no state, so a behaviour *)
(* moves one of them: part says which.                                     *)
(***************************************************************************)
EXTENDS SessionExtraction

CONSTANTS Batch, MaxMessage, MaxForce, MaxToken, MayDrop, MayStop, CancelFirst,
          Image, Collector, Session, Gen, Msg, MaxConcurrent, MaxObserved, MaxQueue, MaxWork, MaxFail,
          Provider, Vault, Url, Key, Page, MaxEdits,
          User, Turn, Payload, Window, LockAfter, MaxTime, MaxOps

VARIABLES part,
          buffer, arrived, inflight, cooling, timer, armed, fired, calls, comps, forced,
          stopped, stopPC, excused,
          lib, disk, files, op, observed, slots, col, queue, worker, pick, sent, up, work, fails,
          torn, blocked, edited, seen,
          catalog, secret, routes, others, shared, local, page, publishing, restoring, request,
          paired, parted, edits,
          access, mode, gateway, checked, saved, blocks, now, ops

Scheduler == INSTANCE CompactScheduler
Library == INSTANCE Stickers

(* The routes the instance's page may save: a model for all, one for a     *)
(* group's reflection, and none but for a group's dialogue.                *)
Bound(m, p) == [mode |-> m, model |-> p]
Catalog == INSTANCE ModelRouter
             WITH turn <- request, torn <- parted, ops <- edits, MaxOps <- MaxEdits, Offered <- {}
Offered == {[Catalog!Default EXCEPT !.global["dialogue"] = Bound("model", 1)],
            [Catalog!Default EXCEPT !.group["reflection"] = Bound("model", 2)],
            [Catalog!Default EXCEPT !.global["dialogue"] = Bound("disabled", 1),
                                    !.group["dialogue"] = Bound("model", 2)]}
Router == INSTANCE ModelRouter
            WITH turn <- request, torn <- parted, ops <- edits, MaxOps <- MaxEdits
Control == INSTANCE SecurityControl WITH turn <- checked

schedulerVars == <<buffer, arrived, inflight, cooling, timer, armed, fired, calls, comps, forced,
                   stopped, stopPC, excused>>
stickerVars == <<lib, disk, files, op, observed, slots, col, queue, worker, pick, sent, up, work,
                 fails, torn, blocked, edited, seen>>
routerVars == <<catalog, secret, routes, others, shared, local, page, publishing, restoring,
                request, paired, parted, edits>>
controlVars == <<access, mode, gateway, checked, saved, blocks, now, ops>>

(* A fault takes the place of a request, event or restart.                 *)
FaultsCost == fails > 0 => work < MaxWork

MCInit ==
  /\ part \in {"extraction", "scheduler", "stickers", "router", "control"}
  /\ Init /\ Scheduler!Init /\ Library!StickerInit /\ Router!RouterInit /\ Control!SecInit
  \* the parts at rest start in one way
  /\ part # "router" => \A p \in Provider : secret[p] = 0
  /\ part # "control" => mode = "simple"

MCNext ==
  /\ UNCHANGED part
  /\ \/ /\ part = "extraction" /\ Next
        /\ UNCHANGED <<schedulerVars, stickerVars, routerVars, controlVars>>
     \/ /\ part = "scheduler" /\ Scheduler!Next
        /\ UNCHANGED <<vars, stickerVars, routerVars, controlVars>>
     \/ /\ part = "stickers" /\ Library!StickerNext /\ FaultsCost'
        /\ UNCHANGED <<vars, schedulerVars, routerVars, controlVars>>
     \/ /\ part = "router" /\ Router!RouterNext
        /\ UNCHANGED <<vars, schedulerVars, stickerVars, controlVars>>
     \/ /\ part = "control" /\ Control!SecNext
        /\ UNCHANGED <<vars, schedulerVars, stickerVars, routerVars>>

MCSpec ==
  /\ MCInit /\ [][MCNext]_<<part, vars, schedulerVars, stickerVars, routerVars, controlVars>>
  /\ WF_vars(part = "extraction" /\ Proceeds)
  /\ WF_schedulerVars(part = "scheduler" /\ Scheduler!Proceeds)
  /\ SF_schedulerVars(part = "scheduler" /\ Scheduler!Commit)

-----------------------------------------------------------------------------

(* Every variable of every part has its type.                              *)
BackgroundTypeOK ==
  TypeOK /\ Scheduler!TypeOK /\ Library!StickerTypeOK /\ Router!RouterTypeOK /\ Control!SecTypeOK

(* A group is compacted by one goroutine at a time, a full batch always    *)
(* has someone to see to it, no timer is lost, and Close leaves nothing    *)
(* running (GroupCompactor).  Whatever fails and wherever the process is   *)
(* killed, the saved index of stickers names no missing image and keeps    *)
(* the panel's blocks and edits; what is sent is described and not blocked *)
(* when it leaves; and a steal by order loads only what its own connection *)
(* has shown (store.go, stealer.go, sticker_tools.go).                     *)
WorkIsKept ==
  [](Scheduler!WellScheduled /\ Library!LibraryIsKept) /\ [][Library!StickerIsFit]_stickerVars

(* Every route names a model of the catalog, a url is called with a key it *)
(* was published with, and a publication holds the edits of its own page   *)
(* (checkCatalogReferences, SecretBackend.apply, checkDraftOwner).         *)
CatalogHolds ==
  [](Router!RoutesResolve /\ Router!KeysStayPaired) /\ [][Router!PublishesOwnEdits]_routerVars

(* The watchdog locks a user only for strikes that were earned inside one  *)
(* window, and a turn of a locked user starts at most one more model call  *)
(* or tool (Watchdog.RecordBlock, AccessStore).                            *)
LocksHold == Control!LocksAreEarned /\ Control!LockStopsTurns

Begun == IF part = "extraction" THEN reset.pc = "aborting" ELSE Scheduler!GroupCompactReady(buffer)
Over == IF part = "extraction" THEN reset.pc = "idle"
        ELSE ~Scheduler!GroupCompactReady(buffer) \/ stopped \/ excused

(* Once begun, it ends: a reset returns, as every write it waits for ends; *)
(* and a full batch is compacted (AbortAndWait, TriggerWithScope).         *)
BackgroundSettles == Begun ~> Over
=============================================================================
