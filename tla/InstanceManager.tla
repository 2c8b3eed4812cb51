--------------------------- MODULE InstanceManager ---------------------------
(***************************************************************************)
(* The instance manager over SQL storage (internal/instance): enabling and *)
(* disabling an instance, creating it, deleting it in stages, importing    *)
(* into it, saving settings with their application and rollback, closing   *)
(* the manager, and starting it again after a crash.                       *)
(*                                                                         *)
(* Every operation holds i.op of its instance from its first to its last   *)
(* step; m.mu, which guards the registry, is held only within a step.      *)
(***************************************************************************)
EXTENDS Integers, FiniteSets

CONSTANTS Id,        \* instance identifiers
          Value,     \* what the settings of an instance, or the global ones, may be
          MaxCrash   \* bound: how often the process dies

VARIABLES disk,      \* per instance: its row, its directory, its deletion stage, its settings
          global,    \* the global settings, in the database
          inst,      \* per instance: the managed object and its registry entry
          server,    \* the process: its phase and what Close has done
          writer     \* the holder of settingsWriteMu

vars == <<disk, global, inst, server, writer>>

None == "none"
Gone == [enabled |-> FALSE, deleting |-> FALSE, known |-> FALSE]
Entry(e, d) == [enabled |-> e, deleting |-> d, known |-> TRUE]
Entries == {Gone} \cup {Entry(e, d) : e, d \in BOOLEAN}

NoRuntime == [built |-> None, on |-> FALSE, conf |-> None, glob |-> None]
Builders == {"start", "enable", "create", "cancel", "import", "memories", "draft", "apply", "rollback"}
Free == [by |-> None, at |-> "free", want |-> FALSE, prev |-> None]
Idle == [at |-> "idle", of |-> None, before |-> None, after |-> None, glob |-> None,
         was |-> FALSE, reload |-> FALSE, listed |-> {}, enabled |-> {}, next |-> None, failed |-> FALSE, again |-> FALSE]

Absent == [info |-> Gone, runtime |-> NoRuntime, live |-> 0, mcp |-> None, op |-> Free, stray |-> FALSE]

TypeOK ==
  /\ disk \in [Id -> [row : Entries, home : BOOLEAN, stage : {None, "empty", "files"}, conf : Value]]
  /\ global \in Value
  /\ inst \in [Id -> [info : Entries,
                      runtime : {NoRuntime} \cup [built : Builders, on : BOOLEAN, conf : Value, glob : Value],
                      live : 0..2,
                      mcp : {None, "idle", "active", "closed"},
                      op : [by : {None, "confirm", "prepare"} \cup Builders,
                            at : {"free", "build", "check", "activate", "save", "mark", "move", "delete", "forget"},
                            want : BOOLEAN, prev : Value \cup {None}],
                      stray : BOOLEAN]]
  /\ server \in [phase : {"down", "boot", "up"}, creating : Id \cup {None}, closing : BOOLEAN,
                 closed : BOOLEAN, todo : SUBSET Id, current : Id \cup {None}, applied : Value,
                 refused : BOOLEAN, crashes : 0..MaxCrash]
  /\ writer \in [at : {"idle", "reload", "apply", "list", "lock", "rollback"},
                 of : Id \cup {None}, before : Value \cup {None}, after : Value \cup {None},
                 glob : Value \cup {None}, was : BOOLEAN, reload : BOOLEAN, listed : SUBSET Id,
                 enabled : SUBSET Id, next : Id \cup {None}, failed : BOOLEAN, again : BOOLEAN]

Init ==
  /\ disk \in [Id -> [row : {Gone}, home : {FALSE}, stage : {None}, conf : Value]]
                \cup [Id -> [row : {Entry(TRUE, FALSE), Entry(FALSE, FALSE)}, home : {TRUE}, stage : {None}, conf : Value]]
  /\ global \in Value
  /\ inst = [i \in Id |-> Absent]
  /\ server = [phase |-> "down", creating |-> None, closing |-> FALSE, closed |-> FALSE, todo |-> {},
               current |-> None, applied |-> global, refused |-> FALSE, crashes |-> 0]
  /\ writer = Idle

(* --- the parts every operation is made of ------------------------------- *)

Up == server.phase = "up"
Known(i) == inst[i].info.known
\* i.op.TryLock succeeds
Takes(i) == Known(i) /\ inst[i].op = Free /\ Up

\* mutant: stopping a stopped runtime again is counted again
StopCountsTwice(x) == [x EXCEPT !.runtime.on = FALSE, !.live = @ - 1]
\* runtime.Stop: the scope is cancelled and waited for
Stop(x) == [x EXCEPT !.runtime.on = FALSE, !.live = IF x.runtime.on THEN @ - 1 ELSE @]
\* mcp.SetRuntimeActive(false); a closed manager stays closed
Pause(x) == [x EXCEPT !.mcp = IF @ = "active" THEN "idle" ELSE @]
\* buildFresh, when it succeeds: ensureInstanceMCP, then buildRuntime with the settings as they are
Build(x, by, on, conf) ==
  [x EXCEPT !.runtime = [built |-> by, on |-> on, conf |-> conf, glob |-> global],
            !.live = IF on THEN @ + 1 ELSE @,
            !.mcp = IF @ = None THEN "idle" ELSE @]
\* buildFresh, when it fails: nothing to publish
Broken(x) == [x EXCEPT !.runtime = NoRuntime]
\* mcp.SetRuntimeActive(true)
Activate(x) == [x EXCEPT !.mcp = "active"]
Then(x, at) == [x EXCEPT !.op.at = at]
Release(x) == [x EXCEPT !.op = Free]

\* m.update of Enabled: the row first, and the registry only if the row took it
Saved(i, x, d, e, ok) ==
  IF ok THEN /\ inst' = [inst EXCEPT ![i] = [x EXCEPT !.info.enabled = e]]
             /\ disk' = [disk EXCEPT ![i] = [d EXCEPT !.row.enabled = e]]
        ELSE /\ inst' = [inst EXCEPT ![i] = x]
             /\ disk' = [disk EXCEPT ![i] = d]

\* m.stop: everything is stopped first; the registry says disabled even when the row does not
StopInstance(i, op) ==
  \E ok \in BOOLEAN :
     /\ inst' = [inst EXCEPT ![i] = [Stop(Pause(@)) EXCEPT !.info.enabled = FALSE,
                                                          !.stray = Stop(inst[i]).live > 0,
                                                          !.op = IF ok THEN op ELSE Free]]
     /\ disk' = [disk EXCEPT ![i].row.enabled = IF ok THEN FALSE ELSE @]

(* --- Enable -------------------------------------------------------------- *)

EnableStop(i, b) ==
  /\ Known(i) /\ inst[i].op = Free
  /\ Up \/ (server.phase = "boot" /\ i \in server.todo /\ b /\ \A j \in Id : inst[j].op = Free)
  /\ ~server.closing
  /\ ~inst[i].info.deleting
  /\ ~(inst[i].info.enabled = b /\ inst[i].runtime # NoRuntime /\ inst[i].runtime.on = b)
  /\ StopInstance(i, [Free EXCEPT !.by = "enable", !.at = "build", !.want = b])
  /\ server' = IF Up THEN server ELSE [server EXCEPT !.todo = @ \ {i}]
  /\ UNCHANGED <<global, writer>>

\* buildFresh, or after its failure a stopped runtime over the same settings if that can be built
EnableBuild(i) ==
  LET x == inst[i] IN
  /\ x.op.by = "enable" /\ x.op.at = "build"
  /\ inst' \in {[inst EXCEPT ![i] = y] :
                  y \in {Then(Build(x, "enable", x.op.want, disk[i].conf), "check"),
                         Release(Build(x, "enable", FALSE, disk[i].conf)),
                         Release(Broken(x))}}
  /\ disk' = [disk EXCEPT ![i].home = TRUE]
  /\ UNCHANGED <<global, server, writer>>

EnableCheck(i) ==
  LET x == inst[i] IN
  /\ x.op.at = "check"
  /\ inst' = [inst EXCEPT ![i] = IF server.closing THEN Release(Pause(Stop(x))) ELSE Then(x, "activate")]
  /\ UNCHANGED <<disk, global, server, writer>>

\* mutant: the early return for a closed MCP manager keeps i.op
EnableKeepsLock(i) ==
  LET x == inst[i] IN
  /\ x.op.at = "activate"
  /\ inst' = [inst EXCEPT ![i] = IF x.op.want /\ x.mcp = "closed" THEN Stop(x)
                                 ELSE Then(IF x.op.want THEN Activate(x) ELSE x, "save")]
  /\ UNCHANGED <<disk, global, server, writer>>

EnableActivate(i) ==
  LET x == inst[i] IN
  /\ x.op.at = "activate"
  /\ inst' = [inst EXCEPT ![i] = IF ~x.op.want THEN Then(x, "save")
                                 ELSE IF x.mcp = "closed" THEN Release(Stop(x))
                                 ELSE Then(Activate(x), "save")]
  /\ UNCHANGED <<disk, global, server, writer>>

EnableSave(i) ==
  LET x == inst[i] IN
  /\ x.op.at = "save"
  /\ \/ Saved(i, Release(x), disk[i], x.op.want, TRUE)
     \/ Saved(i, Release(Pause(Stop(x))), disk[i], x.op.want, FALSE)
  /\ UNCHANGED <<global, server, writer>>

(* --- creation and deletion ---------------------------------------------- *)

\* Create holds m.mu: the directory, then the row, the registry entry and a stopped runtime
CreateDirectory(i) ==
  /\ Up /\ server.creating = None /\ ~server.closing
  /\ ~Known(i) /\ ~disk[i].home /\ ~disk[i].row.known /\ disk[i].stage = None
  /\ disk' = [disk EXCEPT ![i].home = TRUE]
  /\ server' = [server EXCEPT !.creating = i]
  /\ UNCHANGED <<global, inst, writer>>

CreateRow(i) ==
  LET made == [Absent EXCEPT !.info = Entry(FALSE, FALSE)] IN
  /\ server.creating = i
  /\ server' = [server EXCEPT !.creating = None]
  /\ \/ UNCHANGED <<disk, inst>>
     \/ /\ disk' = [disk EXCEPT ![i].row = Entry(FALSE, FALSE)]
        /\ inst' \in {[inst EXCEPT ![i] = y] : y \in {Build(made, "create", FALSE, disk[i].conf), Broken(made)}}
  /\ UNCHANGED <<global, writer>>

PrepareStop(i) ==
  /\ Takes(i) /\ ~server.closing
  /\ ~inst[i].info.deleting
  /\ StopInstance(i, [Free EXCEPT !.by = "prepare", !.at = "mark"])
  /\ UNCHANGED <<global, server, writer>>

\* db.PrepareDeletion, then the registry; or the error leaves both as they are
PrepareMark(i) ==
  /\ inst[i].op.at = "mark"
  /\ \/ /\ disk' = [disk EXCEPT ![i].row = Entry(FALSE, TRUE)]
        /\ inst' = [inst EXCEPT ![i] = [Release(@) EXCEPT !.info = Entry(FALSE, TRUE)]]
     \/ /\ inst' = [inst EXCEPT ![i] = Release(@)]
        /\ UNCHANGED disk
  /\ UNCHANGED <<global, server, writer>>

\* only the database says whether there is a deletion to cancel
CancelMark(i) ==
  /\ Takes(i) /\ ~server.closing
  /\ disk[i].row.deleting
  /\ disk' = [disk EXCEPT ![i].row = Entry(FALSE, FALSE)]
  /\ inst' = [inst EXCEPT ![i].info = Entry(FALSE, FALSE),
                          ![i].op = [Free EXCEPT !.by = "cancel", !.at = "build"]]
  /\ UNCHANGED <<global, server, writer>>

CancelBuild(i) ==
  LET x == Release(inst[i]) IN
  /\ inst[i].op.by = "cancel"
  /\ inst' \in {[inst EXCEPT ![i] = y] : y \in {Build(x, "cancel", FALSE, disk[i].conf), Broken(x)}}
  /\ disk' = [disk EXCEPT ![i].home = TRUE]
  /\ UNCHANGED <<global, server, writer>>

ConfirmStage(i) ==
  /\ Takes(i) /\ ~server.closing
  /\ inst[i].info.deleting
  /\ inst' = [inst EXCEPT ![i].mcp = IF @ = None THEN None ELSE "closed",
                          ![i].op = [Free EXCEPT !.by = "confirm", !.at = "move"]]
  /\ disk' = [disk EXCEPT ![i].stage = "empty"]
  /\ UNCHANGED <<global, server, writer>>

ConfirmMove(i) ==
  /\ inst[i].op.at = "move"
  /\ inst' = [inst EXCEPT ![i] = Then(@, "delete")]
  /\ disk' = [disk EXCEPT ![i].home = FALSE, ![i].stage = "files"]
  /\ UNCHANGED <<global, server, writer>>

\* db.ConfirmDeletion; its failure moves the directory back and drops the stage, if it can be removed
ConfirmDelete(i) ==
  /\ inst[i].op.at = "delete"
  /\ \/ /\ disk' = [disk EXCEPT ![i].row = Gone]
        /\ inst' = [inst EXCEPT ![i] = Then(@, "forget")]
     \/ \E rest \in {None, "empty"} :
           /\ disk' = [disk EXCEPT ![i].home = TRUE, ![i].stage = rest]
           /\ inst' = [inst EXCEPT ![i] = Release(@)]
  /\ UNCHANGED <<global, server, writer>>

\* the registry forgets the instance; the managed object stays with whoever looked it up before
ConfirmForget(i) ==
  /\ inst[i].op.at = "forget"
  /\ inst' = [inst EXCEPT ![i] = [Release(@) EXCEPT !.info = Gone]]
  /\ \E rest \in {None, "files"} : disk' = [disk EXCEPT ![i].stage = rest]
  /\ UNCHANGED <<global, server, writer>>

(* --- imports ------------------------------------------------------------- *)

\* no question whether the manager is closing: the body may be read long after the request came in
ImportStop(i) ==
  /\ Takes(i)
  /\ ~inst[i].info.deleting
  /\ inst' = [inst EXCEPT ![i] = [Broken(Stop(@)) EXCEPT !.mcp = None,
                                    !.op = [Free EXCEPT !.by = "import", !.at = "build", !.want = inst[i].info.enabled]]]
  /\ UNCHANGED <<disk, global, server, writer>>

\* backup.ImportSettings, in force or refused, then a new runtime; all of it fails once the database is closed
ImportBuild(i) ==
  LET x == Release(inst[i])
      y == [x EXCEPT !.mcp = "idle"]
  IN
  /\ inst[i].op.by = "import"
  /\ \/ /\ ~server.closed
        /\ \E v \in Value :
              \/ /\ inst' = [inst EXCEPT ![i] = LET z == Build(y, "import", inst[i].op.want, v)
                                                IN IF inst[i].op.want THEN Activate(z) ELSE z]
                 /\ disk' = [disk EXCEPT ![i].conf = v, ![i].home = TRUE]
              \/ \E ok \in BOOLEAN : Saved(i, y, [disk[i] EXCEPT !.conf = v, !.home = TRUE], FALSE, ok)
     \/ /\ server.closed
        /\ inst' = [inst EXCEPT ![i] = x]
        /\ UNCHANGED disk
  /\ UNCHANGED <<global, server, writer>>

ImportMemories(i) ==
  /\ Takes(i)
  /\ ~inst[i].info.deleting
  /\ inst[i].runtime # NoRuntime
  /\ inst' = [inst EXCEPT ![i] = [Stop(Pause(@)) EXCEPT
                !.op = [by |-> "memories", at |-> "build", want |-> inst[i].runtime.on, prev |-> disk[i].conf]]]
  /\ UNCHANGED <<disk, global, server, writer>>

(* --- reloading a runtime over changed settings --------------------------- *)

Reloaders == {"memories", "draft", "apply", "rollback"}

\* mutant: the old runtime is left running
ReloadingOverRunning(x, by, want, prev) ==
  [Pause(x) EXCEPT !.op = [by |-> by, at |-> "build", want |-> want, prev |-> prev],
                   !.stray = @ \/ want # x.info.enabled]

\* what reloadSQLRuntimeLocked does before it builds; the caller owns i.op
Reloading(x, by, want, prev) ==
  [Stop(Pause(x)) EXCEPT !.op = [by |-> by, at |-> "build", want |-> want, prev |-> prev],
                         !.stray = @ \/ want # x.info.enabled]

\* what the settings writer does once the reload it waits for returned
AfterReload(by, ok) ==
  writer' = CASE by = "memories" -> writer
              [] by = "draft" /\ ok -> IF global # writer.glob THEN [writer EXCEPT !.at = "apply"] ELSE Idle
              [] by = "draft" /\ ~ok -> [writer EXCEPT !.at = "rollback"]
              [] by = "apply" -> [writer EXCEPT !.at = "list", !.failed = @ \/ ~ok]
              [] by = "rollback" /\ ok -> [writer EXCEPT !.at = "apply", !.again = TRUE]
              [] by = "rollback" /\ ~ok -> Idle

\* the new runtime, or the previous settings and a runtime over them, or no runtime and a disabled instance
ReloadBuild(i) ==
  LET x == Release(inst[i])
      o == inst[i].op
      Made(conf) == LET z == Build(x, o.by, o.want, conf) IN IF o.want THEN Activate(z) ELSE z
  IN
  /\ o.by \in Reloaders
  /\ \/ /\ ~server.closed /\ ~(o.want /\ x.mcp = "closed")
        /\ \E restored \in BOOLEAN :
              LET conf == IF restored THEN o.prev ELSE disk[i].conf IN
              /\ inst' = [inst EXCEPT ![i] = Made(conf)]
              /\ disk' = [disk EXCEPT ![i].conf = conf, ![i].home = TRUE]
              /\ AfterReload(o.by, ~restored)
              /\ server' = [server EXCEPT !.refused = @ \/ restored]
     \/ /\ \E ok \in BOOLEAN, conf \in {o.prev, disk[i].conf} :
              Saved(i, Broken(x), [disk[i] EXCEPT !.conf = conf], FALSE, ok)
        /\ AfterReload(o.by, FALSE)
        /\ server' = [server EXCEPT !.refused = TRUE]
  /\ UNCHANGED global

(* --- saving settings ----------------------------------------------------- *)

\* serveInstance of UpdateEnvVars: the handler commits the draft, then the instance is reloaded
DraftWrite(i, v, g) ==
  LET reload == v # disk[i].conf IN
  /\ writer = Idle /\ Takes(i) /\ ~server.closing
  /\ inst[i].runtime # NoRuntime
  /\ reload \/ g # global
  /\ disk' = [disk EXCEPT ![i].conf = v]
  /\ global' = g
  /\ writer' = [Idle EXCEPT !.at = IF reload THEN "reload" ELSE "apply", !.of = i, !.before = disk[i].conf,
                            !.after = v, !.glob = global, !.was = inst[i].runtime.on, !.reload = reload]
  /\ inst' = IF reload THEN [inst EXCEPT ![i] = Reloading(@, "draft", inst[i].runtime.on, disk[i].conf)] ELSE inst
  /\ UNCHANGED server

\* a writer of global settings alone: the import of a backup of them
GlobalWrite(g) ==
  /\ writer = Idle /\ Up /\ ~server.closing
  /\ g # global
  /\ global' = g
  /\ writer' = [Idle EXCEPT !.at = "apply", !.glob = global]
  /\ UNCHANGED <<disk, inst, server>>

\* what a writer does with the result of ApplyGlobalSettings
Applied == Idle
NotApplied == IF writer.again THEN Idle ELSE [writer EXCEPT !.at = "rollback", !.listed = {}, !.failed = FALSE]

\* mutant: only the shared clients are refreshed
RefreshesClientsOnly ==
  /\ writer.at = "apply"
  /\ writer' = Applied
  /\ UNCHANGED <<disk, global, inst, server>>

\* nothing to reload if the global settings are those of the last successful application
ApplyGlobalSettings ==
  /\ writer.at = "apply"
  /\ writer' = IF global = server.applied THEN Applied
               ELSE [writer EXCEPT !.at = "list", !.failed = FALSE,
                                   !.listed = {i \in Id : Known(i) /\ ~inst[i].info.deleting},
                                   !.enabled = {i \in Id : inst[i].info.enabled}]
  /\ UNCHANGED <<disk, global, inst, server>>

\* lookup of the next listed instance: from here on the writer waits for its i.op
ApplyLookup(i) ==
  /\ writer.at = "list" /\ i \in writer.listed
  /\ writer' = IF Known(i) THEN [writer EXCEPT !.at = "lock", !.listed = @ \ {i}, !.next = i]
                           ELSE [writer EXCEPT !.failed = TRUE, !.listed = @ \ {i}]
  /\ UNCHANGED <<disk, global, inst, server>>

\* i.op.Lock, and the reload with Enabled as it was when the instances were listed
ApplyReload(i) ==
  /\ writer.at = "lock" /\ writer.next = i /\ inst[i].op = Free
  /\ \/ /\ inst' = [inst EXCEPT ![i] = Reloading(@, "apply", i \in writer.enabled, disk[i].conf)]
        /\ writer' = [writer EXCEPT !.at = "reload", !.next = None]
     \/ /\ inst[i].runtime = NoRuntime        \* no settings were opened either
        /\ writer' = [writer EXCEPT !.at = "list", !.next = None]
        /\ UNCHANGED inst
  /\ UNCHANGED <<disk, global, server>>

ApplyReturn ==
  /\ writer.at = "list" /\ writer.listed = {}
  /\ IF writer.failed
     THEN /\ writer' = NotApplied
          /\ UNCHANGED server
     ELSE /\ writer' = Applied
          /\ server' = [server EXCEPT !.applied = global]
  /\ UNCHANGED <<disk, global, inst>>

\* rollbackSettingsDraft takes i.op anew and puts back what the draft changed; or the database refuses
RollbackDraft(i) ==
  /\ writer.at = "rollback" /\ writer.of = i /\ inst[i].op = Free
  /\ \/ /\ global' = writer.glob
        /\ disk' = [disk EXCEPT ![i].conf = IF writer.reload THEN writer.before ELSE @]
        /\ inst' = IF writer.reload THEN [inst EXCEPT ![i] = Reloading(@, "rollback", writer.was, writer.before)] ELSE inst
        /\ writer' = IF writer.reload THEN [writer EXCEPT !.at = "reload"] ELSE [writer EXCEPT !.at = "apply", !.again = TRUE]
     \/ /\ writer' = Idle
        /\ UNCHANGED <<disk, global, inst>>
  /\ UNCHANGED server

\* restoreGlobalSnapshot, then the application of what it restored
RollbackGlobal ==
  /\ writer.at = "rollback" /\ writer.of = None
  /\ \/ /\ global' = writer.glob
        /\ writer' = [writer EXCEPT !.at = "apply", !.again = TRUE]
     \/ /\ writer' = Idle
        /\ UNCHANGED global
  /\ UNCHANGED <<disk, inst, server>>

(* --- closing, dying and starting ----------------------------------------- *)

\* the gateway's switchMu keeps settings writers out while the manager is closed
CloseStart ==
  /\ Up /\ ~server.closing /\ server.creating = None /\ writer = Idle
  /\ server' = [server EXCEPT !.closing = TRUE, !.todo = {i \in Id : Known(i)}]
  /\ UNCHANGED <<disk, global, inst, writer>>

\* mcp.Close does not wait for i.op
CloseMCP(i) ==
  /\ server.closing /\ server.current = None /\ i \in server.todo
  /\ server' = [server EXCEPT !.current = i, !.todo = @ \ {i}]
  /\ inst' = [inst EXCEPT ![i].mcp = IF @ = None THEN None ELSE "closed"]
  /\ UNCHANGED <<disk, global, writer>>

CloseInstance(i) ==
  /\ server.closing /\ server.current = i /\ inst[i].op = Free
  /\ inst' = [inst EXCEPT ![i] = [Stop(@) EXCEPT !.mcp = IF @ = None THEN None ELSE "closed"]]
  /\ server' = [server EXCEPT !.current = None]
  /\ UNCHANGED <<disk, global, writer>>

CloseDatabase ==
  /\ server.closing /\ ~server.closed /\ server.todo = {} /\ server.current = None
  /\ server' = [server EXCEPT !.closed = TRUE]
  /\ UNCHANGED <<disk, global, inst, writer>>

\* the process dies; a closed one exits
Crash ==
  /\ server.phase # "down"
  /\ server.closed \/ server.crashes < MaxCrash
  /\ inst' = [i \in Id |-> Absent]
  /\ writer' = Idle
  /\ server' = [server EXCEPT !.phase = "down", !.creating = None, !.closing = FALSE, !.closed = FALSE, !.todo = {},
                              !.current = None, !.refused = FALSE, !.crashes = IF server.closed THEN @ ELSE @ + 1]
  /\ UNCHANGED <<disk, global>>

\* mutant: every stage is removed, whether its deletion was committed or not
RemovesEveryStage(d) == [d EXCEPT !.stage = None]
\* recoverDeletionStages: files of a known instance go home, and the stage goes
Recovered(d) == [d EXCEPT !.home = @ \/ (d.row.known /\ d.stage = "files"), !.stage = None]

\* newManager: recovery, then a stopped runtime for every disabled instance that is not being deleted
Start ==
  /\ server.phase = "down"
  /\ disk' = [i \in Id |-> Recovered(disk[i])]
  /\ \E broken \in SUBSET Id :
       inst' = [i \in Id |->
                 LET x == [Absent EXCEPT !.info = disk[i].row] IN
                 IF ~x.info.known \/ x.info.deleting \/ x.info.enabled \/ i \in broken THEN x
                 ELSE Build(x, "start", FALSE, disk[i].conf)]
  /\ server' = [server EXCEPT !.phase = "boot", !.applied = global,
                              !.todo = {i \in Id : disk[i].row.enabled /\ ~disk[i].row.deleting}]
  /\ UNCHANGED <<global, writer>>

StartReturn ==
  /\ server.phase = "boot" /\ server.todo = {} /\ \A i \in Id : inst[i].op = Free
  /\ server' = [server EXCEPT !.phase = "up"]
  /\ UNCHANGED <<disk, global, inst, writer>>

(* --- the whole ----------------------------------------------------------- *)

\* an operation under way goes on without any new request
OperationStep(i) ==
  \/ EnableBuild(i) \/ EnableCheck(i) \/ EnableActivate(i) \/ EnableSave(i)
  \/ CreateRow(i) \/ PrepareMark(i) \/ CancelBuild(i)
  \/ ConfirmMove(i) \/ ConfirmDelete(i) \/ ConfirmForget(i)
  \/ ImportBuild(i) \/ ReloadBuild(i)

WriterStep(i) == ApplyLookup(i) \/ ApplyReload(i) \/ RollbackDraft(i)
CloseStep(i) == CloseMCP(i) \/ CloseInstance(i)
ManagerStep == ApplyGlobalSettings \/ ApplyReturn \/ RollbackGlobal \/ CloseDatabase \/ Start \/ StartReturn

Request(i) ==
  \/ \E b \in BOOLEAN : EnableStop(i, b)
  \/ CreateDirectory(i) \/ PrepareStop(i) \/ CancelMark(i) \/ ConfirmStage(i)
  \/ ImportStop(i) \/ ImportMemories(i)

Next ==
  \/ \E i \in Id : OperationStep(i) \/ WriterStep(i) \/ CloseStep(i) \/ Request(i)
  \/ \E i \in Id, v, g \in Value : DraftWrite(i, v, g)
  \/ \E g \in Value : GlobalWrite(g)
  \/ ManagerStep
  \/ CloseStart
  \/ Crash

Spec == Init /\ [][Next]_vars

\* What has begun goes on. A waiting Lock of i.op is served before long even if TryLock
\* keeps taking it: a Go mutex with a starving waiter refuses TryLock.
Fairness ==
  /\ \A i \in Id : WF_vars(OperationStep(i)) /\ SF_vars(WriterStep(i)) /\ SF_vars(CloseStep(i))
  /\ WF_vars(ManagerStep)
  /\ \A i \in Id : WF_vars(server.phase = "boot" /\ EnableStop(i, TRUE))

FairSpec == Spec /\ Fairness

(* --- properties ---------------------------------------------------------- *)

AtRest(i) == Up /\ inst[i].op = Free
On(i) == inst[i].runtime.on
\* a reload used an Enabled that was read before it had i.op, and its runtime is not stopped yet
Stray(i) == inst[i].stray

\* An instance never has two runtimes with a live scope, and at rest a live one is the
\* published one, whichever of the operations failed half-way and however: Enable,
\* reloadSQLRuntimeLocked and ImportSettings stop what they replace and what they give up.
\* CancelDeletion does not: it counts on PrepareDeletion having stopped the runtime, and
\* loses the one that a reload with an outdated Enabled started since.
OneRuntime ==
  \A i \in Id : ~Stray(i) => inst[i].live <= 1 /\ (AtRest(i) => inst[i].live = IF On(i) THEN 1 ELSE 0)

\* At rest an instance runs exactly when the registry says that it is enabled. The
\* exceptions are those of the code: no runtime could be built and the database refused to
\* note it, and a reload for the settings writer used an Enabled that was out of date.
RunsAsRegistered ==
  \A i \in Id : AtRest(i) /\ ~server.closing /\ ~Stray(i) =>
     /\ On(i) => inst[i].info.enabled /\ ~inst[i].info.deleting
     /\ inst[i].info.enabled => On(i) \/ inst[i].runtime = NoRuntime

\* Once Close returned no runtime is live that Enable, a cancelled deletion or a settings
\* save built. ImportSettings, and ImportMemories after it, do not ask whether the manager
\* is closing: they alone can leave one, besides a stray one of an instance deleted since.
ClosedIsQuiet ==
  \A i \in Id : server.closed /\ On(i) /\ (Known(i) \/ ~Stray(i)) => inst[i].runtime.built \in {"import", "memories"}

RuntimesAccounted == OneRuntime /\ RunsAsRegistered /\ ClosedIsQuiet

\* The files of an instance with a row are in its directory or in its deletion stage, at
\* every instant at which the process may die; outside ConfirmDeletion they are in its
\* directory. Recovery therefore never meets an occupied destination.
FilesFollowRows ==
  \A i \in Id : disk[i].row.known =>
     /\ disk[i].home # (disk[i].stage = "files")
     /\ AtRest(i) => disk[i].home

\* At rest the registry and the database name the same instances and the same pending
\* deletions, and what the registry calls enabled is enabled again by the next start.
RegistryFollowsRows ==
  \A i \in Id : AtRest(i) =>
     /\ inst[i].info.known = disk[i].row.known
     /\ inst[i].info.deleting = disk[i].row.deleting
     /\ inst[i].info.enabled => disk[i].row.enabled
     /\ ~(disk[i].row.enabled /\ disk[i].row.deleting)

DiskAgrees == FilesFollowRows /\ RegistryFollowsRows

\* When no settings are being saved, a live runtime at rest was built from the settings of
\* its instance that are in the database, and from the global ones unless a reload has
\* failed since the start, or its instance is pending deletion and was passed over.
SettingsInForce ==
  \A i \in Id : AtRest(i) /\ writer = Idle /\ On(i) =>
     /\ inst[i].runtime.conf = disk[i].conf
     /\ ~server.refused /\ ~Stray(i) => inst[i].runtime.glob = global

\* Close returns, a settings save is answered, and every operation gives i.op back, whatever
\* requests keep arriving and whichever of their steps fail: no one waits for a lock in a cycle.
ManagerSettles ==
  /\ server.closing ~> (server.closed \/ server.phase = "down")
  /\ (writer # Idle) ~> (writer = Idle)
  /\ \A i \in Id : (inst[i].op # Free) ~> (inst[i].op = Free)

\* "Pending deletions stay paused." ApplyGlobalSettings skips an instance that was pending
\* deletion when the instances were listed; PrepareDeletion may finish before it takes i.op.
PendingDeletionsStayPaused == \A i \in Id : AtRest(i) /\ inst[i].info.deleting => ~On(i)
=============================================================================
