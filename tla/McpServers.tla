----------------------------- MODULE McpServers -----------------------------
(* The MCP servers of an instance (internal/mcp): the manager that owns one *)
(* runtime per configured server, the start goroutines, the sessions they   *)
(* open, the catalog of a server's tool, and the configuration on disk.     *)
(*                                                                          *)
(* A runtime object is a number; Update replaces it by a new one.  A start  *)
(* and the session it opens are named by their runtime and the generation   *)
(* that reserved them.  A control call holds Manager.mu for reading while   *)
(* it is in a reading operation, Manager.persistMu from its snapshot to its *)
(* write, and Manager.runtimeMu through activation, deactivation and Close. *)
EXTENDS Naturals, FiniteSets

CONSTANTS Id,        \* server ids, 1..n
          Caller,    \* callers of the control plane
          MaxRt,     \* runtime objects ever created
          Scenarios, \* the kinds of calls and events that meet in one behaviour
          MaxCalls,  \* control calls ever made
          MaxFail    \* saves that fail

VARIABLES mgr,      \* active, closed, and whether Close has returned
          owner,    \* Manager.servers: the runtime of an id, 0 for none
          rt,       \* the runtime objects
          starts,   \* reserved and running starts
          live,     \* the sessions that are open
          closing,  \* the sessions some goroutine is closing
          watch,    \* the watchers of sessions
          note,     \* a tools/list_changed notification being served
          call,     \* the control calls
          stored,   \* the saved configuration
          stale,    \* since the last snapshot a save failed or an Add was undone
          used      \* the kinds of calls made, how many, and saves failed

mcpVars == <<mgr, owner, rt, starts, live, closing, watch, note, call, stored, stale, used>>

Rt == 1..MaxRt
Gen == 0..(2 * MaxCalls + MaxRt)
None == [on |-> FALSE, policy |-> TRUE]
Cfg == [on : BOOLEAN, policy : BOOLEAN]
Saved == [id : Id, on : BOOLEAN, policy : BOOLEAN]
Runtime == [id : Id \cup {0}, on : BOOLEAN, policy : BOOLEAN, gen : Gen, session : Gen,
            status : {"stopped", "starting", "connected", "failed"}, retired : BOOLEAN,
            item : {"none", "on", "off"}]
Fresh(id, c) == [id |-> id, on |-> c.on, policy |-> c.policy, gen |-> 0, session |-> 0,
                 status |-> "stopped", retired |-> FALSE, item |-> "none"]
Item(policy) == IF policy THEN "on" ELSE "off"
Quiet == [pc |-> "idle", op |-> "none", r |-> 0, gen |-> 0, cfg |-> None, id |-> 0,
          snap |-> {}]

(* The locks that calls hold. *)
Reading == \E u \in Caller : /\ call[u].op \in {"enable", "sync", "restart"}
                             /\ call[u].pc \notin {"save", "write", "idle"}
Persisting == \E u \in Caller : call[u].pc = "write"
Switching == \E u \in Caller : call[u].op \in {"active", "inactive", "close"}

Open(r) == IF rt[r].session = 0 THEN {} ELSE {<<r, rt[r].session>>}
Go(u, c) == call' = [call EXCEPT ![u] = c]
At(u, op, pc) == call[u].op = op /\ call[u].pc = pc
(* A call is made by an idle caller. *)
Call(u) == call[u].pc = "idle" /\ used.calls < MaxCalls /\ used' = [used EXCEPT !.calls = @ + 1]
Config == {[id |-> i, on |-> rt[owner[i]].on, policy |-> rt[owner[i]].policy] :
             i \in {i \in Id : owner[i] # 0}}

----------------------------------------------------------------------------
(* What a lifecycle operation does to a runtime. *)

CanStart(x) == ~x.retired /\ x.on
Reserved(x) ==
  CASE x.retired -> x
    [] ~x.retired /\ ~x.on -> [x EXCEPT !.status = "stopped"]
    [] OTHER -> [x EXCEPT !.gen = @ + 1, !.status = "starting", !.session = 0]
Retired(x) ==
  IF x.retired THEN x
  ELSE [x EXCEPT !.retired = TRUE, !.on = FALSE, !.gen = @ + 1, !.status = "stopped", !.session = 0]
Stopped(x) == [x EXCEPT !.gen = @ + 1, !.status = "stopped", !.session = 0]
Start(r, x, phase) ==
  IF CanStart(x) THEN {[r |-> r, gen |-> x.gen + 1, phase |-> phase]} ELSE {}
Current(s) == CanStart(rt[s.r]) /\ rt[s.r].gen = s.gen
(* Only the newest start may report that it failed. *)
FailedStartSilent(s, x) == x
FailedStart(s, x) ==
  IF x.gen = s.gen /\ ~x.retired THEN [x EXCEPT !.status = "failed"] ELSE x

----------------------------------------------------------------------------
(* The control plane. *)

AddServer(u, id, c) ==
  LET r == CHOOSE n \in Rt : rt[n].id = 0 /\ \A k \in Rt : rt[k].id = 0 => n <= k
      new == Fresh(id, c)
      begun == mgr.active /\ c.on
  IN /\ Call(u) /\ ~Reading /\ ~mgr.closed /\ owner[id] = 0
     /\ \E n \in Rt : rt[n].id = 0
     /\ rt' = [rt EXCEPT ![r] = IF begun THEN Reserved(new) ELSE new]
     /\ owner' = [owner EXCEPT ![id] = r]
     /\ Go(u, [Quiet EXCEPT !.op = "add", !.pc = "save", !.r = r, !.id = id,
                            !.gen = IF begun THEN 1 ELSE 0])
     /\ UNCHANGED <<mgr, starts, live, closing, watch, note, stored, stale>>

(* UpdateMCPServer copies the tool policies of the runtime it finds, then   *)
(* UpdateServer replaces the runtime that is there by then.                 *)
UpdateMCPServer(u, id, on) ==
  /\ Call(u) /\ owner[id] # 0
  /\ Go(u, [Quiet EXCEPT !.op = "update", !.pc = "replace", !.id = id,
                         !.cfg = [on |-> on, policy |-> rt[owner[id]].policy]])
  /\ UNCHANGED <<mgr, owner, rt, starts, live, closing, watch, note, stored, stale>>

UpdateServer(u) ==
  LET id == call[u].id  old == owner[id]
      r == CHOOSE n \in Rt : rt[n].id = 0 /\ \A k \in Rt : rt[k].id = 0 => n <= k
      new == Fresh(id, call[u].cfg)
      begun == mgr.active /\ new.on
  IN /\ At(u, "update", "replace") /\ ~Reading
     /\ \/ /\ mgr.closed \/ old = 0
           /\ Go(u, Quiet)
           /\ UNCHANGED <<owner, rt, starts, closing>>
        \/ /\ ~mgr.closed /\ old # 0 /\ \E n \in Rt : rt[n].id = 0
           /\ rt' = [rt EXCEPT ![old] = Retired(@), ![r] = IF begun THEN Reserved(new) ELSE new]
           /\ owner' = [owner EXCEPT ![id] = r]
           /\ closing' = closing \cup Open(old)
           /\ starts' = starts \cup IF begun THEN Start(r, new, "reserved") ELSE {}
           /\ Go(u, [call[u] EXCEPT !.pc = "wait", !.r = r, !.gen = IF begun THEN 1 ELSE 0])
     /\ UNCHANGED <<mgr, live, watch, note, stored, stale, used>>

RemoveServer(u, id) ==
  /\ Call(u) /\ ~Reading /\ ~mgr.closed /\ owner[id] # 0
  /\ rt' = [rt EXCEPT ![owner[id]] = Retired(@)]
  /\ closing' = closing \cup Open(owner[id])
  /\ owner' = [owner EXCEPT ![id] = 0]
  /\ Go(u, [Quiet EXCEPT !.op = "remove", !.pc = "save"])
  /\ UNCHANGED <<mgr, starts, live, watch, note, stored, stale>>

(* SetEnabledForRuntime: the flag first, then Start or Stop.                *)
SetServerEnabled(u, id, on) ==
  LET r == owner[id]  x == rt[r]
      nothing == \/ x.on = on /\ ~on /\ x.status = "stopped"
                 \/ x.on = on /\ on /\ mgr.active /\ x.status \in {"starting", "connected"}
  IN /\ Call(u) /\ ~mgr.closed /\ r # 0
     /\ rt' = IF nothing THEN rt ELSE [rt EXCEPT ![r].on = on]
     /\ Go(u, [Quiet EXCEPT !.op = "enable", !.r = r,
                  !.pc = IF nothing THEN "save" ELSE IF on /\ mgr.active THEN "start" ELSE "stop"])
     /\ UNCHANGED <<mgr, owner, starts, live, closing, watch, note, stored, stale>>

(* SetToolEnabled finds the runtime, sets the policy, then the catalog.     *)
SetToolEnabled(u, id, on) ==
  /\ Call(u) /\ ~mgr.closed /\ owner[id] # 0
  /\ Go(u, [Quiet EXCEPT !.op = "tool", !.pc = "policy", !.r = owner[id], !.cfg = [None EXCEPT !.on = on]])
  /\ UNCHANGED <<mgr, owner, rt, starts, live, closing, watch, note, stored, stale>>
SetToolPolicy(u) ==
  LET r == call[u].r IN
  /\ At(u, "tool", "policy")
  /\ \/ rt[r].retired /\ UNCHANGED rt /\ Go(u, [call[u] EXCEPT !.pc = "save"])
     \/ /\ ~rt[r].retired
        /\ rt' = [rt EXCEPT ![r].policy = call[u].cfg.on]
        /\ Go(u, [call[u] EXCEPT !.pc = "catalog"])
  /\ UNCHANGED <<mgr, owner, starts, live, closing, watch, note, stored, stale, used>>
SetPolicy(u) ==
  LET r == call[u].r IN
  /\ At(u, "tool", "catalog")
  /\ rt' = [rt EXCEPT ![r].item = IF @ = "none" THEN @ ELSE Item(call[u].cfg.on)]
  /\ Go(u, [call[u] EXCEPT !.pc = "save"])
  /\ UNCHANGED <<mgr, owner, starts, live, closing, watch, note, stored, stale, used>>

(* SyncServer and RestartServer keep Manager.mu while they work.            *)
RestartServer(u, id) ==
  /\ Call(u) /\ ~mgr.closed /\ mgr.active /\ owner[id] # 0
  /\ Go(u, [Quiet EXCEPT !.op = "restart", !.pc = "stop", !.r = owner[id]])
  /\ UNCHANGED <<mgr, owner, rt, starts, live, closing, watch, note, stored, stale>>
SyncServer(u, id) ==
  LET x == rt[owner[id]] IN
  /\ Call(u) /\ ~mgr.closed /\ mgr.active /\ owner[id] # 0 /\ x.on
  /\ Go(u, [Quiet EXCEPT !.op = "sync", !.r = owner[id], !.cfg = [None EXCEPT !.policy = x.policy],
               !.pc = IF x.status = "connected" /\ x.session # 0 THEN "list" ELSE "stop"])
  /\ UNCHANGED <<mgr, owner, rt, starts, live, closing, watch, note, stored, stale>>
(* The list was asked of the session read at the start; nothing is checked  *)
(* when it arrives.                                                         *)
SyncCatalog(u) ==
  LET r == call[u].r IN
  /\ At(u, "sync", "list")
  /\ rt' \in {rt, [rt EXCEPT ![r].item = Item(call[u].cfg.policy)]}
  /\ Go(u, Quiet)
  /\ UNCHANGED <<mgr, owner, starts, live, closing, watch, note, stored, stale, used>>

(* Stop, and the wait for the session it closes.                            *)
StopServer(u) ==
  LET r == call[u].r IN
  /\ call[u].op \in {"enable", "sync", "restart"} /\ call[u].pc = "stop"
  /\ rt' = [rt EXCEPT ![r] = Stopped(@)]
  /\ closing' = closing \cup Open(r)
  /\ Go(u, [call[u] EXCEPT !.pc = "stopping", !.gen = rt[r].session])
  /\ UNCHANGED <<mgr, owner, starts, live, watch, note, stored, stale, used>>
ServerStopped(u) ==
  /\ call[u].pc = "stopping" /\ <<call[u].r, call[u].gen>> \notin closing
  /\ Go(u, [call[u] EXCEPT !.pc = IF call[u].op = "enable" THEN "save" ELSE "start"])
  /\ UNCHANGED <<mgr, owner, rt, starts, live, closing, watch, note, stored, stale, used>>
StartServer(u) ==
  LET r == call[u].r IN
  /\ call[u].op \in {"enable", "sync", "restart"} /\ call[u].pc = "start"
  /\ rt' = [rt EXCEPT ![r] = Reserved(@)]
  /\ closing' = closing \cup IF CanStart(rt[r]) THEN Open(r) ELSE {}
  /\ starts' = starts \cup Start(r, rt[r], "reserved")
  /\ Go(u, [call[u] EXCEPT !.pc = "wait", !.gen = rt[r].gen + 1])
  /\ UNCHANGED <<mgr, owner, live, watch, note, stored, stale, used>>
(* A call that starts a server waits for the start to end.                  *)
ServerStarted(u) ==
  /\ call[u].pc = "wait"
  /\ ~\E s \in starts : s.r = call[u].r /\ s.gen = call[u].gen
  /\ Go(u, IF call[u].op \in {"enable", "update"} THEN [call[u] EXCEPT !.pc = "save"] ELSE Quiet)
  /\ UNCHANGED <<mgr, owner, rt, starts, live, closing, watch, note, stored, stale, used>>

----------------------------------------------------------------------------
(* saveConfig: the snapshot and the write share persistMu.                  *)

SnapshotUnlocked(u) ==
  /\ call[u].pc = "save" /\ ~mgr.closed
  /\ Go(u, [call[u] EXCEPT !.pc = "write", !.snap = Config])
  /\ stale' = FALSE
  /\ UNCHANGED <<mgr, owner, rt, starts, live, closing, watch, note, stored, used>>
Snapshot(u) ==
  /\ call[u].pc = "save" /\ ~Persisting /\ ~mgr.closed
  /\ Go(u, [call[u] EXCEPT !.pc = "write", !.snap = Config])
  /\ stale' = FALSE
  /\ UNCHANGED <<mgr, owner, rt, starts, live, closing, watch, note, stored, used>>

(* A save that fails undoes an Add, and only an Add.                        *)
Undo(u) ==
  LET r == call[u].r  id == call[u].id IN
  IF owner[id] = r
  THEN /\ rt' = [rt EXCEPT ![r] = Retired(@)]
       /\ owner' = [owner EXCEPT ![id] = 0]
       /\ closing' = closing \cup Open(r)
  ELSE UNCHANGED <<rt, owner, closing>>
(* startReservedAsync queues the start that AddServer reserved, unless it   *)
(* has been superseded.                                                     *)
Queued(u) ==
  {s \in {[r |-> call[u].r, gen |-> call[u].gen, phase |-> "reserved"]} :
     call[u].op = "add" /\ s.gen # 0 /\ Current(s)}
Save(u) ==
  /\ call[u].pc = "write"
  /\ \/ /\ stored' = call[u].snap
        /\ starts' = starts \cup Queued(u)
        /\ Go(u, Quiet)
        /\ UNCHANGED <<owner, rt, closing, used, stale>>
     \/ /\ used.fails < MaxFail /\ used' = [used EXCEPT !.fails = @ + 1]
        /\ stale' = TRUE
        /\ Go(u, IF call[u].op = "add" THEN [call[u] EXCEPT !.pc = "undo"] ELSE Quiet)
        /\ UNCHANGED <<stored, starts, owner, rt, closing>>
  /\ UNCHANGED <<mgr, live, watch, note>>
UndoAdd(u) ==
  /\ \/ call[u].pc = "undo"
     \/ At(u, "add", "save") /\ mgr.closed
  /\ ~Reading /\ Undo(u) /\ Go(u, Quiet) /\ stale' = TRUE
  /\ UNCHANGED <<mgr, starts, live, watch, note, stored, used>>
(* A save that finds the manager closed writes nothing.                     *)
Unsaved(u) ==
  /\ call[u].pc = "save" /\ call[u].op # "add" /\ mgr.closed /\ Go(u, Quiet) /\ stale' = TRUE
  /\ UNCHANGED <<mgr, owner, rt, starts, live, closing, watch, note, stored, used>>

----------------------------------------------------------------------------
(* The lifecycle of the instance. *)

Owned == {owner[i] : i \in Id} \ {0}
SetRuntimeActive(u) ==
  /\ Call(u) /\ ~Switching /\ ~Reading /\ ~mgr.closed /\ ~mgr.active
  /\ mgr' = [mgr EXCEPT !.active = TRUE]
  /\ rt' = [r \in Rt |-> IF r \in Owned /\ rt[r].on THEN Reserved(rt[r]) ELSE rt[r]]
  /\ closing' = closing \cup UNION {Open(r) : r \in {o \in Owned : CanStart(rt[o])}}
  /\ starts' = starts \cup UNION {Start(r, rt[r], "reserved") : r \in Owned}
  /\ UNCHANGED <<owner, live, watch, note, call, stored, stale>>
(* Deactivation forbids new starts first, then stops the servers one by one *)
SetRuntimeInactive(u) ==
  /\ Call(u) /\ ~Switching /\ ~Reading /\ ~mgr.closed /\ mgr.active
  /\ mgr' = [mgr EXCEPT !.active = FALSE]
  /\ Go(u, [Quiet EXCEPT !.op = "inactive", !.pc = "each", !.snap = Owned])
  /\ UNCHANGED <<owner, rt, starts, live, closing, watch, note, stored, stale>>
StopEach(u) ==
  /\ At(u, "inactive", "each")
  /\ \/ /\ call[u].snap = {} /\ Go(u, Quiet) /\ UNCHANGED <<rt, closing>>
     \/ \E r \in call[u].snap :
          /\ rt' = [rt EXCEPT ![r] = Stopped(@)]
          /\ closing' = closing \cup Open(r)
          /\ Go(u, [call[u] EXCEPT !.snap = @ \ {r}])
  /\ UNCHANGED <<mgr, owner, starts, live, watch, note, stored, stale, used>>
CloseManager(u) ==
  /\ Call(u) /\ ~Switching /\ ~Reading /\ ~mgr.closed
  /\ mgr' = [mgr EXCEPT !.closed = TRUE, !.active = FALSE]
  /\ rt' = [r \in Rt |-> IF r \in Owned THEN Retired(rt[r]) ELSE rt[r]]
  /\ closing' = closing \cup UNION {Open(r) : r \in Owned}
  /\ Go(u, [Quiet EXCEPT !.op = "close", !.pc = "drain"])
  /\ UNCHANGED <<owner, starts, live, watch, note, stored, stale>>
CloseDoesNotWait(u) ==
  /\ At(u, "close", "drain")
  /\ mgr' = [mgr EXCEPT !.done = TRUE] /\ Go(u, Quiet)
  /\ UNCHANGED <<owner, rt, starts, live, closing, watch, note, stored, stale, used>>
CloseReturns(u) ==
  /\ At(u, "close", "drain") /\ ~Persisting
  /\ mgr' = [mgr EXCEPT !.done = TRUE] /\ Go(u, Quiet)
  /\ UNCHANGED <<owner, rt, starts, live, closing, watch, note, stored, stale, used>>

----------------------------------------------------------------------------
(* The start goroutines, the sessions and their notifications. *)

Next1(s, phase) == (starts \ {s}) \cup {[s EXCEPT !.phase = phase]}
(* Stale work is dropped before it makes a transport.                       *)
BeginStart(s) ==
  /\ s \in starts /\ s.phase = "reserved"
  /\ \/ ~Current(s) /\ starts' = starts \ {s} /\ UNCHANGED rt
     \/ Current(s) /\ starts' = Next1(s, "connecting") /\ UNCHANGED rt
     \/ Current(s) /\ starts' = starts \ {s} /\ rt' = [rt EXCEPT ![s.r] = FailedStart(s, @)]
  /\ UNCHANGED <<mgr, owner, live, closing, watch, note, call, stored, stale, used>>
(* Connect answers, fails, or the caller's time is over.                    *)
Connect(s) ==
  /\ s \in starts /\ s.phase = "connecting"
  /\ \/ /\ starts' = Next1(s, "listing") /\ live' = live \cup {<<s.r, s.gen>>} /\ UNCHANGED rt
     \/ /\ starts' = starts \ {s} /\ rt' = [rt EXCEPT ![s.r] = FailedStart(s, @)] /\ UNCHANGED live
  /\ UNCHANGED <<mgr, owner, closing, watch, note, call, stored, stale, used>>
PublishUnchecked(s) ==
  /\ s \in starts /\ s.phase = "listing" /\ starts' = starts \ {s}
  /\ rt' = [rt EXCEPT ![s.r].item = Item(rt[s.r].policy),
                      ![s.r].session = s.gen, ![s.r].status = "connected"]
  /\ watch' = watch \cup {<<s.r, s.gen>>}
  /\ UNCHANGED <<mgr, owner, live, closing, note, call, stored, stale, used>>
(* The session and its catalog are published if the start is still current. *)
Publish(s) ==
  /\ s \in starts /\ s.phase = "listing" /\ starts' = starts \ {s}
  /\ \/ /\ Current(s) /\ <<s.r, s.gen>> \in live
        /\ rt' = [rt EXCEPT ![s.r].item = Item(rt[s.r].policy),
                            ![s.r].session = s.gen, ![s.r].status = "connected"]
        /\ watch' = watch \cup {<<s.r, s.gen>>}
        /\ UNCHANGED closing
     \/ /\ ~Current(s) /\ closing' = closing \cup {<<s.r, s.gen>>} /\ UNCHANGED <<rt, watch>>
     \/ /\ rt' = [rt EXCEPT ![s.r] = FailedStart(s, @)]
        /\ closing' = closing \cup {<<s.r, s.gen>>} /\ UNCHANGED watch
  /\ UNCHANGED <<mgr, owner, live, note, call, stored, stale, used>>
(* session.Close.                                                           *)
CloseSession(x) ==
  /\ x \in closing /\ closing' = closing \ {x} /\ live' = live \ {x}
  /\ UNCHANGED <<mgr, owner, rt, starts, watch, note, call, stored, stale, used>>
(* The server ends by itself, and the watcher of its session tells.         *)
SessionEnds(x) ==
  /\ x \in live \ closing /\ live' = live \ {x}
  /\ UNCHANGED <<mgr, owner, rt, starts, closing, watch, note, call, stored, stale, used>>
HandleTermination(x) ==
  LET r == x[1] IN
  /\ x \in watch \ live /\ watch' = watch \ {x}
  /\ rt' = IF ~rt[r].retired /\ rt[r].gen = x[2] /\ rt[r].session = x[2]
           THEN [rt EXCEPT ![r].status = "failed", ![r].session = 0] ELSE rt
  /\ UNCHANGED <<mgr, owner, starts, live, closing, note, call, stored, stale, used>>

Serves(x, r) == CanStart(rt[r]) /\ rt[r].status = "connected" /\ rt[r].gen = x[2] /\ rt[r].session = x[2]
(* A notification is of the session that sent it, and never reconnects.     *)
Notified(x) ==
  /\ note = {} /\ x \in live /\ Serves(x, x[1])
  /\ note' = {[x |-> x, policy |-> rt[x[1]].policy]}
  /\ UNCHANGED <<mgr, owner, rt, starts, live, closing, watch, call, stored, stale, used>>
SyncCatalogForNotification ==
  \E n \in note :
    /\ note' = {}
    /\ rt' \in {rt} \cup IF Serves(n.x, n.x[1]) THEN {[rt EXCEPT ![n.x[1]].item = Item(n.policy)]} ELSE {}
    /\ UNCHANGED <<mgr, owner, starts, live, closing, watch, call, stored, stale, used>>

(* IsAvailable; the tools offered to the model, and those CallTool runs.     *)
Available(x) == CanStart(x) /\ x.status = "connected" /\ x.session # 0
EffectiveTools == {i \in Id : owner[i] # 0 /\ Available(rt[owner[i]]) /\ rt[owner[i]].item = "on"}

----------------------------------------------------------------------------
(* Load: every saved server has a runtime that is not started.              *)
McpInit ==
  /\ mgr = [active |-> FALSE, closed |-> FALSE, done |-> FALSE]
  /\ stored \in {c \in SUBSET Saved : \A x, y \in c : x.id = y.id => x = y}
  /\ owner = [i \in Id |-> IF \E c \in stored : c.id = i THEN i ELSE 0]
  /\ rt = [r \in Rt |-> IF \E c \in stored : c.id = r
                        THEN Fresh(r, CHOOSE c \in stored : c.id = r) ELSE Fresh(0, None)]
  /\ starts = {} /\ live = {} /\ closing = {} /\ watch = {} /\ note = {}
  /\ call = [u \in Caller |-> Quiet] /\ stale = FALSE
  /\ used \in [calls : {0}, fails : {0}, kinds : Scenarios]

CallSteps(u) ==
  \/ UpdateServer(u) \/ SetToolPolicy(u) \/ SetPolicy(u) \/ SyncCatalog(u)
  \/ StopServer(u) \/ ServerStopped(u) \/ StartServer(u) \/ ServerStarted(u)
  \/ Snapshot(u) \/ Save(u) \/ UndoAdd(u) \/ Unsaved(u)
  \/ StopEach(u) \/ CloseReturns(u)
Made(kind) == kind \in used.kinds
NewCall(u) ==
  \/ \E id \in Id :
       \/ Made("add") /\ \E c \in {c \in Cfg : c.policy} : AddServer(u, id, c)
       \/ \E on \in BOOLEAN : \/ Made("update") /\ UpdateMCPServer(u, id, on)
                              \/ Made("enable") /\ SetServerEnabled(u, id, on)
                              \/ Made("tool") /\ SetToolEnabled(u, id, on)
       \/ Made("remove") /\ RemoveServer(u, id)
       \/ Made("restart") /\ RestartServer(u, id)
       \/ Made("sync") /\ SyncServer(u, id)
  \/ Made("active") /\ (SetRuntimeActive(u) \/ SetRuntimeInactive(u))
  \/ Made("close") /\ CloseManager(u)
StartSteps == \E s \in starts : BeginStart(s) \/ Connect(s) \/ Publish(s)
SessionSteps == \/ \E x \in closing : CloseSession(x)
                \/ \E x \in watch : HandleTermination(x)
                \/ SyncCatalogForNotification

McpNext ==
  \/ \E u \in Caller : NewCall(u) \/ CallSteps(u)
  \/ StartSteps \/ SessionSteps
  \/ \E x \in live : (Made("ends") /\ SessionEnds(x)) \/ (Made("notify") /\ Notified(x))

(* The goroutines that the code started run; no new call is promised, and   *)
(* no server is promised to end or to notify.                               *)
McpFairness == /\ \A u \in Caller : WF_mcpVars(CallSteps(u))
               /\ WF_mcpVars(StartSteps) /\ WF_mcpVars(SessionSteps)

McpTypeOK ==
  /\ mgr \in [active : BOOLEAN, closed : BOOLEAN, done : BOOLEAN]
  /\ owner \in [Id -> 0..MaxRt] /\ rt \in [Rt -> Runtime]
  /\ starts \subseteq [r : Rt, gen : Gen, phase : {"reserved", "connecting", "listing"}]
  /\ live \subseteq Rt \X Gen /\ closing \subseteq Rt \X Gen /\ watch \subseteq Rt \X Gen
  /\ stored \subseteq Saved /\ stale \in BOOLEAN

Deactivating == \E u \in Caller : call[u].op = "inactive"
Idle == \A u \in Caller : call[u].pc = "idle"

(* Every open session has someone who ends it: the runtime whose session it *)
(* is, the start that still holds it, or a goroutine that closes it.  A     *)
(* session a runtime serves is of its newest generation.  Only an owned     *)
(* runtime is not retired, a closed manager owns none that is not, and an   *)
(* inactive one offers no tool and has no server starting or connected      *)
(* (reserveStart, Retire, Stop, runReservedStart, SetRuntimeActive, Close). *)
SessionsAreOwned ==
  /\ \A x \in live : \/ rt[x[1]].session = x[2] \/ x \in closing
                     \/ \E s \in starts : s.r = x[1] /\ s.gen = x[2] /\ s.phase = "listing"
  /\ \A r \in Rt : rt[r].session # 0 =>
       rt[r].session = rt[r].gen /\ ~rt[r].retired /\ rt[r].status = "connected"
  /\ \A r \in Rt : rt[r].id # 0 => (rt[r].retired <=> mgr.closed \/ owner[rt[r].id] # r)
  /\ ~mgr.active /\ ~Deactivating =>
       EffectiveTools = {} /\ \A r \in Rt : rt[r].status \notin {"starting", "connected"}

(* With no call under way and no save failed, what is saved is what the     *)
(* manager holds: a snapshot never overtakes a newer one, and nothing is    *)
(* saved after Close has returned (saveConfig, Close).                      *)
SavesAreOrdered ==
  [][ /\ (Idle /\ ~stale /\ ~mgr.closed => stored = Config)'
      /\ mgr.done => stored' = stored ]_mcpVars

(* When no call and no notification is under way, a tool that was switched  *)
(* off is not offered to the model (EffectiveTools, SetToolEnabled).        *)
DisabledToolsAreNotOffered ==
  Idle /\ note = {} => \A i \in EffectiveTools : rt[owner[i]].policy

(* No start is under way, and no call, no start and no session of a manager *)
(* that was closed (runReservedStart, handleTermination, Close).            *)
Settled ==
  /\ \A r \in Rt : rt[r].status # "starting"
  /\ mgr.closed => live = {} /\ starts = {} /\ Idle
=============================================================================
