---------------------------- MODULE MCInstances -----------------------------
(* The instances of one process for TLC: their manager, the MCP servers of   *)
(* one of them, and the copy of settings between file-based instances.  They *)
(* share no state, so a scenario moves one of them: those of                 *)
(* MCInstanceManager, "servers", and "copy".                                 *)
EXTENDS InstanceCopy

CONSTANTS Id, Value, MaxCrash,
          Server, Caller, MaxRt, MaxCalls, MaxFail

VARIABLES scenario,
          rows, global, inst, server, writer,
          mgr, owner, rt, starts, live, closing, watch, note, call, stored, stale, used

(* The calls that meet in one behaviour of the MCP servers.                  *)
Scenarios == {{"add", "update", "remove", "enable", "active", "close"},
              {"active", "tool", "sync", "restart", "ends", "notify"}}

Manager == INSTANCE MCInstanceManager WITH disk <- rows
Servers == INSTANCE McpServers WITH Id <- Server

managerVars == <<rows, global, inst, server, writer>>
serverVars  == <<mgr, owner, rt, starts, live, closing, watch, note, call, stored, stale, used>>

Managing == scenario \in {"lifecycle", "settings", "pending"}

MCInit ==
  /\ CopyInit /\ Manager!Init /\ Servers!McpInit
  /\ scenario \in {"lifecycle", "settings", "pending", "servers", "copy"}
  /\ \A i \in Id : rows[i].conf = global
  /\ \A c \in stored : c.policy
  \* the parts at rest start in one way
  /\ ~Managing => global = (CHOOSE v \in Value : TRUE) /\ \A i \in Id : ~rows[i].row.known
  /\ scenario # "servers" => stored = {} /\ "add" \in used.kinds
  /\ scenario # "copy" => windows

MCNext ==
  /\ UNCHANGED scenario
  /\ \/ /\ Managing /\ Manager!Next /\ Manager!Within(scenario)
        /\ UNCHANGED <<copyVars, serverVars>>
     \/ /\ scenario = "servers" /\ Servers!McpNext
        /\ UNCHANGED <<copyVars, managerVars>>
     \/ /\ scenario = "copy" /\ CopyNext
        /\ UNCHANGED <<managerVars, serverVars>>
     \* servers and copies may come to rest; the manager of the instances may not
     \/ ~Managing /\ UNCHANGED <<copyVars, managerVars, serverVars>>

(* What has begun goes on: see InstanceManager, and McpServers, whose        *)
(* conditions are taken together here, which assumes less.                   *)
Fairness ==
  /\ \A i \in Id : /\ WF_managerVars(/\ Managing
                                     /\ \/ Manager!OperationStep(i)
                                        \/ server.phase = "boot" /\ Manager!EnableStop(i, TRUE))
                   /\ SF_managerVars(Managing /\ Manager!WriterStep(i))
                   /\ SF_managerVars(Managing /\ Manager!CloseStep(i))
  /\ WF_managerVars(Managing /\ Manager!ManagerStep)
  /\ WF_serverVars(/\ scenario = "servers"
                   /\ \/ Servers!StartSteps \/ Servers!SessionSteps
                      \/ \E u \in Caller : Servers!CallSteps(u))

MCSpec == MCInit /\ [][MCNext]_<<scenario, copyVars, managerVars, serverVars>> /\ Fairness

-----------------------------------------------------------------------------

(* Every variable of every part has its type.                                *)
InstancesTypeOK == CopyTypeOK /\ Manager!TypeOK /\ Servers!McpTypeOK

(* No operation that fails half-way leaves a second runtime alive, a live    *)
(* one that nobody knows of, or one running that is registered as stopped,   *)
(* and a closed manager leaves none but those an import built (Enable,       *)
(* reloadSQLRuntimeLocked, Close); a live runtime runs the settings that are *)
(* stored (ApplyGlobalSettings).  Whenever the process may die, the files of *)
(* an instance with a row are in one place; at rest, registry and database   *)
(* name the same instances and pending deletions (ConfirmDeletion,           *)
(* recoverDeletionStages).                                                   *)
InstancesAgree == Manager!RuntimesAccounted /\ Manager!SettingsInForce /\ Manager!DiskAgrees

(* Every open session of an MCP server has someone who ends it, and what is  *)
(* saved of the servers follows what the manager holds, in order             *)
(* (reserveStart, runReservedStart, Close, saveConfig).                      *)
ServersAreOwned == []Servers!SessionsAreOwned /\ Servers!SavesAreOrdered

(* Close returns, a settings save is answered, and every operation gives its *)
(* lock back; once no call comes any more the starts of the MCP servers have *)
(* ended, and the calls and sessions of an MCP manager that was closed       *)
(* (Manager of internal/instance; runReservedStart, handleTermination).      *)
InstancesSettle ==
  /\ Manager!ManagerSettles
  /\ <>[](scenario = "servers" => Servers!Settled)
=============================================================================
