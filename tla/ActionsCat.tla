----------------------------- MODULE ActionsCat -----------------------------
(***************************************************************************)
(* The instance's client of ActionsCat, an automation service of its own:  *)
(* the agent's tools and the panel's proxy, which send one request after   *)
(* another over a connection that may lose a request or its answer, while  *)
(* other callers do the same and the instance's switch may be turned.      *)
(* The service itself is external: it is modelled from what the client     *)
(* says of it (a build is recorded before it is compiled, a version never  *)
(* changes, a run or a build that ended stays ended).                      *)
(***************************************************************************)
EXTENDS Integers, Sequences, FiniteSets

CONSTANTS Caller,      \* calls of tools and requests of the panel
          MaxVer,    \* bound on the versions made
          MaxTurn    \* bound on the turns of the switch

VARIABLES enabled,   \* ACTIONSCAT_ENABLED, read on every use
          versions,  \* service: the versions are 1..versions
          builds,    \* service: sequence of [ver, status]
          active,    \* service: the active build, and how it became so
          runs,      \* service: sequence of run states
          triggers,  \* service: the schedules and matchers, [id, kind, to]
          made,      \* service: triggers ever made
          call,      \* the calls
          turns

catVars == <<enabled, versions, builds, active, runs, triggers, made, call, turns>>
server == <<versions, builds, active, runs, triggers, made>>

Who == {"admin", "user", "mock", "none", "panel"}   \* none: no run context
BuildState == {"building", "succeeded", "failed"}
Idle == [pc |-> "idle", op |-> "none", who |-> "none", ver |-> 0, bld |-> 0, own |-> 0, run |-> 0,
         trig |-> 0, blind |-> FALSE, wait |-> FALSE, last |-> "none", report |-> "none"]

(***************************************************************************)
(* One request.  The switch is read first.  The service may refuse it      *)
(* (4xx), never receive it, carry it out with its answer lost (a broken    *)
(* connection, a deadline, a 5xx, a body that does not parse), or answer.  *)
(***************************************************************************)
IgnoresSwitch == {"rejected", "unreached", "unheard", "ok"}
Outcome == IF enabled THEN {"rejected", "unreached", "unheard", "ok"} ELSE {"disabled"}
Handled(o) == o \in {"unheard", "ok"}

Set(c, new) == call' = [call EXCEPT ![c] = new]
Done(c, what) == [call[c] EXCEPT !.pc = "done", !.report = what]

(***************************************************************************)
(* The gates of the tools and of the panel's proxy.                        *)
(***************************************************************************)
\* The checks of a tool's arguments (sizes, language, entrypoint, network, patterns), which depend on them alone.
prepareCreateVersionReq == BOOLEAN

\* Tool.ExecuteContext, then what each executor checks before its first request.
Begin(c, op, allowed, first, args) ==
    /\ call[c] = Idle
    /\ \E who \in Who \ {"panel"}, valid \in prepareCreateVersionReq :
           LET new == [args EXCEPT !.op = op, !.who = who]
           IN Set(c, IF enabled /\ who \in allowed /\ valid THEN [new EXCEPT !.pc = first]
                     ELSE [new EXCEPT !.pc = "done", !.report = "refused"])
    /\ UNCHANGED <<enabled, server, turns>>

\* ServeHTTP: authenticated by the control plane; the switch is read again by the client.
ServeHTTP(c, op, first, args) ==
    /\ call[c] = Idle
    /\ LET new == [args EXCEPT !.op = op, !.who = "panel"]
       IN Set(c, IF enabled THEN [new EXCEPT !.pc = first] ELSE [new EXCEPT !.pc = "done", !.report = "refused"])
    /\ UNCHANGED <<enabled, server, turns>>

Managers == {"admin"}
Anyone == Who
Of(kind) == {t \in triggers : t.kind = kind}

CreateVersionTool(c) == Begin(c, "version", Managers, "version", Idle)
DeployTool(c) == Begin(c, "deploy", Managers, "version", Idle)
BuildVersionTool(c) == \E v \in 1..versions : Begin(c, "build", Managers, "build", [Idle EXCEPT !.ver = v])
ActivateBuildTool(c) ==
    \E v \in 1..versions, b \in 1..Len(builds) :
        Begin(c, "activate", Managers, "check", [Idle EXCEPT !.ver = v, !.bld = b])
RunActionTool(c) == \E w \in BOOLEAN : Begin(c, "run", Anyone \ {"mock"}, "trigger", [Idle EXCEPT !.wait = w])
GetRunTool(c) == \E r \in 1..Len(runs) : Begin(c, "getRun", Anyone, "reading", [Idle EXCEPT !.run = r])
GetBuildTool(c) == \E b \in 1..Len(builds) : Begin(c, "getBuild", Anyone, "reading", [Idle EXCEPT !.bld = b])
ListBuildsTool(c) == \E v \in 1..versions : Begin(c, "listBuilds", Anyone, "reading", [Idle EXCEPT !.ver = v])
ListActionsTool(c) == Begin(c, "listActions", Anyone, "reading", Idle)
CreateScheduleTool(c) == Begin(c, "schedule", Managers, "create", Idle)
CreateMatcherTool(c) == Begin(c, "matcher", Managers, "create", Idle)
DeleteScheduleTool(c) ==
    \E t \in Of("schedule") : Begin(c, "delete schedule", Managers, "delete", [Idle EXCEPT !.trig = t.id])
DeleteMatcherTool(c) ==
    \E t \in Of("matcher") : Begin(c, "delete matcher", Managers, "delete", [Idle EXCEPT !.trig = t.id])

ProxyRuns(c) == ServeHTTP(c, "run", "trigger", Idle)
ProxyVersions(c) == ServeHTTP(c, "version", "version", Idle)
ProxyActive(c) ==
    \E v \in 1..versions, b \in 1..Len(builds) : ServeHTTP(c, "activate", "activate", [Idle EXCEPT !.ver = v, !.bld = b])
ProxySchedules(c) == ServeHTTP(c, "schedule", "create", Idle)
ProxyMatchers(c) == ServeHTTP(c, "matcher", "create", Idle)
ProxyBuild(c) == \E v \in 1..versions : ServeHTTP(c, "build", "build", [Idle EXCEPT !.ver = v])
ProxyReads(c) == \E b \in 1..Len(builds) : ServeHTTP(c, "getBuild", "reading", [Idle EXCEPT !.bld = b])
handleSchedulesTopLevel(c) ==
    \E t \in Of("schedule") : ServeHTTP(c, "delete schedule", "delete", [Idle EXCEPT !.trig = t.id])
handleMatchersTopLevel(c) ==
    \E t \in Of("matcher") : ServeHTTP(c, "delete matcher", "delete", [Idle EXCEPT !.trig = t.id])

Tools(c) ==
    \/ CreateVersionTool(c) \/ DeployTool(c) \/ BuildVersionTool(c) \/ ActivateBuildTool(c) \/ RunActionTool(c)
    \/ GetRunTool(c) \/ GetBuildTool(c) \/ ListBuildsTool(c) \/ ListActionsTool(c)
    \/ CreateScheduleTool(c) \/ CreateMatcherTool(c) \/ DeleteScheduleTool(c) \/ DeleteMatcherTool(c)

Proxies(c) ==
    \/ ProxyRuns(c) \/ ProxyVersions(c) \/ ProxyActive(c) \/ ProxySchedules(c) \/ ProxyMatchers(c)
    \/ ProxyBuild(c) \/ ProxyReads(c) \/ handleSchedulesTopLevel(c) \/ handleMatchersTopLevel(c)

(***************************************************************************)
(* Versions and builds.                                                    *)
(***************************************************************************)
CreateVersion(c) ==
    /\ call[c].pc = "version"
    /\ \E o \in Outcome :
          /\ Handled(o) => versions < MaxVer
          /\ versions' = IF Handled(o) THEN versions + 1 ELSE versions
          /\ Set(c, IF o # "ok" THEN Done(c, "error")
                    ELSE IF call[c].op = "deploy" THEN [call[c] EXCEPT !.pc = "build", !.ver = versions + 1]
                    ELSE [Done(c, "created") EXCEPT !.ver = versions + 1])
    /\ UNCHANGED <<enabled, builds, active, runs, triggers, made, turns>>

\* A refusal is definite; anything else but an answer leaves the build unknown.
FailsWhenUnsure(o) == "failed"
Unbuilt(o) == IF o \in {"disabled", "rejected"} THEN "failed" ELSE "unknown"

BuildVersion(c) ==
    /\ call[c].pc = "build"
    /\ \E o \in Outcome \ {"unheard"} :
          /\ builds' = IF Handled(o) THEN Append(builds, [ver |-> call[c].ver, status |-> "building"]) ELSE builds
          /\ Set(c, IF Handled(o) THEN [call[c] EXCEPT !.pc = "compiling", !.own = Len(builds) + 1]
                    ELSE Done(c, Unbuilt(o)))
    /\ UNCHANGED <<enabled, versions, active, runs, triggers, made, turns>>

\* The answer of a build: deploy goes on with a build that succeeded.
BuildAnswered(c) ==
    /\ call[c].pc = "compiling" /\ builds[call[c].own].status # "building"
    /\ LET new == [call[c] EXCEPT !.bld = call[c].own]
       IN Set(c, IF builds[call[c].own].status # "succeeded" THEN [new EXCEPT !.pc = "done", !.report = "failed"]
                 ELSE IF call[c].op = "deploy" THEN [new EXCEPT !.pc = "activate"]
                 ELSE [new EXCEPT !.pc = "done", !.report = "built"])
    /\ UNCHANGED <<enabled, server, turns>>

BuildUnheard(c) ==
    /\ call[c].pc = "compiling"
    /\ Set(c, Done(c, Unbuilt("unheard")))
    /\ UNCHANGED <<enabled, server, turns>>

\* The check before an activation; it is skipped when the build cannot be read.
CheckSkipped(b, v) == TRUE
MayActivate(b, v) == builds[b].status = "succeeded" /\ builds[b].ver = v

CheckBuild(c) ==
    /\ call[c].pc = "check"
    /\ \E o \in Outcome :
          Set(c, IF o = "ok" /\ ~MayActivate(call[c].bld, call[c].ver) THEN Done(c, "refused")
                 ELSE [call[c] EXCEPT !.pc = "activate", !.blind = o # "ok"])
    /\ UNCHANGED <<enabled, server, turns>>

ActivateBuild(c) ==
    /\ call[c].pc = "activate"
    /\ \E o \in Outcome :
          /\ active' = IF Handled(o) THEN [ver |-> call[c].ver, bld |-> call[c].bld, by |-> c] ELSE active
          /\ Set(c, IF o # "ok" THEN Done(c, "error")
                    ELSE IF call[c].who = "panel" THEN Done(c, "activated")
                    ELSE [call[c] EXCEPT !.pc = "showing"])
    /\ UNCHANGED <<enabled, versions, builds, runs, triggers, made, turns>>

\* GetAction: the call has succeeded whether or not the action can be shown.
ShowAction(c) ==
    /\ call[c].pc = "showing"
    /\ Set(c, Done(c, IF call[c].op = "deploy" THEN "deployed" ELSE "activated"))
    /\ UNCHANGED <<enabled, server, turns>>

(***************************************************************************)
(* Runs.                                                                   *)
(***************************************************************************)
TriggerRun(c) ==
    /\ call[c].pc = "trigger"
    /\ \E o \in Outcome :
          /\ Handled(o) => active.bld # 0     \* "no active build" is a refusal
          /\ runs' = IF Handled(o) THEN Append(runs, "running") ELSE runs
          /\ Set(c, IF o # "ok" THEN Done(c, "error")
                    ELSE [call[c] EXCEPT !.run = Len(runs) + 1, !.last = "running",
                              !.pc = IF call[c].wait THEN "waiting" ELSE "done",
                              !.report = IF call[c].wait THEN "none" ELSE "run"])
    /\ UNCHANGED <<enabled, versions, builds, active, triggers, made, turns>>

\* One tick of TriggerRunAndWait: a read that fails keeps the last known state.
PollRun(c) ==
    /\ call[c].pc = "waiting" /\ enabled
    /\ runs[call[c].run] = "ended"
    /\ Set(c, [Done(c, "run") EXCEPT !.last = "ended"])
    /\ UNCHANGED <<enabled, server, turns>>

WaitsForever(c) == PollRun(c)
WaitExpires(c) ==
    /\ call[c].pc = "waiting"
    /\ \E cancelled \in BOOLEAN : Set(c, Done(c, IF cancelled THEN "error" ELSE "run"))
    /\ UNCHANGED <<enabled, server, turns>>

(***************************************************************************)
(* Reads, schedules and matchers.                                          *)
(***************************************************************************)
OfVersion(v) == {b \in 1..Len(builds) : builds[b].ver = v}

\* A read changes nothing; what it shows was so when the service answered.
Read(c, op, shown) ==
    /\ call[c].pc = "reading" /\ call[c].op = op
    /\ \E o \in Outcome : Set(c, IF o = "ok" THEN [Done(c, "read") EXCEPT !.last = shown] ELSE Done(c, "error"))
    /\ UNCHANGED <<enabled, server, turns>>

GetRun(c) == Read(c, "getRun", runs[call[c].run])
GetBuild(c) == Read(c, "getBuild", builds[call[c].bld].status)
ListBuilds(c) == Read(c, "listBuilds", IF OfVersion(call[c].ver) = {} THEN "none" ELSE "some")
IsRunnable == active.ver # 0 /\ active.bld # 0
ListActions(c) == Read(c, "listActions", IF IsRunnable THEN "runnable" ELSE "none")

\* The recipient of a schedule's replies is the caller's own session; the panel and matchers give none.
scheduleDeliveryContext(x) == IF x.op = "schedule" /\ x.who = "admin" THEN "session" ELSE "none"

\* An older service drops the recipient; the tool says so when the answer lacks it.
Confirmed(wanted, saved) == IF wanted = saved THEN "created" ELSE "unconfirmed"

CreateTrigger(c, op) ==
    /\ call[c].pc = "create" /\ call[c].op = op
    /\ LET wanted == scheduleDeliveryContext(call[c])
       IN \E o \in Outcome, saved \in {wanted, "none"} :
             /\ triggers' = IF Handled(o) THEN triggers \cup {[id |-> made + 1, kind |-> op, to |-> saved]} ELSE triggers
             /\ made' = IF Handled(o) THEN made + 1 ELSE made
             /\ Set(c, IF o = "ok" THEN [Done(c, Confirmed(wanted, saved)) EXCEPT !.trig = made + 1]
                       ELSE Done(c, "error"))
    /\ UNCHANGED <<enabled, versions, builds, active, runs, turns>>

CreateSchedule(c) == CreateTrigger(c, "schedule")
CreateMatcher(c) == CreateTrigger(c, "matcher")

\* A trigger that is gone is an error, ErrNotFound.
DeleteTrigger(c, op) ==
    /\ call[c].pc = "delete" /\ call[c].op = op
    /\ \E o \in Outcome :
          LET there == \E t \in triggers : t.id = call[c].trig
          IN /\ triggers' = IF Handled(o) THEN {t \in triggers : t.id # call[c].trig} ELSE triggers
             /\ Set(c, Done(c, IF o = "ok" /\ there THEN "deleted" ELSE "error"))
    /\ UNCHANGED <<enabled, versions, builds, active, runs, made, turns>>

DeleteSchedule(c) == DeleteTrigger(c, "delete schedule")
DeleteMatcher(c) == DeleteTrigger(c, "delete matcher")

(***************************************************************************)
(* The service by itself, and the switch.                                  *)
(***************************************************************************)
BuildEnds ==
    \E b \in 1..Len(builds), s \in {"succeeded", "failed"} :
        /\ builds[b].status = "building"
        /\ builds' = [builds EXCEPT ![b].status = s]
        /\ UNCHANGED <<enabled, versions, active, runs, triggers, made, call, turns>>

RunEnds ==
    \E r \in 1..Len(runs) :
        /\ runs[r] = "running"
        /\ runs' = [runs EXCEPT ![r] = "ended"]
        /\ UNCHANGED <<enabled, versions, builds, active, triggers, made, call, turns>>

SwitchTurns ==
    /\ turns < MaxTurn
    /\ enabled' = ~enabled /\ turns' = turns + 1
    /\ UNCHANGED <<server, call>>

CatInit ==
    /\ enabled = TRUE /\ turns = 0
    /\ versions \in {0, 1}
    /\ builds = IF versions = 0 THEN <<>>
                ELSE <<[ver |-> 1, status |-> "succeeded"], [ver |-> 1, status |-> "failed"]>>
    /\ active = [ver |-> versions, bld |-> versions, by |-> 0]
    /\ runs = <<>> /\ triggers = {} /\ made = 0
    /\ call = [c \in Caller |-> Idle]

Advances(c) ==
    \/ CreateVersion(c) \/ BuildVersion(c) \/ BuildAnswered(c) \/ BuildUnheard(c) \/ CheckBuild(c)
    \/ ActivateBuild(c) \/ ShowAction(c) \/ TriggerRun(c) \/ PollRun(c) \/ WaitExpires(c)
    \/ GetRun(c) \/ GetBuild(c) \/ ListBuilds(c) \/ ListActions(c)
    \/ CreateSchedule(c) \/ CreateMatcher(c) \/ DeleteSchedule(c) \/ DeleteMatcher(c)

CatNext ==
    \/ \E c \in Caller : Tools(c) \/ Proxies(c) \/ Advances(c)
    \/ BuildEnds \/ RunEnds \/ SwitchTurns

\* Every request has a deadline and every wait a limit, so a call that began goes on.
CatFairness == WF_catVars(\E c \in Caller : Advances(c))

-----------------------------------------------------------------------------

Reports == {"none", "refused", "error", "unknown", "failed", "built", "activated", "deployed", "run", "read",
            "created", "unconfirmed", "deleted"}

\* The types of the client's and the service's state.
CatTypeOK ==
    /\ enabled \in BOOLEAN /\ turns \in 0..MaxTurn
    /\ versions \in 0..MaxVer
    /\ builds \in Seq([ver : 1..MaxVer, status : BuildState])
    /\ active \in [ver : 0..versions, bld : 0..Len(builds), by : Caller \cup {0}]
    /\ runs \in Seq({"running", "ended"})
    /\ triggers \subseteq [id : 1..made, kind : {"schedule", "matcher"}, to : {"session", "none"}]
    /\ \A c \in Caller :
           /\ call[c].who \in Who /\ call[c].report \in Reports
           /\ call[c].ver \in 0..versions /\ call[c].bld \in 0..Len(builds) /\ call[c].own \in 0..Len(builds)
           /\ (call[c].pc = "done") <=> (call[c].report # "none")

Ended(c, what) == call[c].report \in what

\* What a call reports is so at the service, whatever was lost and whoever else is at work: a build that is reported
\* built or deployed succeeded, and for the version it was asked for; a build reported failed is not one the service
\* made or is still making (a lost answer is reported unknown, never failed); a run reported ended has ended, and a
\* run whose wait expired keeps its number; a recipient reported saved is saved (BuildVersion and TriggerRunAndWait
\* in client.go, the deploy, build, run and schedule tools).
ReportsAreTrue ==
    \A c \in Caller :
        /\ Ended(c, {"built", "deployed"}) => builds[call[c].bld] = [ver |-> call[c].ver, status |-> "succeeded"]
        /\ Ended(c, {"failed"}) /\ call[c].own # 0 => builds[call[c].own].status = "failed"
        /\ Ended(c, {"run"}) => call[c].run \in 1..Len(runs) /\ (call[c].last = "ended" => runs[call[c].run] = "ended")
        /\ Ended(c, {"created"}) /\ scheduleDeliveryContext(call[c]) = "session" =>
               \A t \in triggers : t.id = call[c].trig => t.to = "session"

\* The service is changed only through a request of someone who may make it, and only while the instance's switch is
\* on: the steps of a deployment that remain when it is turned off are not sent (IsEnabled in doRequestWithTimeout, the
\* gates of the tools).
RequestIsAllowed ==
    \/ UNCHANGED <<versions, active, triggers>> /\ Len(builds') = Len(builds) /\ Len(runs') = Len(runs)
    \/ /\ enabled
       /\ \E c \in Caller : /\ call'[c] # call[c]
                          /\ \/ call[c].who \in {"admin", "panel"}
                             \/ call[c].op = "run" /\ call[c].who # "mock"

\* What a tool activates has succeeded, and belongs to the version, unless its check could not read the build; what
\* deploy activates always has (ActionsCatActivateBuildTool, ActionsCatDeployActionTool).
ActivatedHasSucceeded ==
    active.by # 0 =>
        \/ builds[active.bld] = [ver |-> active.ver, status |-> "succeeded"]
        \/ call[active.by].who = "panel"
        \/ call[active.by].op = "activate" /\ call[active.by].blind

\* A tool activates only a build whose status is succeeded, as its description says.
OnlySucceededIsActivated ==
    active.by # 0 /\ call[active.by].who = "admin" => builds[active.bld].status = "succeeded"

\* Every call ends: a request has its deadline, a wait its limit (TriggerRunAndWait, doRequestWithTimeout).
CallsEnd == \A c \in Caller : (call[c].pc # "idle") ~> (call[c].pc = "done")

=============================================================================
