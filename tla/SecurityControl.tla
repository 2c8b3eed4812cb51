--------------------------- MODULE SecurityControl ---------------------------
(***************************************************************************)
(* The shared security controller: the access records of users, the        *)
(* watchdog that classifies what users, models and tools say, the gate at  *)
(* the ingress and the checks inside a turn, bans by administrators and by *)
(* the ban_user tool, and backups of the whole state.  Several turns, of   *)
(* one or more instances, run at once; a classification takes its time.    *)
(***************************************************************************)
EXTENDS Integers, Sequences, FiniteSets, FiniteSetsExt

CONSTANTS User,       \* principals
          Turn,       \* turns that may be open at once
          Payload,    \* hashes of normalised content, positive; 0: too large
          Window,     \* strikeWindow
          LockAfter,  \* lockAfter
          MaxTime,    \* bound on the clock
          MaxOps      \* bound on submissions and operations

VARIABLES access,     \* AccessStore: user -> record
          mode,       \* ControlMode
          gateway,    \* a classifier is configured
          turn,       \* the turns
          saved,      \* backups of the state: at most one
          blocks,     \* history: the critical submissions since the last unlock
          now, ops

secVars == <<access, mode, gateway, turn, saved, blocks, now, ops>>

Level == 0..3         \* none, medium, high, critical: RiskLevelSeverity
Active == [state |-> "ACTIVE", reason |-> "none", strikes |-> <<>>, hash |-> 0, at |-> 0]
Idle == [pc |-> "idle", user |-> CHOOSE u \in User : TRUE, hash |-> 0, coded |-> FALSE, prior |-> 0,
         dry |-> FALSE, over |-> 0, said |-> "none"]
Counted == ops < MaxOps /\ ops' = ops + 1

(***************************************************************************)
(* AccessStore.  Each operation reads, changes and replaces the file under *)
(* its locks; it fails as a whole when the file cannot be read or written. *)
(***************************************************************************)
IsLocked(u) == access[u].state = "LOCKED"

LastBlockedHash(u) == IF access[u].at # 0 /\ access[u].at >= now - Window THEN access[u].hash ELSE 0

\* One update of the store.
update(u, r) == access' = [access EXCEPT ![u] = r]

Lock(r) == [r EXCEPT !.state = "LOCKED", !.reason = "manual"]

Unlock(r) == Active

Recent(strikes) == SelectSeq(strikes, LAMBDA at : at > now - Window)

\* A first block is no strike; a repetition or an evasion within the window is.
RecordBlockedSubmission(r, hash, encoded) ==
    LET prior   == r.at # 0 /\ r.at > now - Window
        strikes == IF prior /\ (hash = r.hash \/ encoded) THEN Append(Recent(r.strikes), now) ELSE Recent(r.strikes)
        locks   == LockAfter > 0 /\ Len(strikes) >= LockAfter
    IN [r EXCEPT !.strikes = strikes, !.hash = hash, !.at = now,
                 !.state = IF locks THEN "LOCKED" ELSE @, !.reason = IF locks THEN "strikes" ELSE @]

(***************************************************************************)
(* The gate.  A store that cannot be read blocks; so does a missing        *)
(* classifier in aggressive mode.  Blocked submissions end there.          *)
(***************************************************************************)
GateIngress(t) == \E u \in User, h \in Payload \union {0}, c, d, readable \in BOOLEAN :
    LET admitted == [Idle EXCEPT !.pc = "admitted", !.user = u]
        judged   == [Idle EXCEPT !.pc = "gate", !.user = u, !.hash = h, !.coded = c, !.dry = d,
                                 !.prior = LastBlockedHash(u)]
    IN /\ turn[t].pc = "idle" /\ Counted
       /\ turn' = [turn EXCEPT ![t] = IF ~readable \/ IsLocked(u) THEN Idle
                                      ELSE IF mode # "aggressive" THEN admitted
                                      ELSE IF h = 0 \/ ~gateway THEN Idle
                                      ELSE judged]
       /\ UNCHANGED <<access, mode, gateway, saved, blocks, now>>

\* The classifier's answers to the normalised and, if they differ by more
\* than typography, to the raw content.  4 is an error or a malformed answer.
Answer == 0..4

\* The stronger of the two.
Strongest(n, r) == IF n = 4 \/ r = 4 THEN 4 ELSE Max({n, r})

Evasion(s, n, r) == s.coded /\ ((r = 0 /\ n # 0) \/ (s.prior # 0 /\ s.hash = s.prior))

\* Mutation: a failed classification counts.
PenalisesFailures(s, level) == level >= 3 /\ ~s.dry

\* Strikes are for critical content the user sent, outside dry runs.
Penalised(s, level) == level = 3 /\ ~s.dry

\* High risk goes on sanitised; a failure and critical content stop here.
EvaluateIngress(t) == \E n, r \in Answer, writable \in BOOLEAN :
    LET s     == turn[t]
        level == Strongest(n, r)
        coded == Evasion(s, n, r)
    IN /\ s.pc = "gate" /\ (~s.coded \/ n = 4 => r = n)
       /\ IF Penalised(s, level) /\ writable
          THEN update(s.user, RecordBlockedSubmission(access[s.user], s.hash, coded)) ELSE UNCHANGED access
       /\ blocks' = IF level = 3 /\ ~s.dry /\ writable
                    THEN [blocks EXCEPT ![s.user] = Append(@, [hash |-> s.hash, at |-> now, coded |-> coded])]
                    ELSE blocks
       /\ turn' = [turn EXCEPT ![t] = IF level < 3 THEN [Idle EXCEPT !.pc = "admitted", !.user = s.user] ELSE Idle]
       /\ UNCHANGED <<mode, gateway, saved, now, ops>>

(***************************************************************************)
(* The checks inside a turn: before every model call, and of every output, *)
(* tool call and tool result.                                              *)
(***************************************************************************)
CheckAccess(t) == \E readable \in BOOLEAN :
    /\ turn[t].pc = "admitted"
    /\ turn' = [turn EXCEPT ![t] = IF readable /\ ~IsLocked(@.user) THEN [@ EXCEPT !.pc = "calling", !.said = "none"] ELSE Idle]
    /\ UNCHANGED <<access, mode, gateway, saved, blocks, now, ops>>

\* How many calls a turn started since its user was locked.
Late(s) == IF IsLocked(s.user) THEN s.over + 1 ELSE s.over

CallModel(t) ==
    /\ turn[t].pc = "calling"
    /\ turn' = [turn EXCEPT ![t] = [@ EXCEPT !.pc = "model", !.over = Late(turn[t])]]
    /\ UNCHANGED <<access, mode, gateway, saved, blocks, now, ops>>

\* Where a stage goes on when it passes, and when it is stopped: a tool
\* call is refused to the model, a result is replaced, an answer is not sent.
Passes(said) == CASE said = "answer" -> "idle" [] said = "call" -> "running" [] said = "result" -> "admitted"
Stops(said) == IF said = "answer" THEN "idle" ELSE "admitted"

\* Mutation: the stages of a turn are judged without looking at the lock.
UncheckedAccess(s) == FALSE
Denied(s) == IsLocked(s.user)

\* What a turn may have judged next: what the model says, what the tool
\* returned, or a further call of the same response.
May(s, said) == \/ s.pc = "model" /\ said # "result"
                \/ s.pc = "tool" /\ said = "result"
                \/ s.pc = "admitted" /\ s.said # "none" /\ said = "call"

\* securityEvaluate: the access first, then the mode, then the watchdog.
securityEvaluate(t) == \E said \in {"answer", "call", "result"}, readable, ban \in BOOLEAN :
    LET s    == turn[t]
        to(pc) == IF pc = "idle" THEN Idle ELSE [s EXCEPT !.pc = pc, !.said = said]
    IN /\ May(s, said)
       /\ turn' = [turn EXCEPT ![t] = IF ~readable \/ Denied(s) THEN to(Stops(said))
                                      ELSE IF mode # "aggressive" \/ (ban /\ said # "answer") THEN to(Passes(said))
                                      ELSE IF ~gateway THEN to(Stops(said))
                                      ELSE to("judged")]
       /\ UNCHANGED <<access, mode, gateway, saved, blocks, now, ops>>

\* High or critical content, or a failure, stops a stage, without a strike.
EvaluateStage(t) == \E level \in Answer :
    LET s  == turn[t]
        pc == IF level < 2 THEN Passes(s.said) ELSE Stops(s.said)
    IN /\ s.pc = "judged"
       /\ turn' = [turn EXCEPT ![t] = IF pc = "idle" THEN Idle ELSE [s EXCEPT !.pc = pc]]
       /\ UNCHANGED <<access, mode, gateway, saved, blocks, now, ops>>

RunTool(t) ==
    /\ turn[t].pc = "running"
    /\ turn' = [turn EXCEPT ![t] = [@ EXCEPT !.pc = "tool", !.over = Late(turn[t])]]
    /\ UNCHANGED <<access, mode, gateway, saved, blocks, now, ops>>

\* The ban_user tool locks the turn's own user and ends the turn.
BanUser(t) ==
    /\ turn[t].pc = "running" /\ mode # "off"
    /\ update(turn[t].user, Lock(access[turn[t].user]))
    /\ turn' = [turn EXCEPT ![t] = Idle]
    /\ UNCHANGED <<mode, gateway, saved, blocks, now, ops>>

(***************************************************************************)
(* Operations.                                                             *)
(***************************************************************************)
executeBan(u) ==
    /\ Counted /\ update(u, Lock(access[u]))
    /\ UNCHANGED <<mode, gateway, turn, saved, blocks, now>>

Afresh == turn' = [t \in Turn |-> [turn[t] EXCEPT !.over = 0]]

UnlockUser(u) ==
    /\ Counted /\ access[u] # Active /\ Afresh
    /\ update(u, Unlock(access[u]))
    /\ blocks' = [blocks EXCEPT ![u] = <<>>]
    /\ UNCHANGED <<mode, gateway, saved, now>>

executeUnban(u) == UnlockUser(u)
PanelUnlock(u) == UnlockUser(u)

SetMode(m) ==
    /\ Counted /\ m # mode /\ mode' = m
    /\ UNCHANGED <<access, gateway, turn, saved, blocks, now>>

\* A reload of the instance with or without a route for the gateway.
ForInstance ==
    /\ Counted /\ gateway' = ~gateway
    /\ UNCHANGED <<access, mode, turn, saved, blocks, now>>

ExportGlobalSecurity ==
    /\ Counted /\ saved' = {[access |-> access, blocks |-> blocks]}
    /\ UNCHANGED <<access, mode, gateway, turn, blocks, now>>

ImportGlobalSecurity == \E b \in saved :
    /\ Counted /\ access' = b.access /\ blocks' = b.blocks /\ Afresh
    /\ UNCHANGED <<mode, gateway, saved, now>>

Tick ==
    /\ now < MaxTime /\ now' = now + 1
    /\ UNCHANGED <<access, mode, gateway, turn, saved, blocks, ops>>

SecInit ==
    /\ access = [u \in User |-> Active] /\ mode \in {"simple", "aggressive"} /\ gateway = TRUE
    /\ turn = [t \in Turn |-> Idle] /\ saved = {} /\ blocks = [u \in User |-> <<>>]
    /\ now = 1 /\ ops = 0

TurnSteps(t) == EvaluateIngress(t) \/ CheckAccess(t) \/ CallModel(t) \/ securityEvaluate(t)
                  \/ EvaluateStage(t) \/ RunTool(t) \/ BanUser(t)

SecNext ==
    \/ \E t \in Turn : GateIngress(t) \/ TurnSteps(t)
    \/ \E u \in User : executeBan(u) \/ executeUnban(u) \/ PanelUnlock(u)
    \/ \E m \in {"off", "simple", "aggressive"} : SetMode(m)
    \/ ForInstance \/ ExportGlobalSecurity \/ ImportGlobalSecurity \/ Tick

SecTypeOK ==
    /\ \A u \in User : /\ access[u].state \in {"ACTIVE", "LOCKED"}
                       /\ access[u].reason \in {"none", "manual", "strikes"}
                       /\ access[u].hash \in Payload \union {0} /\ access[u].at \in 0..now
    /\ \A t \in Turn : turn[t].pc \in {"idle", "gate", "admitted", "calling", "model", "judged", "running", "tool"}
    /\ mode \in {"off", "simple", "aggressive"} /\ gateway \in BOOLEAN

\* Block k of a user's history repeats the one before it, or evades, within
\* the window of it.
Struck(h, k) == h[k - 1].at > h[k].at - Window /\ (h[k].hash = h[k - 1].hash \/ h[k].coded)

\* The watchdog locks a user only for LockAfter strikes inside one window,
\* each for critical content the user sent that repeats or disguises what was
\* blocked before; classifier failures, store failures, dry runs, and what
\* tools and models say never add up to a lock, however evaluations of the
\* instances interleave, and an unlock starts afresh.  No lock outlives an
\* operation that lifts it except by such strikes or another ban.
LocksAreEarned == \A u \in User : access[u].state = "LOCKED" /\ access[u].reason = "strikes" =>
    LET h == blocks[u] IN
    \E last \in DOMAIN h :
        Cardinality({k \in 2..last : Struck(h, k) /\ h[k].at > h[last].at - Window}) >= LockAfter

\* After a user is locked, by any instance, a turn of theirs that is already
\* running starts at most one more model call or tool.
LockStopsTurns == \A t \in Turn : turn[t].over <= 1

=============================================================================
