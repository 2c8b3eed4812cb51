---------------------------- MODULE AstrBotTurn ----------------------------
(***************************************************************************)
(* A message forwarded by the AstrBot plugin, from the plugin's waiter to  *)
(* the frame that ends it (adapters/astrbot_plugin_frostagent/main.py,     *)
(* internal/adapter/astrbot/adapter.go and ws_server.go).                  *)
(*                                                                         *)
(* The plugin registers a waiter per message and forwards it.  The server  *)
(* reads messages one by one, refuses some, and gives the others a turn of *)
(* their sender's lane and a goroutine.  A turn prepares, runs the model,  *)
(* may send intermediate messages, and delivers its answer; a newer        *)
(* message of the lane or a reset of the session cuts it short.  The       *)
(* waiter ends with the first final frame; if nothing was said by then,    *)
(* and the frame does not forbid it, AstrBot's own model answers instead.  *)
(*                                                                         *)
(* Quotes, images, prompts and memory owners are abstracted: they change   *)
(* what the model is asked, not which frames are sent.  The waiter's limit *)
(* of 120 seconds is left out, since the property is that it is not        *)
(* needed, and so is a chat that refuses what the plugin hands it.         *)
(***************************************************************************)
EXTENDS Integers, Sequences, FiniteSets

CONSTANTS Events,     \* 1..n, the forwarded messages in the order they are sent
          Cases,      \* ways the messages may address the bot: [Events -> Kinds]
          MaxTrouble  \* bound on resets, stops and lost connections together

VARIABLES kind,     \* [Events -> Kinds]
          t,        \* the turn of each message: pc, epoch, cut short, outcome
          guard,    \* its slot in the group's buffer: none, staged, promoted, dropped
          writes,   \* frames on their way to the socket
          result,   \* how the turn's own last write ended
          heard,    \* intermediate messages of the turn were delivered
          kept,     \* the turn's answer is in the session's history
          mined,    \* times the turn was handed to memory extraction
          epoch,    \* the session's epoch
          live,     \* the engine accepts goroutines
          open,     \* the connection is open
          wire,     \* frames written and not yet read by the plugin
          waiter    \* the plugin's waiter of each message

astVars == <<kind, t, guard, writes, result, heard, kept, mined, epoch, live, open, wire, waiter>>

Kinds  == {"wake", "proactive", "poke", "background"}
memory == <<guard, heard, kept, mined>>
Frames == {"hook", "reply", "notice", "noop", "noop_s"}
NoTurn == [pc |-> "none", epoch |-> 0, cut |-> FALSE, out |-> "none"]

AstInit ==
    /\ kind \in Cases /\ t = [e \in Events |-> NoTurn]
    /\ guard = [e \in Events |-> "none"] /\ writes = {} /\ result = [e \in Events |-> "none"]
    /\ heard = [e \in Events |-> FALSE] /\ kept = heard /\ mined = [e \in Events |-> 0]
    /\ epoch = 0 /\ live = TRUE /\ open = TRUE /\ wire = <<>>
    /\ waiter = [e \in Events |-> [st |-> "none", by |-> "none", quiet |-> FALSE]]

Proactive(e)  == kind[e] = "proactive"
Background(e) == kind[e] = "background"
Stale(e)      == t[e].epoch # epoch
Goes(e, pc)   == t' = [t EXCEPT ![e].pc = pc]

(* The bound on what goes wrong; closing a stopped engine's connection is  *)
(* not counted.                                                            *)
Calm == epoch + (IF live THEN 0 ELSE 1) + (IF open \/ ~live THEN 0 ELSE 1) < MaxTrouble

-----------------------------------------------------------------------------
(* Writing to the socket.                                                  *)

LockFree == \A w \in writes : w.st # "admitted"
Put(e, f) == wire' = IF open THEN Append(wire, [e |-> e, f |-> f]) ELSE wire

(* A write without a turn: nothing but a closed connection stops it.       *)
WriteJSON(e, f) == LockFree /\ Put(e, f)

(* The frame that ends an empty answer.                                    *)
sendTerminalNoop(e) == IF Proactive(e) THEN "noop_s" ELSE "noop"

sendTerminalNoopWithSuppress(e) == WriteJSON(e, "noop_s")

(* A write on behalf of a turn is asked for, ...                           *)
AskWrite(e, f) ==
    /\ writes' = writes \cup {[e |-> e, f |-> f, st |-> "asked"]}
    /\ result' = [result EXCEPT ![e] = "none"]

(* A mutant: the turn's authority is not consulted.                        *)
AnyTurnMayWrite(e) == TRUE

WithAuthority(e) == ~t[e].cut

(* The frames of a delivered answer: a reply, or a noop when it is empty.   *)
Finals == {"reply", "noop", "noop_s"}

(* A failed final write, unless the turn was cut short or its session      *)
(* reset, takes the message out of the group's buffer.                     *)
Undelivered(e) ==
    guard' = IF t[e].cut \/ Stale(e) \/ guard[e] # "staged"
             THEN guard ELSE [guard EXCEPT ![e] = "dropped"]

(* The outcome is kept for whoever still waits for it.                     *)
Returns(w, ok) ==
    result' = [result EXCEPT ![w.e] = IF t[w.e].pc \in {"hooking", "notice", "deliver"} THEN ok ELSE @]

(* ... admitted under the write lock while the turn still has authority    *)
(* and the connection is open, ...                                         *)
writeTurnJSON(w) ==
    /\ w.st = "asked" /\ LockFree
    /\ IF open /\ (w.f \in {"noop", "noop_s"} \/ WithAuthority(w.e))
       THEN /\ writes' = (writes \ {w}) \cup {[w EXCEPT !.st = "admitted"]}
            /\ UNCHANGED <<result, guard>>
       ELSE /\ writes' = writes \ {w} /\ Returns(w, "no")
            /\ IF w.f \in Finals THEN Undelivered(w.e) ELSE UNCHANGED guard
    /\ UNCHANGED <<kind, t, heard, kept, mined, epoch, live, open, wire, waiter>>

(* A mutant: the commit is not tied to the epoch.                          *)
CommitsAnyway(e) == TRUE

WithEpochCommit(e) == ~Stale(e)

(* An answer that was written becomes part of the session's history, its   *)
(* message part of the group's buffer, and the pair is offered to memory,  *)
(* all within the turn's epoch or not at all.  The history of an empty     *)
(* answer is what was said on the way.                                     *)
CommitFinal(e, f) ==
    IF WithEpochCommit(e)
    THEN /\ guard' = [guard EXCEPT ![e] = IF @ = "staged" THEN "promoted" ELSE @]
         /\ IF f = "reply" \/ heard[e]
            THEN /\ kept' = [kept EXCEPT ![e] = TRUE]
                 /\ mined' \in {mined, [mined EXCEPT ![e] = @ + 1]}
            ELSE UNCHANGED <<kept, mined>>
    ELSE UNCHANGED <<kept, guard, mined>>

(* ... and then written, however long the lock was held and whatever       *)
(* happened to the turn meanwhile.                                         *)
Written(w) ==
    /\ w.st = "admitted" /\ writes' = writes \ {w} /\ Put(w.e, w.f)
    /\ Returns(w, IF open THEN "yes" ELSE "no")
    /\ CASE w.f = "hook" /\ open /\ ~Stale(w.e) ->
                /\ heard' = [heard EXCEPT ![w.e] = TRUE] /\ UNCHANGED <<guard, kept, mined>>
         [] w.f \in Finals /\ open  -> CommitFinal(w.e, w.f) /\ UNCHANGED heard
         [] w.f \in Finals /\ ~open -> Undelivered(w.e) /\ UNCHANGED <<heard, kept, mined>>
         [] OTHER -> UNCHANGED memory
    /\ UNCHANGED <<kind, t, epoch, live, open, waiter>>

(* The frame that ends a cut turn's waiter is written by a goroutine of    *)
(* its own, and without the turn's authority.                              *)
Bye(w) ==
    /\ w.st = "bye" /\ writes' = writes \ {w} /\ WriteJSON(w.e, w.f)
    /\ UNCHANGED <<kind, t, memory, result, epoch, live, open, waiter>>

-----------------------------------------------------------------------------
(* Reading a message (serveConnection).                                    *)

Arrives(e) == t[e].pc = "sent" /\ open /\ \A d \in Events : d < e => t[d].pc # "sent"

(* Refused by the security gate: whoever spoke to the bot is told, a       *)
(* proactive reply or a poke ends quietly, a background message unanswered. *)
Blocked(e) ==
    /\ Arrives(e) /\ Goes(e, "done")
    /\ CASE kind[e] = "wake" -> WriteJSON(e, "notice")
         [] Background(e)    -> UNCHANGED wire
         [] OTHER            -> sendTerminalNoopWithSuppress(e)
    /\ UNCHANGED <<kind, memory, writes, result, epoch, live, open, waiter>>

(* Over the limit of the bot loop, or of pokes.                            *)
OverLimit(e) ==
    /\ Arrives(e) /\ ~Background(e) /\ Goes(e, "done")
    /\ sendTerminalNoopWithSuppress(e)
    /\ UNCHANGED <<kind, memory, writes, result, epoch, live, open, waiter>>

(* Dialogue is switched off for this platform or group.                    *)
Disabled(e) ==
    /\ Arrives(e) /\ Goes(e, "done")
    /\ IF kind[e] \in {"proactive", "poke"} THEN sendTerminalNoopWithSuppress(e) ELSE UNCHANGED wire
    /\ UNCHANGED <<kind, memory, writes, result, epoch, live, open, waiter>>

(* The model catalog cannot be read: the instance is paused, which closes  *)
(* its connections.                                                        *)
CatalogFails(e) ==
    /\ Arrives(e) /\ live /\ Calm /\ Goes(e, "done") /\ live' = FALSE
    /\ IF kind[e] = "poke" THEN sendTerminalNoopWithSuppress(e) ELSE UNCHANGED wire
    /\ UNCHANGED <<kind, memory, writes, result, epoch, open, waiter>>

SameLane(d, e) == Proactive(d) = Proactive(e) /\ ~Background(d) /\ ~Background(e)
Reserved(d)    == t[d].pc \notin {"none", "sent", "done", "background"}

(* The message's turn is reserved.  An explicit message, not a poke, cuts  *)
(* short what its lane still does.                                         *)
ReserveSequenceTurn(e, pc) ==
    t' = [d \in Events |->
            IF d = e THEN [pc |-> pc, epoch |-> epoch, cut |-> FALSE, out |-> "none"]
            ELSE IF Reserved(d) /\ SameLane(d, e) /\ kind[e] # "poke" THEN [t[d] EXCEPT !.cut = TRUE]
            ELSE t[d]]

(* The group's store cannot be written, after the turn was reserved.       *)
StoreFails(e) ==
    /\ Arrives(e) /\ live /\ Calm /\ ReserveSequenceTurn(e, "done") /\ live' = FALSE
    /\ UNCHANGED <<kind, memory, writes, result, epoch, open, wire, waiter>>

(* The slot of a message that woke the bot waits for the turn to end well. *)
stageGroupCompactMessage(e) == IF kind[e] = "wake" THEN "staged" ELSE "none"

(* The message gets its turn and goroutine; a message that woke the bot    *)
(* also a staged slot of the group's buffer.                               *)
Admitted(e) ==
    /\ Arrives(e) /\ live
    /\ ReserveSequenceTurn(e, IF Background(e) THEN "background" ELSE "queued")
    /\ guard' = [guard EXCEPT ![e] = stageGroupCompactMessage(e)]
    /\ UNCHANGED <<kind, heard, kept, mined, writes, result, epoch, live, open, wire, waiter>>

(* The engine is stopping and starts no goroutine.                         *)
Refused(e) ==
    /\ Arrives(e) /\ ~live /\ ReserveSequenceTurn(e, "done")
    /\ IF kind[e] \in {"proactive", "poke"} THEN sendTerminalNoopWithSuppress(e) ELSE UNCHANGED wire
    /\ UNCHANGED <<kind, memory, writes, result, epoch, live, open, waiter>>

-----------------------------------------------------------------------------
(* The goroutine (processEvent, replyWithSnapshot).                        *)

Settled(e) == [guard EXCEPT ![e] = IF @ = "staged" THEN "promoted" ELSE @]

(* A message nobody addressed to the bot is answered with a plain noop.    *)
Ignore(e) ==
    /\ t[e].pc = "background" /\ Goes(e, "done") /\ WriteJSON(e, "noop")
    /\ UNCHANGED <<kind, memory, writes, result, epoch, live, open, waiter>>

(* The turn's predecessors are done.  A turn of an earlier epoch ends with *)
(* a plain noop, a poke that was switched off with a quiet one.            *)
processEvent(e) ==
    /\ t[e].pc = "queued"
    /\ \A d \in Events : d < e /\ SameLane(d, e) => ~Reserved(d)
    /\ \/ /\ Stale(e) /\ Goes(e, "done") /\ WriteJSON(e, "noop") /\ guard' = Settled(e)
       \/ /\ ~Stale(e) /\ kind[e] = "poke" /\ Goes(e, "done")
          /\ sendTerminalNoopWithSuppress(e) /\ UNCHANGED guard
       \/ ~Stale(e) /\ Goes(e, "prepare") /\ UNCHANGED <<wire, guard>>
    /\ UNCHANGED <<kind, heard, kept, mined, writes, result, epoch, live, open, waiter>>

(* A reset ends the turn before quotes are looked up, ...                  *)
LookUpQuotes(e) ==
    /\ t[e].pc = "prepare" /\ Goes(e, IF Stale(e) THEN "exit" ELSE "vision")
    /\ UNCHANGED <<kind, memory, writes, result, epoch, live, open, wire, waiter>>

(* ... images are described, unless the account cannot pay for them, which *)
(* ends the turn with a notice, ...                                        *)
DescribeImages(e) ==
    /\ t[e].pc = "vision"
    /\ \/ ~Proactive(e) /\ Goes(e, "notice") /\ AskWrite(e, "notice")
       \/ Goes(e, "context") /\ UNCHANGED <<writes, result>>
    /\ UNCHANGED <<kind, memory, epoch, live, open, wire, waiter>>

(* ... and a reset meanwhile ends the turn again, before the session is    *)
(* read, the prompt put together and the run started.                      *)
BuildPrompt(e) ==
    /\ t[e].pc = "context" /\ Goes(e, IF Stale(e) THEN "exit" ELSE "run")
    /\ UNCHANGED <<kind, memory, writes, result, epoch, live, open, wire, waiter>>

(* The model asks for an intermediate message (sendHook).                  *)
sendHook(e) ==
    /\ t[e].pc = "run" /\ ~t[e].cut /\ ~Stale(e) /\ ~heard[e]
    /\ Goes(e, "hooking") /\ AskWrite(e, "hook")
    /\ UNCHANGED <<kind, memory, epoch, live, open, wire, waiter>>

(* It waits for the write or for being cut short, whichever comes first.   *)
HookReturns(e) ==
    /\ t[e].pc = "hooking" /\ (result[e] # "none" \/ t[e].cut) /\ Goes(e, "run")
    /\ result' = [result EXCEPT ![e] = "none"]
    /\ UNCHANGED <<kind, memory, writes, epoch, live, open, wire, waiter>>

(* The run ends with an answer, an empty answer, silence, a ban, an error  *)
(* before anything was billed, or, for a proactive reply, an error or a    *)
(* blocked output.  A ban takes the message out of the group's buffer.     *)
RunEnds(e) ==
    /\ t[e].pc = "run"
    /\ \E out \in {"answer", "empty", "silent", "banned", "failed"} :
           t' = [t EXCEPT ![e].pc = "judge", ![e].out = out]
    /\ UNCHANGED <<kind, memory, writes, result, epoch, live, open, wire, waiter>>

Judge(e) ==
    /\ t[e].pc = "judge"
    /\ CASE t[e].cut \/ Stale(e) ->
                Goes(e, "exit") /\ UNCHANGED <<memory, writes, result, wire>>
         [] t[e].out \in {"banned", "failed"} ->
                /\ guard' = IF t[e].out = "banned" /\ guard[e] = "staged"
                            THEN [guard EXCEPT ![e] = "dropped"] ELSE guard
                /\ IF Proactive(e)
                   THEN Goes(e, "exit") /\ sendTerminalNoopWithSuppress(e) /\ UNCHANGED <<writes, result>>
                   ELSE Goes(e, "notice") /\ AskWrite(e, "notice") /\ UNCHANGED wire
                /\ UNCHANGED <<heard, kept, mined>>
         [] t[e].out = "silent" ->
                /\ Goes(e, "exit") /\ sendTerminalNoopWithSuppress(e)
                /\ guard' = Settled(e)
                /\ mined' \in {mined, IF Proactive(e) /\ heard[e] THEN mined ELSE [mined EXCEPT ![e] = @ + 1]}
                /\ UNCHANGED <<heard, kept, writes, result>>
         [] OTHER ->
                /\ Goes(e, "deliver")
                /\ AskWrite(e, IF t[e].out = "answer" THEN "reply" ELSE sendTerminalNoop(e))
                /\ UNCHANGED <<memory, wire>>
    /\ UNCHANGED <<kind, epoch, live, open, waiter>>

(* A notice is written before the turn goes on.                            *)
NoticeReturns(e) ==
    /\ t[e].pc = "notice" /\ result[e] # "none" /\ Goes(e, "exit")
    /\ result' = [result EXCEPT ![e] = "none"]
    /\ UNCHANGED <<kind, memory, writes, epoch, live, open, wire, waiter>>

(* The answer is written by a goroutine; being cut short ends the wait.    *)
AwaitDelivery(e) ==
    /\ t[e].pc = "deliver" /\ (result[e] # "none" \/ t[e].cut) /\ Goes(e, "exit")
    /\ result' = [result EXCEPT ![e] = "none"]
    /\ UNCHANGED <<kind, memory, writes, epoch, live, open, wire, waiter>>

(* A mutant: a cut turn leaves without a word.                             *)
LeavesSilently(e) == UNCHANGED writes

(* A mutant: the noop of a cut turn does not ask for silence.              *)
PlainFarewell(e) ==
    writes' = IF t[e].cut /\ live
              THEN writes \cup {[e |-> e, f |-> "noop", st |-> "bye"]} ELSE writes

(* A turn that was cut short releases its waiter, as long as the engine    *)
(* starts goroutines.                                                      *)
Farewell(e) ==
    writes' = IF t[e].cut /\ live
              THEN writes \cup {[e |-> e, f |-> "noop_s", st |-> "bye"]} ELSE writes

(* However the turn ends: what a proactive reply has said is kept, the     *)
(* slot in the buffer is settled, the waiter released, the lane passed on. *)
Exit(e) ==
    /\ t[e].pc = "exit" /\ Goes(e, "done") /\ Farewell(e)
    /\ guard' = Settled(e)
    /\ kept' = IF Proactive(e) /\ heard[e] /\ ~Stale(e) THEN [kept EXCEPT ![e] = TRUE] ELSE kept
    /\ UNCHANGED <<kind, heard, mined, result, epoch, live, open, wire, waiter>>

-----------------------------------------------------------------------------
(* The session, the engine and the connection.                             *)

(* A reset starts an epoch and cuts every turn of the session short.       *)
ResetSession ==
    /\ Calm /\ epoch' = epoch + 1
    /\ t' = [e \in Events |-> IF Reserved(e) THEN [t[e] EXCEPT !.cut = TRUE] ELSE t[e]]
    /\ UNCHANGED <<kind, memory, writes, result, live, open, wire, waiter>>

StopEngine ==
    /\ live /\ Calm /\ live' = FALSE
    /\ UNCHANGED <<kind, t, memory, writes, result, epoch, open, wire, waiter>>

(* The plugin releases every waiter of a closed connection.                *)
Close ==
    /\ open /\ (live => Calm) /\ open' = FALSE /\ wire' = <<>>
    /\ waiter' = [e \in Events |-> IF waiter[e].st = "waiting"
                                   THEN [waiter[e] EXCEPT !.st = "done", !.by = "closed"] ELSE waiter[e]]
    /\ UNCHANGED <<kind, t, memory, writes, result, epoch, live>>

-----------------------------------------------------------------------------
(* The plugin.                                                             *)

(* A waiter is registered, then the message is forwarded.  A poke is       *)
(* nothing AstrBot's own model would answer.                               *)
SendEvent(e) ==
    /\ t[e].pc = "none" /\ open /\ \A d \in Events : d < e => t[d].pc # "none"
    /\ Goes(e, "sent") /\ waiter' = [waiter EXCEPT ![e].st = "waiting", ![e].quiet = (kind[e] = "poke")]
    /\ UNCHANGED <<kind, memory, writes, result, epoch, live, open, wire>>

(* A frame reaches its waiter.  Anything said keeps AstrBot's own model    *)
(* quiet, and so does a noop that asks for it; frames after the end go to  *)
(* the chat, or nowhere, without touching the waiter.                      *)
HandleAction ==
    /\ wire # <<>> /\ wire' = Tail(wire)
    /\ LET e == Head(wire).e
           f == Head(wire).f
       IN  waiter' = IF waiter[e].st # "waiting" THEN waiter
                     ELSE [waiter EXCEPT ![e] =
                             [st    |-> IF f = "hook" THEN "waiting" ELSE "done",
                              by    |-> IF f = "hook" THEN @.by ELSE f,
                              quiet |-> @.quiet \/ f # "noop"]]
    /\ UNCHANGED <<kind, t, memory, writes, result, epoch, live, open>>

-----------------------------------------------------------------------------

Turn(e) == \/ Ignore(e) \/ processEvent(e) \/ LookUpQuotes(e) \/ DescribeImages(e)
           \/ BuildPrompt(e) \/ sendHook(e) \/ HookReturns(e)
           \/ RunEnds(e) \/ Judge(e) \/ NoticeReturns(e) \/ AwaitDelivery(e) \/ Exit(e)

Reads(e) == Blocked(e) \/ OverLimit(e) \/ Disabled(e) \/ CatalogFails(e) \/ StoreFails(e) \/ Admitted(e) \/ Refused(e)

Writes == \E w \in writes : writeTurnJSON(w) \/ Written(w) \/ Bye(w)

AstNext ==
    \/ \E e \in Events : SendEvent(e) \/ Reads(e) \/ Turn(e)
    \/ Writes \/ ResetSession \/ StopEngine \/ Close \/ HandleAction

(* Goroutines run on, writes have a deadline, the plugin keeps reading,    *)
(* and a stopped engine closes its connections.                            *)
Proceeds == (\E e \in Events : Turn(e) \/ Reads(e)) \/ Writes \/ HandleAction \/ (~live /\ Close)

AstFairness == WF_astVars(Proceeds)

-----------------------------------------------------------------------------

(* Every variable of the exchange with the plugin has its type.            *)
AstTypeOK ==
    /\ kind \in [Events -> Kinds] /\ epoch \in 0..MaxTrouble /\ live \in BOOLEAN /\ open \in BOOLEAN
    /\ t \in [Events -> [pc : {"none", "sent", "background", "queued", "prepare", "vision", "context",
                               "notice", "run", "hooking", "judge", "deliver", "exit", "done"},
                         epoch : 0..MaxTrouble, cut : BOOLEAN,
                         out : {"none", "answer", "empty", "silent", "banned", "failed"}]]
    /\ guard \in [Events -> {"none", "staged", "promoted", "dropped"}]
    /\ writes \subseteq [e : Events, f : Frames, st : {"asked", "admitted", "bye"}]
    /\ result \in [Events -> {"none", "yes", "no"}]
    /\ heard \in [Events -> BOOLEAN] /\ kept \in [Events -> BOOLEAN] /\ mined \in [Events -> 0..2]
    /\ wire \in Seq([e : Events, f : Frames])
    /\ waiter \in [Events -> [st : {"none", "waiting", "done"}, by : Frames \cup {"none", "closed"},
                              quiet : BOOLEAN]]

(* AstrBot's own model answers a forwarded message only if nobody          *)
(* addressed the bot, or the connection closed, or the model's own answer  *)
(* was empty, or the session was reset while the message was queued: a     *)
(* turn that was cut short while running releases its waiter quietly,      *)
(* however its last writes and the noop race (replyWithSnapshot's deferred *)
(* noop, and main.py's handling of it).                                    *)
NativeModelStaysOut ==
    \A e \in Events :
        waiter[e].st = "done" /\ ~waiter[e].quiet =>
            \/ waiter[e].by = "closed"
            \/ waiter[e].by = "noop" /\ (Background(e) \/ t[e].out = "empty" \/ t[e].epoch < epoch)

(* The session remembers an answer, and offers a turn to memory, only for  *)
(* what was written or said in the turn's own epoch, at most once, and     *)
(* never for a message that was taken out of the group's buffer.           *)
RemembersWhatWasSaid ==
    \A e \in Events :
        /\ kept'[e] # kept[e] =>
               /\ t[e].epoch = epoch /\ guard[e] # "dropped"
               /\ heard[e] \/ \E k \in DOMAIN wire' : wire'[k] = [e |-> e, f |-> "reply"]
        /\ mined'[e] # mined[e] => t[e].epoch = epoch /\ mined[e] = 0 /\ guard[e] # "dropped"

(* Once the turn of a newer message of the lane has said anything, a turn  *)
(* that was cut short says nothing more: its last admitted write still     *)
(* holds the write lock, and later ones find their authority gone          *)
(* (writeTurnJSON, WithAuthority).                                         *)
InterruptedSaysNothingLate ==
    \A d, e \in Events :
        /\ d < e /\ SameLane(d, e) /\ t[d].cut
        /\ Len(wire') > Len(wire) /\ wire'[Len(wire')].e = d
        /\ wire'[Len(wire')].f \in {"hook", "reply", "notice"}
        => ~heard[e] /\ ~kept[e]

(* The strict reading of the rule for interrupted messages: AstrBot's own  *)
(* model never answers a message whose turn was cut short.                 *)
InterruptedStaysQuiet ==
    \A e \in Events :
        waiter[e].st = "done" /\ t[e].cut /\ t[e].out = "none" => waiter[e].quiet \/ waiter[e].by = "closed"
=============================================================================
