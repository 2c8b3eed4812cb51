------------------------------- MODULE Ingress -------------------------------
(***************************************************************************)
(* Incoming events of one session, on several connections (serveConnection *)
(* in internal/adapter/onebot and astrbot), from reading an event to the   *)
(* decision to answer it: administrator commands, the security gate, the   *)
(* route, the cooldown of pokes (internal/poke), and the guard against     *)
(* bots that talk to each other (BotLoopObservation in                     *)
(* internal/llm/session.go), which settles events in their order of        *)
(* arrival although their checks run concurrently.                         *)
(***************************************************************************)
EXTENDS Integers, Sequences, SequencesExt, FiniteSets, FiniteSetsExt

CONSTANTS Conn,
          Sender,
          Marks,       \* the marked senders under each revision of the settings
          Limit,       \* BOT_LOOP_MAX_TURNS
          Hard,        \* the revisions with BOT_LOOP_MODE hard
          MaxEvent,    \* bound on the events
          MaxReset     \* bound on the resets of the session

ASSUME ConstantsAssumption ==
  /\ Marks \in Seq(SUBSET Sender) /\ Len(Marks) > 0
  /\ {Limit, MaxEvent, MaxReset} \subseteq Nat /\ Limit > 0
  /\ Hard \subseteq DOMAIN Marks

VARIABLES
  revision, \* BotLoopRevision of the settings
  epoch,    \* botLoopEpoch
  config,   \* botLoopConfig: a revision, 0 if empty
  turns,    \* botLoopTurns
  queue,    \* per epoch, the connections whose observation is not settled
  cooling,  \* the last poke was admitted less than the cooldown ago
  conn,     \* what each connection does with its event
  events,   \* number of events so far
  begun     \* history: the observations of this epoch, in order of arrival

vars == <<revision, epoch, config, turns, queue, cooling, conn, events, begun>>

Event == [sender : Sender, poke : BOOLEAN, wake : {"none", "proactive", "explicit"}]
Idle == [pc |-> "idle"]

\* Config.IsMarked and Config.Enabled
IsMarked(r, s) == s \in Marks[r]
Enabled(r) == Marks[r] # {}
IsHard(c) == conn[c].cfg \in Hard

Init ==
  /\ revision \in DOMAIN Marks /\ epoch = 1 /\ config = 0 /\ turns = [s \in Sender |-> 0]
  /\ queue = [e \in 1..(MaxReset + 1) |-> <<>>]
  /\ cooling = FALSE /\ conn = [c \in Conn |-> Idle] /\ events = 0 /\ begun = <<>>

-----------------------------------------------------------------------------
\* An event is read, a poke only if Gate.Ready, and the settings are parsed.
\* A poke is an explicit wake.
ReadEvent(c) ==
  /\ conn[c].pc = "idle" /\ events < MaxEvent
  /\ \E ev \in Event :
       /\ ev.poke => ev.wake = "explicit" /\ ~cooling
       /\ conn' = [conn EXCEPT ![c] = [pc |-> "parsed", ev |-> ev, cfg |-> revision]]
  /\ events' = events + 1
  /\ UNCHANGED <<revision, epoch, config, turns, queue, cooling, begun>>

\* The observation is reserved; without marked senders there is none.
BeginBotLoop(c) ==
  /\ conn[c].pc = "parsed"
  /\ LET k == conn[c]
     IN IF Enabled(k.cfg)
        THEN /\ conn' = [conn EXCEPT ![c] =
                  [pc |-> "gate", ev |-> k.ev, cfg |-> k.cfg, epoch |-> epoch,
                   ticket |-> Len(begun) + 1]]
             /\ queue' = [queue EXCEPT ![epoch] = Append(@, c)]
             /\ begun' = Append(begun, [sender |-> k.ev.sender, cfg |-> k.cfg, wake |-> k.ev.wake,
                                        settled |-> FALSE, eligible |-> FALSE, admitted |-> FALSE,
                                        answered |-> FALSE])
        ELSE /\ conn' = [conn EXCEPT ![c] =
                  [pc |-> "gate", ev |-> k.ev, cfg |-> k.cfg, epoch |-> 0, ticket |-> 0]]
             /\ UNCHANGED <<queue, begun>>
  /\ UNCHANGED <<revision, epoch, config, turns, cooling, events>>

\* The command, the security gate and the route decide, in their own time:
\* what Finish is called with, and whether a poke needs admission.  A blocked
\* event is answered if it was an explicit wake.
Decide(c) ==
  /\ conn[c].pc = "gate"
  /\ \E path \in {"admin", "blocked", "pass"}, routed \in BOOLEAN :
       LET k == conn[c]
           eligible == CASE path = "admin" -> FALSE
                         [] path = "blocked" -> k.ev.wake = "explicit"
                         [] path = "pass" -> k.ev.wake # "none" /\ routed
       IN /\ path = "pass" \/ routed
          /\ conn' = [conn EXCEPT ![c] =
               [pc |-> "settling", ev |-> k.ev, cfg |-> k.cfg, epoch |-> k.epoch,
                ticket |-> k.ticket, eligible |-> eligible,
                admission |-> k.ev.poke /\ path = "pass"]]
  /\ UNCHANGED <<revision, epoch, config, turns, queue, cooling, events, begun>>

-----------------------------------------------------------------------------
(* FinishWithAdmission                                                     *)

NeverWaits(c) == TRUE

\* <-o.previous
FirstInLine(c) == conn[c].epoch # 0 => Head(queue[conn[c].epoch]) = c

Live(c) == conn[c].epoch = epoch

WipesOnAnyWake(c) ==
  \/ config # conn[c].cfg
  \/ ~IsMarked(conn[c].cfg, conn[c].ev.sender) /\ conn[c].ev.wake = "explicit"

Wipes(c) ==
  \/ config # conn[c].cfg
  \/ ~IsMarked(conn[c].cfg, conn[c].ev.sender) /\ conn[c].ev.wake = "explicit" /\ conn[c].eligible

Candidate(c) == IF Wipes(c) THEN [s \in Sender |-> 0] ELSE turns

Counts(c) == IsMarked(conn[c].cfg, conn[c].ev.sender) /\ conn[c].eligible

ExceededLate(c) == Live(c) /\ Counts(c) /\ Candidate(c)[conn[c].ev.sender] > Limit

Exceeded(c) == Live(c) /\ Counts(c) /\ Candidate(c)[conn[c].ev.sender] >= Limit

\* The admission callback: a poke that would be answered takes the cooldown.
TakesCooldown(c) ==
  /\ conn[c].admission /\ conn[c].eligible /\ ~(Exceeded(c) /\ IsHard(c))
  /\ conn[c].epoch # 0 => Live(c)

AllowAlways == TRUE

\* Gate.Allow
Allow == ~cooling

\* An observation of an older epoch admits nothing that needs admission.
Admitted(c) ==
  /\ conn[c].epoch # 0 /\ conn[c].admission => Live(c)
  /\ TakesCooldown(c) => Allow

\* The event is answered: by a dialogue, or directly by the security gate.
Answers(c) ==
  conn[c].eligible /\ Admitted(c) /\ ~(Exceeded(c) /\ IsHard(c))

ClosedIfLive(q, c) == IF Live(c) THEN Tail(q) ELSE q

\* close(o.done)
Closed(q, c) == SelectSeq(q, LAMBDA d : d # c)

Settle(c) ==
  /\ conn[c].pc = "settling" /\ FirstInLine(c)
  /\ LET k == conn[c]
         s == k.ev.sender
     IN /\ queue' = IF k.epoch = 0 THEN queue
                    ELSE [queue EXCEPT ![k.epoch] = Closed(@, c)]
        /\ cooling' = (cooling \/ (TakesCooldown(c) /\ Allow))
        /\ IF Live(c) /\ Admitted(c)
           THEN /\ config' = k.cfg
                /\ turns' = [Candidate(c) EXCEPT ![s] =
                               IF Counts(c) /\ ~Exceeded(c) THEN @ + 1 ELSE @]
           ELSE UNCHANGED <<config, turns>>
        /\ begun' = IF Live(c)
                    THEN [begun EXCEPT ![k.ticket].settled = TRUE, ![k.ticket].eligible = k.eligible,
                                       ![k.ticket].admitted = Admitted(c), ![k.ticket].answered = Answers(c)]
                    ELSE begun
        /\ conn' = [conn EXCEPT ![c] =
             [pc |-> "settled", wokenByPoke |-> Answers(c) /\ k.admission]]
  /\ UNCHANGED <<revision, epoch, events>>

\* The rest of the loop body: the answer, or the next event at once.
EndEvent(c) ==
  /\ conn[c].pc = "settled"
  /\ conn' = [conn EXCEPT ![c] = Idle]
  /\ UNCHANGED <<revision, epoch, config, turns, queue, cooling, events, begun>>

-----------------------------------------------------------------------------
(* The environment.                                                        *)

ResetSession ==
  /\ epoch <= MaxReset
  /\ epoch' = epoch + 1 /\ config' = 0 /\ turns' = [s \in Sender |-> 0] /\ begun' = <<>>
  /\ UNCHANGED <<revision, queue, cooling, conn, events>>

ChangeSettings ==
  /\ revision < Len(Marks)
  /\ revision' = revision + 1
  /\ UNCHANGED <<epoch, config, turns, queue, cooling, conn, events, begun>>

CooldownEnds ==
  /\ cooling /\ cooling' = FALSE
  /\ UNCHANGED <<revision, epoch, config, turns, queue, conn, events, begun>>

ConnStep(c) == ReadEvent(c) \/ BeginBotLoop(c) \/ Decide(c) \/ Settle(c) \/ EndEvent(c)

Next ==
  \/ \E c \in Conn : ConnStep(c)
  \/ ResetSession \/ ChangeSettings \/ CooldownEnds

Spec == Init /\ [][Next]_vars

\* A connection goes on with its event.
Proceeds(c) == BeginBotLoop(c) \/ Decide(c) \/ Settle(c) \/ EndEvent(c)

\* Every check has a time limit, and a connection works on its event until it
\* is through.
Fairness == WF_vars(\E c \in Conn : Proceeds(c))

FairSpec == Spec /\ Fairness

-----------------------------------------------------------------------------
ConnState ==
  {Idle} \cup [pc : {"parsed"}, ev : Event, cfg : DOMAIN Marks]
  \cup [pc : {"gate"}, ev : Event, cfg : DOMAIN Marks, epoch : 0..(MaxReset + 1),
        ticket : 0..MaxEvent]
  \cup [pc : {"settling"}, ev : Event, cfg : DOMAIN Marks, epoch : 0..(MaxReset + 1),
        ticket : 0..MaxEvent, eligible : BOOLEAN, admission : BOOLEAN]
  \cup [pc : {"settled"}, wokenByPoke : BOOLEAN]

\* Types; no sender's count passes the limit (session.go, FinishWithAdmission).
TypeOK ==
  /\ revision \in DOMAIN Marks /\ epoch \in 1..(MaxReset + 1)
  /\ config \in {0} \cup DOMAIN Marks /\ turns \in [Sender -> 0..Limit]
  /\ queue \in [1..(MaxReset + 1) -> Seq(Conn)]
  /\ cooling \in BOOLEAN /\ conn \in [Conn -> ConnState] /\ events \in 0..MaxEvent

Settled == {i \in DOMAIN begun : begun[i].settled /\ begun[i].admitted}

Marked(i) == IsMarked(begun[i].cfg, begun[i].sender)

\* An eligible explicit wake by a sender who is not marked.
Restores(i) ==
  i \in Settled /\ ~Marked(i) /\ begun[i].eligible /\ begun[i].wake = "explicit"

\* The start of the current budget, as the whitepaper states it: a restoring
\* wake, or a change of settings.
BudgetStart ==
  LET Before(i) == {j \in Settled : j < i}
      Starts(i) == Restores(i) \/ Before(i) = {} \/ begun[Max(Before(i))].cfg # begun[i].cfg
  IN Max({0} \cup {i \in Settled : Starts(i)})

\* Events are settled in their order of arrival, whichever check ends first,
\* and the counts are those of that order ("records ingress order across
\* connections sharing a session", session.go, BeginBotLoop): the requests of
\* each marked sender since the last restoring wake or change of settings.
\* Events that are refused, and events from before a reset, leave no trace.
InIngressOrder ==
  /\ \A i, j \in DOMAIN begun : i < j /\ begun[j].settled => begun[i].settled
  /\ \A s \in Sender :
       LET counted == {i \in Settled : i >= BudgetStart /\ begun[i].sender = s
                                       /\ Marked(i) /\ begun[i].eligible}
       IN turns[s] = Min({Limit, Cardinality(counted)})

\* In hard mode a marked sender is answered at most Limit times since the last
\* wake that restores the budgets, under each revision of the settings.
BudgetKept ==
  LET last == Max({0} \cup {i \in DOMAIN begun : Restores(i)})
      Answered(s, r) == {i \in DOMAIN begun : i > last /\ begun[i].answered /\ begun[i].cfg = r
                                              /\ begun[i].sender = s /\ Marked(i)}
  IN \A s \in Sender, r \in Hard : Cardinality(Answered(s, r)) <= Limit

\* "only an effective explicit wake by an unmarked user restores the budgets"
\* (whitepaper/general.md): in hard mode a marked sender is answered at most
\* Limit times between two such wakes under the same settings.  An event that
\* read the settings before a change and took its place after it clears the
\* counts once more; this is for events in the order of the revisions.
HardLimit ==
  (\A i, j \in DOMAIN begun : i < j => begun[i].cfg <= begun[j].cfg) => BudgetKept

\* Of the pokes that were read while no cooldown ran, one is answered; during
\* the cooldown it starts, none is ("atomic admission", poke.go, Gate).
PokeIsSpaced ==
  \A c \in Conn :
    cooling /\ conn[c].pc = "settling" /\ conn'[c].pc = "settled" => ~conn'[c].wokenByPoke
=============================================================================
