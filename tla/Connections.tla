---------------------------- MODULE Connections ----------------------------
(***************************************************************************)
(* The connections of one adapter, from the handshake to the end of the    *)
(* work they started (internal/adapter/onebot, astrbot), the client that   *)
(* keeps one outbound connection (wsclient), the heartbeat, and the scope  *)
(* that admits work until the runtime stops (runtimescope).                *)
(*                                                                         *)
(* A connection has a goroutine that reads, one that sends pings, and one  *)
(* for every event it answers. A slot of Conn is used again when its       *)
(* connection has ended.                                                   *)
(***************************************************************************)
EXTENDS Naturals, FiniteSets, FiniteSetsExt

CONSTANTS Conn,       \* slots for connections
          MaxTurn,    \* bound on the events a connection answers at one time
          PongBudget, \* time a connection may spend reading without a pong
          MaxRetry    \* longest pause between two dials; the first is 1

ASSUME ConnectionsAssumption ==
  /\ IsFiniteSet(Conn)
  /\ MaxTurn \in Nat \ {0} /\ PongBudget \in Nat \ {0} /\ MaxRetry \in Nat \ {0}

VARIABLES
  mode,     \* wsclient.Config.Mode: "reverse" accepts, "forward" dials
  scope,    \* Scope: stopped, and wg, the work that was admitted
  adapter,  \* Adapter: stopped, conns, clientRunning
  client,   \* RunClient: pc, cancelled, retry, and the slot it serves
  conn,     \* the connections
  sessions, \* connections whose mock sessions the SessionManager holds
  stop      \* how far Runtime.Stop is

vars == <<mode, scope, adapter, client, conn, sessions, stop>>

None == [pc |-> "none", kind |-> "inbound", closed |-> TRUE, beat |-> FALSE,
         budget |-> 0, mute |-> FALSE, turns |-> 0]
Off == [pc |-> "off", cancelled |-> FALSE, retry |-> 1, slot |-> {}]

Init ==
  /\ mode \in {"reverse", "forward"}
  /\ scope = [stopped |-> FALSE, wg |-> 0]
  /\ adapter = [stopped |-> FALSE, conns |-> {}, running |-> FALSE]
  /\ client = Off
  /\ conn = [c \in Conn |-> None]
  /\ sessions = {}
  /\ stop = "no"

(* --- Scope ---------------------------------------------------------------- *)

\* Enter admits work until Cancel
Enter == ~scope.stopped
Admitted == [scope EXCEPT !.wg = @ + 1]
Left(n) == [scope EXCEPT !.wg = @ - n]

(* --- a connection --------------------------------------------------------- *)

Closed(x) == [x EXCEPT !.closed = TRUE]
Go(c, pc) == conn' = [conn EXCEPT ![c].pc = pc]
Open(kind) == [None EXCEPT !.pc = "open", !.kind = kind, !.closed = FALSE, !.budget = PongBudget]

\* Handler: a real peer only in reverse mode, a mock one always
Accept(c, kind) ==
  /\ conn[c].pc = "none" /\ kind \in {"inbound", "mock"}
  /\ kind = "inbound" => mode = "reverse"
  /\ Enter
  /\ scope' = Admitted
  /\ conn' = [conn EXCEPT ![c] = Open(kind)]
  /\ UNCHANGED <<mode, adapter, client, sessions, stop>>

\* mutant: an adapter that has stopped still registers
RegistersAlways(c) ==
  /\ adapter' = [adapter EXCEPT !.conns = @ \cup {c}]
  /\ Go(c, "registered")
\* registerConn: an adapter that has stopped closes the connection instead
RegisterConn(c) ==
  IF adapter.stopped
  THEN conn' = [conn EXCEPT ![c] = [Closed(@) EXCEPT !.pc = "registered"]] /\ UNCHANGED adapter
  ELSE Go(c, "registered") /\ adapter' = [adapter EXCEPT !.conns = @ \cup {c}]

Register(c) ==
  /\ conn[c].pc = "open"
  /\ RegisterConn(c)
  /\ UNCHANGED <<mode, scope, client, sessions, stop>>

\* the check of the engine's context, then heartbeat.Start
StartReading(c) ==
  /\ conn[c].pc = "registered"
  /\ conn' = [conn EXCEPT ![c].closed = @ \/ scope.stopped, ![c].pc = "reading", ![c].beat = TRUE]
  /\ UNCHANGED <<mode, scope, adapter, client, sessions, stop>>

\* mutant: data of the peer count as a sign of life
DataKeepsAlive(x) == PongBudget
\* Reader.ReadMessage: what is left of the time for the next pong
Remaining(x) == x.budget

\* An event that will be answered is read. A mock session is created, by ReserveSequenceTurn.
ReadEvent(c) ==
  /\ conn[c].pc = "reading" /\ ~conn[c].closed /\ conn[c].budget > 0 /\ conn[c].turns < MaxTurn
  /\ conn' = [conn EXCEPT ![c].pc = "handling", ![c].budget = Remaining(conn[c])]
  /\ sessions' = IF conn[c].kind = "mock" THEN sessions \cup {c} ELSE sessions
  /\ UNCHANGED <<mode, scope, adapter, client, stop>>

\* engine.Go, which refuses after Cancel
StartTurn(c) ==
  /\ conn[c].pc = "handling"
  /\ conn' = [conn EXCEPT ![c].pc = "reading", ![c].turns = IF Enter THEN @ + 1 ELSE @]
  /\ scope' = IF Enter THEN Admitted ELSE scope
  /\ UNCHANGED <<mode, adapter, client, sessions, stop>>

\* processEvent looks the session up, and creates it if need be
TouchSession(c) ==
  /\ conn[c].turns > 0 /\ conn[c].kind = "mock"
  /\ sessions' = sessions \cup {c}
  /\ UNCHANGED <<mode, scope, adapter, client, conn, stop>>

EndTurn(c) ==
  /\ conn[c].turns > 0
  /\ conn' = [conn EXCEPT ![c].turns = @ - 1]
  /\ scope' = Left(1)
  /\ UNCHANGED <<mode, adapter, client, sessions, stop>>

\* the peer stops answering pings, whatever else it sends
PeerFallsMute(c) ==
  /\ conn[c].pc # "none" /\ ~conn[c].mute
  /\ conn' = [conn EXCEPT ![c].mute = TRUE]
  /\ UNCHANGED <<mode, scope, adapter, client, sessions, stop>>

\* the pong handler renews the budget
Pong(c) ==
  /\ conn[c].pc = "reading" /\ ~conn[c].closed /\ ~conn[c].mute /\ conn[c].budget > 0
  /\ conn[c].budget < PongBudget
  /\ conn' = [conn EXCEPT ![c].budget = PongBudget]
  /\ UNCHANGED <<mode, scope, adapter, client, sessions, stop>>

\* time passes in ReadMessage; handling an event costs nothing of the budget
Tick(c) ==
  /\ conn[c].pc = "reading" /\ conn[c].budget > 0
  /\ conn' = [conn EXCEPT ![c].budget = @ - 1]
  /\ UNCHANGED <<mode, scope, adapter, client, sessions, stop>>

\* the socket is closed, the peer is gone, or the deadline has passed
ReadFails(c) ==
  /\ conn[c].pc = "reading"
  /\ Go(c, "leaving")
  /\ UNCHANGED <<mode, scope, adapter, client, sessions, stop>>

\* The goroutine of the heartbeat ends, because the connection, the scope or Reader.Close
\* cancelled it or because a ping failed, and closes the connection.
BeatEnds(c) ==
  /\ conn[c].beat
  /\ conn' = [conn EXCEPT ![c] = [Closed(@) EXCEPT !.beat = FALSE]]
  /\ UNCHANGED <<mode, scope, adapter, client, sessions, stop>>

\* Reader.Close has waited for the heartbeat; unregisterConn and Close
Unregister(c) ==
  /\ conn[c].pc = "leaving" /\ ~conn[c].beat
  /\ conn' = [conn EXCEPT ![c] = [Closed(@) EXCEPT !.pc = "draining"]]
  /\ adapter' = [adapter EXCEPT !.conns = @ \ {c}]
  /\ UNCHANGED <<mode, scope, client, sessions, stop>>

\* inFlight.Wait
InFlightDone(c) == conn[c].turns = 0

\* The mock sessions are deleted, and serveConnection returns: to the handler, which leaves
\* the scope, or to the client.
EndServing(c) ==
  /\ conn[c].pc = "draining" /\ InFlightDone(c)
  /\ sessions' = sessions \ {c}
  /\ conn' = [conn EXCEPT ![c] = None]
  /\ scope' = IF conn[c].kind = "client" THEN scope ELSE Left(1)
  /\ UNCHANGED <<mode, adapter, client, stop>>

(* --- the outbound client -------------------------------------------------- *)

\* the context of RunClient, a child of the scope's
Cancelled == client.cancelled \/ scope.stopped
ClientGo(pc) == client' = [client EXCEPT !.pc = pc]

\* Runtime.StartBackground, once, in forward mode
StartBackground ==
  /\ client.pc = "off" /\ mode = "forward" /\ Enter
  /\ scope' = Admitted
  /\ ClientGo("starting")
  /\ UNCHANGED <<mode, adapter, conn, sessions, stop>>

\* RunClient: an adapter that has stopped does not start, and there is one loop
ClientClaims ==
  /\ client.pc = "starting"
  /\ IF adapter.stopped \/ adapter.running
     THEN ClientGo("ended") /\ scope' = Left(1) /\ UNCHANGED adapter
     ELSE ClientGo("entering") /\ adapter' = [adapter EXCEPT !.running = TRUE] /\ UNCHANGED scope
  /\ UNCHANGED <<mode, conn, sessions, stop>>

ClientEnters ==
  /\ client.pc = "entering"
  /\ scope' = IF Enter THEN Admitted ELSE scope
  /\ ClientGo(IF Enter THEN "dialing" ELSE "refused")
  /\ UNCHANGED <<mode, adapter, conn, sessions, stop>>

\* the dial succeeds; a connection that comes too late is closed at once
DialSucceeds(c) ==
  /\ client.pc = "dialing" /\ conn[c].pc = "none" /\ ~Cancelled
  /\ conn' = [conn EXCEPT ![c] = Open("client")]
  /\ client' = [client EXCEPT !.pc = "serving", !.slot = {c}]
  /\ UNCHANGED <<mode, scope, adapter, sessions, stop>>

DialFails ==
  /\ client.pc = "dialing"
  /\ ClientGo(IF Cancelled THEN "returning" ELSE "pausing")
  /\ UNCHANGED <<mode, scope, adapter, conn, sessions, stop>>

\* context.AfterFunc(ctx, wsConn.Close) in serveConnection
ContextCloses(c) ==
  /\ client.slot = {c} /\ Cancelled /\ ~conn[c].closed
  /\ conn' = [conn EXCEPT ![c] = Closed(@)]
  /\ UNCHANGED <<mode, scope, adapter, client, sessions, stop>>

\* serve returned; a connection that was stable resets the pause
ServeReturns ==
  /\ client.pc = "serving" /\ \A c \in client.slot : conn[c].pc = "none"
  /\ \E retry \in {1, client.retry} :
       client' = [client EXCEPT !.pc = IF Cancelled THEN "returning" ELSE "pausing",
                                !.slot = {}, !.retry = retry]
  /\ UNCHANGED <<mode, scope, adapter, conn, sessions, stop>>

\* mutant: the pause grows without limit
DoubleAlways(retry) == 2 * retry
Backoff(retry) == Min({2 * retry, MaxRetry})

PauseEnds ==
  /\ client.pc = "pausing"
  /\ client' = [client EXCEPT !.pc = IF Cancelled THEN "returning" ELSE "dialing", !.retry = Backoff(@)]
  /\ UNCHANGED <<mode, scope, adapter, conn, sessions, stop>>

\* the deferred functions of RunClient, then the one of Scope.Go
ClientReturns ==
  /\ client.pc \in {"returning", "refused"}
  /\ scope' = Left(IF client.pc = "returning" THEN 2 ELSE 1)
  /\ adapter' = [adapter EXCEPT !.running = FALSE]
  /\ client' = [Off EXCEPT !.pc = "ended"]
  /\ UNCHANGED <<mode, conn, sessions, stop>>

(* --- Runtime.Stop --------------------------------------------------------- *)

Cancel ==
  /\ stop = "no"
  /\ scope' = [scope EXCEPT !.stopped = TRUE]
  /\ stop' = "cancelled"
  /\ UNCHANGED <<mode, adapter, client, conn, sessions>>

CloseConnections ==
  /\ stop = "cancelled"
  /\ adapter' = [adapter EXCEPT !.stopped = TRUE]
  /\ client' = [client EXCEPT !.cancelled = adapter.running]
  /\ conn' = [c \in Conn |-> IF c \in adapter.conns THEN Closed(conn[c]) ELSE conn[c]]
  /\ stop' = "waiting"
  /\ UNCHANGED <<mode, scope, sessions>>

\* Scope.Wait
StopReturns ==
  /\ stop = "waiting" /\ scope.wg = 0
  /\ stop' = "stopped"
  /\ UNCHANGED <<mode, scope, adapter, client, conn, sessions>>

(* --- specification -------------------------------------------------------- *)

Step(c) ==
  \/ Register(c) \/ StartReading(c) \/ StartTurn(c) \/ EndTurn(c)
  \/ Unregister(c) \/ EndServing(c) \/ ContextCloses(c)
\* what makes the heartbeat and the reader give up, besides the peer
BeatMustEnd(c) == conn[c].closed \/ scope.stopped \/ conn[c].pc = "leaving"
ReadMustFail(c) == conn[c].closed \/ conn[c].budget = 0

ClientStep ==
  \/ ClientClaims \/ ClientEnters \/ DialFails \/ ServeReturns \/ PauseEnds \/ ClientReturns

Next ==
  \/ \E c \in Conn :
       \/ \E kind \in {"inbound", "mock"} : Accept(c, kind)
       \/ Step(c) \/ ReadEvent(c) \/ TouchSession(c) \/ PeerFallsMute(c) \/ Pong(c) \/ Tick(c)
       \/ ReadFails(c) \/ BeatEnds(c) \/ DialSucceeds(c)
  \/ StartBackground \/ ClientStep
  \/ Cancel \/ CloseConnections \/ StopReturns

Spec == Init /\ [][Next]_vars

\* Goroutines run, a dial times out, a turn ends. Each wait of the reader takes some time, so
\* Tick is not put off for ever by data that keep coming.
Ends(c) ==
  \/ EndTurn(c) \/ ContextCloses(c)
  \/ BeatMustEnd(c) /\ BeatEnds(c)
  \/ ReadMustFail(c) /\ ReadFails(c)

Fairness ==
  /\ \A c \in Conn : WF_vars(Step(c)) /\ WF_vars(Ends(c)) /\ SF_vars(Tick(c))
  /\ WF_vars(ClientStep)
  /\ WF_vars(CloseConnections \/ StopReturns)

FairSpec == Spec /\ Fairness

(* --- properties ----------------------------------------------------------- *)

\* The state has the shape the code gives it: the pause of the client stays within its limit.
TypeOK ==
  /\ mode \in {"reverse", "forward"}
  /\ scope \in [stopped : BOOLEAN, wg : 0 .. Cardinality(Conn) * (MaxTurn + 1) + 2]
  /\ adapter \in [stopped : BOOLEAN, conns : SUBSET Conn, running : BOOLEAN]
  /\ client \in [pc : {"off", "starting", "entering", "dialing", "serving", "pausing", "returning",
                       "refused", "ended"},
                 cancelled : BOOLEAN, retry : 1 .. MaxRetry, slot : SUBSET Conn]
  /\ conn \in [Conn -> [pc : {"none", "open", "registered", "reading", "handling", "leaving", "draining"},
                        kind : {"inbound", "mock", "client"}, closed : BOOLEAN, beat : BOOLEAN,
                        budget : 0 .. PongBudget, mute : BOOLEAN, turns : 0 .. MaxTurn]]
  /\ sessions \subseteq Conn
  /\ stop \in {"no", "cancelled", "waiting", "stopped"}

\* The work of connections that the scope has admitted: the handler of an accepted connection,
\* number 0, and the turns.
Work ==
  {w \in Conn \X (0 .. MaxTurn) :
     IF w[2] = 0 THEN conn[w[1]].pc # "none" /\ conn[w[1]].kind # "client"
     ELSE w[2] <= conn[w[1]].turns}

\* The work of the client: the goroutine of StartBackground, and RunClient once it has entered.
ClientWork ==
  IF client.pc \in {"off", "ended"} THEN 0
  ELSE IF client.pc \in {"starting", "entering", "refused"} THEN 1 ELSE 2

\* Once Runtime.Stop has returned nothing of the adapter is left: no connection is open or
\* served, no turn runs, the client's loop has ended and no mock session remains. Until then
\* the scope counts exactly the work that is running.
StopIsComplete ==
  /\ stop = "stopped" =>
       /\ \A c \in Conn : conn[c].pc = "none" /\ conn[c].turns = 0 /\ ~conn[c].beat
       /\ client.pc \in {"off", "ended"} /\ ~adapter.running
       /\ adapter.conns = {} /\ sessions = {}
  /\ scope.wg = Cardinality(Work) + ClientWork

\* CloseConnections misses no connection: one that it did not find registered closes itself
\* when it registers, so after it only a connection that has not registered yet is open. And
\* there is one outbound connection at most, in forward mode only.
NoneEscapesClose ==
  /\ adapter.stopped => \A c \in Conn : conn[c].pc \in {"none", "open"} \/ conn[c].closed
  /\ \A c \in Conn : conn[c].pc # "none" /\ conn[c].kind = "client" =>
       mode = "forward" /\ client.slot = {c}
  /\ \A c \in Conn : conn[c].pc = "none" => c \notin adapter.conns /\ c \notin sessions

\* Runtime.Stop waits for everything the adapter has started and leaves nothing open behind it
\* (Scope.Enter, registerConn, CloseConnections, Scope.Wait).
StopLeavesNothing == StopIsComplete /\ NoneEscapesClose

\* A connection whose peer answers no ping ends, although the peer may go on sending events; the
\* client dials again after a failure until it is cancelled; and Runtime.Stop returns.
ConnectionsEnd ==
  /\ \A c \in Conn : conn[c].mute ~> conn[c].pc = "none"
  /\ client.pc = "pausing" ~> client.pc \in {"dialing", "returning"}
  /\ stop = "cancelled" ~> stop = "stopped"
=============================================================================
