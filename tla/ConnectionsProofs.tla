------------------------- MODULE ConnectionsProofs -------------------------
(***************************************************************************)
(* StopLeavesNothing for every number of connections, turns and retries.   *)
(*                                                                         *)
(* The argument has two parts.  Between its registration and its departure *)
(* a connection is in the list that CloseConnections walks through, unless *)
(* it is closed already (IInv).  And the count of the scope is the number  *)
(* of pieces of work that are running, so that it is down to 0 only when   *)
(* nothing runs (CInv).                                                    *)
(***************************************************************************)
EXTENDS Connections, FiniteSetTheorems, TLAPS

Served == {"registered", "reading", "handling", "leaving"}

Connection ==
  [pc : Served \cup {"none", "open", "draining"}, kind : {"inbound", "mock", "client"},
   closed : BOOLEAN, beat : BOOLEAN, budget : 0 .. PongBudget, mute : BOOLEAN, turns : Nat]

\* What TypeOK says, without the bounds on the work in progress.
Rest ==
  /\ mode \in {"reverse", "forward"}
  /\ scope \in [stopped : BOOLEAN, wg : Int]
  /\ adapter \in [stopped : BOOLEAN, conns : SUBSET Conn, running : BOOLEAN]
  /\ client \in [pc : {"off", "starting", "entering", "dialing", "serving", "pausing", "returning",
                       "refused", "ended"},
                 cancelled : BOOLEAN, retry : 1 .. MaxRetry, slot : SUBSET Conn]
  /\ sessions \in SUBSET Conn
Typed == Rest /\ conn \in [Conn -> Connection]

\* A connection that is served is listed or closed, and only such a one is listed.
Listed ==
  /\ \A c \in Conn : conn[c].pc \in Served => c \in adapter.conns \/ conn[c].closed
  /\ \A c \in adapter.conns : conn[c].pc \in Served
  /\ \A c \in Conn : conn[c].pc = "draining" => conn[c].closed
  /\ adapter.stopped => \A c \in adapter.conns : conn[c].closed

\* Only the client's loop serves an outbound connection, one at a time.
Outbound ==
  /\ \A c \in Conn : conn[c].pc # "none" /\ conn[c].kind = "client" => client.slot = {c}
  /\ client.slot # {} => client.pc = "serving"
  /\ client.pc # "off" => mode = "forward"

\* Turns and mock sessions belong to connections that have not ended.
Owned ==
  /\ \A c \in sessions : conn[c].pc # "none"
  /\ \A c \in Conn : conn[c].turns > 0 => conn[c].pc # "none"

\* The inductive invariant.
IInv == Typed /\ Listed /\ Outbound /\ Owned

\* The pause after a dial stays within its limit (wsclient.run).
LEMMA BackoffBounded ==
  ASSUME NEW retry \in 1 .. MaxRetry PROVE Backoff(retry) \in 1 .. MaxRetry
<1>1. 2 * retry \in Int /\ MaxRetry \in Int /\ 2 * retry >= 1 /\ MaxRetry >= 1
  BY ConnectionsAssumption
<1>2. \E x \in {2 * retry, MaxRetry} : \A y \in {2 * retry, MaxRetry} : x <= y
  BY <1>1
<1>3. Backoff(retry) \in {2 * retry, MaxRetry} /\ \A y \in {2 * retry, MaxRetry} : Backoff(retry) <= y
  BY <1>2 DEF Backoff, Min
<1> QED
  BY <1>1, <1>3

\* A slot without and with a new connection.
LEMMA NewConnection ==
  None \in Connection /\ \A kind \in {"inbound", "mock", "client"} : Open(kind) \in Connection
<1>1. None \in Connection
  BY ConnectionsAssumption DEF None, Connection
<1>2. PongBudget \in 0 .. PongBudget
  BY ConnectionsAssumption
<1> QED
  BY <1>1, <1>2 DEF Open, Connection

\* The invariant holds before the first connection.
LEMMA InitInv == Init => IInv
  BY NewConnection, ConnectionsAssumption DEF Init, IInv, Typed, Rest, Listed, Outbound, Owned, None, Off, Served

\* The steps of one connection.
LEMMA ConnectionStep ==
  ASSUME IInv, NEW c \in Conn,
         Step(c) \/ ReadEvent(c) \/ TouchSession(c) \/ PeerFallsMute(c) \/ Pong(c) \/ Tick(c)
           \/ ReadFails(c) \/ BeatEnds(c) \/ DialSucceeds(c)
           \/ \E kind \in {"inbound", "mock"} : Accept(c, kind)
  PROVE  IInv'
<1> USE ConnectionsAssumption DEF IInv
<1>1. ASSUME NEW kind \in {"inbound", "mock"}, Accept(c, kind) PROVE IInv'
  <2> DEFINE new == Open(kind)
  <2>1. conn' = [conn EXCEPT ![c] = new]
    BY <1>1 DEF Accept, Admitted, Enter, Typed, Connection
  <2>2. conn[c] \in Connection
    BY DEF Typed
  <2>3. new \in Connection
    BY NewConnection, <1>1, <2>2 DEF Accept, Admitted, Enter, Connection, Served
  <2>4. Rest'
    BY <1>1 DEF Accept, Admitted, Enter, Typed, Rest
  <2>5. conn' \in [Conn -> Connection]
    <3> HIDE DEF new
    <3> QED
      BY <2>1, <2>3 DEF Typed
  <2>6. Listed'
    BY <1>1, <2>1, <2>4, <2>5 DEF Accept, Admitted, Enter, Open, None, Typed, Rest, Connection, Served, Listed
  <2>7. Outbound'
    BY <1>1, <2>1, <2>4, <2>5 DEF Accept, Admitted, Enter, Open, None, Typed, Rest, Connection, Served, Outbound
  <2>8. Owned'
    BY <1>1, <2>1, <2>4, <2>5 DEF Accept, Admitted, Enter, Open, None, Typed, Rest, Connection, Served, Owned
  <2> QED
    BY <2>4, <2>5, <2>6, <2>7, <2>8 DEF Typed
<1>2. CASE Register(c)
  <2> DEFINE new == IF adapter.stopped THEN [Closed(conn[c]) EXCEPT !.pc = "registered"] ELSE [conn[c] EXCEPT !.pc = "registered"]
  <2>1. conn' = [conn EXCEPT ![c] = new]
    BY <1>2 DEF Register, RegisterConn, Go, Typed, Connection
  <2>2. conn[c] \in Connection
    BY DEF Typed
  <2>3. new \in Connection
    BY NewConnection, <1>2, <2>2 DEF Register, RegisterConn, Go, Closed, Connection, Served
  <2>4. Rest'
    BY <1>2 DEF Register, RegisterConn, Go, Typed, Rest
  <2>5. conn' \in [Conn -> Connection]
    <3> HIDE DEF new
    <3> QED
      BY <2>1, <2>3 DEF Typed
  <2>6. Listed'
    BY <1>2, <2>1, <2>4, <2>5 DEF Register, RegisterConn, Go, Closed, Typed, Rest, Connection, Served, Listed
  <2>7. Outbound'
    BY <1>2, <2>1, <2>4, <2>5 DEF Register, RegisterConn, Go, Closed, Typed, Rest, Connection, Served, Outbound
  <2>8. Owned'
    BY <1>2, <2>1, <2>4, <2>5 DEF Register, RegisterConn, Go, Closed, Typed, Rest, Connection, Served, Owned
  <2> QED
    BY <2>4, <2>5, <2>6, <2>7, <2>8 DEF Typed
<1>3. CASE StartReading(c)
  <2> DEFINE new == [conn[c] EXCEPT !.closed = @ \/ scope.stopped, !.pc = "reading", !.beat = TRUE]
  <2>1. conn' = [conn EXCEPT ![c] = new]
    BY <1>3 DEF StartReading, Typed, Connection
  <2>2. conn[c] \in Connection
    BY DEF Typed
  <2>3. new \in Connection
    BY NewConnection, <1>3, <2>2 DEF StartReading, Connection, Served
  <2>4. Rest'
    BY <1>3 DEF StartReading, Typed, Rest
  <2>5. conn' \in [Conn -> Connection]
    <3> HIDE DEF new
    <3> QED
      BY <2>1, <2>3 DEF Typed
  <2>6. Listed'
    BY <1>3, <2>1, <2>4, <2>5 DEF StartReading, Typed, Rest, Connection, Served, Listed
  <2>7. Outbound'
    BY <1>3, <2>1, <2>4, <2>5 DEF StartReading, Typed, Rest, Connection, Served, Outbound
  <2>8. Owned'
    BY <1>3, <2>1, <2>4, <2>5 DEF StartReading, Typed, Rest, Connection, Served, Owned
  <2> QED
    BY <2>4, <2>5, <2>6, <2>7, <2>8 DEF Typed
<1>4. CASE StartTurn(c)
  <2> DEFINE new == [conn[c] EXCEPT !.pc = "reading", !.turns = IF Enter THEN @ + 1 ELSE @]
  <2>1. conn' = [conn EXCEPT ![c] = new]
    BY <1>4 DEF StartTurn, Admitted, Enter, Typed, Connection
  <2>2. conn[c] \in Connection
    BY DEF Typed
  <2>3. new \in Connection
    <3>1. (IF Enter THEN conn[c].turns + 1 ELSE conn[c].turns) \in Nat
      BY <2>2 DEF Connection
    <3> QED
      BY <2>2, <3>1 DEF Connection, Served
  <2>4. Rest'
    BY <1>4 DEF StartTurn, Admitted, Enter, Typed, Rest
  <2>5. conn' \in [Conn -> Connection]
    <3> HIDE DEF new
    <3> QED
      BY <2>1, <2>3 DEF Typed
  <2>6. Listed'
    BY <1>4, <2>1, <2>4, <2>5 DEF StartTurn, Admitted, Enter, Typed, Rest, Connection, Served, Listed
  <2>7. Outbound'
    BY <1>4, <2>1, <2>4, <2>5 DEF StartTurn, Admitted, Enter, Typed, Rest, Connection, Served, Outbound
  <2>8. Owned'
    BY <1>4, <2>1, <2>4, <2>5 DEF StartTurn, Admitted, Enter, Typed, Rest, Connection, Served, Owned
  <2> QED
    BY <2>4, <2>5, <2>6, <2>7, <2>8 DEF Typed
<1>5. CASE EndTurn(c)
  <2> DEFINE new == [conn[c] EXCEPT !.turns = @ - 1]
  <2>1. conn' = [conn EXCEPT ![c] = new]
    BY <1>5 DEF EndTurn, Left, Typed, Connection
  <2>2. conn[c] \in Connection
    BY DEF Typed
  <2>3. new \in Connection
    BY NewConnection, <1>5, <2>2 DEF EndTurn, Left, Connection, Served
  <2>4. Rest'
    BY <1>5 DEF EndTurn, Left, Typed, Rest
  <2>5. conn' \in [Conn -> Connection]
    <3> HIDE DEF new
    <3> QED
      BY <2>1, <2>3 DEF Typed
  <2>6. Listed'
    BY <1>5, <2>1, <2>4, <2>5 DEF EndTurn, Left, Typed, Rest, Connection, Served, Listed
  <2>7. Outbound'
    BY <1>5, <2>1, <2>4, <2>5 DEF EndTurn, Left, Typed, Rest, Connection, Served, Outbound
  <2>8. Owned'
    BY <1>5, <2>1, <2>4, <2>5 DEF EndTurn, Left, Typed, Rest, Connection, Served, Owned
  <2> QED
    BY <2>4, <2>5, <2>6, <2>7, <2>8 DEF Typed
<1>6. CASE Unregister(c)
  <2> DEFINE new == [Closed(conn[c]) EXCEPT !.pc = "draining"]
  <2>1. conn' = [conn EXCEPT ![c] = new]
    BY <1>6 DEF Unregister, Typed, Connection
  <2>2. conn[c] \in Connection
    BY DEF Typed
  <2>3. new \in Connection
    BY NewConnection, <1>6, <2>2 DEF Unregister, Closed, Connection, Served
  <2>4. Rest'
    BY <1>6 DEF Unregister, Typed, Rest
  <2>5. conn' \in [Conn -> Connection]
    <3> HIDE DEF new
    <3> QED
      BY <2>1, <2>3 DEF Typed
  <2>6. Listed'
    BY <1>6, <2>1, <2>4, <2>5 DEF Unregister, Closed, Typed, Rest, Connection, Served, Listed
  <2>7. Outbound'
    BY <1>6, <2>1, <2>4, <2>5 DEF Unregister, Closed, Typed, Rest, Connection, Served, Outbound
  <2>8. Owned'
    BY <1>6, <2>1, <2>4, <2>5 DEF Unregister, Closed, Typed, Rest, Connection, Served, Owned
  <2> QED
    BY <2>4, <2>5, <2>6, <2>7, <2>8 DEF Typed
<1>7. CASE EndServing(c)
  <2> DEFINE new == None
  <2>1. conn' = [conn EXCEPT ![c] = new]
    BY <1>7 DEF EndServing, InFlightDone, Left, Typed, Connection
  <2>2. conn[c] \in Connection
    BY DEF Typed
  <2>3. new \in Connection
    BY NewConnection, <1>7, <2>2 DEF EndServing, InFlightDone, Left, Connection, Served
  <2>4. Rest'
    BY <1>7 DEF EndServing, InFlightDone, Left, Typed, Rest
  <2>5. conn' \in [Conn -> Connection]
    <3> HIDE DEF new
    <3> QED
      BY <2>1, <2>3 DEF Typed
  <2>6. Listed'
    BY <1>7, <2>1, <2>4, <2>5 DEF EndServing, InFlightDone, Left, None, Typed, Rest, Connection, Served, Listed
  <2>7. Outbound'
    BY <1>7, <2>1, <2>4, <2>5 DEF EndServing, InFlightDone, Left, None, Typed, Rest, Connection, Served, Outbound
  <2>8. Owned'
    BY <1>7, <2>1, <2>4, <2>5 DEF EndServing, InFlightDone, Left, None, Typed, Rest, Connection, Served, Owned
  <2> QED
    BY <2>4, <2>5, <2>6, <2>7, <2>8 DEF Typed
<1>8. CASE ContextCloses(c)
  <2> DEFINE new == Closed(conn[c])
  <2>1. conn' = [conn EXCEPT ![c] = new]
    BY <1>8 DEF ContextCloses, Typed, Connection
  <2>2. conn[c] \in Connection
    BY DEF Typed
  <2>3. new \in Connection
    BY NewConnection, <1>8, <2>2 DEF ContextCloses, Closed, Connection, Served
  <2>4. Rest'
    BY <1>8 DEF ContextCloses, Typed, Rest
  <2>5. conn' \in [Conn -> Connection]
    <3> HIDE DEF new
    <3> QED
      BY <2>1, <2>3 DEF Typed
  <2>6. Listed'
    BY <1>8, <2>1, <2>4, <2>5 DEF ContextCloses, Closed, Typed, Rest, Connection, Served, Listed
  <2>7. Outbound'
    BY <1>8, <2>1, <2>4, <2>5 DEF ContextCloses, Closed, Typed, Rest, Connection, Served, Outbound
  <2>8. Owned'
    BY <1>8, <2>1, <2>4, <2>5 DEF ContextCloses, Closed, Typed, Rest, Connection, Served, Owned
  <2> QED
    BY <2>4, <2>5, <2>6, <2>7, <2>8 DEF Typed
<1>9. CASE ReadEvent(c)
  <2> DEFINE new == [conn[c] EXCEPT !.pc = "handling", !.budget = Remaining(conn[c])]
  <2>1. conn' = [conn EXCEPT ![c] = new]
    BY <1>9 DEF ReadEvent, Typed, Connection
  <2>2. conn[c] \in Connection
    BY DEF Typed
  <2>3. new \in Connection
    BY NewConnection, <1>9, <2>2 DEF ReadEvent, Remaining, Connection, Served
  <2>4. Rest'
    BY <1>9 DEF ReadEvent, Typed, Rest
  <2>5. conn' \in [Conn -> Connection]
    <3> HIDE DEF new
    <3> QED
      BY <2>1, <2>3 DEF Typed
  <2>6. Listed'
    BY <1>9, <2>1, <2>4, <2>5 DEF ReadEvent, Remaining, Typed, Rest, Connection, Served, Listed
  <2>7. Outbound'
    BY <1>9, <2>1, <2>4, <2>5 DEF ReadEvent, Remaining, Typed, Rest, Connection, Served, Outbound
  <2>8. Owned'
    BY <1>9, <2>1, <2>4, <2>5 DEF ReadEvent, Remaining, Typed, Rest, Connection, Served, Owned
  <2> QED
    BY <2>4, <2>5, <2>6, <2>7, <2>8 DEF Typed
<1>10. CASE TouchSession(c)
  <2> DEFINE new == conn[c]
  <2>1. conn' = [conn EXCEPT ![c] = new]
    BY <1>10 DEF TouchSession, Typed, Connection
  <2>2. conn[c] \in Connection
    BY DEF Typed
  <2>3. new \in Connection
    BY NewConnection, <1>10, <2>2 DEF TouchSession, Connection, Served
  <2>4. Rest'
    BY <1>10 DEF TouchSession, Typed, Rest
  <2>5. conn' \in [Conn -> Connection]
    <3> HIDE DEF new
    <3> QED
      BY <2>1, <2>3 DEF Typed
  <2>6. Listed'
    BY <1>10, <2>1, <2>4, <2>5 DEF TouchSession, Typed, Rest, Connection, Served, Listed
  <2>7. Outbound'
    BY <1>10, <2>1, <2>4, <2>5 DEF TouchSession, Typed, Rest, Connection, Served, Outbound
  <2>8. Owned'
    BY <1>10, <2>1, <2>4, <2>5 DEF TouchSession, Typed, Rest, Connection, Served, Owned
  <2> QED
    BY <2>4, <2>5, <2>6, <2>7, <2>8 DEF Typed
<1>11. CASE PeerFallsMute(c)
  <2> DEFINE new == [conn[c] EXCEPT !.mute = TRUE]
  <2>1. conn' = [conn EXCEPT ![c] = new]
    BY <1>11 DEF PeerFallsMute, Typed, Connection
  <2>2. conn[c] \in Connection
    BY DEF Typed
  <2>3. new \in Connection
    BY NewConnection, <1>11, <2>2 DEF PeerFallsMute, Connection, Served
  <2>4. Rest'
    BY <1>11 DEF PeerFallsMute, Typed, Rest
  <2>5. conn' \in [Conn -> Connection]
    <3> HIDE DEF new
    <3> QED
      BY <2>1, <2>3 DEF Typed
  <2>6. Listed'
    BY <1>11, <2>1, <2>4, <2>5 DEF PeerFallsMute, Typed, Rest, Connection, Served, Listed
  <2>7. Outbound'
    BY <1>11, <2>1, <2>4, <2>5 DEF PeerFallsMute, Typed, Rest, Connection, Served, Outbound
  <2>8. Owned'
    BY <1>11, <2>1, <2>4, <2>5 DEF PeerFallsMute, Typed, Rest, Connection, Served, Owned
  <2> QED
    BY <2>4, <2>5, <2>6, <2>7, <2>8 DEF Typed
<1>12. CASE Pong(c)
  <2> DEFINE new == [conn[c] EXCEPT !.budget = PongBudget]
  <2>1. conn' = [conn EXCEPT ![c] = new]
    BY <1>12 DEF Pong, Typed, Connection
  <2>2. conn[c] \in Connection
    BY DEF Typed
  <2>3. new \in Connection
    BY NewConnection, <1>12, <2>2 DEF Pong, Connection, Served
  <2>4. Rest'
    BY <1>12 DEF Pong, Typed, Rest
  <2>5. conn' \in [Conn -> Connection]
    <3> HIDE DEF new
    <3> QED
      BY <2>1, <2>3 DEF Typed
  <2>6. Listed'
    BY <1>12, <2>1, <2>4, <2>5 DEF Pong, Typed, Rest, Connection, Served, Listed
  <2>7. Outbound'
    BY <1>12, <2>1, <2>4, <2>5 DEF Pong, Typed, Rest, Connection, Served, Outbound
  <2>8. Owned'
    BY <1>12, <2>1, <2>4, <2>5 DEF Pong, Typed, Rest, Connection, Served, Owned
  <2> QED
    BY <2>4, <2>5, <2>6, <2>7, <2>8 DEF Typed
<1>13. CASE Tick(c)
  <2> DEFINE new == [conn[c] EXCEPT !.budget = @ - 1]
  <2>1. conn' = [conn EXCEPT ![c] = new]
    BY <1>13 DEF Tick, Typed, Connection
  <2>2. conn[c] \in Connection
    BY DEF Typed
  <2>3. new \in Connection
    BY NewConnection, <1>13, <2>2 DEF Tick, Connection, Served
  <2>4. Rest'
    BY <1>13 DEF Tick, Typed, Rest
  <2>5. conn' \in [Conn -> Connection]
    <3> HIDE DEF new
    <3> QED
      BY <2>1, <2>3 DEF Typed
  <2>6. Listed'
    BY <1>13, <2>1, <2>4, <2>5 DEF Tick, Typed, Rest, Connection, Served, Listed
  <2>7. Outbound'
    BY <1>13, <2>1, <2>4, <2>5 DEF Tick, Typed, Rest, Connection, Served, Outbound
  <2>8. Owned'
    BY <1>13, <2>1, <2>4, <2>5 DEF Tick, Typed, Rest, Connection, Served, Owned
  <2> QED
    BY <2>4, <2>5, <2>6, <2>7, <2>8 DEF Typed
<1>14. CASE ReadFails(c)
  <2> DEFINE new == [conn[c] EXCEPT !.pc = "leaving"]
  <2>1. conn' = [conn EXCEPT ![c] = new]
    BY <1>14 DEF ReadFails, Go, Typed, Connection
  <2>2. conn[c] \in Connection
    BY DEF Typed
  <2>3. new \in Connection
    BY NewConnection, <1>14, <2>2 DEF ReadFails, Go, Connection, Served
  <2>4. Rest'
    BY <1>14 DEF ReadFails, Go, Typed, Rest
  <2>5. conn' \in [Conn -> Connection]
    <3> HIDE DEF new
    <3> QED
      BY <2>1, <2>3 DEF Typed
  <2>6. Listed'
    BY <1>14, <2>1, <2>4, <2>5 DEF ReadFails, Go, Typed, Rest, Connection, Served, Listed
  <2>7. Outbound'
    BY <1>14, <2>1, <2>4, <2>5 DEF ReadFails, Go, Typed, Rest, Connection, Served, Outbound
  <2>8. Owned'
    BY <1>14, <2>1, <2>4, <2>5 DEF ReadFails, Go, Typed, Rest, Connection, Served, Owned
  <2> QED
    BY <2>4, <2>5, <2>6, <2>7, <2>8 DEF Typed
<1>15. CASE BeatEnds(c)
  <2> DEFINE new == [Closed(conn[c]) EXCEPT !.beat = FALSE]
  <2>1. conn' = [conn EXCEPT ![c] = new]
    BY <1>15 DEF BeatEnds, Typed, Connection
  <2>2. conn[c] \in Connection
    BY DEF Typed
  <2>3. new \in Connection
    BY NewConnection, <1>15, <2>2 DEF BeatEnds, Closed, Connection, Served
  <2>4. Rest'
    BY <1>15 DEF BeatEnds, Typed, Rest
  <2>5. conn' \in [Conn -> Connection]
    <3> HIDE DEF new
    <3> QED
      BY <2>1, <2>3 DEF Typed
  <2>6. Listed'
    BY <1>15, <2>1, <2>4, <2>5 DEF BeatEnds, Closed, Typed, Rest, Connection, Served, Listed
  <2>7. Outbound'
    BY <1>15, <2>1, <2>4, <2>5 DEF BeatEnds, Closed, Typed, Rest, Connection, Served, Outbound
  <2>8. Owned'
    BY <1>15, <2>1, <2>4, <2>5 DEF BeatEnds, Closed, Typed, Rest, Connection, Served, Owned
  <2> QED
    BY <2>4, <2>5, <2>6, <2>7, <2>8 DEF Typed
<1>16. CASE DialSucceeds(c)
  <2> DEFINE new == Open("client")
  <2>1. conn' = [conn EXCEPT ![c] = new]
    BY <1>16 DEF DialSucceeds, Typed, Connection
  <2>2. conn[c] \in Connection
    BY DEF Typed
  <2>3. new \in Connection
    BY NewConnection, <1>16, <2>2 DEF DialSucceeds, Connection, Served
  <2>4. Rest'
    BY <1>16 DEF DialSucceeds, Typed, Rest
  <2>5. conn' \in [Conn -> Connection]
    <3> HIDE DEF new
    <3> QED
      BY <2>1, <2>3 DEF Typed
  <2>6. Listed'
    BY <1>16, <2>1, <2>4, <2>5 DEF DialSucceeds, Open, None, Typed, Rest, Connection, Served, Listed
  <2>7. Outbound'
    BY <1>16, <2>1, <2>4, <2>5 DEF DialSucceeds, Open, None, Typed, Rest, Connection, Served, Outbound
  <2>8. Owned'
    BY <1>16, <2>1, <2>4, <2>5 DEF DialSucceeds, Open, None, Typed, Rest, Connection, Served, Owned
  <2> QED
    BY <2>4, <2>5, <2>6, <2>7, <2>8 DEF Typed
<1> QED
  BY <1>1, <1>2, <1>3, <1>4, <1>5, <1>6, <1>7, <1>8, <1>9, <1>10, <1>11, <1>12, <1>13, <1>14, <1>15, <1>16 DEF Step

\* The steps of the client's loop and of Runtime.Stop.
LEMMA ClientAndStop ==
  ASSUME IInv, StartBackground \/ ClientStep \/ Cancel \/ CloseConnections \/ StopReturns
  PROVE  IInv'
<1> USE ConnectionsAssumption DEF IInv, Typed, Rest, Outbound, Owned
<1>1. CASE StartBackground
  BY <1>1 DEF StartBackground, ClientGo, Admitted, Listed
<1>2. CASE ClientClaims
  <2>1. Rest'
    <3>1. CASE adapter.stopped \/ adapter.running
      BY <1>2, <3>1 DEF ClientClaims, ClientGo, Left
    <3>2. CASE ~(adapter.stopped \/ adapter.running)
      BY <1>2, <3>2 DEF ClientClaims, ClientGo, Left
    <3> QED
      BY <3>1, <3>2
  <2>2. Listed'
    BY <1>2 DEF ClientClaims, ClientGo, Left, Listed
  <2>3. Outbound'
    BY <1>2 DEF ClientClaims, ClientGo, Left
  <2>4. conn' \in [Conn -> Connection] /\ Owned'
    BY <1>2 DEF ClientClaims, ClientGo, Left, Connection
  <2> QED
    BY <2>1, <2>2, <2>3, <2>4
<1>3. CASE ClientEnters
  BY <1>3 DEF ClientEnters, ClientGo, Admitted, Enter, Listed
<1>4. CASE DialFails
  BY <1>4 DEF DialFails, ClientGo, Listed
<1>5. CASE ServeReturns
  <2>1. Rest'
    <3>1. PICK retry \in {1, client.retry} :
            client' = [client EXCEPT !.pc = IF Cancelled THEN "returning" ELSE "pausing",
                                     !.slot = {}, !.retry = retry]
      BY <1>5 DEF ServeReturns
    <3>2. retry \in 1 .. MaxRetry
      OBVIOUS
    <3>3. (IF Cancelled THEN "returning" ELSE "pausing") \in {"returning", "pausing"}
      OBVIOUS
    <3> QED
      BY <1>5, <3>1, <3>2, <3>3 DEF ServeReturns
  <2>2. Listed'
    BY <1>5 DEF ServeReturns, Listed
  <2>3. Outbound'
    BY <1>5 DEF ServeReturns
  <2>4. conn' \in [Conn -> Connection] /\ Owned'
    BY <1>5 DEF ServeReturns, Connection
  <2> QED
    BY <2>1, <2>2, <2>3, <2>4
<1>6. CASE PauseEnds
  BY <1>6, BackoffBounded DEF PauseEnds, Listed
<1>7. CASE ClientReturns
  <2>1. Rest'
    <3>1. scope.wg - (IF client.pc = "returning" THEN 2 ELSE 1) \in Int
      OBVIOUS
    <3>2. scope' \in [stopped : BOOLEAN, wg : Int]
      BY <1>7, <3>1 DEF ClientReturns, Left
    <3>3. adapter' \in [stopped : BOOLEAN, conns : SUBSET Conn, running : BOOLEAN]
      BY <1>7 DEF ClientReturns
    <3>4. client' = [pc |-> "ended", cancelled |-> FALSE, retry |-> 1, slot |-> {}]
      BY <1>7 DEF ClientReturns, Off
    <3>5. 1 \in 1 .. MaxRetry
      OBVIOUS
    <3>6. mode' = mode /\ sessions' = sessions
      BY <1>7 DEF ClientReturns
    <3> QED
      BY <3>2, <3>3, <3>4, <3>5, <3>6
  <2>2. Listed'
    BY <1>7 DEF ClientReturns, Off, Left, Listed
  <2>3. Outbound'
    BY <1>7 DEF ClientReturns, Off, Left
  <2>4. conn' \in [Conn -> Connection] /\ Owned'
    BY <1>7 DEF ClientReturns, Off, Left, Connection
  <2> QED
    BY <2>1, <2>2, <2>3, <2>4
<1>8. CASE Cancel
  BY <1>8 DEF Cancel, Listed
<1>9. CASE CloseConnections
  <2>1. Rest'
    BY <1>9 DEF CloseConnections, Closed
  <2>2. Listed'
    BY <1>9 DEF CloseConnections, Closed, Listed
  <2>3. Outbound'
    BY <1>9 DEF CloseConnections, Closed
  <2>4. conn' \in [Conn -> Connection] /\ Owned'
    <3>1. \A x \in Connection : Closed(x) \in Connection /\ Closed(x).pc = x.pc /\ Closed(x).turns = x.turns
      BY DEF Closed, Connection
    <3>2. \A c \in Conn : conn'[c] \in Connection /\ conn'[c].pc = conn[c].pc /\ conn'[c].turns = conn[c].turns
      BY <1>9, <3>1 DEF CloseConnections
    <3> QED
      BY <1>9, <3>2 DEF CloseConnections
  <2> QED
    BY <2>1, <2>2, <2>3, <2>4
<1>10. CASE StopReturns
  BY <1>10 DEF StopReturns, Listed
<1> QED
  BY <1>1, <1>2, <1>3, <1>4, <1>5, <1>6, <1>7, <1>8, <1>9, <1>10 DEF ClientStep

\* The invariant is one of every behaviour.
LEMMA Invariant == Spec => []IInv
<1>1. Init => IInv
  BY InitInv
<1>2. IInv /\ [Next]_vars => IInv'
  <2> SUFFICES ASSUME IInv, [Next]_vars PROVE IInv'
    OBVIOUS
  <2>1. CASE UNCHANGED vars
    BY <2>1 DEF vars, IInv, Typed, Rest, Listed, Outbound, Owned
  <2>2. CASE Next
    BY <2>2, ConnectionStep, ClientAndStop DEF Next
  <2> QED
    BY <2>1, <2>2
<1> QED
  BY <1>1, <1>2, PTL DEF Spec

\* After CloseConnections only a connection that has not registered yet is open, there is at
\* most one outbound connection, and a connection that has ended leaves no entry and no mock
\* session behind: for every number of connections, turns and retries.
THEOREM ClosedToTheLast == Spec => []NoneEscapesClose
<1>1. IInv => NoneEscapesClose
  BY DEF IInv, Typed, Rest, Listed, Outbound, Owned, NoneEscapesClose, Connection, Served
<1> QED
  BY <1>1, Invariant, PTL

-----------------------------------------------------------------------------
(* The scope counts the work that is running. *)

\* Turns stay within the bound, because the one that is being started has its place; only a
\* connection that is read has a heartbeat; the adapter knows of the client's loop.
Bounded ==
  /\ \A c \in Conn : conn[c].turns <= MaxTurn /\ (conn[c].pc = "handling" => conn[c].turns < MaxTurn)
  /\ \A c \in Conn : conn[c].beat => conn[c].pc \in {"reading", "handling", "leaving"}
  /\ adapter.running => client.pc \notin {"off", "starting", "ended"}

Counted == scope.wg = Cardinality(Work) + ClientWork

\* Runtime.Stop returns when the count is down, and nothing enters a cancelled scope.
Stopping ==
  /\ stop \in {"no", "cancelled", "waiting", "stopped"}
  /\ stop # "no" => scope.stopped
  /\ stop = "stopped" => scope.wg = 0

\* The handler of an accepted connection is running.
Handled(c) == conn[c].pc # "none" /\ conn[c].kind # "client"

LEMMA WorkIsFinite == IsFiniteSet(Work) /\ Cardinality(Work) \in Nat
<1>1. IsFiniteSet(0 .. MaxTurn)
  BY FS_Interval, ConnectionsAssumption
<1>2. IsFiniteSet(Conn \X (0 .. MaxTurn))
  BY <1>1, FS_Product, ConnectionsAssumption
<1>3. Work \in SUBSET (Conn \X (0 .. MaxTurn))
  BY DEF Work
<1>4. IsFiniteSet(Work)
  BY <1>2, <1>3, FS_Subset
<1> QED
  BY <1>4, FS_CardinalityType

\* What belongs to the work of a connection.
LEMMA WorkOf ==
  ASSUME IInv
  PROVE  /\ Work \subseteq Conn \X (0 .. MaxTurn)
         /\ \A c \in Conn, k \in 0 .. MaxTurn :
              <<c, k>> \in Work <=> IF k = 0 THEN Handled(c) ELSE k <= conn[c].turns
  BY DEF Work, Handled

\* A step that starts no work and ends none.
LEMMA SameWork ==
  ASSUME IInv, IInv',
         \A c \in Conn : conn'[c].turns = conn[c].turns /\ (Handled(c)' <=> Handled(c))
  PROVE  Work' = Work
  BY DEF Work, Handled

\* A step that starts one piece of work, and one that ends one.
LEMMA MoreWork ==
  ASSUME NEW w, w \notin Work, Work' = Work \cup {w}
  PROVE  Cardinality(Work') = Cardinality(Work) + 1
  BY WorkIsFinite, FS_AddElement

LEMMA LessWork ==
  ASSUME NEW w, w \in Work, Work' = Work \ {w}
  PROVE  Cardinality(Work') = Cardinality(Work) - 1
  BY WorkIsFinite, FS_RemoveElement

\* Work is under way while the scope's count is positive.
LEMMA CountIsPositive ==
  ASSUME Counted, Work # {} \/ ClientWork > 0 PROVE scope.wg > 0
<1>1. Work # {} => Cardinality(Work) > 0
  BY WorkIsFinite, FS_EmptySet
<1>2. ClientWork \in 0 .. 2
  BY DEF ClientWork
<1> QED
  BY <1>1, <1>2, WorkIsFinite DEF Counted

\* What the count adds to the inductive invariant.
CInv == Bounded /\ Counted /\ Stopping

\* Neither the count nor the work changes.
LEMMA NeutralStep ==
  ASSUME IInv, CInv, Bounded', Work' = Work, ClientWork' = ClientWork, UNCHANGED <<scope, stop>>
  PROVE  CInv'
  BY DEF CInv, Counted, Stopping

\* The steps of a connection that start and end no work.
LEMMA NeutralConnectionSteps ==
  ASSUME IInv, IInv', CInv, NEW c \in Conn,
         Register(c) \/ StartReading(c) \/ Unregister(c) \/ ContextCloses(c) \/ ReadEvent(c)
           \/ TouchSession(c) \/ PeerFallsMute(c) \/ Pong(c) \/ Tick(c) \/ ReadFails(c) \/ BeatEnds(c)
  PROVE  CInv'
<1> USE DEF CInv
<1>1. UNCHANGED <<scope, stop, client>> /\ (adapter.running)' = adapter.running
  BY DEF Register, RegisterConn, StartReading, Unregister, ContextCloses, ReadEvent, TouchSession,
         PeerFallsMute, Pong, Tick, ReadFails, BeatEnds, IInv, Typed, Rest
<1>2. \A d \in Conn : /\ conn'[d].turns = conn[d].turns
                      /\ conn'[d].kind = conn[d].kind
                      /\ conn'[d].pc = "none" <=> conn[d].pc = "none"
                      /\ conn'[d].pc = "handling" => conn[d].pc = "handling" \/ conn[d].turns < MaxTurn
                      /\ conn'[d].beat => conn'[d].pc \in {"reading", "handling", "leaving"}
  <2> USE DEF IInv, Typed, Connection, Bounded
  <2>1. CASE Register(c)
    <3>1. conn[c].pc = "open" /\ ~conn[c].beat
      BY <2>1 DEF Register
    <3>2. conn' = [conn EXCEPT ![c] = [@ EXCEPT !.pc = "registered", !.closed = TRUE]]
            \/ conn' = [conn EXCEPT ![c] = [@ EXCEPT !.pc = "registered"]]
      BY <2>1 DEF Register, RegisterConn, Go, Closed
    <3>3. conn'[c].turns = conn[c].turns /\ conn'[c].kind = conn[c].kind
            /\ conn'[c].pc = "registered" /\ conn'[c].beat = conn[c].beat
      <4>1. CASE conn' = [conn EXCEPT ![c] = [@ EXCEPT !.pc = "registered", !.closed = TRUE]]
        BY <4>1
      <4>2. CASE conn' = [conn EXCEPT ![c] = [@ EXCEPT !.pc = "registered"]]
        BY <4>2
      <4> QED
        BY <3>2, <4>1, <4>2
    <3>4. \A d \in Conn \ {c} : conn'[d] = conn[d]
      BY <3>2
    <3> QED
      BY <3>1, <3>3, <3>4
  <2>2. CASE StartReading(c)
    BY <2>2 DEF StartReading
  <2>3. CASE Unregister(c)
    BY <2>3 DEF Unregister, Closed
  <2>4. CASE ContextCloses(c)
    BY <2>4 DEF ContextCloses, Closed
  <2>5. CASE ReadEvent(c)
    BY <2>5 DEF ReadEvent
  <2>6. CASE TouchSession(c)
    BY <2>6 DEF TouchSession
  <2>7. CASE PeerFallsMute(c) \/ Pong(c) \/ Tick(c)
    BY <2>7 DEF PeerFallsMute, Pong, Tick
  <2>8. CASE ReadFails(c)
    BY <2>8 DEF ReadFails, Go
  <2>9. CASE BeatEnds(c)
    BY <2>9 DEF BeatEnds, Closed
  <2> QED
    BY <2>1, <2>2, <2>3, <2>4, <2>5, <2>6, <2>7, <2>8, <2>9
<1>3. Bounded'
  BY <1>1, <1>2 DEF Bounded
<1>4. Work' = Work
  BY <1>2, SameWork DEF Handled
<1>5. ClientWork' = ClientWork
  BY <1>1 DEF ClientWork
<1> QED
  BY <1>1, <1>3, <1>4, <1>5, NeutralStep

\* A connection or a turn is admitted while the scope is not cancelled.
LEMMA WorkStarts ==
  ASSUME IInv, IInv', CInv, NEW c \in Conn,
         StartTurn(c) \/ \E kind \in {"inbound", "mock"} : Accept(c, kind)
  PROVE  CInv'
<1> USE DEF CInv
<1>1. ASSUME NEW kind \in {"inbound", "mock"}, Accept(c, kind) PROVE CInv'
  <2>1. /\ conn[c].pc = "none" /\ ~scope.stopped /\ UNCHANGED <<client, adapter, stop>>
        /\ scope' = [scope EXCEPT !.wg = @ + 1]
        /\ conn' = [conn EXCEPT ![c] = Open(kind)]
    BY <1>1 DEF Accept, Enter, Admitted
  <2>2. Open(kind).pc = "open" /\ Open(kind).kind = kind /\ Open(kind).turns = 0 /\ ~Open(kind).beat
    BY DEF Open, None
  <2>3. conn[c].turns = 0
    BY <2>1 DEF IInv, Owned, Typed, Connection
  <2>4. conn'[c] = Open(kind) /\ \A d \in Conn \ {c} : conn'[d] = conn[d]
    BY <2>1 DEF IInv, Typed
  <2>5. Bounded'
    BY <2>1, <2>2, <2>4, ConnectionsAssumption DEF Bounded
  <2>6. Work' = Work \cup {<<c, 0>>} /\ <<c, 0>> \notin Work
    BY <2>1, <2>2, <2>3, <2>4, ConnectionsAssumption DEF Work
  <2>7. Cardinality(Work') = Cardinality(Work) + 1
    BY <2>6, MoreWork
  <2>8. Counted'
    BY <2>1, <2>7, WorkIsFinite DEF Counted, ClientWork, IInv, Typed, Rest
  <2> QED
    BY <2>1, <2>5, <2>8 DEF Stopping
<1>2. CASE StartTurn(c) /\ ~scope.stopped
  <2> DEFINE n == conn[c].turns
  <2>1. /\ conn[c].pc = "handling" /\ UNCHANGED <<client, adapter, stop>>
        /\ scope' = [scope EXCEPT !.wg = @ + 1]
        /\ conn' = [conn EXCEPT ![c].pc = "reading", ![c].turns = @ + 1]
    BY <1>2 DEF StartTurn, Enter, Admitted
  <2>2. n \in Nat /\ n < MaxTurn
    BY <2>1 DEF IInv, Typed, Connection, Bounded
  <2>3. /\ conn'[c].turns = n + 1 /\ conn'[c].pc = "reading" /\ conn'[c].kind = conn[c].kind
        /\ \A d \in Conn \ {c} : conn'[d] = conn[d]
    BY <2>1 DEF IInv, Typed, Connection
  <2>4. Bounded'
    BY <2>1, <2>2, <2>3, ConnectionsAssumption DEF Bounded, IInv, Typed, Connection
  <2>5. <<c, n + 1>> \notin Work
    BY <2>2 DEF Work
  <2>6. Work' = Work \cup {<<c, n + 1>>}
    <3>1. n + 1 \in 0 .. MaxTurn /\ n + 1 # 0
      BY <2>2, ConnectionsAssumption
    <3>2. \A d \in Conn, k \in 0 .. MaxTurn :
            <<d, k>> \in Work' <=> <<d, k>> \in Work \/ (d = c /\ k = n + 1)
      <4> SUFFICES ASSUME NEW d \in Conn, NEW k \in 0 .. MaxTurn
                   PROVE  <<d, k>> \in Work' <=> <<d, k>> \in Work \/ (d = c /\ k = n + 1)
        OBVIOUS
      <4>1. CASE d # c
        BY <4>1, <2>3 DEF Work
      <4>2. CASE d = c
        <5>1. <<c, 0>> \in Work' <=> <<c, 0>> \in Work
          BY <2>1, <2>3, ConnectionsAssumption DEF Work
        <5>2. k # 0 => (<<c, k>> \in Work' <=> k <= n + 1) /\ (<<c, k>> \in Work <=> k <= n)
          BY <2>3 DEF Work
        <5>3. k \in Nat /\ (k <= n + 1 <=> k <= n \/ k = n + 1)
          BY <2>2
        <5> QED
          BY <4>2, <5>1, <5>2, <5>3, <3>1
      <4> QED
        BY <4>1, <4>2
    <3> QED
      BY <3>1, <3>2 DEF Work
  <2>7. Cardinality(Work') = Cardinality(Work) + 1
    BY <2>5, <2>6, MoreWork
  <2>8. Counted'
    BY <2>1, <2>7, WorkIsFinite DEF Counted, ClientWork, IInv, Typed, Rest
  <2> QED
    BY <2>1, <2>4, <2>8, <1>2 DEF Stopping
<1>3. CASE StartTurn(c) /\ scope.stopped
  <2>1. /\ conn[c].pc = "handling" /\ UNCHANGED <<client, adapter, stop, scope>>
        /\ conn' = [conn EXCEPT ![c].pc = "reading", ![c].turns = @]
    BY <1>3 DEF StartTurn, Enter
  <2>2. \A d \in Conn : /\ conn'[d].turns = conn[d].turns /\ conn'[d].kind = conn[d].kind
                        /\ conn'[d].pc = "none" <=> conn[d].pc = "none"
                        /\ conn'[d].pc = "handling" => conn[d].pc = "handling"
                        /\ conn'[d].beat => conn'[d].pc \in {"reading", "handling", "leaving"}
    BY <2>1 DEF IInv, Typed, Connection, Bounded
  <2>3. Bounded'
    BY <2>1, <2>2 DEF Bounded
  <2>4. Work' = Work
    BY <2>2, SameWork DEF Handled
  <2> QED
    BY <2>1, <2>3, <2>4, NeutralStep DEF ClientWork
<1> QED
  BY <1>1, <1>2, <1>3

\* A turn ends; a connection ends, when its turns have.
LEMMA WorkEnds ==
  ASSUME IInv, IInv', CInv, NEW c \in Conn, EndTurn(c) \/ EndServing(c)
  PROVE  CInv'
<1> USE DEF CInv
<1>1. CASE EndTurn(c)
  <2> DEFINE n == conn[c].turns
  <2>1. /\ UNCHANGED <<client, adapter, stop>> /\ scope' = [scope EXCEPT !.wg = @ - 1]
        /\ conn' = [conn EXCEPT ![c].turns = @ - 1]
    BY <1>1 DEF EndTurn, Left
  <2>2. n \in Nat /\ n > 0 /\ n <= MaxTurn
    BY <1>1 DEF EndTurn, IInv, Typed, Connection, Bounded
  <2>3. /\ conn'[c].turns = n - 1 /\ conn'[c].pc = conn[c].pc /\ conn'[c].kind = conn[c].kind
        /\ conn'[c].beat = conn[c].beat
        /\ \A d \in Conn \ {c} : conn'[d] = conn[d]
    BY <2>1 DEF IInv, Typed, Connection
  <2>4. Bounded'
    BY <2>1, <2>2, <2>3, ConnectionsAssumption DEF Bounded, IInv, Typed, Connection
  <2>5. <<c, n>> \in Work
    BY <2>2, ConnectionsAssumption DEF Work
  <2>6. Work' = Work \ {<<c, n>>}
    <3>1. \A d \in Conn, k \in 0 .. MaxTurn :
            <<d, k>> \in Work' <=> <<d, k>> \in Work /\ ~(d = c /\ k = n)
      <4> SUFFICES ASSUME NEW d \in Conn, NEW k \in 0 .. MaxTurn
                   PROVE  <<d, k>> \in Work' <=> <<d, k>> \in Work /\ ~(d = c /\ k = n)
        OBVIOUS
      <4>1. CASE d # c
        BY <4>1, <2>3 DEF Work
      <4>2. CASE d = c
        <5>1. <<c, 0>> \in Work' <=> <<c, 0>> \in Work
          BY <2>3, ConnectionsAssumption DEF Work
        <5>2. k # 0 => (<<c, k>> \in Work' <=> k <= n - 1) /\ (<<c, k>> \in Work <=> k <= n)
          BY <2>3 DEF Work
        <5>3. k \in Nat /\ (k <= n - 1 <=> k <= n /\ k # n)
          BY <2>2
        <5> QED
          BY <4>2, <5>1, <5>2, <5>3, <2>2
      <4> QED
        BY <4>1, <4>2
    <3> QED
      BY <3>1, <2>5 DEF Work
  <2>7. Cardinality(Work') = Cardinality(Work) - 1
    BY <2>5, <2>6, LessWork
  <2>8. Counted'
    BY <2>1, <2>7, WorkIsFinite DEF Counted, ClientWork, IInv, Typed, Rest
  <2>9. Work # {} /\ scope.wg > 0
    BY <2>5, CountIsPositive
  <2> QED
    BY <2>1, <2>4, <2>8, <2>9 DEF Stopping, IInv, Typed, Rest
<1>2. CASE EndServing(c) /\ conn[c].kind # "client"
  <2>1. /\ conn[c].pc = "draining" /\ conn[c].turns = 0 /\ UNCHANGED <<client, adapter, stop>>
        /\ scope' = [scope EXCEPT !.wg = @ - 1]
        /\ conn' = [conn EXCEPT ![c] = None]
    BY <1>2 DEF EndServing, InFlightDone, Left
  <2>2. conn'[c] = None /\ \A d \in Conn \ {c} : conn'[d] = conn[d]
    BY <2>1 DEF IInv, Typed
  <2>3. None.pc = "none" /\ None.turns = 0 /\ ~None.beat
    BY DEF None
  <2>4. Bounded'
    BY <2>1, <2>2, <2>3, ConnectionsAssumption DEF Bounded
  <2>5. <<c, 0>> \in Work /\ Work' = Work \ {<<c, 0>>}
    BY <1>2, <2>1, <2>2, <2>3, ConnectionsAssumption DEF Work
  <2>6. Cardinality(Work') = Cardinality(Work) - 1
    BY <2>5, LessWork
  <2>7. Counted'
    BY <2>1, <2>6, WorkIsFinite DEF Counted, ClientWork, IInv, Typed, Rest
  <2>8. Work # {} /\ scope.wg > 0
    BY <2>5, CountIsPositive
  <2> QED
    BY <2>1, <2>4, <2>7, <2>8 DEF Stopping, IInv, Typed, Rest
<1>3. CASE EndServing(c) /\ conn[c].kind = "client"
  <2>1. /\ conn[c].turns = 0 /\ UNCHANGED <<client, adapter, stop, scope>>
        /\ conn' = [conn EXCEPT ![c] = None]
    BY <1>3 DEF EndServing, InFlightDone
  <2>2. conn'[c] = None /\ \A d \in Conn \ {c} : conn'[d] = conn[d]
    BY <2>1 DEF IInv, Typed
  <2>3. None.pc = "none" /\ None.turns = 0 /\ ~None.beat
    BY DEF None
  <2>4. Bounded'
    BY <2>1, <2>2, <2>3, ConnectionsAssumption DEF Bounded
  <2>5. Work' = Work
    BY <1>3, <2>1, <2>2, <2>3, SameWork DEF Handled
  <2> QED
    BY <2>1, <2>4, <2>5, NeutralStep DEF ClientWork
<1> QED
  BY <1>1, <1>2, <1>3

\* The dial of the client succeeds: its work is its own, whoever reads the connection.
LEMMA ClientConnects ==
  ASSUME IInv, IInv', CInv, NEW c \in Conn, DialSucceeds(c)
  PROVE  CInv'
<1>1. /\ client.pc = "dialing" /\ conn[c].pc = "none" /\ UNCHANGED <<adapter, scope, stop>>
      /\ client'.pc = "serving" /\ conn' = [conn EXCEPT ![c] = Open("client")]
  BY DEF DialSucceeds, IInv, Typed, Rest
<1>2. conn'[c] = Open("client") /\ \A d \in Conn \ {c} : conn'[d] = conn[d]
  BY <1>1 DEF IInv, Typed
<1>3. Open("client").pc = "open" /\ Open("client").kind = "client" /\ Open("client").turns = 0 /\ ~Open("client").beat
  BY DEF Open, None
<1>4. conn[c].turns = 0
  BY <1>1 DEF IInv, Owned, Typed, Connection
<1>5. Bounded'
  BY <1>1, <1>2, <1>3, ConnectionsAssumption DEF Bounded, CInv
<1>6. Work' = Work
  BY <1>1, <1>2, <1>3, <1>4, SameWork DEF Handled
<1>7. ClientWork' = ClientWork
  BY <1>1 DEF ClientWork
<1> QED
  BY <1>1, <1>5, <1>6, <1>7, NeutralStep

\* The loop of the client enters the scope and leaves it.
LEMMA ClientCounts ==
  ASSUME IInv, IInv', CInv, StartBackground \/ ClientStep
  PROVE  CInv'
<1> USE DEF CInv, IInv, Typed, Rest
<1>1. UNCHANGED <<conn, stop>>
  BY DEF StartBackground, ClientStep, ClientClaims, ClientEnters, DialFails, ServeReturns, PauseEnds,
         ClientReturns
<1>2. Work' = Work
  BY <1>1 DEF Work
<1>3. /\ adapter'.running => client'.pc \notin {"off", "starting", "ended"}
      /\ scope'.stopped = scope.stopped /\ scope'.wg = scope.wg + (ClientWork' - ClientWork)
  <2> USE DEF Bounded, ClientWork
  <2>1. CASE StartBackground
    BY <2>1 DEF StartBackground, ClientGo, Admitted, Enter
  <2>2. CASE ClientClaims
    BY <2>2 DEF ClientClaims, ClientGo, Left
  <2>3. CASE ClientEnters
    BY <2>3 DEF ClientEnters, ClientGo, Admitted, Enter
  <2>4. CASE DialFails
    BY <2>4 DEF DialFails, ClientGo
  <2>5. CASE ServeReturns
    BY <2>5 DEF ServeReturns
  <2>6. CASE PauseEnds
    BY <2>6 DEF PauseEnds
  <2>7. CASE ClientReturns
    BY <2>7 DEF ClientReturns, Off, Left
  <2> QED
    BY <2>1, <2>2, <2>3, <2>4, <2>5, <2>6, <2>7 DEF ClientStep
<1>4. Bounded'
  BY <1>1, <1>3 DEF Bounded
<1>5. Cardinality(Work) \in Nat /\ ClientWork \in 0 .. 2 /\ ClientWork' \in 0 .. 2
  BY WorkIsFinite DEF ClientWork
<1>6. Counted'
  BY <1>2, <1>3, <1>5 DEF Counted
<1>7. stop = "stopped" => ClientWork' = ClientWork
  <2>1. ClientWork # 0 => scope.wg > 0
    BY <1>5, CountIsPositive
  <2>2. StartBackground => ~scope.stopped
    BY DEF StartBackground, Enter
  <2>3. ClientStep => ClientWork # 0
    BY DEF ClientStep, ClientClaims, ClientEnters, DialFails, ServeReturns, PauseEnds, ClientReturns, ClientWork
  <2> QED
    BY <2>1, <2>2, <2>3 DEF Stopping
<1> QED
  BY <1>1, <1>3, <1>4, <1>5, <1>6, <1>7 DEF Stopping

\* Runtime.Stop.
LEMMA StopCounts ==
  ASSUME IInv, IInv', CInv, Cancel \/ CloseConnections \/ StopReturns
  PROVE  CInv'
<1> USE DEF CInv, IInv, Typed, Rest
<1>1. scope'.wg = scope.wg /\ client'.pc = client.pc /\ adapter'.running = adapter.running
  BY DEF Cancel, CloseConnections, StopReturns
<1>2. \A c \in Conn : /\ conn'[c].turns = conn[c].turns /\ conn'[c].kind = conn[c].kind
                      /\ conn'[c].pc = conn[c].pc /\ conn'[c].beat = conn[c].beat
  BY DEF Cancel, CloseConnections, StopReturns, Closed, Connection
<1>3. Work' = Work
  BY <1>2, SameWork DEF Handled
<1>4. Bounded' /\ Counted'
  BY <1>1, <1>2, <1>3 DEF Bounded, Counted, ClientWork
<1>5. Stopping'
  BY <1>1 DEF Stopping, Cancel, CloseConnections, StopReturns
<1> QED
  BY <1>4, <1>5

\* The count is exact in every behaviour.
LEMMA CountIsExact == Spec => []CInv
<1>1. Init => CInv
  <2> SUFFICES ASSUME Init PROVE CInv
    OBVIOUS
  <2>1. Bounded /\ Stopping
    BY ConnectionsAssumption DEF Init, None, Off, Bounded, Stopping
  <2>2. Work = {}
    BY DEF Init, None, Work
  <2> QED
    BY <2>1, <2>2, FS_EmptySet DEF Init, Off, Counted, ClientWork, CInv
<1>2. IInv /\ IInv' /\ CInv /\ [Next]_vars => CInv'
  <2> SUFFICES ASSUME IInv, IInv', CInv, [Next]_vars PROVE CInv'
    OBVIOUS
  <2>1. CASE UNCHANGED vars
    BY <2>1 DEF vars, CInv, Bounded, Counted, Stopping, Work, ClientWork
  <2>2. CASE Next
    BY <2>2, NeutralConnectionSteps, WorkStarts, WorkEnds, ClientConnects, ClientCounts, StopCounts
    DEF Next, Step
  <2> QED
    BY <2>1, <2>2
<1> QED
  BY <1>1, <1>2, Invariant, PTL DEF Spec

\* Runtime.Stop waits for everything the adapter has started and leaves nothing open behind it:
\* for every number of connections and turns the scope counts the work that is running, and
\* when Stop has returned no connection, turn, heartbeat, client or mock session is left.
THEOREM StopWaitsForAll == Spec => []StopLeavesNothing
<1>1. IInv /\ CInv => StopIsComplete
  <2> SUFFICES ASSUME IInv, CInv, stop = "stopped"
               PROVE  /\ \A c \in Conn : conn[c].pc = "none" /\ conn[c].turns = 0 /\ ~conn[c].beat
                      /\ client.pc \in {"off", "ended"} /\ ~adapter.running
                      /\ adapter.conns = {} /\ sessions = {}
    BY DEF CInv, Counted, StopIsComplete
  <2>1. Work = {} /\ ClientWork = 0
    <3>1. ClientWork \in 0 .. 2
      BY DEF ClientWork
    <3> QED
      BY <3>1, CountIsPositive DEF CInv, Stopping
  <2>2. client.pc \in {"off", "ended"}
    BY <2>1 DEF ClientWork
  <2>3. client.slot = {}
    BY <2>2 DEF IInv, Outbound
  <2>4. \A c \in Conn : conn[c].pc = "none"
    <3> SUFFICES ASSUME NEW c \in Conn, conn[c].pc # "none" PROVE FALSE
      OBVIOUS
    <3>1. conn[c].kind # "client"
      BY <2>3 DEF IInv, Outbound
    <3>2. <<c, 0>> \in Work
      BY <3>1, ConnectionsAssumption DEF Work
    <3> QED
      BY <3>2, <2>1
  <2>5. \A c \in Conn : conn[c].turns = 0 /\ ~conn[c].beat
    BY <2>4 DEF IInv, Typed, Connection, Owned, CInv, Bounded
  <2>6. ~adapter.running
    BY <2>2 DEF CInv, Bounded, IInv, Typed, Rest
  <2>7. adapter.conns = {} /\ sessions = {}
    BY <2>4 DEF IInv, Typed, Rest, Listed, Served, Owned
  <2> QED
    BY <2>2, <2>4, <2>5, <2>6, <2>7
<1> QED
  BY <1>1, Invariant, CountIsExact, ClosedToTheLast, PTL DEF StopLeavesNothing

\* The state has the shape the code gives it, whatever happens in which order: a connection
\* answers at most MaxTurn events at a time and the pause of the client stays within its limit.
THEOREM ConnectionsTypeCorrect == Spec => []TypeOK
<1>1. IInv /\ CInv => TypeOK
  <2> SUFFICES ASSUME IInv, CInv PROVE TypeOK
    OBVIOUS
  <2> DEFINE all == Conn \X (0 .. MaxTurn)
  <2>1. IsFiniteSet(0 .. MaxTurn) /\ Cardinality(0 .. MaxTurn) = MaxTurn + 1
    BY FS_Interval, ConnectionsAssumption
  <2>2. IsFiniteSet(all) /\ Cardinality(all) = Cardinality(Conn) * (MaxTurn + 1)
    BY <2>1, FS_Product, ConnectionsAssumption
  <2>3. Cardinality(Work) <= Cardinality(all)
    <3>1. Work \in SUBSET all
      BY DEF Work
    <3> QED
      BY <2>2, <3>1, FS_Subset
  <2>4. Cardinality(Conn) \in Nat /\ Cardinality(Work) \in Nat /\ Cardinality(Conn) * (MaxTurn + 1) \in Nat
    BY FS_CardinalityType, WorkIsFinite, ConnectionsAssumption
  <2>5. ClientWork \in 0 .. 2
    BY DEF ClientWork
  <2>6. scope.wg \in 0 .. Cardinality(Conn) * (MaxTurn + 1) + 2
    <3> HIDE DEF all
    <3> QED
      BY <2>2, <2>3, <2>4, <2>5 DEF CInv, Counted
  <2>7. scope \in [stopped : BOOLEAN, wg : 0 .. Cardinality(Conn) * (MaxTurn + 1) + 2]
    BY <2>6 DEF IInv, Typed, Rest
  <2>8. conn \in [Conn -> [pc : {"none", "open", "registered", "reading", "handling", "leaving", "draining"},
                           kind : {"inbound", "mock", "client"}, closed : BOOLEAN, beat : BOOLEAN,
                           budget : 0 .. PongBudget, mute : BOOLEAN, turns : 0 .. MaxTurn]]
    <3>1. \A c \in Conn : conn[c] \in Connection /\ conn[c].turns \in 0 .. MaxTurn
      BY ConnectionsAssumption DEF IInv, Typed, Connection, CInv, Bounded
    <3> QED
      BY <3>1 DEF IInv, Typed, Connection, Served
  <2> QED
    BY <2>7, <2>8 DEF TypeOK, IInv, Typed, Rest, CInv, Stopping
<1> QED
  BY <1>1, Invariant, CountIsExact, PTL
=============================================================================
