--------------------------- MODULE MCConnections ---------------------------
(* The life of the connections of an adapter, and the requests that one of  *)
(* them makes. They share no state but the connection's being closed, which *)
(* a request meets as a write that fails or a wait that is cancelled, so a  *)
(* behaviour moves one of them: part says which.                            *)
EXTENDS Connections, Sequences

CONSTANTS Req, Mid, Session, MaxTrusted, Depth, Group, MaxEcho,
          Mocks  \* the slots of mock connections

VARIABLES part, echo, pending, req, answers, trusted, order, evidence, placed, names

Requests == INSTANCE PlatformRequests

requests == <<echo, pending, req, answers, trusted, order, evidence, placed, names>>

(* Each slot serves one kind of peer in the instance.                       *)
KindsApart == \A c \in Conn : conn[c].pc # "none" => (conn[c].kind = "mock" <=> c \in Mocks)

(* Answers are mixed up among requests for one message.                     *)
OneMessage ==
  \A r \in Req : req[r].session # "b" /\ req[r].mid \in {0, 1} /\ req[r].kind \in {"action", "receipt"}
(* Sessions are mixed up by what is observed while one lookup follows a chain. *)
OneLookup(r) ==
  /\ req[r].kind \in {"lookup", "quote"} \/ req[r].pc = "idle"
  /\ req[r].session # "b" /\ (req[r].chain # <<>> => Head(req[r].chain) = 1)
  /\ echo <= Depth /\ 1 \notin DOMAIN trusted
  /\ \A other \in Req \ {r} : req[other].pc = "idle"

MCInit ==
  /\ Init /\ Requests!Init
  /\ part \in {"connections", "answers", "sessions", "names"}
  /\ part # "connections" => mode = "reverse"

MCNext ==
  \/ part = "connections" /\ Next /\ KindsApart' /\ UNCHANGED <<part, requests>>
  \/ /\ part = "answers" /\ Requests!RequestNext /\ OneMessage'
     /\ trusted' \in {trusted, [m \in {1} |-> "a"]}
     /\ UNCHANGED <<part, vars>>
  \/ /\ part = "sessions" /\ Requests!RequestNext
     /\ OneLookup(CHOOSE r \in Req : TRUE)'
     /\ UNCHANGED <<part, vars>>
  \/ part = "names" /\ Requests!NameNext /\ UNCHANGED <<part, vars>>

MCSpec == MCInit /\ [][MCNext]_<<vars, part, requests>> /\ Fairness

(* Every variable of both parts has its type. *)
ConnectionsTypeOK == TypeOK /\ Requests!TypeOK

(* What a connection believes is what it was told, of the request it asked  *)
(* about and in the session it asks for: answers match their requests, a    *)
(* confirmed ACK is reported, quotes stay in their session, and a group is  *)
(* asked for by one request (deliverMessageResponse, waitActionResponse,    *)
(* rememberMessageSession, groupName).                                      *)
AnswersAreTrusted ==
  Requests!AnswersMatch /\ Requests!QuotesStayInSession /\ Requests!OneRequestPerGroup
=============================================================================
