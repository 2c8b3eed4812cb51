-------------------------- MODULE PlatformRequests --------------------------
(***************************************************************************)
(* What one connection asks its platform, and what it may believe of the   *)
(* answers: actions that wait for their ACK, lookups of quoted messages,   *)
(* receipts of stickers (onebot/reply_context.go, astrbot/ws_server.go,    *)
(* astrbot/quote_context.go), the table of the sessions in which a message *)
(* id was observed, and the names of groups (onebot/group_cache.go).       *)
(*                                                                         *)
(* The platform is external: it answers a request at any time, late or     *)
(* never, in any order, and may repeat an answer.                          *)
(***************************************************************************)
EXTENDS Naturals, Sequences, SequencesExt, FiniteSets

CONSTANTS Req,        \* slots for requests in progress
          Mid,        \* message ids
          Session,    \* history keys
          MaxTrusted, \* maxTrustedMessageSessions
          Depth,      \* quotetrace.Depth: longest chain of quotes
          Group,      \* groups
          MaxEcho     \* bound on the echoes of the connection

VARIABLES
  echo,      \* nextMessageEcho
  pending,   \* pendingMessage: echo -> request whose channel waits for it
  req,       \* the requests
  answers,   \* answers of the platform that it may deliver
  trusted,   \* messageSessions: message id -> session, or Ambiguous
  order,     \* messageSessionOrder
  evidence,  \* <<id, session>>: remembered since the id entered the table
  placed,    \* <<id, session>>: where events, ACKs and answers have placed a message
  names      \* groupCache, pendingGroupByID, pendingGroupByEcho, nextGroupEcho

vars == <<echo, pending, req, answers, trusted, order, evidence, placed, names>>
table == <<trusted, order, evidence, placed>>

Ambiguous == "ambiguous"
Nothing == [echo |-> 0, of |-> 0, says |-> "nothing"]
Kind == {"action", "receipt", "lookup", "quote"}

\* What an answer says: the call failed, it succeeded without naming a session, or the
\* message belongs to a session.
Says == {"error", "unstated"} \cup Session

\* chain: for a lookup the id of the event, then the quoted ids that were accepted. serial
\* tells the requests of the connection apart, whatever their echo is.
Idle == [pc |-> "idle", kind |-> "action", session |-> Ambiguous, mid |-> 0, echo |-> 0, serial |-> 0,
         chan |-> Nothing, handed |-> Nothing, result |-> Nothing, chain |-> <<>>]

NoNames == [cache |-> [g \in Group |-> "none"], byID |-> [g \in Group |-> 0],
            byEcho |-> <<>>, next |-> 0, writing |-> {}, old |-> {}]

Init ==
  /\ echo = 0 /\ pending = <<>> /\ answers = {}
  /\ req = [r \in Req |-> Idle]
  /\ trusted = <<>> /\ order = <<>> /\ evidence = {} /\ placed = {}
  /\ names = NoNames

Without(f, S) == [x \in DOMAIN f \ S |-> f[x]]
With(f, x, v) == [y \in DOMAIN f \cup {x} |-> IF y = x THEN v ELSE f[y]]

(* --- the sessions of message ids ------------------------------------------ *)

\* an id that was observed in two sessions belongs to none
Merged(m, s) == IF trusted[m] = s THEN s ELSE Ambiguous

\* the table with a new id, without the oldest one if it was full
Inserted(m, s) ==
  Without(With(trusted, m, s), IF Len(order) = MaxTrusted THEN {Head(order)} ELSE {})

RememberMessageSession(m, s) ==
  IF m \in DOMAIN trusted
  THEN /\ trusted' = With(trusted, m, Merged(m, s))
       /\ evidence' = evidence \cup {<<m, s>>}
       /\ UNCHANGED order
  ELSE /\ trusted' = Inserted(m, s)
       /\ order' = IF Len(order) = MaxTrusted THEN Append(Tail(order), m) ELSE Append(order, m)
       /\ evidence' = {e \in evidence : e[1] \in DOMAIN trusted'} \cup {<<m, s>>}

MessageSessionMatches(m, s) == m \in DOMAIN trusted /\ trusted[m] = s

\* the reader observes a message
Observe(m, s) ==
  /\ RememberMessageSession(m, s)
  /\ placed' = placed \cup {<<m, s>>}
  /\ UNCHANGED <<echo, pending, req, answers, names>>

(* --- requests ------------------------------------------------------------- *)

\* the counter makes every echo new
NextEcho == echo + 1

\* registerActionRequest, registerMessageRequest, pendingQuotes.Store, pendingDeliveries.Store
RegisterRequest(r, x) ==
  /\ echo < MaxEcho
  /\ echo' = echo + 1
  /\ pending' = With(pending, NextEcho, r)
  /\ req' = [req EXCEPT ![r] = [x EXCEPT !.pc = "registered", !.echo = NextEcho, !.serial = echo + 1,
                                  !.chan = Nothing, !.handed = Nothing, !.result = Nothing]]

\* sendActionAndWaitTurn: id is the one the platform will give
SendAction(r, s, id) ==
  /\ req[r].pc = "idle"
  /\ RegisterRequest(r, [Idle EXCEPT !.kind = "action", !.session = s, !.mid = id])
  /\ UNCHANGED <<answers, table, names>>

\* writeStickerActionAndWaitTurn
SendSticker(r, s) ==
  /\ req[r].pc = "idle"
  /\ RegisterRequest(r, [Idle EXCEPT !.kind = "receipt", !.session = s])
  /\ UNCHANGED <<answers, table, names>>

\* lookupReplyContext: the event own, of session s, quotes the message id
LookupReply(r, s, own, id) ==
  /\ req[r].pc = "idle" /\ id # own
  /\ RegisterRequest(r, [Idle EXCEPT !.kind = "lookup", !.session = s, !.mid = id, !.chain = <<own>>])
  /\ UNCHANGED <<answers, table, names>>

\* lookupQuoteChain, the same for AstrBot
LookupQuote(r, s, own, id) ==
  /\ req[r].pc = "idle" /\ id # own
  /\ RegisterRequest(r, [Idle EXCEPT !.kind = "quote", !.session = s, !.mid = id, !.chain = <<own>>])
  /\ UNCHANGED <<answers, table, names>>

\* clearMessageRequest: only if the echo still belongs to this request
Cleared(r) == Without(pending, {e \in DOMAIN pending : e = req[r].echo /\ pending[e] = r})

\* The write succeeds, or it is refused: the connection is closed or the turn was interrupted.
Write(r) ==
  /\ req[r].pc = "registered"
  /\ \/ req' = [req EXCEPT ![r].pc = "waiting"] /\ UNCHANGED pending
     \/ req' = [req EXCEPT ![r].pc = "done"] /\ pending' = Cleared(r)
  /\ UNCHANGED <<echo, answers, table, names>>

\* external: the platform answers a request that it has received
Answer(r, says) ==
  /\ req[r].pc = "waiting" /\ \A a \in answers : a.of # req[r].serial
  /\ says \in Session => req[r].kind \in {"lookup", "quote"}
  /\ answers' = answers \cup {[echo |-> req[r].echo, of |-> req[r].serial, says |-> says]}
  /\ placed' = IF says \in Session THEN placed \cup {<<req[r].mid, says>>} ELSE placed
  /\ UNCHANGED <<echo, pending, req, trusted, order, evidence, names>>

Handed(r, a) ==
  req' = [req EXCEPT ![r].chan = IF @ = Nothing THEN a ELSE @, ![r].handed = IF @ = Nothing THEN a ELSE @]

\* deliverMessageResponse, acceptQuoteLookup: the reader hands an answer over once; one that
\* nobody waits for is dropped
Deliver(a) ==
  /\ IF a.echo \in DOMAIN pending
     THEN /\ req[pending[a.echo]].kind # "receipt"
          /\ Handed(pending[a.echo], a)
          /\ pending' = Without(pending, {a.echo})
     ELSE UNCHANGED <<req, pending>>
  /\ UNCHANGED <<echo, answers, table, names>>

\* acceptDeliveryReceipt: the channel stays registered, and drops a receipt when it is full
AcceptReceipt(a) ==
  /\ a.echo \in DOMAIN pending /\ req[pending[a.echo]].kind = "receipt"
  /\ Handed(pending[a.echo], a)
  /\ UNCHANGED <<echo, pending, answers, table, names>>

\* resolveReplyResponse: the quoted message belongs to the session of the event, by what the
\* answer says or, if it does not say, by what this connection observed
ReplyMatches(r, a) ==
  \/ a.says = req[r].session
  \/ a.says = "unstated" /\ MessageSessionMatches(req[r].mid, req[r].session)

\* parseAstrBotQuote: by what the answer says
QuoteMatches(r, a) == a.says = req[r].session

Accepted(r, a) ==
  CASE a = Nothing -> FALSE
    [] req[r].kind = "lookup" -> ReplyMatches(r, a)
    [] req[r].kind = "quote" -> QuoteMatches(r, a)
    [] OTHER -> a.says # "error"

\* the wait ends with an answer, or with Nothing
Finish(r, a) ==
  /\ pending' = Cleared(r)
  /\ req' = [req EXCEPT ![r] = [@ EXCEPT !.result = a, !.chan = Nothing,
                                  !.pc = IF Accepted(r, a) THEN "accepted" ELSE "done"]]

Receive(r) ==
  /\ req[r].pc = "waiting" /\ req[r].chan # Nothing
  /\ Finish(r, req[r].chan)
  /\ UNCHANGED <<echo, answers, table, names>>

\* The timer fires, the turn or the connection is cancelled, although an answer may be there.
\* An action has yet to detach itself, the others give up.
GiveUp(r) ==
  /\ req[r].pc = "waiting"
  /\ IF req[r].kind = "action"
     THEN req' = [req EXCEPT ![r].pc = "detaching"] /\ UNCHANGED pending
     ELSE Finish(r, Nothing)
  /\ UNCHANGED <<echo, answers, table, names>>

\* mutant: the answer that came in between is dropped
DropConfirmed(r) == Nothing
\* waitActionResponse prefers an ACK that was confirmed before it detached
Confirmed(r) == req[r].chan

Detach(r) ==
  /\ req[r].pc = "detaching"
  /\ Finish(r, Confirmed(r))
  /\ UNCHANGED <<echo, answers, table, names>>

\* The id of an accepted answer is remembered: of the message that was sent, unless the session
\* was reset in the meantime, or of the one that was quoted. AstrBot remembers no ids of these.
Remember(r) ==
  /\ req[r].pc = "accepted"
  /\ \/ /\ req[r].kind \in {"action", "lookup"} /\ RememberMessageSession(req[r].mid, req[r].session)
        /\ placed' = IF req[r].kind = "action" THEN placed \cup {<<req[r].mid, req[r].session>>} ELSE placed
     \/ req[r].kind # "lookup" /\ UNCHANGED table
  /\ req' = [req EXCEPT ![r].pc = IF req[r].chain # <<>> THEN "chaining" ELSE "done"]
  /\ UNCHANGED <<echo, pending, answers, names>>

\* The accepted quote joins the chain, and the message that it quotes in turn is looked up; 0
\* is no message. The chain is bounded and does not turn back.
Follow(r, parent) ==
  LET chain == Append(req[r].chain, req[r].mid)
      x == [req[r] EXCEPT !.chain = chain] IN
  /\ req[r].pc = "chaining"
  /\ IF parent # 0 /\ parent \notin ToSet(chain) /\ Len(chain) <= Depth
     THEN RegisterRequest(r, [x EXCEPT !.mid = parent])
     ELSE req' = [req EXCEPT ![r] = [x EXCEPT !.pc = "done"]] /\ UNCHANGED <<echo, pending>>
  /\ UNCHANGED <<answers, table, names>>

\* the caller is done with the result
Return(r) ==
  /\ req[r].pc = "done"
  /\ req' = [req EXCEPT ![r] = Idle]
  /\ UNCHANGED <<echo, pending, answers, table, names>>

(* --- the names of groups -------------------------------------------------- *)

SetNames(x) == names' = x /\ UNCHANGED <<echo, pending, req, answers, table>>

\* the request of the group that was not answered in time is forgotten
Replaced(g) == Without(names.byEcho, {names.byID[g]})

\* groupName without a fresh name: one request per group is on its way, unless it is old
GroupName(g) ==
  /\ names.cache[g] \in {"none", "expired"} /\ names.next < MaxEcho
  /\ names.byID[g] # 0 => names.byID[g] \in names.old
  /\ LET e == names.next + 1 IN
     SetNames([names EXCEPT !.cache[g] = "none", !.byID[g] = e, !.byEcho = With(Replaced(g), e, g),
                            !.next = e, !.writing = @ \cup {e}])

\* the group has no request any more, if this was the one
Freed(e) ==
  [g \in Group |-> IF e \in DOMAIN names.byEcho /\ names.byEcho[e] = g /\ names.byID[g] = e
                  THEN 0 ELSE names.byID[g]]

\* the write fails (clearPendingGroupInfo) or not
WriteGroupRequest(e) ==
  /\ e \in names.writing
  /\ \/ SetNames([names EXCEPT !.writing = @ \ {e}])
     \/ SetNames([names EXCEPT !.writing = @ \ {e}, !.byID = Freed(e), !.byEcho = Without(@, {e})])

\* handleAPIResponse: an answer to a request that is still registered fills the cache; a
\* failure is cached too, for a shorter time
AnswerGroupRequest(e, says) ==
  /\ e \in 1 .. names.next \ names.writing
  /\ IF e \in DOMAIN names.byEcho
     THEN SetNames([names EXCEPT !.byID = Freed(e), !.byEcho = Without(@, {e}),
                                 !.cache[names.byEcho[e]] = says])
     ELSE UNCHANGED vars

\* groupInfoCacheTTL or groupInfoFailureTTL, and groupInfoPendingTTL
NameExpires(g) ==
  /\ names.cache[g] \in {"named", "failed"}
  /\ SetNames([names EXCEPT !.cache[g] = "expired"])
RequestGetsOld(e) ==
  /\ e \in DOMAIN names.byEcho \ names.old
  /\ SetNames([names EXCEPT !.old = @ \cup {e}])

(* --- specification -------------------------------------------------------- *)

RequestNext ==
  \/ \E m \in Mid, s \in Session : Observe(m, s)
  \/ \E r \in Req :
       \/ \E s \in Session, m \in Mid :
            SendAction(r, s, m) \/ \E own \in Mid : LookupReply(r, s, own, m) \/ LookupQuote(r, s, own, m)
       \/ \E s \in Session : SendSticker(r, s)
       \/ \E says \in Says : Answer(r, says)
       \/ \E parent \in Mid \cup {0} : Follow(r, parent)
       \/ Write(r) \/ Receive(r) \/ GiveUp(r) \/ Detach(r) \/ Remember(r) \/ Return(r)
  \/ \E a \in answers : Deliver(a) \/ AcceptReceipt(a)

NameNext ==
  \/ \E g \in Group : GroupName(g) \/ NameExpires(g)
  \/ \E e \in 1 .. MaxEcho :
       \/ WriteGroupRequest(e) \/ RequestGetsOld(e)
       \/ \E says \in {"named", "failed"} : AnswerGroupRequest(e, says)

Next == RequestNext \/ NameNext

Spec == Init /\ [][Next]_vars

(* --- properties ----------------------------------------------------------- *)

Response == {Nothing} \cup [echo : 1 .. MaxEcho, of : 1 .. MaxEcho, says : Says]

\* The state has the shape the code gives it.
TypeOK ==
  /\ echo \in 0 .. MaxEcho
  /\ DOMAIN pending \subseteq 1 .. MaxEcho /\ Range(pending) \subseteq Req
  /\ \A r \in Req :
       /\ req[r].pc \in {"idle", "registered", "waiting", "detaching", "accepted", "chaining", "done"}
       /\ req[r].kind \in Kind /\ req[r].session \in Session \cup {Ambiguous}
       /\ req[r].mid \in Mid \cup {0} /\ req[r].echo \in 0 .. MaxEcho
       /\ {req[r].chan, req[r].handed, req[r].result} \subseteq Response
       /\ req[r].chain \in Seq(Mid)
  /\ answers \subseteq Response
  /\ DOMAIN trusted \subseteq Mid /\ Range(trusted) \subseteq Session \cup {Ambiguous}
  /\ names.cache \in [Group -> {"none", "named", "failed", "expired"}]
  /\ names.byID \in [Group -> 0 .. MaxEcho]

\* An answer ends the request it answers and no other, however late, repeated or out of order
\* it comes. While a request waits with an empty channel its echo leads to it; when it has ended
\* nothing of it stays registered. And an action whose ACK the reader had handed over reports
\* that ACK, although its timer or its turn ended at the same time (waitActionResponse).
AnswersMatch ==
  /\ \A r \in Req :
       /\ {req[r].handed.of, req[r].result.of} \subseteq {0, req[r].serial}
       /\ req[r].pc \in {"registered", "waiting", "detaching"} /\ req[r].handed = Nothing =>
            req[r].echo \in DOMAIN pending /\ pending[req[r].echo] = r
       /\ req[r].pc \in {"done", "accepted"} /\ req[r].kind = "action" => req[r].result = req[r].handed
  /\ \A e \in DOMAIN pending :
       req[pending[e]].echo = e /\ req[pending[e]].pc \in {"registered", "waiting", "detaching"}

\* A message may be quoted, or shown as a quote, in a session only if an event, an ACK or the
\* platform placed it there; an id that was met in two sessions belongs to none; the table
\* keeps the newest ids up to its limit; and a chain of quotes is bounded and free of cycles.
QuotesStayInSession ==
  /\ \A m \in DOMAIN trusted :
       LET met == {s \in Session : <<m, s>> \in evidence} IN
       IF Cardinality(met) = 1 THEN trusted[m] \in met /\ <<m, trusted[m]>> \in placed
       ELSE trusted[m] = Ambiguous
  /\ ToSet(order) = DOMAIN trusted /\ IsInjective(order) /\ Len(order) <= MaxTrusted
  /\ \A r \in Req :
       LET chain == req[r].chain IN
       /\ Len(chain) <= Depth + 1 /\ IsInjective(chain)
       /\ \A i \in 2 .. Len(chain) : <<chain[i], req[r].session>> \in placed

\* Each group has one request for its name at most, both tables agree on it, and so a group
\* whose request failed or got lost is asked for again (groupName, clearPendingGroupInfo).
OneRequestPerGroup ==
  /\ \A g \in Group : names.byID[g] # 0 =>
       names.byID[g] \in DOMAIN names.byEcho /\ names.byEcho[names.byID[g]] = g
  /\ \A e \in DOMAIN names.byEcho : names.byID[names.byEcho[e]] = e
=============================================================================
