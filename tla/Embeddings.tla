----------------------------- MODULE Embeddings -----------------------------
(***************************************************************************)
(* The vector index of one scope of memories (an owner or a group): the    *)
(* checks that queue a rebuild, the worker that embeds the entries and     *)
(* publishes them, the searches that run meanwhile, and the runtime's      *)
(* reloads and restarts.  SQLite keeps an index in memory only; PostgreSQL *)
(* publishes it in rows that searches read and memory writes prune.        *)
(*                                                                         *)
(* An entry is what memoryHash covers: a value (content, summary, tags)    *)
(* and whether its summary waits to be refreshed.  Value 0 is no entry,    *)
(* fingerprint 0 is a route that does not resolve.                         *)
(***************************************************************************)
EXTENDS Integers, FiniteSets

CONSTANTS Mem,        \* entry ids
          Value,      \* values an entry may have, positive
          Edited,     \* the entries that change in an instance
          Routes,     \* the routes published in an instance: model and key
          MaxChange,  \* bound on changes of entries, routes and runtimes
          MaxFail     \* bound on transient failures of calls

VARIABLES pg,         \* TRUE: PostgreSQL, FALSE: SQLite or files
          src,        \* the store's entries: id -> value
          dirty,      \* ids whose summary needs a refresh
          route,      \* the published embedding route
          dim,        \* the dimension the upstream model answers with
          st,         \* embeddingState
          worker,     \* the scope's worker
          query,      \* a search in progress
          row,        \* the published rows of the scope (PostgreSQL)
          pruned,     \* rows were removed since the last publication
          changes, fails

embVars == <<pg, src, dirty, route, dim, st, worker, query, row, pruned, changes, fails>>

Hash == [i \in Mem |-> <<src[i], i \in dirty>>]
Present(h) == {i \in Mem : h[i][1] # 0}
Vectors(h, fp, d) == {[id |-> i, hash |-> h[i], fp |-> fp, dim |-> d] : i \in Present(h)}
Valid(vs) == {v \in vs : src[v.id] # 0 /\ v.hash = Hash[v.id]}

NoHash == [i \in Mem |-> <<0, FALSE>>]
Unknown == [known |-> FALSE, fp |-> 0, ready |-> FALSE, vec |-> {}, made |-> NoHash, asked |-> NoHash,
            active |-> FALSE, pending |-> FALSE, reflect |-> FALSE, err |-> "none", retry |-> "none", rev |-> 0]
Resting == [pc |-> "loop", fp |-> 0, list |-> NoHash, todo |-> {}, snap |-> NoHash, ok |-> TRUE, dim |-> 1,
            vec |-> {}, err |-> "none"]
NoQuery == [pc |-> "idle", fp |-> 0, same |-> TRUE, dim |-> 1, found |-> {}]
NoRow == [fp |-> 0, hash |-> NoHash, vec |-> {}]

(***************************************************************************)
(* Queueing.                                                               *)
(***************************************************************************)
queueLocked(s) == [s EXCEPT !.pending = TRUE, !.active = TRUE]

\* The first look at a scope takes over rows of the same model.
Loaded(s) ==
    IF s.known THEN s
    ELSE IF pg /\ row.fp = route.fp
         THEN [s EXCEPT !.known = TRUE, !.fp = row.fp, !.ready = TRUE, !.vec = row.vec,
                        !.made = row.hash, !.asked = row.hash]
         ELSE [s EXCEPT !.known = TRUE]

\* A new model: the index is of no use.
Replaced(s) == queueLocked([s EXCEPT !.fp = route.fp, !.ready = FALSE, !.vec = {}, !.err = "none",
                                     !.asked = Hash, !.retry = "none", !.reflect = TRUE])

\* Changed entries: the index serves on while some vector is still valid.
Changed(s) ==
    LET useless == s.ready /\ Present(Hash) # {} /\ Valid(s.vec) = {}
    IN queueLocked([s EXCEPT !.ready = @ /\ ~useless, !.reflect = @ \/ useless, !.asked = Hash,
                             !.err = "none", !.retry = "none"])

ensure(s0) ==
    LET s == Loaded(s0) IN
    IF route.fp = 0 THEN s0
    ELSE IF s.fp # route.fp THEN Replaced(s)
    ELSE IF s.asked # Hash THEN Changed(s)
    ELSE IF ~s.active /\ s.err # "none" /\ s.rev # route.rev
         THEN queueLocked([s EXCEPT !.err = "none", !.retry = "none"])
    ELSE IF ~s.active /\ s.retry = "due" THEN queueLocked([s EXCEPT !.retry = "none"])
    ELSE s

\* A search that captured a generation learns whether it was replaced: a
\* new model or a publication counts up.
Bumped(s) == query' = [query EXCEPT !.same = @ /\ s.fp = st.fp]

\* The scan of every 15 seconds, over the scopes that have entries.
scan ==
    /\ Present(Hash) # {}
    /\ st' = ensure(st) /\ Bumped(ensure(st))
    /\ UNCHANGED <<pg, src, dirty, route, dim, worker, row, pruned, changes, fails>>

\* Update, after an extraction or a reflection.
Update ==
    LET s == ensure(st) IN
    /\ changes < MaxChange /\ changes' = changes + 1
    /\ st' = IF s.known THEN queueLocked([s EXCEPT !.retry = "none"]) ELSE s
    /\ Bumped(s)
    /\ UNCHANGED <<pg, src, dirty, route, dim, worker, row, pruned, fails>>

\* The backoff after a transient error is 15 seconds to 5 minutes.
embeddingRecoveryDelay ==
    /\ st.retry = "wait"
    /\ st' = [st EXCEPT !.retry = "due"]
    /\ UNCHANGED <<pg, src, dirty, route, dim, worker, query, row, pruned, changes, fails>>

(***************************************************************************)
(* The worker.                                                             *)
(***************************************************************************)
Failed(e) == worker' = [worker EXCEPT !.pc = "report", !.err = e]

WorkerTakes ==
    /\ st.active /\ worker.pc = "loop"
    /\ IF st.pending
       THEN /\ st' = [st EXCEPT !.pending = FALSE, !.reflect = FALSE]
            /\ worker' = [Resting EXCEPT !.pc = "rebuild", !.fp = st.fp]
       ELSE st' = [st EXCEPT !.active = FALSE] /\ UNCHANGED worker
    /\ UNCHANGED <<pg, src, dirty, route, dim, query, row, pruned, changes, fails>>

\* rebuild: the session of the route, and the entries' summaries to refresh.
RebuildBegins ==
    /\ worker.pc = "rebuild"
    /\ st' = [st EXCEPT !.rev = route.rev]
    /\ IF route.fp = 0 THEN Failed("permanent")
       ELSE IF route.fp # worker.fp THEN Failed("condition")
       ELSE worker' = [worker EXCEPT !.pc = "refresh", !.list = Hash, !.todo = dirty, !.ok = route.ok, !.dim = dim]
    /\ UNCHANGED <<pg, src, dirty, route, dim, query, row, pruned, changes, fails>>

\* What a write of the store leaves of the published rows.
Pruned(r, h) == [r EXCEPT !.vec = {v \in @ : h[v.id] = v.hash}]
Prunes == /\ row' = IF pg THEN Pruned(row, Hash') ELSE row
          /\ pruned' = (pruned \/ row' # row)

\* replaceSummary: the entry must still be the one that was summarised.
replaceSummary == \E i \in worker.todo :
    /\ worker.pc = "refresh" /\ UNCHANGED src
    /\ IF Hash[i] = worker.list[i]
       THEN /\ dirty' = dirty \ {i}
            /\ worker' = [worker EXCEPT !.todo = @ \ {i}]
       ELSE Failed("condition") /\ UNCHANGED dirty
    /\ Prunes
    /\ UNCHANGED <<pg, route, dim, st, query, changes, fails>>

ListAgain ==
    /\ worker.pc = "refresh" /\ worker.todo = {}
    /\ worker' = [worker EXCEPT !.pc = "embed", !.snap = Hash]
    /\ UNCHANGED <<pg, src, dirty, route, dim, st, query, row, pruned, changes, fails>>

\* embedRetry of every entry: a refused key, answers of two dimensions, a
\* failure after three attempts, or the vectors.
Embed ==
    /\ worker.pc = "embed"
    /\ \/ /\ worker.ok
          /\ worker' = [worker EXCEPT !.pc = "check", !.vec = Vectors(worker.snap, worker.fp, dim)]
          /\ UNCHANGED fails
       \/ ~worker.ok /\ Present(worker.snap) # {} /\ Failed("permanent") /\ UNCHANGED fails
       \/ ~worker.ok /\ Present(worker.snap) = {} /\ worker' = [worker EXCEPT !.pc = "check"] /\ UNCHANGED fails
       \/ dim # worker.dim /\ Cardinality(Present(worker.snap)) > 1 /\ Failed("permanent") /\ UNCHANGED fails
       \/ fails < MaxFail /\ Failed("transient") /\ fails' = fails + 1
    /\ UNCHANGED <<pg, src, dirty, route, dim, st, query, row, pruned, changes>>

\* The route is looked up again before the publication.
RouteChecked ==
    /\ worker.pc = "check"
    /\ IF route.fp = 0 THEN Failed("permanent")
       ELSE IF route.fp # worker.fp THEN Failed("condition")
       ELSE worker' = [worker EXCEPT !.pc = "publish"]
    /\ UNCHANGED <<pg, src, dirty, route, dim, st, query, row, pruned, changes, fails>>

\* Mutation: a publication that does not look at the state's model.
PublishesAnyModel == worker.snap = Hash

\* Under the store's lock: the entries and the model are those of the vectors.
Publishable == worker.snap = Hash /\ st.fp = worker.fp

publish == row' = IF pg THEN [fp |-> worker.fp, hash |-> worker.snap, vec |-> worker.vec] ELSE row

PublishIndex ==
    /\ worker.pc = "publish"
    /\ IF Publishable
       THEN /\ st' = [st EXCEPT !.vec = worker.vec, !.ready = TRUE, !.made = worker.snap, !.asked = worker.snap]
            /\ publish /\ pruned' = FALSE
            /\ query' = [query EXCEPT !.same = FALSE]
            /\ worker' = [worker EXCEPT !.pc = "report", !.err = "none"]
       ELSE Failed("condition") /\ UNCHANGED <<st, row, pruned, query>>
    /\ UNCHANGED <<pg, src, dirty, route, dim, changes, fails>>

\* Mutation: a transient failure does not set the time of the next attempt.
NeverRetried ==
    /\ worker.pc = "report"
    /\ st' = [st EXCEPT !.err = worker.err, !.retry = "none", !.pending = @ \/ worker.err = "condition"]
    /\ worker' = [Resting EXCEPT !.pc = IF worker.err = "condition" THEN "again" ELSE "loop"]
    /\ UNCHANGED <<pg, src, dirty, route, dim, query, row, pruned, changes, fails>>

WorkerReports ==
    /\ worker.pc = "report"
    /\ st' = [st EXCEPT !.err = worker.err,
                        !.retry = IF worker.err = "transient" THEN "wait" ELSE "none",
                        !.pending = @ \/ worker.err = "condition"]
    /\ worker' = [Resting EXCEPT !.pc = IF worker.err = "condition" THEN "again" ELSE "loop"]
    /\ UNCHANGED <<pg, src, dirty, route, dim, query, row, pruned, changes, fails>>

\* A stale attempt looks at the route and the entries, waits and goes on.
WorkerGoesOn ==
    /\ worker.pc = "again"
    /\ st' = ensure(st) /\ Bumped(ensure(st))
    /\ worker' = [worker EXCEPT !.pc = "loop"]
    /\ UNCHANGED <<pg, src, dirty, route, dim, row, pruned, changes, fails>>

(***************************************************************************)
(* Searches.                                                               *)
(***************************************************************************)
SearchBegins ==
    LET s == ensure(st) IN
    /\ query.pc = "idle" /\ route.fp # 0
    /\ st' = s
    /\ query' = IF s.ready THEN [NoQuery EXCEPT !.pc = "session"] ELSE NoQuery
    /\ UNCHANGED <<pg, src, dirty, route, dim, worker, row, pruned, changes, fails>>

SearchSession ==
    /\ query.pc = "session"
    /\ query' = IF route.fp = 0 THEN NoQuery ELSE [query EXCEPT !.pc = "generation", !.fp = route.fp]
    /\ UNCHANGED <<pg, src, dirty, route, dim, st, worker, row, pruned, changes, fails>>

indexGeneration ==
    /\ query.pc = "generation"
    /\ query' = IF st.ready /\ st.fp = query.fp THEN [query EXCEPT !.pc = "embed", !.same = TRUE] ELSE NoQuery
    /\ UNCHANGED <<pg, src, dirty, route, dim, st, worker, row, pruned, changes, fails>>

QueryEmbedded ==
    /\ query.pc = "embed"
    /\ \/ query' = [query EXCEPT !.pc = "score", !.dim = dim]
       \/ query' = NoQuery
    /\ UNCHANGED <<pg, src, dirty, route, dim, st, worker, row, pruned, changes, fails>>

\* invalidateDimensions: only the generation the search captured.
invalidateDimensions ==
    st' = IF query.same
          THEN queueLocked([st EXCEPT !.ready = FALSE, !.reflect = TRUE, !.retry = "none"])
          ELSE st

\* rankEmbedded keeps the scores of entries that are still as embedded.
rankEmbedded(vs) == Valid(vs)

\* The rows of the model the query was embedded with.
pgScores == IF row.fp = query.fp THEN row.vec ELSE {}

\* searchScores and rankEmbedded, under the store's lock.
searchScores ==
    LET vs == IF pg THEN pgScores ELSE st.vec IN
    /\ query.pc = "score"
    /\ IF ~st.ready \/ st.fp # query.fp THEN query' = NoQuery /\ UNCHANGED st
       ELSE IF \E v \in vs : v.dim # query.dim THEN invalidateDimensions /\ query' = NoQuery
       ELSE query' = [query EXCEPT !.pc = "found", !.found = rankEmbedded(vs)] /\ UNCHANGED st
    /\ UNCHANGED <<pg, src, dirty, route, dim, worker, row, pruned, changes, fails>>

SearchReturns ==
    /\ query.pc = "found"
    /\ query' = NoQuery
    /\ UNCHANGED <<pg, src, dirty, route, dim, st, worker, row, pruned, changes, fails>>

(***************************************************************************)
(* What happens around the index.                                          *)
(***************************************************************************)
Changing == changes < MaxChange /\ changes' = changes + 1

\* A write of the store: content edits leave the summary to refresh.
WriteMemory == \E i \in Edited, v \in Value \union {0}, content \in BOOLEAN :
    /\ Changing /\ src[i] # v
    /\ src' = [src EXCEPT ![i] = v]
    /\ dirty' = IF content /\ v # 0 /\ src[i] # 0 THEN dirty \union {i}
                ELSE IF v = 0 \/ src[i] = 0 THEN dirty \ {i} ELSE dirty
    /\ Prunes
    /\ UNCHANGED <<pg, route, dim, st, worker, query, fails>>

\* A publication of the model router: another model, none, or a key.
PublishRoute == \E r \in Routes :
    /\ Changing
    /\ route' = [fp |-> r.fp, ok |-> r.ok, rev |-> route.rev + 1]
    /\ UNCHANGED <<pg, src, dirty, dim, st, worker, query, row, pruned, fails>>

\* The upstream changes the model behind an unchanged name.
UpstreamChanges ==
    /\ Changing
    /\ dim' = 3 - dim
    /\ UNCHANGED <<pg, src, dirty, route, st, worker, query, row, pruned, fails>>

\* CarryIndexesFrom: a reload keeps an index that is ready.
Carried == IF st.ready
           THEN [Unknown EXCEPT !.known = TRUE, !.fp = st.fp, !.ready = TRUE, !.vec = st.vec,
                                !.made = st.made, !.asked = st.made, !.rev = st.rev]
           ELSE Unknown

\* A settings reload: the old runtime is stopped and drained.
Reload ==
    /\ Changing
    /\ st' = Carried /\ worker' = Resting /\ query' = NoQuery
    /\ UNCHANGED <<pg, src, dirty, route, dim, row, pruned, fails>>

\* ImportSQLSnapshot: the rows of the instance go, and entries may come, in one
\* transaction.
ImportSQLSnapshot(i, v) ==
    /\ src' = IF src[i] = 0 THEN [src EXCEPT ![i] = v] ELSE src
    /\ row' = NoRow /\ pruned' = (pruned \/ row # NoRow)

\* An import of memories: the runtime stops, the entries are merged, and the
\* runtime is built again.
ImportMemories == \E i \in Edited, v \in Value \union {0} :
    /\ Changing
    /\ ImportSQLSnapshot(i, v)
    /\ st' = Carried /\ worker' = Resting /\ query' = NoQuery
    /\ UNCHANGED <<pg, dirty, route, dim, fails>>

\* The process restarts: memory goes, rows stay.
ColdStart ==
    /\ Changing
    /\ st' = Unknown /\ worker' = Resting /\ query' = NoQuery
    /\ UNCHANGED <<pg, src, dirty, route, dim, row, pruned, fails>>

EmbInit ==
    /\ pg \in BOOLEAN
    /\ src = [i \in Mem |-> 1] /\ dirty = {}
    /\ route = [fp |-> 1, ok |-> TRUE, rev |-> 1] /\ dim = 1
    /\ st = Unknown /\ worker = Resting /\ query = NoQuery
    /\ row = NoRow /\ pruned = FALSE /\ changes = 0 /\ fails = 0

WorkerNext == WorkerTakes \/ RebuildBegins \/ replaceSummary \/ ListAgain \/ Embed \/ RouteChecked
                \/ PublishIndex \/ WorkerReports \/ WorkerGoesOn
SearchNext == SearchBegins \/ SearchSession \/ indexGeneration \/ QueryEmbedded \/ searchScores \/ SearchReturns
AroundNext == WriteMemory \/ PublishRoute \/ UpstreamChanges \/ Reload \/ ImportMemories \/ ColdStart

EmbNext == scan \/ Update \/ embeddingRecoveryDelay \/ WorkerNext \/ SearchNext \/ AroundNext

\* The scan has a ticker and the worker its goroutine; calls time out.
EmbFairness == WF_embVars(scan) /\ WF_embVars(embeddingRecoveryDelay) /\ WF_embVars(WorkerNext)

\* Types.
EmbTypeOK ==
    /\ src \in [Mem -> Value \union {0}] /\ dirty \subseteq Mem
    /\ route.fp \in Nat /\ dim \in {1, 2}
    /\ st.err \in {"none", "permanent", "condition", "transient"} /\ st.retry \in {"none", "wait", "due"}
    /\ worker.pc \in {"loop", "rebuild", "refresh", "embed", "check", "publish", "report", "again"}
    /\ query.pc \in {"idle", "session", "generation", "embed", "score", "found"}

\* An index that is served is of one model and one dimension, the one its
\* state names, and each vector of an entry was made of that very entry: a
\* search returns entries as they are stored, scored by vectors of their
\* current text against a query of the same model.
SearchesAreSound ==
    /\ st.ready => \A v \in st.vec : v.fp = st.fp /\ \A u \in st.vec : u.dim = v.dim
    /\ pg => \A v \in row.vec : v.fp = row.fp
    /\ query.pc = "found" => \A v \in query.found : v.fp = query.fp /\ v.dim = query.dim

\* The index cannot be built, or holds every entry as it is.
Blocked == route.fp = 0 \/ ~route.ok \/ (st.err = "permanent" /\ st.rev = route.rev /\ st.asked = Hash)
Complete == st.ready /\ st.fp = route.fp /\ {v.id : v \in Valid(st.vec)} = Present(Hash)

\* Once entries, routes and runtimes stop changing, the index comes to hold
\* every entry as it is, unless the route does not resolve or its key is
\* refused, or the last attempt at this very state met an error that is not
\* retried.  Rows that memory writes removed are not counted here.
CaughtUp == Complete \/ Blocked \/ Present(Hash) = {}

\* The same of the rows that searches of PostgreSQL read.
Served == Complete /\ pg => Valid(row.vec) = Valid(st.vec)

=============================================================================
