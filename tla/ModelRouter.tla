---------------------------- MODULE ModelRouter ----------------------------
(* The model router with SQL storage (internal/modelrouter): the catalog of *)
(* providers that all instances share, its one draft, the pages that edit   *)
(* it, an instance's routes and their draft, imports, and the snapshots     *)
(* that turns call models with.                                             *)
(*                                                                          *)
(* A provider is an endpoint with its model; its url is a number, 0 when it *)
(* is absent, and its key a number, 0 when it has none.  The keys of Vault  *)
(* are kept outside the database, where a publication writes them first.    *)
EXTENDS Naturals, FiniteSets

CONSTANTS Provider,  \* provider ids, numbers
          Vault,     \* those whose key is an external credential
          Url, Key,  \* numbers from 1
          Page,      \* editing pages
          Offered,   \* the routes that the instance's page may save
          MaxOps     \* management operations

VARIABLES catalog,   \* provider_endpoints, provider_models, provider_revision
          secret,    \* provider_secrets and the external credentials
          routes,    \* model_bindings and model_revisions of the instance
          others,    \* the models that restored instances are bound to
          shared,    \* the catalog manager: draft, staged keys, draft owner
          local,     \* the draft of the instance's manager
          page,      \* what a page last read, and what it was told
          publishing,\* a publication between its credentials and its commit
          restoring, \* an instance restoration that may be undone
          turn,      \* the snapshot of a turn, and the call it makes
          paired,    \* providers with url and key as they were published
          torn,      \* a publication was cut or could not be undone
          ops

routerVars == <<catalog, secret, routes, others, shared, local, page, publishing, restoring, turn,
                paired, torn, ops>>

Workload == {"dialogue", "reflection"}
Mode == {"disabled", "model", "follow", "inherit"}
Binding == [mode : Mode, model : Provider \cup {0}]
Routes == [global : [Workload -> Binding], group : [Workload -> Binding]]
Content == [url : [Provider -> Url \cup {0}], off : SUBSET Provider]
NoPage == "nobody"
Unbound == [mode |-> "disabled", model |-> 0]
Default == [global |-> [w \in Workload |-> IF w = "reflection" THEN [mode |-> "follow", model |-> 0]
                                           ELSE Unbound],
            group |-> [w \in Workload |-> [mode |-> "inherit", model |-> 0]]]
Empty == [url |-> [p \in Provider |-> 0], off |-> {}]
Nothing == [p \in Provider |-> [op |-> "keep", key |-> 0]]
Present(c) == {p \in Provider : c.url[p] # 0}
Bindings(r) == {r.global[w] : w \in Workload} \cup {r.group[w] : w \in Workload}
Models(r) == {b.model : b \in Bindings(r)} \ {0}
Pair(p) == <<p, catalog.content.url[p], secret[p]>>
Op == ops < MaxOps /\ ops' = ops + 1
Unlocked == publishing = NoPage

----------------------------------------------------------------------------
(* What a workload runs on: the group's binding before the global one, and  *)
(* one that follows the dialogue is the dialogue's.                         *)

EffectiveBinding(r, w, grouped) ==
  LET own(v) == IF grouped /\ r.group[v].mode # "inherit" THEN r.group[v] ELSE r.global[v]
  IN IF w # "dialogue" /\ own(w).mode = "follow" THEN own("dialogue") ELSE own(w)
(* The provider that a call of the workload goes to, 0 when it is refused.  *)
Resolve(c, r, w, grouped) ==
  LET b == EffectiveBinding(r, w, grouped) IN
  IF b.mode = "model" /\ c.url[b.model] # 0 /\ b.model \notin c.off THEN b.model ELSE 0
ValidBinding(c, b, inherits, follows) ==
  /\ b.mode = "model" => b.model \in Present(c)
  /\ b.mode = "disabled" => b.model \in Present(c) \cup {0}
  /\ b.mode = "inherit" => inherits
  /\ b.mode = "follow" => follows
(* A disabled provider may stay bound: only its absence is an error.        *)
ValidateStored(c, r) ==
  /\ r.global["reflection"].mode # "disabled" /\ r.group["reflection"].mode # "disabled"
  /\ \A w \in Workload : /\ ValidBinding(c, r.global[w], FALSE, w # "dialogue")
                         /\ ValidBinding(c, r.group[w], TRUE, w # "dialogue")
ReferencesUnchecked(c) == TRUE
CatalogReferences(c) == Models(routes.content) \cup others \subseteq Present(c)

----------------------------------------------------------------------------
(* The shared draft. *)

HasStaged(s) == \E p \in Provider : s.staged[p].op # "keep"
(* loadSQL: a draft that nobody edits follows the catalog.                  *)
Loaded(s) ==
  IF ~s.pending /\ s.owner = NoPage /\ ~HasStaged(s)
  THEN [s EXCEPT !.draft = [rev |-> catalog.rev, content |-> catalog.content]] ELSE s
OwnerFree(g) == shared.owner \in {NoPage, g}

GetState(g) ==
  LET s == Loaded(shared)
      seen == IF OwnerFree(g) THEN s.draft
              ELSE [rev |-> catalog.rev, content |-> catalog.content]
  IN /\ Op /\ Unlocked /\ shared' = s
     /\ page' = [page EXCEPT ![g].seen = seen, ![g].told = "nothing",
                             ![g].staged = IF shared.owner = g THEN @ ELSE {}]
     /\ UNCHANGED <<catalog, secret, routes, others, local, publishing, restoring, turn, paired, torn>>

(* A page saves what it read, edited, at the revision it read.              *)
SaveSQLDraft(g, c) ==
  LET s == Loaded(shared)
      kept == [p \in Provider |-> IF c.url[p] = 0 THEN Nothing[p] ELSE s.staged[p]]
      pending == c # catalog.content \/ \E p \in Provider : kept[p].op # "keep"
  IN /\ Op /\ Unlocked /\ OwnerFree(g) /\ page[g].seen.rev = catalog.rev
     /\ shared' = [draft |-> [rev |-> catalog.rev, content |-> c], staged |-> kept,
                   pending |-> pending, owner |-> IF pending THEN g ELSE NoPage]
     /\ page' = [page EXCEPT ![g].seen = [rev |-> catalog.rev, content |-> c],
                             ![g].staged = {x \in @ : c.url[x[1]] # 0}, ![g].told = "nothing"]
     /\ UNCHANGED <<catalog, secret, routes, others, local, publishing, restoring, turn, paired, torn>>

StageSecret(g, p, mutation) ==
  /\ Op /\ Unlocked /\ OwnerFree(g) /\ shared.draft.content.url[p] # 0
  /\ shared' = [shared EXCEPT !.owner = g, !.pending = TRUE, !.staged[p] = mutation]
  /\ page' = [page EXCEPT ![g].staged = {x \in @ : x[1] # p} \cup {<<p, mutation.key>>}, ![g].told = "nothing"]
  /\ UNCHANGED <<catalog, secret, routes, others, local, publishing, restoring, turn, paired, torn>>
SetDraftEndpointSecret(g, p, k) == StageSecret(g, p, [op |-> "set", key |-> k])
ClearDraftEndpointSecret(g, p) == StageSecret(g, p, [op |-> "clear", key |-> 0])

Clean == [draft |-> [rev |-> catalog.rev, content |-> catalog.content], staged |-> Nothing,
          pending |-> FALSE, owner |-> NoPage]
DiscardSQLDraft(g) ==
  /\ Op /\ Unlocked /\ OwnerFree(g) /\ shared' = Clean
  /\ page' = [page EXCEPT ![g].seen = shared'.draft, ![g].staged = {}, ![g].told = "nothing"]
  /\ UNCHANGED <<catalog, secret, routes, others, local, publishing, restoring, turn, paired, torn>>
(* Another page drops an abandoned draft: the revision moves on, so that    *)
(* the old page has to read again.                                          *)
ResetKeepsSecrets ==
  /\ Op /\ Unlocked /\ restoring = {} /\ catalog' = [catalog EXCEPT !.rev = @ + 1]
  /\ shared' = [Clean EXCEPT !.draft.rev = catalog'.rev, !.staged = shared.staged]
  /\ UNCHANGED <<secret, routes, others, local, page, publishing, restoring, turn, paired, torn>>
ResetSQLCatalogDraft ==
  LET s == Loaded(shared)
      dirty == s.owner # NoPage \/ HasStaged(s) \/ s.draft.content # catalog.content
  IN /\ Op /\ Unlocked /\ restoring = {}
     /\ catalog' = IF dirty THEN [catalog EXCEPT !.rev = @ + 1] ELSE catalog
     /\ shared' = [Clean EXCEPT !.draft.rev = catalog'.rev]
     /\ UNCHANGED <<secret, routes, others, local, page, publishing, restoring, turn, paired, torn>>

----------------------------------------------------------------------------
(* The publication of the catalog. *)

(* The keys after it: those of removed providers are dropped, and those     *)
(* staged replace the others.                                               *)
Applied(p) ==
  IF shared.draft.content.url[p] = 0 THEN (IF p \in Present(catalog.content) THEN 0 ELSE secret[p])
  ELSE IF shared.staged[p].op # "keep" THEN shared.staged[p].key ELSE secret[p]

(* External credentials change before the transaction.                     *)
PublishSQL(g) ==
  /\ Op /\ Unlocked /\ restoring = {} /\ OwnerFree(g)
  /\ LET s == Loaded(shared) IN
     /\ s.draft.rev = catalog.rev /\ CatalogReferences(s.draft.content)
     /\ shared' = s
  /\ publishing' = g
  /\ secret' = [p \in Provider |-> IF p \in Vault THEN Applied(p) ELSE secret[p]]
  /\ turn' = [turn EXCEPT !.before = secret]
  /\ UNCHANGED <<catalog, routes, others, local, page, restoring, paired, torn>>

PublishCommits ==
  LET g == publishing
      next == [p \in Provider |-> IF p \in Vault THEN secret[p] ELSE Applied(p)]
  IN /\ publishing # NoPage /\ publishing' = NoPage
     /\ catalog' = [rev |-> catalog.rev + 1, content |-> shared.draft.content]
     /\ secret' = next
     /\ shared' = [draft |-> [rev |-> catalog.rev + 1, content |-> shared.draft.content],
                   staged |-> Nothing, pending |-> FALSE, owner |-> NoPage]
     /\ paired' = paired \cup {<<p, catalog'.content.url[p], next[p]>> : p \in Provider}
     /\ page' = [page EXCEPT ![g].told = "published", ![g].seen = shared'.draft]
     /\ UNCHANGED <<routes, others, local, restoring, turn, torn, ops>>
(* The transaction fails: the credentials are put back, or that fails too.  *)
NoRollback ==
  /\ publishing # NoPage /\ publishing' = NoPage
  /\ UNCHANGED <<catalog, secret, routes, others, shared, local, page, restoring, turn, paired, ops, torn>>
PublishRollsBack ==
  /\ publishing # NoPage /\ publishing' = NoPage
  /\ \/ secret' = turn.before /\ UNCHANGED torn
     \/ UNCHANGED secret /\ torn' = TRUE
  /\ UNCHANGED <<catalog, routes, others, shared, local, page, restoring, turn, paired, ops>>
(* The process ends and starts again, at any time: drafts are lost, an      *)
(* unfinished publication keeps what its credentials became.                *)
Restart ==
  /\ Op
  /\ torn' = (torn \/ publishing # NoPage) /\ publishing' = NoPage
  /\ shared' = Clean /\ local' = [rev |-> routes.rev, content |-> routes.content]
  /\ page' = [g \in Page |-> [page[g] EXCEPT !.told = "nothing"]]
  /\ turn' = [turn EXCEPT !.pc = "none"]
  /\ restoring' = {}
  /\ UNCHANGED <<catalog, secret, routes, others, paired>>

----------------------------------------------------------------------------
(* The routes of the instance.  A shared catalog is read only to it.        *)

RouteSave(r) ==
  /\ Op /\ Unlocked /\ ValidateStored(catalog.content, r)
  /\ local' = [rev |-> routes.rev, content |-> r]
  /\ UNCHANGED <<catalog, secret, routes, others, shared, page, publishing, restoring, turn, paired, torn>>
(* PublishExpectedRoutes: the draft must still be the one that was saved.   *)
RoutePublish ==
  /\ Op /\ Unlocked /\ restoring = {} /\ local.rev = routes.rev
  /\ ValidateStored(catalog.content, local.content)
  /\ routes' = [rev |-> routes.rev + 1, content |-> local.content]
  /\ local' = routes'
  /\ UNCHANGED <<catalog, secret, others, shared, page, publishing, restoring, turn, paired, torn>>

(* An import adds the provider that it needs, under a new id if its own is  *)
(* taken by another provider or by a key that was left behind.              *)
Same(p, u) == catalog.content.url[p] = u /\ p \notin catalog.content.off
ImportAdopts(p, u) ==
  IF Same(p, u) THEN {p} ELSE {q \in Provider \ Vault : catalog.content.url[q] = 0}
ImportedId(p, u) ==
  LET fresh == {q \in Provider \ Vault : catalog.content.url[q] = 0 /\ secret[q] = 0} IN
  IF Same(p, u) THEN {p} ELSE IF p \in fresh THEN {p} ELSE fresh
WriteImported(p, u, q) ==
  /\ q \in ImportedId(p, u)
  /\ catalog' = IF Same(q, u) THEN catalog
                ELSE [rev |-> catalog.rev + 1, content |-> [catalog.content EXCEPT !.url[q] = u]]
  /\ paired' = IF Same(q, u) THEN paired ELSE paired \cup {<<q, u, 0>>}
ImportSettings(p, u, q) ==
  /\ Op /\ Unlocked /\ restoring = {} /\ WriteImported(p, u, q)
  /\ routes' = [rev |-> routes.rev + 1,
                content |-> [Default EXCEPT !.global["dialogue"] = [mode |-> "model", model |-> q]]]
  /\ UNCHANGED <<secret, others, shared, local, page, publishing, restoring, turn, torn>>
(* A restoration creates an instance, imports into it and may be undone: it *)
(* holds CatalogMutationMu until then, which keeps publications out, not    *)
(* readers.  Undone, the instance goes first and then its providers.        *)
RestoreInstance(p, u, q) ==
  /\ Op /\ Unlocked /\ restoring = {} /\ WriteImported(p, u, q)
  /\ others' = others \cup {q}
  /\ restoring' = {[catalog |-> catalog, others |-> others]}
  /\ UNCHANGED <<secret, routes, shared, local, page, publishing, turn, torn>>
RestoreEnds ==
  /\ Unlocked
  /\ \E was \in restoring :
       \/ UNCHANGED <<catalog, others>>
       \/ catalog' = was.catalog /\ others' = was.others
  /\ restoring' = {}
  /\ UNCHANGED <<secret, routes, shared, local, page, publishing, turn, paired, torn, ops>>

----------------------------------------------------------------------------
(* A turn resolves and pays with the snapshot it took.                      *)

SqlRuntimeSnapshot ==
  /\ turn.pc = "none" /\ Unlocked
  /\ turn' = [turn EXCEPT !.pc = "taken", !.content = catalog.content, !.routes = routes.content,
                          !.key = secret]
  /\ UNCHANGED <<catalog, secret, routes, others, shared, local, page, publishing, restoring, paired, torn, ops>>
LateKey(w, grouped) == secret[Resolve(turn.content, turn.routes, w, grouped)]
SnapshotKey(w, grouped) == turn.key[Resolve(turn.content, turn.routes, w, grouped)]
Chat(w, grouped) ==
  LET p == Resolve(turn.content, turn.routes, w, grouped) IN
  /\ turn.pc = "taken"
  /\ turn' = [turn EXCEPT !.pc = "none",
                !.called = IF p = 0 THEN {} ELSE {<<p, turn.content.url[p], SnapshotKey(w, grouped)>>}]
  /\ UNCHANGED <<catalog, secret, routes, others, shared, local, page, publishing, restoring, paired, torn, ops>>

----------------------------------------------------------------------------
RouterInit ==
  /\ catalog = [rev |-> 0, content |-> [Empty EXCEPT !.url[1] = 1]]
  /\ secret \in [Provider -> {0}] \cup {[p \in Provider |-> 1]}
  /\ routes = [rev |-> 0, content |-> Default] /\ local = routes /\ others = {}
  /\ shared = Clean
  /\ page = [g \in Page |-> [seen |-> shared.draft, staged |-> {}, told |-> "nothing"]]
  /\ publishing = NoPage /\ restoring = {} /\ torn = FALSE /\ ops = 0
  /\ turn = [pc |-> "none", content |-> catalog.content, routes |-> Default, key |-> secret,
             called |-> {}, before |-> secret]
  /\ paired = {Pair(p) : p \in Provider}

Edited == {[c EXCEPT !.url[p] = u] : c \in {catalog.content}, p \in Provider, u \in Url \cup {0}}
          \cup {[c EXCEPT !.off = {p}] : c \in {catalog.content}, p \in Provider}

CatalogNext ==
  \/ \E g \in Page : \/ GetState(g) \/ DiscardSQLDraft(g) \/ PublishSQL(g)
                     \/ \E c \in Edited : SaveSQLDraft(g, c)
                     \/ \E p \in Provider : \/ ClearDraftEndpointSecret(g, p)
                                            \/ \E k \in Key : SetDraftEndpointSecret(g, p, k)
  \/ ResetSQLCatalogDraft \/ PublishCommits \/ PublishRollsBack \/ Restart
InstanceNext ==
  \/ \E r \in Offered : RouteSave(r)
  \/ RoutePublish \/ RestoreEnds
  \/ \E p, q \in Provider, u \in Url : ImportSettings(p, u, q) \/ RestoreInstance(p, u, q)
  \/ SqlRuntimeSnapshot
  \/ \E w \in Workload, grouped \in BOOLEAN : Chat(w, grouped)
RouterNext == CatalogNext \/ InstanceNext

RouterTypeOK ==
  /\ catalog \in [rev : 0..MaxOps, content : Content]
  /\ secret \in [Provider -> Key \cup {0}]
  /\ routes \in [rev : 0..MaxOps, content : Routes] /\ local \in [rev : 0..MaxOps, content : Routes]
  /\ shared.draft \in [rev : 0..MaxOps, content : Content]
  /\ shared.owner \in Page \cup {NoPage} /\ publishing \in Page \cup {NoPage} /\ torn \in BOOLEAN

(* Every model that the instance's routes name is in the catalog: neither a *)
(* publication of the catalog, nor one of the routes, nor an import or its  *)
(* undoing leaves a route that loadSQL would refuse (checkCatalogReferences,*)
(* validateStoredConfiguration).                                            *)
RoutesResolve == ValidateStored(catalog.content, routes.content) /\ others \subseteq Present(catalog.content)

(* A url is called with a key that it was published with, and neither a     *)
(* publication that failed nor an import gives a provider a key that was    *)
(* not meant for it, unless credentials could not be put back               *)
(* (sqlRuntimeSnapshot, SecretBackend.apply, WriteImportedConfigurationTx). *)
KeysStayPaired ==
  ~torn => /\ turn.called \subseteq paired
           /\ Unlocked => \A p \in Present(catalog.content) : Pair(p) \in paired

(* A publication holds the edits of the page that asks for it and no other: *)
(* its content is the catalog's or what that page saved, and a key changes  *)
(* only as that page staged it, or with its provider, whatever other pages  *)
(* saved, staged, discarded or reset before (checkDraftOwner,               *)
(* ReconcileDraft, DiscardDraft).                                           *)
PublishesOwnEdits ==
  \A g \in Page : publishing = g /\ page'[g].told = "published" =>
    /\ catalog'.content \in {catalog.content, page[g].seen.content}
    /\ \A p \in Provider : \/ secret'[p] = turn.before[p]
                           \/ <<p, secret'[p]>> \in page[g].staged
                           \/ catalog'.content.url[p] = 0
=============================================================================
