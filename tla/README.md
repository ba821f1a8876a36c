# A verification project for the Rapid Rules Engine

The repository lets an editor draw rules as graphs in a web page, stores them as
numbered versions of *features* in PostgreSQL (`backend/`), and applies the
published version of every feature to the responses that flow through a reverse
proxy (`proxy/`). `core/` is the vendored GoRules decision engine the proxy
evaluates graphs with. This directory holds TLA+ models of the program's own
logic, the TLC runs that check them and TLAPS proofs about them.

## Inventory

| Component | State it keeps | Operations | Interacts with | What is hard | What makes it correct |
|---|---|---|---|---|---|
| version service (`version_service.rs`, `version_repository.rs`, migration 0003) | rows of `rre.versions`, the two pointers of `rre.features` | create, update, publish, unpublish, delete, active_version | outcome service, rule graph service, PostgreSQL; read by the proxy | handlers run concurrently, some checks are made before or without the lock of the row they are about | one LIVE and one STAGING version, pointers and statuses agree, published content is frozen, numbers are unique |
| outcome service (`outcome_service.rs`) | `rre.outcomes`, `rre.components`, their order | create, update, delete, clone, component edits, reorder | locks the version row | reads before the row lock; the DRAFT check races a publish; order indices computed from earlier reads | outcomes of published versions never change; what is appended comes last; clones are complete |
| rule graph service (`rule_graph_service.rs`, `node_types.json`) | none | normalize, validate | create and update of a version | cycles, unreachable nodes, paths that never end, a manifest the proxy does not read | accepts exactly the canvases the translator, the engine and the processors can work with |
| feature, site and test-preset services | one table each | create, read, update, delete | lists are read by the proxy | `execution_order` read before the insert; lists are cut off at a page | unique slugs, one feature per order and type; the page holds whole chains |
| proxy backend client (`infra/backend_client.rs`) | a stale-while-revalidate cache of active versions, a refresh guard, a feature list | `active_version`, `feature_list_cached`, background refresh | backend over HTTP, called by the forwarder | refreshes race misses and each other, errors, expiry | serves only what was published, catches up, stops serving what was unpublished |
| proxy compiled-graph cache (`infra/compiled_cache.rs`, `domain/evaluator.rs`) | compiled canvases by feature, number and canvas | get or compile | evaluator | never invalidated, bounded | the graph evaluated is the payload's |
| proxy site map (`infra/site_map.rs`) | a TTL-cached index of sites | lookup by Host | forwarder | late answers, errors, staleness | the index becomes the table's once the table is left alone |
| proxy translation and evaluation (`domain/translator.rs`, `evaluator.rs`, `processors/`) | none | translate a canvas, decide, recover the actions from the trace | decision engine | branches that join again, nodes no path leads to, a processor that fails | the actions are those of the routed path, in its order |
| decision engine (`core/engine/src/decision_graph/`) | stack, visited sets and pruned graph of one walk | next, evaluate | translator, expression engine | a walk that prunes and restarts at every switch | it ends, and visits what is routed |
| expression engine (`core/expression/`) | stack, scopes, environment of one run | parse, compile, run | decision engine, `json_expression` | precedence, hand-patched jumps, closures with aliases, two flavours | a run halts with what the source means |
| proxy forwarder (`forwarder.rs`, `context.rs`, `classifier.rs`, `encoding.rs`) | none between requests | forward one request | all of the proxy | fail-open paths, chained edits of one body, re-encoding | status, marks, headers and body of a response agree |
| proxy appliers (`domain/applier/`) | none | apply an action to HTML or JSON | forwarder | paths that match nothing, actions that stop half way, a component applied again | an action changes what it names, once |
| proxy test endpoints (`eval.rs`, `full_journey.rs`) | none | evaluate a canvas, a version, all features | the same evaluator without the caches | agreement with the hot path | the answer is what the forwarder would do |
| rule builder (`frontend/src/state/ruleBuilderStore.ts`) | three canvases, selection, dirty flag, journey path | edits, seed, save | backend through API hooks | edits while a save is in flight, memoized path | unsaved edits are never reported saved |
| frontend pages, backend shell, engine loaders and bindings | - | rendering, wiring, vendored code | - | - | not modelled |

`PROJECT.json` lists the components with the files they live in, and the hazards
of this code with the line where each bites.

## Modules

| Module | What it is |
|---|---|
| `VersionLifecycle` | version service, outcome creation and deletion, and the PostgreSQL behaviour they rely on |
| `PublicationBoard` | what the version service promises: each operation at once, on statuses and slots |
| `VersionLifecycleProofs` | theorems about `VersionLifecycle`, and that it implements `PublicationBoard` when requests do not race, or do not delete or publish to staging |
| `OutcomeEditing` | every operation on outcomes and components of one version |
| `OutcomeEditingProofs` | theorems about `OutcomeEditing` |
| `Catalog` | features, sites and test presets, and the two lists of them the proxy keeps |
| `CatalogProofs` | theorems about `Catalog` |
| `RuleDelivery` | the proxy's cache of active versions with its background refreshes, the reads of `active_version` they make, and the compiled-graph cache |
| `RuleDeliveryProofs` | theorems about `RuleDelivery` |
| `RuleGraph` | canvases, the manifest of node types, normalization and validation |
| `DecisionProcessors` | what the proxy's processors decide for a request |
| `CanvasWalk` | validation, translation, the engine's walk and the recovery of actions; extends the two above |
| `CanvasWalkProofs` | theorems about `RuleGraph`'s search and about `CanvasWalk` |
| `CanvasRouteProofs` | theorems about the actions of accepted canvases |
| `Lists` | places and elements of a list in their order |
| `JsonBody`, `HtmlBody` | JSON trees with paths and JSON actions; pages as tokens, sanitizer, renderers and placements |
| `Forwarder` | one request through the proxy, and the journey endpoint on the same page; extends the two above |
| `ForwarderProofs` | theorems about `Forwarder` |
| `ExpressionValues` | values, operators and functions of the expression language |
| `ExpressionParser`, `ExpressionCompiler` | from tokens to a tree, from a tree to instructions |
| `ExpressionMeaning` | what a tree means: the abstract specification |
| `ExpressionVM` | the isolate: parses, compiles and runs, an instruction per step |
| `CommonLemmas` | lemmas on finite sets, sequences and repeated steps the proofs share |
| `MC...` | the instance of each checked module: enumerated inputs and symmetry |

How they compose: `VersionLifecycle` implements `PublicationBoard`, whose live
half is the backend of `RuleDelivery`; `RuleDelivery` delivers a canvas,
`CanvasWalk` turns a canvas and a request into actions, `Forwarder` applies
actions to a body. `Forwarder` therefore asks a canvas one question instead of
walking it, and `CanvasWalk` decides a node through `DecisionProcessors`.

## VersionLifecycle

One feature, any number of concurrent requests (`Client`).

State. `versions[v]` is a committed row of `rre.versions`: its number, status
(`absent` when there is no such row), the outcomes its graph names, the outcomes
it owns and its applicability. `pointer` holds `live_version_id` and
`staging_version_id`. `lock[v]` is the transaction that has the row lock, `pc[c]`
the SQL statement client `c` executes next and `req[c]` the local variables of
its handler.

Actions. An action is one SQL statement; statements that follow under locks the
transaction already holds, and the COMMIT, belong to the action before them. The
statements a handler issues on the connection pool, before or without its
transaction, are actions of their own: that is where stale reads come from.

| Handler | Actions |
|---|---|
| `create_version` | `BeginCreate` (snapshot of the CTE), `LockForCreate` (one row at a time), `ReadSource`, then `InsertVersion`, `InsertInvalid` (422) or `InsertConflict` (500) |
| `update` | `FindForUpdate`, `ValidateUpdate`, `WriteUpdate` |
| `publish` | `FindForPublish`, `LockForPublish`, `FindCurrent`, `Demote`, then `Promote` or `PromoteConflict` |
| `unpublish` | `FindForUnpublish`, `LockForUnpublish`, `WriteUnpublish` |
| `delete` | `FindForDelete`, `DeleteVersion` |
| outcome create / delete | `CreateOutcome`; `FindOutcome`, `DeleteOutcome` |
| PostgreSQL | `AbortVictim` (deadlock detector); row locks, the two partial unique indexes, the unique number, `ON DELETE SET NULL` |
| client | `TakeFailure` takes a 500 |

Abstractions. A graph is the set of outcomes its `apply_outcome` nodes name, and
a valid graph names outcomes of its version only; the other validation rules
are those of `RuleGraph`. Carrying outcomes forward gives them new
UUIDs and renames the references along, so a copy keeps its name in the model. A
deleted row's identifier may be used for a later version only when no row and no
handler refers to it, which makes it as good as a new UUID. Descriptions,
timestamps and actors are left out. Updates of the feature row happen in the
last action of a transaction, so its lock never outlasts an action.

`PublicationBoard` states the lifecycle of `CONTRACTS.md` §9 as seven atomic
operations. `ImplementsBoard` says that every step of `VersionLifecycle` is one
of them or changes neither status nor pointer, with `status`, `live` and
`staging` read off the rows and the pointers.

### Properties

However requests interleave (run `races`): `LiveRowIsPointed`, `OneStagingRow`,
`PointersResolve` (invariants), `LifecycleSteps`, `OutcomesFrozen` (action
properties), and `EveryRequestAnswered` (liveness, run `live`).

Only while requests do not race (run `sequential`): `PublishedContentFrozen` and
`StoredGraphValid`. `ImplementsBoard` holds there and also under concurrency
while publishes go to live only and nothing is deleted (run `live`), and so does
`LivePointerNamesLiveRow`.

### Runs

| Run | Instance | Shows |
|---|---|---|
| `races` | 2 clients, 4 identifiers, two outcomes, numbers up to 2, every operation and environment | the first group of properties |
| `sequential` | 1 client, 3 identifiers, numbers up to 3, two outcomes, two applicabilities | the second group, among them the refinement |
| `live` | 3 clients, 2 identifiers, numbers up to 2, create, publish live, unpublish, `FairSpec` | the refinement under concurrency; every request is answered |
| `stale_demotion` (violation) | 2 clients, publishes to both environments | a publish to staging demotes the row another publish has just made LIVE |

Bounds. `MaxNumber` ends creation when a version of that number exists; with two
versions every race of two requests on the same row, on two rows, and on a row
and the new one occurs, and the third number of `sequential` adds a bystander
that must not change. There are two identifiers more than numbers where deletion
frees numbers, since the rows of a handler that still remembers a deleted
version keep its identifier. `Ops`, `Slots` and `Bodies` restrict what clients
send, per run. Identifiers and clients are interchangeable, so safety runs use
symmetry; `live`, which checks liveness, does not.

Fairness. `FairSpec` is strong fairness of each client's `Continue`: PostgreSQL
queues the waiters of a row lock, so one that is free again and again reaches
each of them, and its deadlock detector aborts a transaction of a cycle. Nothing
obliges a client to send a request.

What the second group loses to races has three shapes: a read on the pool that a
publish or delete overtakes, publishes of different rows that do not wait for
each other, and a snapshot older than the locks it waits for. `stale_demotion`
is the second, against the comment at `version_service.rs:461`. The model
reaches the others too, where the code promises less: `delete` checks the status
on the pool, so a version published in between is deleted while LIVE (its
pointer is cleared by the foreign key); two creates may compute one number, of
which one is answered 500; the source of a create may be deleted before its
outcomes are copied, and the new version then has none.

### Proofs

`VersionLifecycleProofs` proves, for every set of clients, versions and
outcomes: `TypeCorrect`, `LiveRowServed`, `StagingUnique`,
`PointersAlwaysResolve`, `NumbersAlwaysUnique`, `OutcomesFrozenAlways` and
`LifecycleStepsAlways`. The assumptions are those `VersionLifecycle` names: the
builtin is an outcome, the default an applicability, NULLs are no values, bodies
send values of the right type.

None of them is inductive. `IndInv` adds what a handler relies on from one
statement to the next: the rows a transaction has read under a lock are locked by
it and keep the status it saw; the row it will demote, or the row `FindCurrent`
or a pool read gave it, was published and is not a DRAFT again; identifiers in
its locals are not given to a new row. `NewRequestStep`, `CreateStep`, `EditStep`,
`PublishStep` and `UnpublishStep` show that a client's own step establishes its
next statement's part, `HandlerUndisturbed` that it survives another client's
step, and `NextIndInv` combines them. On top of it `StepEffect` sorts every step
into a few kinds of change to rows and pointers, from which `SafeRowsStep`
derives the four row invariants together (the staging uniqueness needs the rival
check, the live pointer needs the demotion's row, uniqueness of numbers the
insert's check) and the action properties follow.

The second half of the module proves what the restricted runs check, for every
number of versions, and of clients where there are several.

- `LivePointerExact` and `LivePublishesImplementBoard`: any number of racing
  clients with `Slots \subseteq {"live"}` and, for the refinement, no deletion.
  `IndInv` with `LiveRequests` is strong enough: the row a publish demotes is LIVE,
  or another request has sent it to PREV meanwhile, and the unique index lets
  nothing else become LIVE.
- `OneClientImplementsBoard`, `OneClientFreezesContent`,
  `OneClientStoresValidGraphs`: one client, every operation. `Knows(c)` says what
  the handler has read is what the tables hold, since nobody else writes; each
  handler then does one step of the board, whichever of its statements it is.

The lemmas named `Board...` map one change of rows and pointers each to an action
of the board under the refinement mapping. The hypotheses are those under which
the code keeps the properties: the runs `races` and `stale_demotion` show what
other requests do to them.

Model-checked only: `EveryRequestAnswered`, a liveness property.

## RuleDelivery

One feature, environment live: how a published graph reaches a response.

State. `status`, `live` and `content` are the backend's versions, `history` what
the live pointer has named so far (a history variable, for the properties).
`cache` with `fresh` is the feature's entry in `BackendClient::cache` and whether
its stamp is younger than `ttl`; `inflight` is its entry in `refresh_inflight`;
`compiled` is `CompiledCache`. `pc`, `got`, `class` and `used` are the tasks:
forwarder tasks (`Request`) that apply the feature to a response, and background
tasks (`Refresher`) of `spawn_refresh`.

Actions. An action runs to the next await or the next call of a shared cache.

| Code | Actions |
|---|---|
| `active_version` in the proxy | `FreshHit`, `StaleHit` (serves the entry and starts a refresh), `Miss`, `EndMiss` |
| `spawn_refresh` | `Guard`, `Mark`, `EndRefresh`, `Unmark` |
| `fetch_active_version_inner` and `active_version` in the backend | `ReadPointer`, `ReadRow`, `ReadOutcomes`, `ReadComponents`, one per SQL statement; `FetchFails` |
| `get_or_compile`, `evaluate` | `Lookup`, `Compile`; the response leaves with `Respond` |
| the caches' own expiry and bounds | `Age`, `Evict`, `ExpireMarker`, `EvictCompiled` |
| the backend's handlers | `CreateVersion`, `PublishLive`, `UnpublishLive`, `DeleteVersion` |

Abstractions. The backend's operations take effect at once and a published graph
is fixed: this is the live half of `PublicationBoard`, which `VersionLifecycle`
implements when requests do not race (`live`, `sequential`); what races do to it
is the subject of that module's other runs, and how this module's properties
fare under them is not covered. A payload is its version number, graph and
whether its outcomes were still there. A graph has one canvas per class. Which
responses a feature applies to, and what the applied actions do, belongs to
`Forwarder`. The moka caches are linearizable per key; entries may
leave them at any time. A version's UUID is new: an identifier is reused only
when no fetch holds it. At most as many refresh tasks as `Refresher` has members
are alive; a stale hit waits for a free one in the model, never in the code.

| Run | Instance | Shows |
|---|---|---|
| `served` | 2 versions, 2 graphs, 1 request, 2 refreshes, deletions and expiry, `FairSpec` | `ServedWasLive`: what is cached or applied was live when its pointer was read; `CatchesUp`: once publishing has settled, only the live version is applied, complete, though of two refreshes the slower may put an older answer back |
| `canvas` | 2 versions, 2 graphs, 2 classes, 2 requests, 1 refresh, errors, evictions and expiry | `MarkerOwned`: no marker is left without a refresh that removes it; `EvaluatesItsCanvas`: evictions and concurrent compilations never mix canvases. With deletions it does not hold: the graph compiled for a deleted version may be evaluated for the next version of that number |

Bounds. `MaxNumber` and `MaxChanges` bound versions and moves of the pointer; two
versions and two or three moves are enough for a fetch to straddle a publish, an
unpublish, and a deletion followed by a new version of the same number. Two
refreshes are what the guard, a get followed by an insert, is there to prevent
and does not. `Hazards` says which of deletion, failing fetches, evictions and
marker expiry a run has. Runs without fairness use symmetry.

Fairness. `FairSpec` has the tasks of the runtime run until they end (a fetch is
answered, fails or times out) and has time pass, so that a fresh entry gets
stale. Nobody is obliged to send a request. `CatchesUp` is checked without
failing fetches since it does not hold with them: `spawn_refresh` keeps the
entry when a fetch fails, so an unpublished version is served as long as
refreshes fail.

### Proofs

`RuleDeliveryProofs` proves `PayloadsCorrect` (`TypeOK`), `OnlyLiveServed`,
`MarkersOwned` and, as long as versions are not deleted, `CanvasesEvaluated`, for
every set of tasks, versions, graphs and classes and every bound. The assumptions
are that the sentinels are no values and that requests are not refreshes.

`IndInv` is needed because a fetch reads pointer and row apart: between them, the
row the task is about to read has, while it exists, the content the pointer
named, since published content is fixed and an identifier in a task's hands is
not given to a new version; after it, the answer holds what `history` has at that
place. `MoversSuffice` reduces a step of a task to the tasks that moved, and
`ManageSuffices` a step of the backend to the rows tasks are about to read.
`CanvasInv` adds that numbers are unique, that whatever was live is still there,
and that each compiled canvas is of the graph its number names; the last two need
rows that never go, which is the hypothesis of `CanvasesEvaluated`.

Model-checked only: `CatchesUp`, a liveness property.

## OutcomeEditing

The outcomes and components of one version, and any number of clients.

State. `outcomes` and `components` are rows of the two tables (a title is its
length, a config its type and whether it is valid), `status` is the version's,
`pc[c]` what client `c` has read before it waits for the row lock: its request,
the row it found, when its transaction began (`created_at` is the time of
`begin`) and the status its snapshot had.

Actions. `Begin` is everything up to `SELECT ... FOR UPDATE` of the version:
early answers (404, 409 for the builtin, 422 for a config) included. The lock is
held until the commit, so what follows it is one step: `Refuse` for a version
that is gone or no draft, else `Create`, `Update`, `Delete`, `CloneOutcome`,
`AddComponent`, `UpdateComponent`, `DeleteComponent` or `Reorder`. `Publish` and
`DeleteVersion` are the version's own life.

Run `editing`: 2 clients, 4 requests of every kind, rows with ids up to 4,
orders of a signed integer up to 3 that wraps as `i32` does in a release build,
titles up to 2. `DraftOnly`: nothing changes once the draft is over, whatever an
edit saw before its lock. `AppendGoesLast`: what is created without an order is
last in its list. `CloneCopies`: a clone has the components the source has when
the copy is made. Four requests are enough for an edit, the one it races and the
rows both need; the bounds on integers and titles are small so that they are met.

What the code does not promise and the model shows: `update_component` validates
a config against the type read before the lock, so two updates may leave a
config of another type; `add_component` to an outcome deleted meanwhile ends in a
500, and `clone` of one in a 201 with a clone that has no components.

### Proofs

`OutcomeEditingProofs` proves, for any set of clients and any bounds,
`TypeCorrect`, `DraftOnlyAlways`, `AppendGoesLastAlways` and `CloneCopiesAlways`.

`IndInv` is the conjunction of the counters' bounds, typed rows of both tables,
`Owned` (each component's outcome is there), `Distinct` (ids are unique, over
both tables, and below the counter they are drawn from), finiteness of the rows
(the largest order of a list is a maximum over them) and `Handlers`: what a
client waits with was valid when it was read. `Owned` needs the cascade of the
deletion and that a clone or a new component is inserted only while its outcome
is there. The action properties rest on what a step inserts: `AppendGoesLast` on
the maximum being over the rows of that list after the lock, `CloneCopies` on the
copies being numbered one by one from the counter, which is a bijection between
the source's components and the clone's.

## Catalog

Features, sites and presets, and the two lists of them the proxy caches.

State. The rows of the three tables, `draft[c]` the feature a creation is about
to insert, `cache` the proxy's two lists, `stage[r]` and `got[r]` the requests
that fill them. `focus` is the table written in a behaviour: the tables are
independent, and this keeps the instance small.

Actions. A feature's creation is two statements (`BeginCreate`, then
`InsertFeature` or `InsertFeatureConflict`); every other write is one and is
answered an error when a constraint or a validation refuses it, which changes
nothing. `Miss`, `Fetch` or `FetchError`, and `Store` are `SiteMap::index` and
`feature_list_cached`; `Expire` is the time to live.

Run `catalog` (`FairSpec`): 1 creation in flight beside other writes, 2 readers,
3 features in 2 orders, 2 sources that differ in case, a page of 2, 3 writes.
`TypeOK` holds the constraints, `ChainsAreListed` says the cut page keeps whole
chains, `CatchesUp` that a late answer does not last. A page of 2 is cut off by
three features as the real one of 100 is by 101. Fairness: requests of the proxy
are answered or fail, and entries expire; no one is obliged to send requests or
to write. An answer may fail for ever: the list is then empty and not cached.

### Proofs

`CatalogProofs` proves `TypeCorrect` and `ChainsAreListedAlways` for any tables,
orders and page. The creation's first statement reads the next order and its
second inserts it, so uniqueness rests on the constraint checked at the insert
and not on what was read; `IndInv` types the drafts and the cached lists.
`ChainsAreListed` follows from the order of the list: `Place` numbers the features
by type and order, and `PageByPlace` says a page is a prefix of that numbering.

Model-checked only: `CatchesUp`, a liveness property.

## RuleGraph, DecisionProcessors and CanvasWalk

From a canvas a client sends to the actions of a response.

State. `canvas` and `ctx` are the inputs; `verdict` the rules validation finds
broken; `jdm` the translated graph; `nodes` and `edges` what the walk has not
pruned, `toVisit`, `ordered`, `switched`, `executed`, `iter` the walker's fields,
`turns` counts its loop; `trace` and `actions` the result.

Actions. `Submit` normalizes and validates (`ValidateCanvas` of `RuleGraph`, the
hash map's keys in any order of `KeyOrders`); `Evaluate` translates; `Skip`,
`Defer`, `Prune` and `Return` are the turns of the loop of `next` with what
`evaluate` does with the node; `Exhausted` ends it.

Runs. `walk` enumerates every acyclic wiring of three inner nodes, every wiring
at all of two (self loops, edges into the start, edges to nodes that do not
exist, nodes without edges), every configuration of every decision over texts
that pass and break each check, labels, canvases without a start node, the empty
one and a repeated id. Cycle detection is exact (`SearchIsExact`), the actions
of an accepted canvas are those on its routed path (`RoutedActionsOnly`,
`RoutedActionsKept`), its walk comes to an output node unless a
branch taken has no edge (`AcceptedRunsEnd`), a
decision that was accepted is an error in the cases `Unforeseen` names and in no
other (`AcceptedErrors`),
and every walk, of rejected canvases too, ends within a number of turns that its
decisions, nodes and edges bound (`WalkEnds`), with a reset per decision at most. Three inner nodes are the smallest on which two branches join
again before a node; a switch resets the walk once, so `IterMax` 4 is above what
any of these canvases needs, as 1000 is for real ones.

`validate_processor` checks that the type of a decision node is one of the
manifest, not that it is a decision's, and that a text is there, not what it
says. `Unforeseen` lists what this lets through and the proxy then answers with
an error: a decision of type `trim_json`, `add_attribute` or `apply_outcome`, a
value that is no string, one that is too long, a tag with a forbidden character,
a regular expression or JSON path that does not parse (the path only when there
is a JSON body). Each is submitted in `walk`; on the routed path it costs the
canvas all its actions, which `RoutedActionsOnly` says.

`orphan` (violation): a canvas with an expression no path leads to is accepted,
and when that expression has an edge into a node of the routed path its action
is applied, against the doc comment at `evaluator.rs:91`. `RoutedActionsOnly` is
therefore about canvases whose nodes can all be reached, `RoutedActionsKept`
about all whose decisions do not fail.

Abstractions. A text is a sequence of words, enough for `contains`,
`starts_with` and the rest; a regular expression is a word or a text that does
not parse. The response to a test request is left out.

### Proofs

`CanvasWalkProofs` proves, for every set of canvases and contexts and every
`IterMax`:

- `SearchAlwaysExact`: the search of `has_cycle` with its explicit stack reports
  a cycle exactly when some node reaches itself. `SearchInv` is the classical
  invariant of a depth-first search (gray nodes are those of the stack and lie on
  one path, what a black node leads to is black), and a measure shows the bound
  `steps` of the model is never what ends it.
- `AcceptedErrorsAlways`: of the decisions the manifest accepts the processors
  refuse exactly the `Unforeseen` ones, by cases over node types and operators.
- `TypeCorrect`, from `GraphInv` (a translated graph has the canvas's nodes, and
  what is walked is acyclic) and `WalkInv`.
- `ResetsAlwaysBounded`: each reset adds a switch to `switched`, and switches are
  decisions of the canvas.
- `ActionsOnce`, `DependenciesAlwaysFirst`, `TakenBranchesAlwaysOnly`: no action
  twice; a node is visited after all that still leads to it; of a decision that
  has answered only the branch it took is left.
- `WalkAlwaysEnds`. The loop of `next` has no bound of its own. The invariant is
  a budget of turns: each edge whose source is not yet returned may push its
  target once, each node not yet returned is worth a climb to a node that waits
  for nothing, and so is what `Defer` has pushed since the last return. `Up`
  counts the nodes and edges that lead to the top of the stack; since the graph is
  acyclic it falls with every `Defer`, by the dependencies pushed at least.

The runs' `SearchIsExact` and `WalkEnds` are the same statements on the wirings
enumerated. `CommonLemmas` has what takes the place of induction theorems with
operator parameters, which the installed provers cannot instantiate: a set of
naturals has a smallest element (`HasSmallest`), finite sets grow one by one
(`SetInduction`), a repeated function stays in a set closed under it (`Iterates`)
and settles when each step that changes something costs some of a natural number
(`Settles`).

`CanvasRouteProofs` proves `RoutedActionsOnly`, `RoutedActionsKept` and
`AcceptedRunsEnd` for every set of canvases and contexts, under one hypothesis:
`FewDecisions`, each canvas sent has fewer decisions than `IterMax`. In the code
`ITER_MAX` is 1000, no validation limits the nodes of a canvas, and a canvas with
as many decisions may really lose its actions, since its walk ends at the limit;
the instance of `walk` satisfies the hypothesis. The argument has four parts.

- What validation guarantees. `AcceptedIsWellRouted`: a canvas no rule objects to
  has unique ids and one start, its start and its expressions have one edge out,
  a decision one per branch at most, and no cycle (by `SearchAlwaysExact`).
- The routed path in the graph that is walked. `RoutedIsTrail`: `Routed` follows
  one edge after another from the start until there is none to follow.
  `AcceptedIsWalked`: translation succeeds. `RoutesHold`: the nodes of the routed
  path, a decision as its two nodes, form a path of the translated graph along
  the edges the request follows; this is all later lemmas use of the canvas.
- The walk along it. `WayInv` is the invariant between resets: what is traced of
  the path is a beginning of it in its order, and either all of it is traced or
  the walk is on its way, `OnWay`: the path's edges are left, a visited node of
  the path has its next node visited or on the stack, and from all that is on
  the stack edges that are left lead to the path. The last part is what makes a
  node that waits for nothing be of the path in the end, although a reset may
  restart the walk anywhere. `PruneSpares` is the hard step: what
  `remove_edge_recursive` takes away (`MayGo`) holds no edge of the path.
  `ReachInv` adds, for canvases whose nodes can all be reached, that nothing off
  the path is ever visited.
- The end. `EndInv` says how a walk has ended: with the error of a decision, or
  with the path traced. `MatchedIsRouted` turns the trace into actions; two lists
  of the same elements in the same order are equal (`SameOrder`), so no induction
  over the trace is needed.

`AcceptedWalks` combines them: `RulesInv` and `AcceptedInv` with the `IndInv` of
`CanvasWalkProofs` are inductive. All safety properties of the run are proved.

## JsonBody, HtmlBody and Forwarder

One request through the proxy, and the journey endpoint on the same page.

State. `world` is what the request meets, `phase` where `forward` is; `outbound`
and `received` are headers, `queue` the features left, `serving` the one being
applied, `body` the running body, `matched` the entries, `response` what the
client is sent, `journey` what the endpoint answers.

Actions. `CopyHeaders` (the client's headers but the hop-by-hop ones),
`SetSiteHeader` (one configured header after the other), `SendUpstream` (upstream
errors, answers nothing can be applied to), `Decode` (encodings, inflation cap, UTF-8, JSON),
`StartFeature` (fetch, gate, canvas), `ApplyAction`, `EndFeature`, `Reply`
(entries injected, body encoded, headers), `RunJourney`. A JSON body is a
function from paths to kinds and scalars; an HTML body a sequence of tokens with
marks, on which renderers, sanitizer and placements work. A renderer may panic
where the code unwraps (`element!` on a selector that passes the whitelist but
does not parse); the request then ends.

Run `forwarding`: pages with every pair of components in one outcome, two
chained features over HTML, every action on every path of several trees with a
second feature behind it, and an exchange with every encoding, content type,
repeated headers, cookies and unreadable bodies; site headers in every
order and combination. `RenderersIdempotent`: a component rendered again on its
own result changes nothing. `FramingMatches`: length and encoding are those of
the body that is sent. `StampsAgree`: status, marks, injected entries and body
say the same, although `set_path` may create parents and then answer false, and
although upstream and actions may have entries of their own where the proxy puts
its own: one of the trees has one, and two of the paths lead there.
`SiteHeadersWin`: a client's value for a configured header never reaches the
upstream. `JourneyAgrees`: the endpoint ends with the body the client was sent.

What the code does where its comments are wider than it: hop-by-hop headers are
stripped "in both directions", but the early returns of `Decode` keep the
upstream's; a pinned version in the journey comes without its outcomes; of
repeated response headers the last one stays. The comment at the head of
`full_journey.rs` that production runs features of every type is stale:
`forwarder.rs` lines 129-141 filter by type as the journey does, and
the model follows the code.

### Proofs

`ForwarderProofs` proves, for any site, upstream and pages:

- `SiteHeadersAlwaysWin`: what goes out has the site's value of every configured
  header whose value parses, and no client's. `HeadersInv` says it of the headers
  set so far, whichever are still pending: a configured header replaces the
  client's values, and one whose value does not parse removes them.
- `FramingAlwaysMatches`: length and encoding of a response are those of the body
  it carries. `FramingInv` follows the headers from the upstream's answer through
  the early returns of `Decode`, each of which sends the body it received with
  them, to `Reply`, which sets both anew.
- `StatusAlwaysAgrees`, the first half of `StampsAgree`, which needs no trees, and
  `AnsweredOnce`.
- `JourneyAlwaysAgrees`: the endpoint ends with the body the client was sent. The
  trail of a page (`Trail`) is the list of bodies after each of its features, as
  a recursion without phases or a queue; there is one (`TrailUnique`), the
  journey computes it (`JourneyTrail`) whether versions are pinned or not
  (`TrailPinned`), and `JourneyInv` says where on it the pipeline is:
  between two features, after so many actions of one, or at its end, which a
  panic reaches early. That the pipeline shows a page only to the canvases that
  ask for it makes no difference (`ShownIsEnough`).
- `RenderersAlwaysIdempotent`: a component rendered again on its own result
  changes nothing, on any page and whatever it does to it. `RenderedPage` shows
  it renderer by renderer: a fragment that is put anywhere at any number of
  targets brings its mark with it, or nothing was put (`PlacedPage`); cutting
  the words behind the first truncated tag leaves that tag (`TrimmedPage`); and
  where there was no target there is none after the style was injected, which is
  injected once (`StyleOnce`). `PagesInv` says that the running body stays a page
  through every component of every action.

- `StampsAlwaysAgree`: a response that names features in its headers has their
  entries in its body and no other, where that has room for them, and one that
  names none has the upstream's body. `StampsInv`, with `PagesInv` and
  `MarksInv`, is inductive: as long as nothing was applied the running body is the
  upstream's with at most empty objects more (`Preserved`); once something was,
  there are features to mark, and `Reply` puts their entries in the place of
  whatever upstream or actions had put there. Of a response without marks no
  more can be said: what is below `rre.feature_expressions` is the upstream's
  own, or an empty object of a `json_set` that failed after making it, since
  nothing in the code reserves the name. What an action does
  to a tree is said once for every operation (`Does`): it leaves a tree, and
  an answer of false adds nothing but empty objects. Behind it is
  a theory of trees as sets of paths (`Tree`): a value put at a path
  (`InsertedTree`), a node or element taken out and the elements behind it
  renumbered (`RemovedTree`), an array cut (`TrimmedTree`), and parents made on
  the way down, one segment after the other. `ParsedPath` shows by the loop of
  `parse` that a path that parses is a list of keys and indices that are not
  negative, and is not empty.
- `TypeAlwaysOK`: the running body is a tree after every action (elements
  numbered without gaps, nothing below a scalar), a request has at most one
  running feature, body, response and journey, and only listed features are
  marked. It follows from the same invariant.

The assumptions are the module's: host and the headers that describe a body are
not hop-by-hop, numerals are natural numbers, the upstream says truthfully how
its body is encoded (`UpstreamAssumption`), and a world is made as backend and
upstream make it (`WorldAssumption`): at most one version of a feature, lists
that are lists, canvases that ask one of the four questions, and actions and
components for the answer's kind. Where an HTML body can be decoded this is a
page that is a list of tokens and components with a placement, mode and order
the backend's schema admits; where a JSON body can be parsed, it is a tree,
and paths are words, values are trees and trims are whole numbers, below
`rre.feature_expressions` as anywhere else. In a page the entries are those of
the proxy's own script: a script of the upstream or of a fragment has none.

## The expression engine

`ExpressionParser`, `ExpressionCompiler` and `ExpressionVM` translate parser,
compiler and stack machine of both flavours; `ExpressionMeaning` says what a
tree means with no stack, jumps or scopes, and is what they implement:
`ComputesMeaning` compares the answer of every run with the meaning of the tree
its writer had in mind, which the MC module prints with the fewest parentheses.

State. `source` is the tokens, flavour, environment and intended tree; `code`
the instructions, `ip`, `stack`, `scopes`, `env` and `assigned` the machine's;
`status` and `result` the isolate's answer. An action is one instruction.

Run `expressions` (`FairSpec`): every pair of operators in both groupings, unary
operators and conditionals around them, every closure over every kind of
collection with bodies that use aliases and further closures, slices, members, templates, objects, assignments, misprinted
sources, and cells of the unary flavour alone and joined three at a time.
`TypeOK`: no instruction ever finds too few values, no scope, or code to leave.
`Halts`: no loop goes on; fairness is that the machine runs, which is a plain
loop. Trees of that size nest each construct in each other once, which is where
jump distances and scope depths are computed.

`OverflowChecks` says whether the build checks arithmetic, as debug and test
builds do: then `Join` panics on the template without parts, whose number of
separators is less than zero. The run has the release build the `Dockerfile` of
the proxy makes; its properties hold of the other build too, where meaning and
machine both panic.

Abstractions. Numbers are small integers; sources whose result is not one are
left out (`Beyond`). A string is a sequence of characters. Not enumerated since
meaning and machine differ there: assignments nested in assignments (the machine
has one object under construction), and indexing a string variable by a constant
(the fast path knows objects and arrays only). One oddity of the machine is part
of the meaning, which the run would otherwise refuse: a member of `$root` is
that of the environment given, while `$root` alone shows assignments.

These modules use RECURSIVE operators, a parser's natural form, and are
therefore checked with TLC only: `TypeOK`, `ComputesMeaning` and `Halts` are not
stated by any theorem.

## Plan

1. `VersionLifecycle` with `PublicationBoard` and its proofs: done.
2. `RuleDelivery` over the live half of `PublicationBoard`, and its proofs: done.
3. `OutcomeEditing` and its proofs: done.
4. `RuleGraph` and `CanvasWalk` with their proofs: done.
5. `JsonBody`, `HtmlBody` and `Forwarder`, and the proofs of all their
   invariants: done.
6. `Catalog` and its proofs: done.
7. The expression engine: done for the constructs listed.
8. The rule builder's store with saves in flight.
9. The refinement of `PublicationBoard` for the restricted operations, as a
   proof: done.

## What is not modelled

Rendering, forms, API plumbing, configuration, logging and metrics; the rule
builder's store, which is the state of one page and is lost with it; the
engine's loaders, decision tables, functions and nested decisions, which the
proxy does not reach; of the expression engine the lexer, dates, methods,
decimals and most functions; the HTML parser and the sanitizer's tables, which
are libraries; fetching arbitrary pages in the test endpoints; authentication,
which the program does not have. The network between proxy and backend, and
PostgreSQL, are modelled by how the code uses them and marked external in
`PROJECT.json`.
