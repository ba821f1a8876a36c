--------------------------- MODULE RuleDelivery ---------------------------
(***************************************************************************)
(* How a published rule graph reaches a response: the stale-while-         *)
(* revalidate cache of the proxy's backend_client.rs for one feature and   *)
(* environment live, the reads active_version makes in the backend without *)
(* a transaction, and the compiled-graph cache of compiled_cache.rs.       *)
(*                                                                         *)
(* The backend's versions behave like the live half of a PublicationBoard: *)
(* operations at once, and the graph of a published version fixed.  Only   *)
(* published versions are fetched, so the edits of a draft are part of its *)
(* creation here.                                                          *)
(*                                                                         *)
(* A Request is a forwarder task applying the feature to one response, a   *)
(* Refresher a background task of spawn_refresh; an action runs to the     *)
(* next await, or to the next call of a shared cache.                      *)
(***************************************************************************)
EXTENDS Naturals, Sequences

CONSTANTS
    VersionId,   \* versions.id
    NoVersion,   \* NULL
    Graph,       \* contents of a rule graph, all canvases
    NoGraph,     \* no contents
    Class,       \* user classes; a graph has one canvas for each
    NoCanvas,    \* no entry of the compiled cache
    Request,     \* requests in the forwarder at once
    Refresher,   \* bound: refresh tasks alive at once
    MaxNumber,   \* bound: no version_number above it is created
    MaxChanges,  \* bound: how often the live pointer moves
    Hazards      \* bound: what happens to versions, fetches and cache entries

ASSUME SentinelAssumption ==
    /\ NoVersion \notin VersionId
    /\ NoGraph \notin Graph
    /\ NoCanvas \notin Graph \X Class
ASSUME TaskAssumption == Request \intersect Refresher = {}
ASSUME BoundAssumption == MaxNumber \in Nat /\ MaxChanges \in Nat
ASSUME HazardAssumption == Hazards \subseteq {"delete", "error", "evict", "expire"}

VARIABLES
    status,    \* status of every version of the feature
    live,      \* features.live_version_id
    content,   \* version_number and rule_graph of every version
    history,   \* history variable: what the live pointer has named so far
    cache,     \* the entry of the active-version cache
    fresh,     \* fetched_at.elapsed() < ttl for that entry
    inflight,  \* the entry of the refresh_inflight cache
    compiled,  \* the compiled-graph cache
    pc,        \* where each task is
    got,       \* what its fetch or its lookup gave it
    class,     \* the class of each request's reader
    used       \* the canvas each request has evaluated

backend == <<status, live, content, history>>
caches == <<cache, fresh, inflight, compiled>>
tasks == <<pc, got, class, used>>
vars == <<backend, caches, tasks>>

-----------------------------------------------------------------------------
(* The data *)

Task == Request \union Refresher

Content == [number : 1..MaxNumber, graph : Graph]
NoContent == [number |-> 0, graph |-> NoGraph]

\* What a fetch has gathered: kind is its FetchResult once it is complete;
\* version is the row to read while it is not; whole is false when the outcomes
\* or their components were gone; epoch is the place in history of the pointer
\* it read, known to the properties only.
Answer == [kind : {"none", "ok", "not_found", "error"},
           version : VersionId \union {NoVersion},
           epoch : Nat,
           number : 0..MaxNumber,
           graph : Graph \union {NoGraph},
           whole : BOOLEAN]

Gathered(kind, version, epoch, c, whole) ==
    [kind |-> kind, version |-> version, epoch |-> epoch,
     number |-> c.number, graph |-> c.graph, whole |-> whole]

Nothing == Gathered("none", NoVersion, 0, NoContent, FALSE)
NotFound == Gathered("not_found", NoVersion, 0, NoContent, FALSE)
Failed == Gathered("error", NoVersion, 0, NoContent, FALSE)

Reading(v, epoch) == Gathered("none", v, epoch, NoContent, FALSE)
WithRow(a, c) == Gathered("none", a.version, a.epoch, c, FALSE)
Complete(a, whole) == Gathered("ok", NoVersion, a.epoch, a, whole)

Payload == {a \in Answer : /\ a.kind = "ok"
                           /\ a.version = NoVersion
                           /\ a.number # 0
                           /\ a.graph # NoGraph}

Canvas == Graph \X Class
Key == (1..MaxNumber) \X Class

Fetching == {"pointer", "row", "outcomes", "components"}
RequestPC == Fetching \union {"idle", "fetched", "lookup", "compile", "evaluated"}
RefresherPC == Fetching \union {"idle", "guard", "mark", "fetched", "unmark"}

Init ==
    /\ status = [v \in VersionId |-> "absent"]
    /\ live = NoVersion
    /\ content = [v \in VersionId |-> NoContent]
    /\ history = <<NoContent>>
    /\ cache = Nothing
    /\ fresh = FALSE
    /\ inflight = FALSE
    /\ compiled = [k \in Key |-> NoCanvas]
    /\ pc = [t \in Task |-> "idle"]
    /\ got = [t \in Task |-> Nothing]
    /\ class \in [Request -> Class]
    /\ used = [r \in Request |-> NoCanvas]

-----------------------------------------------------------------------------
(* The backend's versions *)

\* STAGING has entries of its own in every cache and is left empty here.
Board == INSTANCE PublicationBoard WITH staging <- NoVersion

IsNextNumber(n) ==
    /\ \A v \in VersionId : content[v].number < n
    /\ n = 1 \/ \E v \in VersionId : content[v].number = n - 1

\* A version's UUID is new: no fetch still reads a version that had it.
CreateVersion(v, g) ==
    /\ status[v] = "absent"
    /\ status' = [status EXCEPT ![v] = "draft"]
    /\ \A t \in Task : got[t].version # v
    /\ \E n \in 1..MaxNumber :
          /\ IsNextNumber(n)
          /\ content' = [content EXCEPT ![v] = [number |-> n, graph |-> g]]
    /\ UNCHANGED <<live, history, caches, tasks>>

PublishLive(v) ==
    /\ Len(history) <= MaxChanges
    /\ status[v] \in {"draft", "prev"}
    /\ Board!TakeOver(v, "live")
    /\ live' = v
    /\ history' = Append(history, content[v])
    /\ UNCHANGED <<content, caches, tasks>>

UnpublishLive(v) ==
    /\ Len(history) <= MaxChanges
    /\ status[v] = "live"
    /\ Board!StepDown(v)
    /\ live' = NoVersion
    /\ history' = Append(history, NoContent)
    /\ UNCHANGED <<content, caches, tasks>>

DeleteVersion(v) ==
    /\ "delete" \in Hazards
    /\ status[v] \in {"draft", "prev"}
    /\ status' = [status EXCEPT ![v] = "absent"]
    /\ content' = [content EXCEPT ![v] = NoContent]
    /\ UNCHANGED <<live, history, caches, tasks>>

-----------------------------------------------------------------------------
(* Tasks *)

Goto(t, label, answer) ==
    /\ pc' = [pc EXCEPT ![t] = label]
    /\ got' = [got EXCEPT ![t] = answer]

\* Entry and stamp of the active-version cache.
Store(answer, isFresh) ==
    /\ cache' = answer
    /\ fresh' = isFresh

-----------------------------------------------------------------------------
(* fetch_active_version_inner, and active_version in the backend *)

Exists(v) == status[v] # "absent"

\* Fault: the newest version is served, published or not.
Newest ==
    IF \A v \in VersionId : ~Exists(v) THEN NoVersion
    ELSE CHOOSE v \in VersionId : \A w \in VersionId : content[w].number <= content[v].number

\* feature_version_pointers, for environment live.
Active == live

ReadPointer(t) ==
    /\ pc[t] = "pointer"
    /\ \/ /\ Active = NoVersion
          /\ Goto(t, "fetched", NotFound)
       \/ /\ Active # NoVersion
          /\ Goto(t, "row", Reading(Active, Len(history)))
    /\ UNCHANGED <<backend, caches, class, used>>

\* find_by_id; a version deleted since is a 404 as well.
ReadRow(t) ==
    LET v == got[t].version IN
    /\ pc[t] = "row"
    /\ \/ /\ Exists(v)
          /\ Goto(t, "outcomes", WithRow(got[t], content[v]))
       \/ /\ ~Exists(v)
          /\ Goto(t, "fetched", NotFound)
    /\ UNCHANGED <<backend, caches, class, used>>

\* list_outcomes; without any the components are not read.
ReadOutcomes(t) ==
    /\ pc[t] = "outcomes"
    /\ \/ /\ Exists(got[t].version)
          /\ Goto(t, "components", got[t])
       \/ /\ ~Exists(got[t].version)
          /\ Goto(t, "fetched", Complete(got[t], FALSE))
    /\ UNCHANGED <<backend, caches, class, used>>

\* list_components_for_outcomes, and the response.
ReadComponents(t) ==
    /\ pc[t] = "components"
    /\ Goto(t, "fetched", Complete(got[t], Exists(got[t].version)))
    /\ UNCHANGED <<backend, caches, class, used>>

\* No connection, a timeout, an answer of another status or one that does not parse.
FetchFails(t) ==
    /\ "error" \in Hazards
    /\ pc[t] \in Fetching
    /\ Goto(t, "fetched", Failed)
    /\ UNCHANGED <<backend, caches, class, used>>

Fetch(t) ==
    \/ ReadPointer(t) \/ ReadRow(t) \/ ReadOutcomes(t) \/ ReadComponents(t)
    \/ FetchFails(t)

-----------------------------------------------------------------------------
(* active_version in the proxy, for a request of the forwarder *)

Hit == cache # Nothing

Arrive(r, k) ==
    /\ pc[r] = "idle"
    /\ class' = [class EXCEPT ![r] = k]

FreshHit(r, k) ==
    /\ Arrive(r, k)
    /\ Hit /\ fresh
    /\ Goto(r, "lookup", cache)
    /\ UNCHANGED <<backend, caches, used>>

\* The stale entry is served and spawn_refresh starts a task.
StaleHit(r, k) ==
    /\ Arrive(r, k)
    /\ Hit /\ ~fresh
    /\ \E f \in Refresher :
          /\ pc[f] = "idle"
          /\ pc' = [pc EXCEPT ![r] = "lookup", ![f] = "guard"]
    /\ got' = [got EXCEPT ![r] = cache]
    /\ UNCHANGED <<backend, caches, used>>

Miss(r, k) ==
    /\ Arrive(r, k)
    /\ ~Hit
    /\ Goto(r, "pointer", Nothing)
    /\ UNCHANGED <<backend, caches, used>>

\* The fetch of a miss ends: cached and applied, or the response passes through.
EndMiss(r) ==
    /\ pc[r] = "fetched"
    /\ \/ /\ got[r].kind = "ok"
          /\ Store(got[r], TRUE)
          /\ Goto(r, "lookup", got[r])
       \/ /\ got[r].kind # "ok"
          /\ Goto(r, "idle", Nothing)
          /\ UNCHANGED <<cache, fresh>>
    /\ UNCHANGED <<backend, inflight, compiled, class, used>>

-----------------------------------------------------------------------------
(* get_or_compile, and the evaluation of the canvas *)

\* Fault: the version is not part of the key.
KeyOfClass(r) == <<1, class[r]>>

\* The cache's key, but for the feature.
KeyOf(r) == <<got[r].number, class[r]>>

CanvasOf(r) == <<got[r].graph, class[r]>>

Evaluate(r, canvas) ==
    /\ used' = [used EXCEPT ![r] = canvas]
    /\ pc' = [pc EXCEPT ![r] = "evaluated"]

Lookup(r) ==
    LET entry == compiled[KeyOf(r)] IN
    /\ pc[r] = "lookup"
    /\ \/ /\ entry # NoCanvas
          /\ Evaluate(r, entry)
       \/ /\ entry = NoCanvas
          /\ pc' = [pc EXCEPT ![r] = "compile"]
          /\ UNCHANGED used
    /\ UNCHANGED <<backend, caches, got, class>>

Compile(r) ==
    /\ pc[r] = "compile"
    /\ compiled' = [compiled EXCEPT ![KeyOf(r)] = CanvasOf(r)]
    /\ Evaluate(r, CanvasOf(r))
    /\ UNCHANGED <<backend, cache, fresh, inflight, got, class>>

\* The response leaves.
Respond(r) ==
    /\ pc[r] = "evaluated"
    /\ Goto(r, "idle", Nothing)
    /\ used' = [used EXCEPT ![r] = NoCanvas]
    /\ UNCHANGED <<backend, caches, class>>

-----------------------------------------------------------------------------
(* spawn_refresh *)

Guard(f) ==
    /\ pc[f] = "guard"
    /\ Goto(f, IF inflight THEN "idle" ELSE "mark", Nothing)
    /\ UNCHANGED <<backend, caches, class, used>>

Mark(f) ==
    /\ pc[f] = "mark"
    /\ inflight' = TRUE
    /\ Goto(f, "pointer", Nothing)
    /\ UNCHANGED <<backend, cache, fresh, compiled, class, used>>

\* Fault: a 404 is treated like a transient error.
EndRefreshKeepingEntry(f) ==
    /\ pc[f] = "fetched"
    /\ \/ got[f].kind = "ok" /\ Store(got[f], TRUE)
       \/ got[f].kind \in {"not_found", "error"} /\ UNCHANGED <<cache, fresh>>
    /\ Goto(f, "unmark", Nothing)
    /\ UNCHANGED <<backend, inflight, compiled, class, used>>

\* Fault: a 404 is cached like an answer.
EndRefreshCachingAll(f) ==
    /\ pc[f] = "fetched"
    /\ \/ got[f].kind \in {"ok", "not_found"} /\ Store(got[f], TRUE)
       \/ got[f].kind = "error" /\ UNCHANGED <<cache, fresh>>
    /\ Goto(f, "unmark", Nothing)
    /\ UNCHANGED <<backend, inflight, compiled, class, used>>

\* Fault: an early return on a transient error.
EndRefreshEarly(f) ==
    /\ pc[f] = "fetched"
    /\ \/ got[f].kind = "ok" /\ Store(got[f], TRUE) /\ Goto(f, "unmark", Nothing)
       \/ got[f].kind = "not_found" /\ Store(Nothing, FALSE) /\ Goto(f, "unmark", Nothing)
       \/ /\ got[f].kind = "error"
          /\ Goto(f, "idle", Nothing)
          /\ UNCHANGED <<cache, fresh>>
    /\ UNCHANGED <<backend, inflight, compiled, class, used>>

\* Insert on an answer, invalidate on a 404, keep on a transient error.
EndRefresh(f) ==
    /\ pc[f] = "fetched"
    /\ \/ got[f].kind = "ok" /\ Store(got[f], TRUE)
       \/ got[f].kind = "not_found" /\ Store(Nothing, FALSE)
       \/ got[f].kind = "error" /\ UNCHANGED <<cache, fresh>>
    /\ Goto(f, "unmark", Nothing)
    /\ UNCHANGED <<backend, inflight, compiled, class, used>>

Unmark(f) ==
    /\ pc[f] = "unmark"
    /\ inflight' = FALSE
    /\ Goto(f, "idle", Nothing)
    /\ UNCHANGED <<backend, cache, fresh, compiled, class, used>>

-----------------------------------------------------------------------------
(* Time and memory: entries age, expire and are evicted *)

Age ==
    /\ fresh
    /\ fresh' = FALSE
    /\ UNCHANGED <<backend, cache, inflight, compiled, tasks>>

Evict ==
    /\ "evict" \in Hazards
    /\ Hit
    /\ Store(Nothing, FALSE)
    /\ UNCHANGED <<backend, inflight, compiled, tasks>>

EvictCompiled(k) ==
    /\ "evict" \in Hazards
    /\ compiled[k] # NoCanvas
    /\ compiled' = [compiled EXCEPT ![k] = NoCanvas]
    /\ UNCHANGED <<backend, cache, fresh, inflight, tasks>>

\* The marker lives for max(ttl, 10 s), a fetch possibly longer.
ExpireMarker ==
    /\ "expire" \in Hazards
    /\ inflight
    /\ inflight' = FALSE
    /\ UNCHANGED <<backend, cache, fresh, compiled, tasks>>

-----------------------------------------------------------------------------
(* The specification *)

Manage ==
    \E v \in VersionId :
        \/ \E g \in Graph : CreateVersion(v, g)
        \/ PublishLive(v) \/ UnpublishLive(v) \/ DeleteVersion(v)

Begin(r) == \E k \in Class : FreshHit(r, k) \/ StaleHit(r, k) \/ Miss(r, k)

RequestStep(r) == Fetch(r) \/ EndMiss(r) \/ Lookup(r) \/ Compile(r) \/ Respond(r)
RefreshStep(f) == Fetch(f) \/ Guard(f) \/ Mark(f) \/ EndRefresh(f) \/ Unmark(f)

Next ==
    \/ Manage
    \/ \E r \in Request : Begin(r) \/ RequestStep(r)
    \/ \E f \in Refresher : RefreshStep(f)
    \/ Age \/ Evict \/ ExpireMarker
    \/ \E k \in Key : EvictCompiled(k)

Spec == Init /\ [][Next]_vars

\* Tasks run until they end, and time passes; nobody is obliged to send a request.
FairSpec ==
    /\ Spec
    /\ \A r \in Request : WF_vars(RequestStep(r))
    /\ \A f \in Refresher : WF_vars(RefreshStep(f))
    /\ WF_vars(Age)

-----------------------------------------------------------------------------
(* Properties *)

\* Values of every variable; what is cached or evaluated is a complete payload.
TypeOK ==
    /\ status \in [VersionId -> {"absent", "draft", "live", "prev"}]
    /\ live \in VersionId \union {NoVersion}
    /\ content \in [VersionId -> Content \union {NoContent}]
    /\ history \in Seq(Content \union {NoContent})
    /\ cache \in Payload \union {Nothing}
    /\ fresh \in BOOLEAN
    /\ inflight \in BOOLEAN
    /\ compiled \in [Key -> Canvas \union {NoCanvas}]
    /\ pc \in [Task -> RequestPC \union RefresherPC]
    /\ got \in [Task -> Answer]
    /\ class \in [Request -> Class]
    /\ used \in [Request -> Canvas \union {NoCanvas}]

\* The payloads in the cache and in the hands of requests.
Served == {cache} \union {got[t] : t \in Task}

\* Whatever is cached or applied was the live version when it was fetched, in
\* number and graph: no draft, no mixture of two versions reaches a response,
\* though pointer and row are read apart.
ServedWasLive ==
    \A a \in Served : a.kind = "ok" =>
        /\ a.epoch \in DOMAIN history
        /\ history[a.epoch] = [number |-> a.number, graph |-> a.graph]

\* The in-flight marker belongs to a refresh that runs and will remove it: no
\* refresh leaves it behind to block the next ones.
MarkerOwned ==
    inflight => \E f \in Refresher : pc[f] \in Fetching \union {"fetched", "unmark"}

\* A request evaluates the canvas of the graph it was served, for the class of
\* its reader: the compiled cache mixes neither versions nor classes.
EvaluatesItsCanvas ==
    \A r \in Request : pc[r] = "evaluated" => used[r] = CanvasOf(r)

\* When publishing has settled, requests eventually get the live version only,
\* complete: every stale entry is refreshed and every unpublished one dropped.
IsLive(a) ==
    /\ live # NoVersion
    /\ content[live] = [number |-> a.number, graph |-> a.graph]
    /\ a.whole

CatchesUp ==
    \A v \in VersionId \union {NoVersion} :
        <>[](live = v) => <>[](\A r \in Request : pc[r] = "evaluated" => IsLive(got[r]))

=============================================================================
