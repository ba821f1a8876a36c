------------------------------- MODULE Catalog -------------------------------
(***************************************************************************)
(* The three tables without versions - features, sites and test presets -  *)
(* with the operations of their services, and the two lists the proxy      *)
(* keeps of them: the ordered features and the index of sites by source.   *)
(*                                                                         *)
(* Every write is one statement of PostgreSQL and either takes effect or   *)
(* changes nothing, except the creation of a feature, which reads the next *)
(* free order in a statement of its own.  What a client is answered is     *)
(* left out.  The proxy checks its cache, asks the backend and stores the  *)
(* answer in separate steps, so a late answer may overwrite a later one.   *)
(*                                                                         *)
(* Bounds: MaxOrder stands for the largest 32-bit order, PageSize for the  *)
(* page of 100 the proxy asks for, MaxChanges for the writes of a          *)
(* behaviour, all of which go to one table.                                *)
(***************************************************************************)
EXTENDS Naturals, FiniteSets, SequencesExt

CONSTANTS
    Client,         \* requests that create features, in flight
    Reader,         \* requests of the proxy
    FeatureId,
    MaxOrder,
    Slug,
    Name,
    Source,         \* host and port of a site as an administrator types them
    Normal(_),      \* what normalize_key makes of a source
    Dest,
    PageSize,
    MaxChanges

ASSUME BoundsAssumption == MaxOrder \in Nat /\ PageSize \in Nat /\ MaxChanges \in Nat

VARIABLES
    features,       \* rows of rre.features
    sites,          \* rows of rre.sites, oldest first
    presets,        \* rows of rre.test_presets, oldest first
    draft,          \* the feature a client is about to insert
    cache,          \* the proxy's list of features and its index of sites
    stage,          \* how far a request of the proxy is
    got,            \* the answer it holds
    focus,          \* the table that is written in this behaviour
    changes

tables == <<features, sites, presets>>
proxy == <<cache, stage, got>>
vars == <<tables, draft, proxy, focus, changes>>

Table == {"features", "sites", "presets"}
Kind == {"html", "json"}

\* What the columns of a row may hold, accepted or not.
FeatureRow == [id : FeatureId, kind : Kind, order : 1..MaxOrder]
Header == {"x-site", "host"}
SiteRow == [slug : Slug, name : Name, source : Source, dest : Dest, headers : SUBSET Header]
PresetRow == [slug : Slug, name : Name, kind : {"rule", "url"},
              payload : {"object", "other object", "array", "oversized object"}]

-----------------------------------------------------------------------------
(* Constraints of the tables and validation in the services *)

\* Fault: without the constraint of migration 0012.
IdsClash(row, other) == row.id = other.id

\* The primary key and features_type_execution_order_unique.
FeaturesClash(row, other) ==
    row.id = other.id \/ (row.kind = other.kind /\ row.order = other.order)

\* Slug, name and the source exactly as stored.
SitesClash(row, other) ==
    row.slug = other.slug \/ row.name = other.name \/ row.source = other.source

PresetsClash(row, other) == row.slug = other.slug \/ row.name = other.name

\* Headers the proxy manages itself cannot be configured.
ForbiddenHeader == {"host"}
ValidateHeaders(headers) == headers \cap ForbiddenHeader = {}

ValidatePayload(payload) == payload \in {"object", "other object"}

ValidSites == {row \in SiteRow : ValidateHeaders(row.headers)}
ValidPresets == {row \in PresetRow : ValidatePayload(row.payload)}

-----------------------------------------------------------------------------
(* The lists the backend answers and what the proxy makes of them *)

FirstPage(list) == SubSeq(list, 1, IF Len(list) < PageSize THEN Len(list) ELSE PageSize)

\* Fault: the highest order first.
ListDescending == FirstPage(SetToSortSeq(features, LAMBDA f, g : f.order >= g.order))

\* ORDER BY type, execution_order; html comes before json.  No two features
\* have both in common, so that each has its place.
ListedBefore(f, g) ==
    \/ f.kind = "html" /\ g.kind = "json"
    \/ f.kind = g.kind /\ f.order < g.order

Place(f) == 1 + Cardinality({g \in features : ListedBefore(g, f)})

ListFeatures ==
    FirstPage([i \in 1..Cardinality(features) |-> CHOOSE f \in features : Place(f) = i])

\* ORDER BY created_at DESC.
ListSites == FirstPage(Reverse(sites))

\* SiteIndex::from_sites: the last site of the page that has a source keeps it.
SiteIndex(page) ==
    LET keys == {Normal(page[i].source) : i \in DOMAIN page}
        last(k) == CHOOSE i \in DOMAIN page :
            /\ Normal(page[i].source) = k
            /\ \A j \in i+1..Len(page) : Normal(page[j].source) # k
    IN  {[key |-> k, site |-> page[last(k)]] : k \in keys}

Answer(list) ==
    CASE list = "features" -> ListFeatures
      [] list = "sites" -> SiteIndex(ListSites)

-----------------------------------------------------------------------------
Init ==
    /\ features = {} /\ sites = <<>> /\ presets = <<>>
    /\ draft = [c \in Client |-> {}]
    /\ cache = [list \in {"features", "sites"} |-> {}]
    /\ stage = [r \in Reader |-> "idle"]
    /\ got = [r \in Reader |-> {}]
    /\ focus \in Table
    /\ changes = 0

\* A write of the table in focus.
Change(table) ==
    /\ focus = table
    /\ changes < MaxChanges
    /\ changes' = changes + 1
    /\ UNCHANGED <<focus, proxy>>

-----------------------------------------------------------------------------
(* feature_service *)

\* The orders of a type and the next one: MAX(execution_order) + 1.
Orders(kind) == {f.order : f \in {g \in features : g.kind = kind}}
NextExecutionOrder(kind) == IF Orders(kind) = {} THEN 1 ELSE Max(Orders(kind)) + 1

\* create, first statement: the order the client sent or the next free one;
\* beyond MaxOrder the addition fails and so does the request.
BeginCreate(c) ==
    /\ focus = "features"
    /\ draft[c] = {}
    /\ changes < MaxChanges
    /\ \E id \in FeatureId, kind \in Kind :
        \E order \in {NextExecutionOrder(kind)} \union 1..MaxOrder :
            /\ order <= MaxOrder
            /\ draft' = [draft EXCEPT ![c] = {[id |-> id, kind |-> kind, order |-> order]}]
    /\ UNCHANGED <<tables, proxy, focus, changes>>

\* create, second statement.
InsertFeature(c) ==
    \E row \in draft[c] :
        /\ \A other \in features : ~FeaturesClash(row, other)
        /\ features' = features \union {row}
        /\ draft' = [draft EXCEPT ![c] = {}]
        /\ UNCHANGED <<sites, presets>>
        /\ Change("features")

\* The slug or the order was taken.
InsertFeatureConflict(c) ==
    \E row \in draft[c] :
        /\ \E other \in features : FeaturesClash(row, other)
        /\ draft' = [draft EXCEPT ![c] = {}]
        /\ UNCHANGED <<tables, proxy, focus, changes>>

\* The statement of an update.
UpdateFields(row, new) ==
    LET others == features \ {row} IN
    /\ \A other \in others : ~FeaturesClash(new, other)
    /\ features' = others \union {new}

\* The name, which nothing depends on, is left out.
UpdateFeature ==
    \E row \in features : \E order \in 1..MaxOrder \ {row.order} :
        /\ UpdateFields(row, [row EXCEPT !.order = order])
        /\ UNCHANGED <<sites, presets, draft>>
        /\ Change("features")

DeleteFeature ==
    \E row \in features :
        /\ features' = features \ {row}
        /\ UNCHANGED <<sites, presets, draft>>
        /\ Change("features")

-----------------------------------------------------------------------------
(* site_service *)

\* The statements of a creation and of an update.
InsertSite(row) ==
    /\ \A i \in DOMAIN sites : ~SitesClash(row, sites[i])
    /\ sites' = Append(sites, row)

WriteSite(i, row) ==
    /\ \A j \in DOMAIN sites \ {i} : ~SitesClash(row, sites[j])
    /\ sites' = [sites EXCEPT ![i] = row]

CreateSite ==
    \E row \in ValidSites :
        /\ InsertSite(row)
        /\ UNCHANGED <<features, presets, draft>>
        /\ Change("sites")

\* Every column but the slug, each kept when it is not sent.
UpdateSite ==
    \E i \in DOMAIN sites : \E row \in ValidSites \ {sites[i]} :
        /\ row.slug = sites[i].slug
        /\ WriteSite(i, row)
        /\ UNCHANGED <<features, presets, draft>>
        /\ Change("sites")

DeleteSite ==
    \E i \in DOMAIN sites :
        /\ sites' = RemoveAt(sites, i)
        /\ UNCHANGED <<features, presets, draft>>
        /\ Change("sites")

-----------------------------------------------------------------------------
(* test_preset_service *)

\* The statements of a creation and of an update.
InsertPreset(row) ==
    /\ \A i \in DOMAIN presets : ~PresetsClash(row, presets[i])
    /\ presets' = Append(presets, row)

WritePreset(i, row) ==
    /\ \A j \in DOMAIN presets \ {i} : ~PresetsClash(row, presets[j])
    /\ presets' = [presets EXCEPT ![i] = row]

CreatePreset ==
    \E row \in ValidPresets :
        /\ InsertPreset(row)
        /\ UNCHANGED <<features, sites, draft>>
        /\ Change("presets")

\* The name and the payload; the slug and the kind are not in the request.
UpdatePreset ==
    \E i \in DOMAIN presets : \E row \in ValidPresets \ {presets[i]} :
        /\ row.slug = presets[i].slug
        /\ row.kind = presets[i].kind
        /\ WritePreset(i, row)
        /\ UNCHANGED <<features, sites, draft>>
        /\ Change("presets")

DeletePreset ==
    \E i \in DOMAIN presets :
        /\ presets' = RemoveAt(presets, i)
        /\ UNCHANGED <<features, sites, draft>>
        /\ Change("presets")

-----------------------------------------------------------------------------
(* The proxy: SiteMap::index and BackendClient::feature_list_cached *)

\* A hit changes nothing but the time: only a miss is a step.  A cached value
\* is the only element of its set.
Miss(r) ==
    \E list \in {"features", "sites"} :
        /\ stage[r] = "idle"
        /\ cache[list] = {}
        /\ stage' = [stage EXCEPT ![r] = list]
        /\ UNCHANGED <<tables, draft, cache, got, focus, changes>>

\* The backend answers with its tables of this moment.
Fetch(r) ==
    /\ stage[r] \in DOMAIN cache
    /\ got[r] = {}
    /\ got' = [got EXCEPT ![r] = {Answer(stage[r])}]
    /\ UNCHANGED <<tables, draft, cache, stage, focus, changes>>

\* No answer, or not one of success: an empty list that is not cached.
FetchError(r) ==
    /\ stage[r] \in DOMAIN cache
    /\ got[r] = {}
    /\ stage' = [stage EXCEPT ![r] = "idle"]
    /\ UNCHANGED <<tables, draft, cache, got, focus, changes>>

\* insert overwrites what another request has stored meanwhile.
Store(r) ==
    /\ got[r] # {}
    /\ cache' = [cache EXCEPT ![stage[r]] = got[r]]
    /\ stage' = [stage EXCEPT ![r] = "idle"]
    /\ got' = [got EXCEPT ![r] = {}]
    /\ UNCHANGED <<tables, draft, focus, changes>>

\* Fault: the time to live starts again with every request.
ExpireIdle(list) ==
    /\ cache[list] # {}
    /\ \A r \in Reader : stage[r] = "idle"
    /\ cache' = [cache EXCEPT ![list] = {}]
    /\ UNCHANGED <<tables, draft, stage, got, focus, changes>>

\* The time to live of an entry is over.
Expire(list) ==
    /\ cache[list] # {}
    /\ cache' = [cache EXCEPT ![list] = {}]
    /\ UNCHANGED <<tables, draft, stage, got, focus, changes>>

-----------------------------------------------------------------------------
Next ==
    \/ \E c \in Client : BeginCreate(c) \/ InsertFeature(c) \/ InsertFeatureConflict(c)
    \/ UpdateFeature \/ DeleteFeature
    \/ CreateSite \/ UpdateSite \/ DeleteSite
    \/ CreatePreset \/ UpdatePreset \/ DeletePreset
    \/ \E r \in Reader : Miss(r) \/ Fetch(r) \/ FetchError(r) \/ Store(r)
    \/ \E list \in {"features", "sites"} : Expire(list)

Spec == Init /\ [][Next]_vars

\* Entries expire and a request that was answered goes on; nobody need send one.
FairSpec ==
    /\ Spec
    /\ \A r \in Reader : WF_vars(Fetch(r) \/ FetchError(r) \/ Store(r))
    /\ \A list \in {"features", "sites"} : WF_vars(Expire(list))

-----------------------------------------------------------------------------
(* Properties *)

\* Values of every variable.  The constraints hold although a new order is read
\* before it is inserted, and no invalid header or payload is ever stored.
TypeOK ==
    /\ features \subseteq FeatureRow
    /\ \A f, g \in features :
          f = g \/ (f.id # g.id /\ <<f.kind, f.order>> # <<g.kind, g.order>>)
    /\ sites \in Seq(ValidSites)
    /\ IsInjective([i \in DOMAIN sites |-> sites[i].slug])
    /\ presets \in Seq(ValidPresets)
    /\ IsInjective([i \in DOMAIN presets |-> presets[i].name])
    /\ \A c \in Client : draft[c] \subseteq FeatureRow
    /\ stage \in [Reader -> {"idle"} \union DOMAIN cache]
    /\ focus \in Table /\ changes \in 0..MaxChanges

\* What the proxy is told to run is a prefix of the chain of each type: no
\* feature is listed while one of its type that runs before it is left out or
\* listed after it, whichever features the page cuts off.
ChainsAreListed ==
    LET page == ListFeatures IN
    \A i \in DOMAIN page, f \in features :
        (f.kind = page[i].kind /\ f.order < page[i].order) => \E j \in 1..i-1 : page[j] = f

\* Once the tables are left alone, the proxy's lists become the backend's:
\* neither an answer that arrives late nor constant use keeps an old list.
CatchesUp ==
    <>[][FALSE]_tables =>
        \A list \in {"features", "sites"} : <>[](cache[list] \subseteq {Answer(list)})

=============================================================================
