----------------------------- MODULE Forwarder -----------------------------
(***************************************************************************)
(* One request through the proxy: forwarder.rs, with infra/encoding.rs,    *)
(* the appliers of JsonBody and HtmlBody, and the full-journey endpoint    *)
(* (full_journey.rs, eval.rs) run on the same page.                        *)
(*                                                                         *)
(* A world is what the request meets: its headers and cookies, the matched *)
(* site, the features the backend lists and serves, and the upstream's     *)
(* answer.  What a canvas asks of the request is one question; CanvasWalk  *)
(* has the walk.                                                           *)
(***************************************************************************)
EXTENDS JsonBody, HtmlBody

CONSTANTS
    HtmlWorlds, JsonWorlds,  \* the worlds requests meet, by kind of body
    HopByHop,                \* HOP_BY_HOP
    MaxEntries               \* how many expressions an entry keeps

\* Host and the headers that describe a body are between the two ends.
ASSUME HopByHopAssumption ==
    HopByHop \cap {"host", "content-length", "content-encoding"} = {}

VARIABLES
    world,     \* the request and all it meets
    phase,     \* where forward is
    outbound,  \* headers of the upstream request: pairs of a name and a value
    pending,   \* configured headers of the site that are not in it yet
    received,  \* resp_headers, a function
    queue,     \* feature_ids left
    serving,   \* the feature whose actions are applied, as a set of at most one
    body,      \* the running body
    matched,   \* entries of the features that changed the body
    anyApplied,
    response,  \* what the client is sent, as a set of at most one
    journey    \* the body the journey ends with, as a set of at most one

request == <<outbound, pending>>
pipeline == <<request, received, queue, serving, body, matched, anyApplied>>
vars == <<world, phase, pipeline, response, journey>>

\* The upstreams worth a proof say truthfully how their body is encoded; how
\* long it is, if they say, the model keeps as sized.
Truthful(u) ==
    u.error = "none" =>
        /\ u.headers \in Seq(STRING \X STRING)
        /\ \A i \in DOMAIN u.headers :
              /\ u.headers[i][1] # "content-length"
              /\ u.headers[i][1] = "content-encoding" => u.headers[i][2] = u.wire.coding
        /\ (\A i \in DOMAIN u.headers : u.headers[i][1] # "content-encoding")
              => u.wire.coding = "identity"

ASSUME UpstreamAssumption ==
    /\ \A w \in HtmlWorlds : Truthful(w.upstream)
    /\ \A w \in JsonWorlds : Truthful(w.upstream)

-----------------------------------------------------------------------------
(* The request *)

\* classify: the first cookie rre_user_type decides.
Classify(cookies) ==
    LET types == SelectSeq(cookies, LAMBDA c : c[1] = "rre_user_type") IN
    IF types # <<>> /\ types[1][2] \in {"registered", "customer"} THEN types[1][2]
    ELSE "anonymous"

IsForbiddenSiteHeader(name) == name \in {"host", "content-length"} \union HopByHop

\* Fault: a value that cannot be sent leaves the client's.
OverrideIfParsed(headers, h) ==
    IF IsForbiddenSiteHeader(h.name) \/ h.value = "unparseable" THEN headers
    ELSE {o \in headers : o[1] # h.name} \union {<<h.name, h.value>>}

\* A configured header of the site: the client's values go, then the
\* configured one is inserted if it can be sent.
Override(headers, h) ==
    IF IsForbiddenSiteHeader(h.name) THEN headers
    ELSE {o \in headers : o[1] # h.name}
         \union IF h.value = "unparseable" THEN {} ELSE {<<h.name, h.value>>}

-----------------------------------------------------------------------------
(* The upstream's answer *)

FirstValue(headers, name) ==
    LET named == {i \in DOMAIN headers : headers[i][1] = name} IN
    IF named = {} THEN "none" ELSE headers[Min(named)][2]

\* HeaderMap::insert.
Setting(headers, name, value) ==
    [n \in DOMAIN headers \union {name} |-> IF n = name THEN value ELSE headers[n]]

\* resp_headers.insert: of a repeated header the last value stays.
Captured(u) ==
    LET last == [name \in {h[1] : h \in Range(u.headers)} |->
                    u.headers[Max({i \in DOMAIN u.headers : u.headers[i][1] = name})][2]]
    IN  IF u.sized THEN Setting(last, "content-length", u.wire) ELSE last

Dropping(headers, names) == Restrict(headers, DOMAIN headers \ names)
StripHopByHop(headers) == Dropping(headers, HopByHop)

\* is_html and is_json, html first.
ContentKind(u) ==
    CASE FirstValue(u.headers, "content-type") = "text/html" -> "html"
      [] FirstValue(u.headers, "content-type") = "application/json" -> "json"
      [] OTHER -> "other"

Wire(coding, text) == [coding |-> coding, text |-> text]

\* decode_for_modify: identity and gzip, inflated up to the cap, in UTF-8.
Decodes(u) ==
    /\ FirstValue(u.headers, "content-encoding") \in {"none", "identity", "gzip"}
    /\ u.wire.text.form \notin {"bomb", "binary"}

\* reencode: gzip if it came in gzip, unless encoding fails.
Reencoded(u, text, gzips) ==
    Wire(IF FirstValue(u.headers, "content-encoding") = "gzip" /\ gzips THEN "gzip" ELSE "identity",
         text)

\* The response; marks are its headers x-rre-feature-<id>.
Stamped(u, headers, wire, apply, marks) ==
    {[status |-> u.status, wire |-> wire, marks |-> marks,
      headers |-> Setting(headers, "x-rre-apply-status", apply)]}

-----------------------------------------------------------------------------
(* Worlds *)

\* What the backend lists and serves: features in some order, at most one
\* version of each, canvases that ask one of four questions.
IsCanvas(canvas) ==
    /\ canvas.asks.kind \in {"always", "meta_tags", "json_expression", "fails"}
    /\ canvas.actions \in Seq(Range(canvas.actions))

Classes == {"anonymous", "registered", "customer"}
IsVersion(v) ==
    /\ v = [number |-> v.number, gate |-> v.gate, outcomes |-> v.outcomes, canvases |-> v.canvases]
    /\ \A class \in Classes : IsCanvas(v.canvases[class])
    /\ \A components \in Range(v.outcomes) : components \in Seq(Range(components))

ComponentsIn(w) ==
    UNION {Range(components) : components \in UNION {Range(v.outcomes) : v \in UNION Range(w.served)}}
ActionsIn(w) ==
    UNION {Range(v.canvases[class].actions) : v \in UNION Range(w.served), class \in Classes}

IsWorld(w) ==
    /\ w.listed \in Seq(Range(w.listed))
    /\ \A f \in Range(w.listed) : f.id \in DOMAIN w.served
    /\ \A id \in DOMAIN w.served : \A v \in w.served[id] : IsVersion(v) /\ w.served[id] = {v}

\* Where the entries are, "reserved namespace"; nothing keeps the upstream or an
\* action out of it.
Rre == <<Key(<<"rre">>)>>
Expressions == Append(Rre, Key(<<"feature_expressions">>))
EntryPath(id) == Append(Expressions, Key(<<id>>))

\* What can be read is a page or a tree, of a kind with its type.
IsText(text, w) ==
    /\ text.form \in {"html", "json", "bomb", "binary"}
    /\ text.form = "html" => IsPage(text.value)
    /\ text.form = "json" => ContentKind(w.upstream) # "html" /\ IsTree(text.value)

\* An answer is met with the components and actions for its kind.
IsMet(w) ==
    w.upstream.error = "none" =>
        /\ IsText(w.upstream.wire.text, w)
        /\ ContentKind(w.upstream) = "html" => \A c \in ComponentsIn(w) : IsHtmlComponent(c)
        /\ ContentKind(w.upstream) = "json" =>
              /\ \A c \in ComponentsIn(w) : IsJsonComponent(c)
              /\ \A action \in ActionsIn(w) : IsJsonAction(action)

ASSUME WorldAssumption ==
    /\ \A w \in HtmlWorlds : IsWorld(w) /\ IsMet(w)
    /\ \A w \in JsonWorlds : IsWorld(w) /\ IsMet(w)

-----------------------------------------------------------------------------
(* A feature *)

\* selector_matches; a selector that does not parse lets the feature through.
SelectorMatches(gate, b) ==
    LET selector == gate[b.kind] IN
    CASE selector.kind \in {"none", "malformed"} -> TRUE
      [] selector.kind = "selects" /\ b.kind = "json" -> selector.of \in DOMAIN b.value
      [] selector.kind = "selects" /\ b.kind = "html" -> Targets(b.value, selector.of) # {}

HasMeta(doc, name) == \E t \in Range(doc) : t.name = "meta" /\ name \in t.marks

\* Fault: the page is never given to the canvas.
CanvasHasMetaTagsNever(canvas) == FALSE
CanvasHasMetaTags(canvas) == canvas.asks.kind = "meta_tags"

\* What the canvas answers, given the body it is shown.
Answer(canvas, b) ==
    CASE canvas.asks.kind = "always" -> canvas.actions
      [] canvas.asks.kind = "meta_tags" ->
            IF b.kind = "html" /\ HasMeta(b.value, canvas.asks.of) THEN canvas.actions ELSE <<>>
      [] canvas.asks.kind = "json_expression" ->
            IF b.kind = "json" /\ canvas.asks.of \in DOMAIN b.value THEN canvas.actions ELSE <<>>
      [] canvas.asks.kind = "fails" -> <<>>

\* An HTML page is only shown to a canvas that asks for its meta tags.
Shown(canvas, b) ==
    IF b.kind = "json" \/ CanvasHasMetaTags(canvas) THEN b ELSE [b EXCEPT !.value = <<>>]

\* The components of an outcome on a page; one that cannot be rendered is
\* skipped, and a panic ends it all.
ApplyOutcomeHtml(page, components) ==
    FoldComponents(page, components,
        LAMBDA p, c :
            LET r == RenderComponent(p.value, c) IN
            IF p.panicked \/ r.kind = "error" THEN Result(p, FALSE)
            ELSE IF r.kind = "panic" THEN Result([p EXCEPT !.panicked = TRUE], FALSE)
            ELSE Result([p EXCEPT !.value = r.doc], r.doc # p.value))

\* apply_action_html and apply_action_json.
Apply(b, action, outcomes) ==
    IF b.kind = "json"
    THEN LET r == ApplyActionJson(b.value, action, outcomes)
         IN  Result([b EXCEPT !.value = r.tree], r.changed)
    ELSE IF action.type = "apply_outcome" /\ action.outcome \in DOMAIN outcomes
    THEN ApplyOutcomeHtml(b, outcomes[action.outcome])
    ELSE Result(b, FALSE)

\* build_entry: the last expressions, and the version they are of.
Entry(feature) ==
    [id |-> feature.id, version |-> feature.version,
     expressions |-> SubSeq(feature.run, IF Len(feature.run) > MaxEntries
                                         THEN Len(feature.run) - MaxEntries + 1 ELSE 1,
                            Len(feature.run))]

MatchedIds == {m.id : m \in Range(matched)}

\* window.rre before the last </body>, or body.rre without its other keys lost.
RreScript == Script("rre", {<<m.id, m.version>> : m \in Range(matched)})
InjectExpressions(b) ==
    IF matched = <<>> \/ (b.kind = "json" /\ b.value[<<>>] # "object") THEN b
    ELSE IF b.kind = "html" THEN [b EXCEPT !.value = AppendToBody(@, <<RreScript>>)]
    ELSE LET tree == b.value
             home == IF Rre \in DOMAIN tree /\ IsObject(tree, Rre) THEN tree
                     ELSE Insert(tree, Rre, EmptyObject)
             entries == [p \in {<<>>} \union {<<Key(<<id>>)>> : id \in MatchedIds} |->
                            IF p = <<>> THEN "object" ELSE "entry"]
         IN  [b EXCEPT !.value = Insert(home, Expressions, entries)]

-----------------------------------------------------------------------------
(* forward, step by step *)

Init ==
    /\ \/ world \in HtmlWorlds
       \/ world \in JsonWorlds
    /\ phase = "copy"
    /\ outbound = {} /\ pending = {}
    /\ received = <<>>
    /\ queue = <<>>
    /\ serving = {}
    /\ body = {}
    /\ matched = <<>>
    /\ anyApplied = FALSE
    /\ response = {}
    /\ journey = {}

Up == world.upstream

\* The client's headers but those of its connection, and the host asked.
CopyHeaders ==
    /\ phase = "copy"
    /\ phase' = "send"
    /\ outbound' = {h \in world.client : h[1] \notin HopByHop \union {"host"}}
                     \union {<<"host", world.dest>>}
    /\ pending' = world.siteHeaders
    /\ UNCHANGED <<world, received, queue, serving, body, matched, anyApplied, response, journey>>

\* The next header of the site, a hash map: they come in any order.
SetSiteHeader ==
    /\ phase = "send"
    /\ \E h \in pending :
          /\ outbound' = Override(outbound, h)
          /\ pending' = pending \ {h}
    /\ UNCHANGED <<world, phase, received, queue, serving, body, matched, anyApplied, response, journey>>

\* The upstream is asked with the site's headers; its error ends the request.
\* Without features its answer is the client's.
SendUpstream ==
    /\ phase = "send"
    /\ pending = {}
    /\ IF Up.error # "none"
       THEN /\ response' = {[status |-> IF Up.error = "UPSTREAM_TIMEOUT" THEN 504 ELSE 502,
                             wire |-> Wire("identity", Up.error), headers |-> <<>>, marks |-> {}]}
            /\ phase' = "sent"
            /\ UNCHANGED received
       ELSE /\ received' = Captured(Up)
            /\ IF world.listed = <<>> \/ ContentKind(Up) = "other"
               THEN /\ response' = Stamped(Up, StripHopByHop(received'), Up.wire, "skipped", {})
                    /\ phase' = "sent"
               ELSE UNCHANGED response /\ phase' = "decode"
    /\ UNCHANGED <<world, request, queue, serving, body, matched, anyApplied, journey>>

OfKind(kind) == Keeping(world.listed, {f \in Range(world.listed) : f.kind = kind})

\* The body is decoded, and parsed if it is JSON; when that fails, or no
\* feature is of its kind, the upstream's is served.
Decode ==
    /\ phase = "decode"
    /\ IF /\ Decodes(Up)
          /\ OfKind(ContentKind(Up)) # <<>>
          /\ ContentKind(Up) = "json" => Up.wire.text.form = "json"
       THEN /\ queue' = OfKind(ContentKind(Up))
            /\ body' = {[kind |-> ContentKind(Up), value |-> Up.wire.text.value, panicked |-> FALSE]}
            /\ phase' = "fold"
            /\ UNCHANGED response
       ELSE /\ response' = Stamped(Up, received, Up.wire, "skipped", {})
            /\ phase' = "sent"
            /\ UNCHANGED <<queue, body>>
    /\ UNCHANGED <<world, request, received, serving, matched, anyApplied, journey>>

Running == CHOOSE b \in body : TRUE
Canvas(version) == version.canvases[Classify(world.cookies)]

\* The next feature: its version is fetched and gated, and its canvas asked.
StartFeature ==
    /\ phase = "fold"
    /\ serving = {}
    /\ queue # <<>>
    /\ queue' = Tail(queue)
    /\ \E versions \in {world.served[queue[1].id]} :
          serving' = {[id |-> queue[1].id, version |-> v.number, outcomes |-> v.outcomes,
                       left |-> Answer(Canvas(v), Shown(Canvas(v), Running)),
                       run |-> <<>>, applied |-> FALSE] :
                        v \in {v \in versions : SelectorMatches(v.gate, Running)}}
    /\ UNCHANGED <<world, phase, request, received, body, matched, anyApplied, response, journey>>

\* One matched action of the feature.
ApplyAction ==
    /\ phase = "fold"
    /\ \E f \in serving :
          /\ f.left # <<>>
          /\ \E r \in {Apply(Running, f.left[1], f.outcomes)} :
                /\ body' = {r.tree}
                /\ serving' = {[f EXCEPT !.left = Tail(@), !.applied = @ \/ r.changed,
                                         !.run = Append(@, f.left[1].node)]}
                /\ phase' = IF r.tree.panicked THEN "panicked" ELSE "fold"
    /\ UNCHANGED <<world, request, received, queue, matched, anyApplied, response, journey>>

\* Fault: a feature is marked when it had actions.
MarksAny(f) == f.run # <<>>

\* A feature is marked when it changed the body.
Marks(f) == f.applied /\ f.run # <<>>

EndFeature ==
    /\ phase = "fold"
    /\ \E f \in serving :
          /\ f.left = <<>>
          /\ matched' = IF Marks(f) THEN Append(matched, Entry(f)) ELSE matched
          /\ anyApplied' = (anyApplied \/ f.applied)
    /\ serving' = {}
    /\ UNCHANGED <<world, phase, request, received, queue, body, response, journey>>

\* Fault: the length of the upstream's body is kept.
FramedAsReceived(headers, wire) ==
    Dropping(StripHopByHop(headers), IF wire.coding = "gzip" THEN {} ELSE {"content-encoding"})

\* The headers of a body that was encoded again.
Framed(headers, wire) ==
    LET kept == Dropping(StripHopByHop(headers),
                         IF wire.coding = "gzip" THEN {} ELSE {"content-encoding"})
    IN  Setting(kept, "content-length", wire)

Reply ==
    /\ phase = "fold"
    /\ serving = {}
    /\ queue = <<>>
    /\ \E gzips \in BOOLEAN :
          LET text == [form |-> Running.kind, value |-> InjectExpressions(Running).value]
              wire == Reencoded(Up, text, gzips)
          IN  response' = Stamped(Up, Framed(received, wire), wire,
                                  IF anyApplied THEN "ok" ELSE "skipped", MatchedIds)
    /\ phase' = "sent"
    /\ UNCHANGED <<world, pipeline, journey>>

-----------------------------------------------------------------------------
(* POST /__rre/eval-full-journey for the same page, site and headers *)

\* resolve_version: a pinned version comes without its outcomes.
Resolved(id, pinned) ==
    IF id \in pinned THEN {[v EXCEPT !.outcomes = <<>>] : v \in world.served[id]}
    ELSE world.served[id]

JourneyGate(v, b, fetched) == SelectorMatches(v.gate, b)

\* One feature: the whole body is shown, an evaluation that fails skips it.
JourneyFeature(b, fetched, versions) ==
    LET open == {v \in versions : JourneyGate(v, b, fetched)}
        v == CHOOSE v \in open : TRUE
        actions == Answer(Canvas(v), b)
        after[k \in 0..Len(actions)] ==
            IF k = 0 THEN b
            ELSE IF after[k - 1].panicked THEN after[k - 1]
            ELSE Apply(after[k - 1], actions[k], v.outcomes).tree
    IN  IF open = {} THEN b ELSE after[Len(actions)]

RunFullJourney(fetched, pinned) ==
    LET features == OfKind(fetched.kind)
        shown[k \in 0..Len(features)] ==
            IF k = 0 THEN fetched
            ELSE IF shown[k - 1].panicked THEN shown[k - 1]
            ELSE JourneyFeature(shown[k - 1], fetched, Resolved(features[k].id, pinned))
    IN  shown[Len(features)]

\* fetch_for_eval needs a site, a kind it can show and a body it can decode.
Testable ==
    /\ world.site
    /\ Up.error = "none"
    /\ ContentKind(Up) # "other"
    /\ Decodes(Up)
    /\ ContentKind(Up) = "json" => Up.wire.text.form = "json"

RunJourney ==
    /\ phase \in {"sent", "panicked"}
    /\ journey = {}
    /\ Testable
    /\ \E pinned \in SUBSET {f.id : f \in Range(world.listed)} :
          LET fetched == [kind |-> ContentKind(Up), value |-> Up.wire.text.value, panicked |-> FALSE]
          IN  journey' = {[pinned |-> pinned, body |-> RunFullJourney(fetched, pinned)]}
    /\ UNCHANGED <<world, phase, pipeline, response>>

Finished ==
    /\ phase \in {"sent", "panicked"}
    /\ Testable => journey # {}
    /\ UNCHANGED vars

Next ==
    \/ CopyHeaders \/ SetSiteHeader \/ SendUpstream \/ Decode \/ StartFeature \/ ApplyAction \/ EndFeature \/ Reply
    \/ RunJourney \/ Finished

Spec == Init /\ [][Next]_vars

-----------------------------------------------------------------------------
(* Properties *)

\* A JSON body stays a tree; a request that has been answered has one answer.
TypeOK ==
    /\ phase \in {"copy", "send", "decode", "fold", "sent", "panicked"}
    /\ \A S \in {serving, body, response, journey} : Cardinality(S) <= 1
    /\ phase = "sent" <=> response # {}
    /\ \A b \in body : b.kind = "json" => WellFormed(b.value)
    /\ MatchedIds \subseteq {f.id : f \in Range(world.listed)}

HtmlComponents == ComponentsIn(world)

\* Rendering a component again on what it made changes nothing, on every page
\* a request comes by.  (applier/mod.rs: "IDEMPOTENT")
RenderersIdempotent ==
    \A b \in body : b.kind = "html" =>
        \A c \in HtmlComponents :
            LET once == RenderComponent(b.value, c) IN
            once.kind = "ok" => RenderComponent(once.doc, c) = once

Sent(property(_)) == \A r \in response : Up.error = "none" => property(r)

\* The body and the headers that describe it fit, whatever was re-encoded.
\* (forwarder.rs, step 6; encoding.rs, reencode)
FramingMatches ==
    Sent(LAMBDA r :
        /\ "content-length" \in DOMAIN r.headers => r.headers["content-length"] = r.wire
        /\ r.wire.coding = IF "content-encoding" \in DOMAIN r.headers
                           THEN r.headers["content-encoding"] ELSE "identity")

\* The features that left their entry in a body.
Entered(text) ==
    IF text.form = "html"
    THEN {m[1] : m \in UNION {t.marks : t \in {t \in Range(text.value) : t.is = "script"}}}
    ELSE {f.id : f \in {f \in Range(world.listed) : EntryPath(f.id) \in DOMAIN text.value}}

HasRoom(text) == text.form = "html" \/ (text.form = "json" /\ text.value[<<>>] = "object")

\* All of the upstream's body is there, and of a JSON body nothing more than
\* empty objects.
BodyKept(text) ==
    LET was == Up.wire.text.value
        is == text.value
    IN  \/ is = was
        \/ /\ text.form = "json"
           /\ \A p \in DOMAIN was : p \in DOMAIN is /\ is[p] = was[p]
           /\ \A p \in DOMAIN is \ DOMAIN was : is[p] = "object"

\* The response is "ok" exactly if some feature marks it.  Then the marks in its
\* headers are the entries in its body, if the body has room for entries,
\* whatever the upstream and the actions had put in their place.  Otherwise the
\* body is kept: its entries, if any, are the upstream's, or empty objects that
\* a set_path made before it failed.
\* (forwarder.rs, apply_features_html and apply_features_json; json_apply.rs,
\* set_path)
StatusAgrees == Sent(LAMBDA r : r.headers["x-rre-apply-status"] = "ok" <=> r.marks # {})

StampsAgree ==
    /\ StatusAgrees
    /\ Sent(LAMBDA r :
        IF r.marks = {} THEN BodyKept(r.wire.text)
        ELSE HasRoom(r.wire.text) => Entered(r.wire.text) = r.marks)

\* The upstream never sees a client's value for a header the site configures,
\* nor one made for the client's connection.  (forwarder.rs, send_upstream)
SiteHeadersWin ==
    phase \notin {"copy", "send"} =>
        \A o \in outbound :
            /\ o[1] \notin HopByHop
            /\ o[1] = "host" => o[2] = world.dest
            /\ \A h \in world.siteHeaders :
                  h.name = o[1] /\ ~IsForbiddenSiteHeader(h.name) =>
                      \E k \in world.siteHeaders : <<k.name, k.value>> = o

UsesOutcomes(id) ==
    \E v \in world.served[id] :
        \E action \in Range(Canvas(v).actions) : action.type = "apply_outcome"

\* The journey shows the body the client was sent, but for the injected
\* entries, unless a version is pinned whose outcomes it lacks.
\* (full_journey.rs: "correctness mirrors production")
JourneyAgrees ==
    \A j \in journey : \A b \in body :
        (\A id \in j.pinned : ~UsesOutcomes(id)) => j.body = b

=============================================================================
