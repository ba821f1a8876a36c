--------------------------- MODULE MCForwarder ---------------------------
(* Instances of Forwarder: pages and outcomes of every pair of components,   *)
(* JSON bodies and every action on every path, and what the upstream and the *)
(* site can do to a simple exchange.                                         *)
EXTENDS Forwarder, TLC

MCNumerals == "0" :> 0 @@ "1" :> 1
MCHopByHop == {"connection", "te"}

Ungated == [kind |-> "none", of |-> <<>>]
Malformed == [kind |-> "malformed", of |-> <<>>]
Selects(of) == [kind |-> "selects", of |-> of]
Always == [kind |-> "always", of |-> <<>>]
MetaTags(name) == [kind |-> "meta_tags", of |-> name]
JsonHas(path) == [kind |-> "json_expression", of |-> path]
Fails == [kind |-> "fails", of |-> <<>>]

Version(gate, asks, actions, outcomes) ==
    {[number |-> 1, gate |-> gate, outcomes |-> outcomes,
      canvases |-> [class \in {"anonymous", "registered", "customer"} |->
                       [asks |-> IF class = "customer" THEN Fails ELSE asks, actions |-> actions]]]}

Action(node, type, path, value, length, outcome) ==
    [node |-> node, type |-> type, path |-> path, value |-> value, length |-> length,
     outcome |-> outcome]
ApplyOutcome(node, outcome) == Action(node, "apply_outcome", <<>>, <<>>, 0, outcome)

Answers(type, encoding, more, wire) ==
    [error |-> "none", status |-> 200, sized |-> TRUE, wire |-> wire,
     headers |-> <<<<"content-type", type>>>>
                 \o (IF encoding = "none" THEN <<>> ELSE <<<<"content-encoding", encoding>>>>)
                 \o more]
Coding(encoding) == IF encoding = "none" THEN "identity" ELSE encoding
HtmlText(doc) == [form |-> "html", value |-> doc]
JsonText(tree) == [form |-> "json", value |-> tree]
Html(doc) == Answers("text/html", "none", <<>>, Wire("identity", HtmlText(doc)))
Json(tree) == Answers("application/json", "gzip", <<>>, Wire("gzip", JsonText(tree)))

World(upstream, listed, served) ==
    [client |-> {<<"accept", "any">>}, cookies |-> <<>>, site |-> TRUE, dest |-> "origin",
     siteHeaders |-> {}, listed |-> listed, served |-> served, upstream |-> upstream]

One(kind) == <<[id |-> "f1", kind |-> kind]>>
Two(kind) == <<[id |-> "f1", kind |-> kind], [id |-> "f2", kind |-> kind]>>

-----------------------------------------------------------------------------
(* Pages *)

Page == <<Open("head"), Token("open", "meta", {"tier"}), Close("head"), Open("body"),
          Open("p"), Word("w"), Word("x"), Close("p"), Open("p"), Word("y"), Close("p"),
          Close("body")>>
Piece == <<Open("p"), Word("w"), Open("p"), Word("x"), Close("p"), Close("p")>>
Empty == <<>>

Fragment == <<Open("b"), Word("v"), Close("b"), Script("tracker", {})>>
Component(type, placement, order, config) ==
    [id |-> "c", type |-> type, placement |-> placement, order |-> order, config |-> config]
Inject(selector, mode) ==
    Component("html_injection", "inline", 1, [selector |-> selector, mode |-> mode, html |-> Fragment])
Truncation(selector, count, fade) ==
    Component("content_truncation", "inline", 0, [selector |-> selector, count |-> count, fade |-> fade])
Box(placement) == Component("html_injection", placement, 0, [html |-> Fragment])

Components ==
    {Inject("p", mode) : mode \in {"before", "prepend", "append", "after", "replace"}}
    \union {Inject(selector, "before") : selector \in {"b", "", "["}}
    \union {Truncation("p", count, fade) : count \in 0..2, fade \in BOOLEAN}
    \union {Truncation("div", 1, TRUE), Component("json_set", "inline", 0, [path |-> <<>>]),
            Box("sticky_footer"), Box("popup")}

Outcomes2(c, d) == [o1 |-> <<c, [d EXCEPT !.id = "d"]>>, o2 |-> <<[d EXCEPT !.id = "d"]>>]
HtmlVersion(gate, asks, actions, c, d) ==
    Version([html |-> gate, json |-> Selects(<<>>)], asks, actions, Outcomes2(c, d))

\* Two components in one outcome.
Pairs ==
    {World(Html(page), One("html"),
           [f1 |-> HtmlVersion(Ungated, Always, <<ApplyOutcome("n", "o1"), ApplyOutcome("m", "gone")>>, c, d)]) :
        page \in {Page, Piece, Empty}, c \in Components, d \in Components}

\* Two features, the second of which may depend on what the first one did.
Chains ==
    {World(Html(Page), Two("html"),
           [f1 |-> HtmlVersion(Ungated, MetaTags("tier"), <<ApplyOutcome("n", "o2"), ApplyOutcome("m", "o2")>>, c, c),
            f2 |-> HtmlVersion(gate, asks, <<ApplyOutcome("m", "o2")>>, c, Box("popup"))]) :
        c \in Components, gate \in {Ungated, Malformed, Selects("b")},
        asks \in {Always, MetaTags("tier"), JsonHas(<<>>), Fails}}

-----------------------------------------------------------------------------
(* JSON bodies *)

A == Key(<<"a">>)
B == Key(<<"b">>)
Tree == (<<>> :> "object") @@ (<<A>> :> "array") @@ (<<A, Index(0)>> :> "s")
        @@ (<<A, Index(1)>> :> "object") @@ (<<A, Index(1), B>> :> "t") @@ (<<B>> :> "u")
Trees == {Tree, Scalar("object"), Scalar("s"), Scalar("array") @@ (<<Index(0)>> :> "s"),
          (<<>> :> "object") @@ (<<Key(<<"rre">>)>> :> "s") @@ (<<A>> :> "object"),
          (<<>> :> "object") @@ (Rre :> "object") @@ (Expressions :> "object")
          @@ (EntryPath("f1") :> "s")}

Paths == {<<"$", ".", "a">>, <<"$", ".", "b", ".", "c">>, <<"a", "[", "0", "]">>,
          <<"$", ".", "a", "[", "1", "]", ".", "b">>, <<"$", "[", "0", "]">>,
          <<"$", "[", "\"", "a", ".", "\"", "]">>, <<"c", ".", "b", "[", "0", "]">>,
          <<"$", ".", ".", "b">>, <<"$">>, <<" ">>, <<"a", "[">>, <<"a", "]">>,
          <<"a", "[", "x", "]">>, <<"a", ".", "b", ".", "c", ".", "d", ".">>,
          <<"a", ".", "b", "[", "0", "]", "[", "0", "]">>,
          <<"rre", ".", "feature_expressions", ".", "f2">>,
          <<"rre", ".", "feature_expressions", ".", "f1", "[", "0", "]">>}

JsonComponent(type, placement, order, path) ==
    Component(type, placement, order, [path |-> path, value |-> Scalar("v")])
JsonVersion(gate, asks, actions, path) ==
    Version([html |-> Selects("p"), json |-> gate], asks, actions,
            [o1 |-> <<JsonComponent("json_set", "popup", 0, path),
                      JsonComponent("json_remove", "inline", 2, <<"b">>),
                      JsonComponent("json_replace", "inline", 1, path),
                      JsonComponent("html_injection", "inline", 0, <<>>)>>,
             o2 |-> <<JsonComponent("json_remove", "inline", 0, path)>>])
JsonActions(path) ==
    {Action("n", "trim_json", path, <<>>, length, "none") : length \in {-1, 1}}
    \union {Action("n", "add_attribute", path, Scalar("v"), 0, "none"),
            ApplyOutcome("n", "o1"), ApplyOutcome("n", "o2"), ApplyOutcome("n", "gone"),
            Action("n", "unknown", <<>>, <<>>, 0, "none")}
Bodies ==
    UNION {{World(Json(tree), Two("json"),
                  [f1 |-> JsonVersion(Ungated, Always, <<action>>, path),
                   f2 |-> JsonVersion(second[1], second[2],
                                      <<Action("m", "add_attribute", <<"d">>, Scalar("v"), 0, "none")>>,
                                      path)]) :
               tree \in Trees, action \in JsonActions(path),
               second \in {<<Selects(<<B>>), Always>>, <<Malformed, JsonHas(<<A, Index(0)>>)>>,
                           <<Ungated, MetaTags("tier")>>}} :
              path \in Paths}

-----------------------------------------------------------------------------
(* The exchange *)

Injects == HtmlVersion(Ungated, Always, <<ApplyOutcome("n", "o2")>>, Box("popup"), Box("popup"))
Sets == JsonVersion(Ungated, Always, <<Action("n", "add_attribute", <<"d">>, Scalar("v"), 0, "none")>>, <<"b">>)

SiteHeader(name, spelling, value) == [name |-> name, spelling |-> spelling, value |-> value]
Exchanges(type, texts, lists, served) ==
    {[World(Answers(type, encoding, more, Wire(Coding(encoding), text)), listed, served)
        EXCEPT !.cookies = cookies, !.site = site, !.upstream.sized = site] :
        encoding \in {"none", "identity", "gzip", "br"},
        more \in {<<>>, <<<<"set-cookie", "a">>, <<"set-cookie", "b">>, <<"connection", "close">>>>},
        text \in texts,
        listed \in {<<>>} \union lists,
        cookies \in {<<>>, <<<<"rre_user_type", "customer">>, <<"rre_user_type", "x">>>>},
        site \in BOOLEAN}
Plausible(w) == w.upstream.wire.text.form = "bomb" => w.upstream.wire.coding = "gzip"
Unread == {[form |-> "bomb", value |-> <<>>], [form |-> "binary", value |-> <<>>]}
Mixed == <<[id |-> "f2", kind |-> "json"], [id |-> "f1", kind |-> "html"]>>

Requests ==
    {[World(upstream, <<>>, <<>>) EXCEPT !.client = client, !.siteHeaders = headers] :
        client \in SUBSET {<<"accept", "any">>, <<"x-key", "spoofed">>, <<"host", "site">>,
                           <<"connection", "close">>},
        headers \in SUBSET {SiteHeader("x-key", "X-Key", "k"), SiteHeader("x-key", "x-key", "l"),
                            SiteHeader("x-key", "X-KEY", "unparseable"),
                            SiteHeader("host", "Host", "other"), SiteHeader("te", "TE", "x")},
        upstream \in {Html(Page), [error |-> "UPSTREAM_TIMEOUT"], [error |-> "UPSTREAM_TOO_LARGE"]}}

HtmlExchanges ==
    Exchanges("text/html", Unread \union {HtmlText(Piece)}, {Two("json"), Mixed},
              [f1 |-> Injects, f2 |-> {}])
JsonExchanges ==
    Exchanges("application/json", {JsonText(Tree)}, {One("html"), Mixed, Two("json")},
              [f1 |-> {}, f2 |-> Sets])
    \union Exchanges("text/plain", {JsonText(Tree)}, {Mixed}, [f1 |-> {}, f2 |-> Sets])
Unparsed2 ==
    Exchanges("application/json", Unread \union {HtmlText(Piece)}, {Two("json")},
              [f1 |-> Sets, f2 |-> Sets])

MCHtmlWorlds == Pairs \union Chains \union Requests \union {w \in HtmlExchanges \union Unparsed2 : Plausible(w)}
MCJsonWorlds == Bodies \union JsonExchanges

=============================================================================
