---------------------------- MODULE MCCanvasWalk ----------------------------
(* Instances of CanvasWalk: every acyclic wiring of three inner nodes, every  *)
(* wiring at all of two, every configuration of a decision, and the canvases  *)
(* that have no start node, none at all, or two of one id.                    *)
EXTENDS CanvasWalk

Config(type, fields) == [type |-> type, fields |-> fields]
Asks(device) == Config("device_type", [operator |-> String(<<"equals">>),
                                       value |-> String(<<device>>)])
Hit == Asks("mobile")
Miss == Asks("desktop")
Broken == Config("article_url", [operator |-> String(<<"matches">>), value |-> String(<<"(">>)])
Act == Config("trim_json", [json_path |-> String(<<"$", "a">>), length |-> Number(<<"5">>)])

MCContexts ==
    {[meta |-> <<"x">> :> <<"y">>, device |-> <<"mobile">>, url |-> <<"x", "y">>, site |-> {<<"x">>},
      hasBody |-> body, body |-> <<"$", "x">> :> {<<"x", "y">>}] : body \in BOOLEAN}
Html == {c \in MCContexts : ~c.hasBody}

MCOutcomes == {"paywall"}
MCKeyOrders(S) == IF Cardinality(S) <= 4 THEN SetToSeqs(S) ELSE {SetToSeq(S), Reverse(SetToSeq(S))}

Canvas(ns, es) == [nodes |-> ns, edges |-> es, root |-> NoNode]
Start == Node("start", "start", NoConfig)
End == Node("end", "end", NoConfig)
Expr(id) == Node(id, "expression", Act)
Decision(id, config) == Node(id, "decision", config)

\* The edges of a branch: none when it leads nowhere.
Leads(id, branch, target) == IF target = "none" THEN <<>> ELSE <<Edge(id, target, branch)>>

\* An inner node with its outgoing edges.
Inner(id, configs, targets) ==
    {[node |-> Expr(id), edges |-> Leads(id, "yes", t)] : t \in targets}
    \union
    {[node |-> Decision(id, c), edges |-> Leads(id, "yes", y) \o Leads(id, "no", n)] :
        c \in configs, y \in targets, n \in targets}

Wired(inners, first) ==
    Canvas(<<Start>> \o [i \in DOMAIN inners |-> inners[i].node] \o <<End>>,
           Leads("start", "yes", first) \o FlattenSeq([i \in DOMAIN inners |-> inners[i].edges]))

Acyclic ==
    {Wired(<<a, b, c>>, first) :
        a \in Inner("a", {Hit}, {"b", "c", "end"}),
        b \in Inner("b", {Hit, Broken}, {"c", "end"}),
        c \in Inner("c", {Hit}, {"end"}),
        first \in {"a", "b", "c"}}

Wild ==
    {Wired(<<a, b>>, first) :
        a \in Inner("a", {Miss}, {"start", "a", "b", "end", "ghost", "none"}),
        b \in Inner("b", {Hit}, {"a", "b", "end", "none"}),
        first \in {"a", "end", "start"}}

\* The values tried in a field.
Texts == {<<>>, <<" ">>, <<"x">>, <<"!">>, <<"(">>, <<"$", "x">>, <<"x", "y">>, <<"x", "y", "z">>}
Values(field) ==
    CASE field.control = "select" -> field.options \union {String(<<"bogus">>)}
      [] field.control = "outcome_select" -> {String(<<"paywall">>), String(<<"gone">>), Absent}
      [] OTHER -> {String(t) : t \in Texts} \union {Number(<<"5">>), Null, Absent}

Configs(type) ==
    LET fields == Manifest[type]
        Values2 == UNION {Values(f) : f \in Range(fields)}
    IN  {Config(type, [name \in {f.name : f \in Range(fields)} |->
                          choice[CHOOSE i \in DOMAIN fields : fields[i].name = name]]) :
            choice \in {ch \in [DOMAIN fields -> Values2] :
                            \A i \in DOMAIN fields : ch[i] \in Values(fields[i])}}

Single(node) ==
    Canvas(<<Start, node, Expr("e"), End>>,
           <<Edge("start", "d", "yes"), Edge("d", "e", "yes"), Edge("d", "end", "no"),
             Edge("e", "end", "yes")>>)

Configured ==
    {Single(Decision("d", c)) : c \in UNION {Configs(type) : type \in DOMAIN Manifest}}

\* Expressions: references to outcomes and labels.
Labelled(label, config) ==
    Canvas(<<Start, [Node("d", "expression", config) EXCEPT !.label = label], End>>,
           <<Edge("start", "d", "yes"), Edge("d", "end", "yes")>>)
Expressions ==
    {Labelled(label, config) :
        label \in {<<>>, <<" ">>, <<"a">>, <<"a", "_", "a">>, <<"_", "a">>, <<"a", "_">>, <<"A">>},
        config \in Configs("apply_outcome") \union {Act, Config("unknown", <<>>)}}

\* Canvases from before start nodes, the empty one, and a repeated id.
Legacy ==
    {[Canvas(<<Decision("d", Hit), Expr("e"), Expr("f"), End>>,
             <<Edge("d", "e", "yes"), Edge("e", "end", "yes"), Edge("f", "end", "yes")>>)
        EXCEPT !.root = root] : root \in {NoNode, "d", "e", "ghost"}}
    \union {Canvas(<<>>, <<>>), Canvas(<<Start, Expr("e"), Expr("e"), End>>, <<>>)}

Wirings == Acyclic \union Wild \union Expressions \union Legacy
MCSubmitted == Wirings \union Configured

\* A node nothing leads to, in front of a routed one.
Orphan ==
    {Wired(<<a, b>>, first) : a \in Inner("a", {Hit}, {"b", "end"}),
                              b \in Inner("b", {Hit}, {"end"}), first \in {"a", "b"}}

-----------------------------------------------------------------------------

=============================================================================
