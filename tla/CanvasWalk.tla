---------------------------- MODULE CanvasWalk ----------------------------
(***************************************************************************)
(* From a canvas to the actions of a response: validation in the backend,  *)
(* the proxy's translation to a decision graph (translator.rs), the walk of *)
(* the decision engine (core/engine/src/decision_graph), and the recovery  *)
(* of the matched actions from its trace (evaluator.rs).                   *)
(*                                                                         *)
(* The test endpoint evaluates a canvas nobody has validated, so rejected  *)
(* canvases are walked too.  Only canvases whose ids are unique are.       *)
(***************************************************************************)
EXTENDS DecisionProcessors, Integers, TLC

CONSTANTS
    Submitted,     \* the canvases clients send
    Contexts,      \* the requests they are evaluated for
    Outcomes,      \* outcomes of the version
    KeyOrders(_),  \* orders a hash map may yield its keys in, each once
    IterMax        \* ITER_MAX of the walker

ASSUME IterAssumption == IterMax \in Nat \ {0}
ASSUME SubmittedAssumption == \A c \in Submitted : IsCanvas(c)
ASSUME KeyOrdersAssumption ==
    \A c \in Submitted : \A order \in KeyOrders(Ids(Normalize(c))) :
        order \in Seq(Ids(Normalize(c))) /\ Range(order) = Ids(Normalize(c))

VARIABLES
    canvas,    \* the canvas and ...
    ctx,       \* ... the request
    phase,     \* "submit", "evaluate", "walk" or "done"
    verdict,   \* the rules the canvas breaks
    jdm,       \* the translated graph: nodes, and edges in order
    nodes,     \* nodes the walk has not pruned ...
    edges,     \* ... and places in jdm.edges of the edges it has not
    toVisit,   \* the walker's stack
    ordered,   \* nodes visited since the last reset
    switched,  \* visited_switch_nodes
    executed,  \* nodes with node_data
    iter,      \* how often the walk has been reset
    turns,     \* turns the loop of next has taken
    trace,     \* traced nodes in order
    actions    \* the expression nodes whose actions the forwarder applies

input == <<canvas, ctx>>
walk == <<nodes, edges, toVisit, ordered, switched, executed, iter, turns, trace>>
vars == <<input, phase, verdict, jdm, walk, actions>>

-----------------------------------------------------------------------------
(* Translation *)

Input == <<"input", "input">>

EntryKind == [start |-> "start", decision |-> "proc", expression |-> "expr", end |-> "out"]
Entry(node) == <<node.id, EntryKind[node.kind]>>

Exit(node) == <<node.id, IF node.kind = "decision" THEN "switch" ELSE "expr">>

JdmEdge(source, target, handle) == [source |-> source, target |-> target, handle |-> handle]

JdmNodes(c) ==
    {Input}
    \union {Entry(node) : node \in {n \in Nodes(c) : n.kind # "start"}}
    \union {Exit(node) : node \in {n \in Nodes(c) : n.kind = "decision"}}

InternalEdges(c) ==
    LET at == Ascending(WithKind(c, "decision"))
    IN  [k \in DOMAIN at |-> JdmEdge(Entry(c.nodes[at[k]]), Exit(c.nodes[at[k]]), "none")]

\* The canvas edge keeps its branch as handle when it leaves a decision.
RoutingEdge(c, e) ==
    LET source == NodeById(c, e.source)
    IN  JdmEdge(Exit(source), Entry(NodeById(c, e.target)),
                IF source.kind = "decision" THEN e.branch ELSE "none")

RoutingEdges(c) ==
    LET at == Ascending({i \in DOMAIN c.edges :
                            /\ KindOf(c, c.edges[i].source) \in {"decision", "expression"}
                            /\ c.edges[i].target \in Ids(c)})
    IN  [k \in DOMAIN at |-> RoutingEdge(c, c.edges[at[k]])]

\* The node the input leads to, as a set of at most one.
StartSuccessor(c) ==
    LET start == SelectInSeq(c.nodes, LAMBDA n : n.kind = "start")
        out == SelectInSeq(c.edges, LAMBDA e : e.source = c.nodes[start].id)
        rootless == SelectInSeq(c.nodes, LAMBDA n : \A e \in Range(c.edges) : e.target # n.id)
    IN  IF start # 0
        THEN {n \in Nodes(c) : out # 0 /\ n.id = c.edges[out].target}
        ELSE IF c.root \in Ids(c) THEN {NodeById(c, c.root)}
        ELSE {n \in Nodes(c) : rootless # 0 /\ n = c.nodes[rootless]}

Translate(c) ==
    [nodes |-> JdmNodes(c),
     edges |-> InternalEdges(c) \o RoutingEdges(c)
               \o SetToSeq({JdmEdge(Input, Entry(n), "none") : n \in StartSuccessor(c)})]

-----------------------------------------------------------------------------
(* The decision graph *)

Into(n, E) == {i \in E : jdm.edges[i].target = n}
OutOf(n, E) == {i \in E : jdm.edges[i].source = n}

\* petgraph lists the edges of a node from the last added to the first.
LatestFirst(E) == Reverse(Ascending(E))
Sources(E) == LET at == LatestFirst(E) IN [k \in DOMAIN at |-> jdm.edges[at[k]].source]
Targets(E) == LET at == LatestFirst(E) IN [k \in DOMAIN at |-> jdm.edges[at[k]].target]

MissingNode(graph) ==
    \E e \in Range(graph.edges) : {e.source, e.target} \ graph.nodes # {}

\* The nodes a node leads to.
Descendants(graph, n) ==
    LET links == {<<e.source, e.target>> : e \in Range(graph.edges)}
    IN  Closure(Cardinality(graph.nodes), {m \in graph.nodes : <<n, m>> \in links},
                LAMBDA S : {m \in graph.nodes : \E l \in S : <<l, m>> \in links})

\* petgraph's is_cyclic_directed.
Cyclic(graph) == \E n \in graph.nodes : n \in Descendants(graph, n)

\* Fault: any edge lost on one side counts as the last.
EmptiedByAny(gone) == {n \in nodes : Into(n, gone) # {} \/ OutOf(n, gone) # {}}

\* A node that lost the last edge on one side loses those on the other.
Emptied(gone) ==
    {n \in nodes : \/ Into(n, gone) # {} /\ Into(n, edges) \subseteq gone
                   \/ OutOf(n, gone) # {} /\ OutOf(n, edges) \subseteq gone}

\* Fault: only the switch's own edges go.
RemoveShallow(removed) == removed

RemoveRecursively(removed) ==
    Closure(Cardinality(edges), removed,
            LAMBDA gone : UNION {Into(n, edges) \union OutOf(n, edges) : n \in Emptied(gone)})

-----------------------------------------------------------------------------
(* Validation, translation and the start of the walk *)

Init ==
    /\ canvas \in Submitted
    /\ ctx \in Contexts
    /\ phase = "submit"
    /\ verdict = {}
    /\ jdm = [nodes |-> {}, edges |-> <<>>]
    /\ nodes = {}
    /\ edges = {}
    /\ toVisit = <<>>
    /\ ordered = {}
    /\ switched = {}
    /\ executed = {}
    /\ iter = 0
    /\ turns = 0
    /\ trace = <<>>
    /\ actions = <<>>

\* create_version and update: normalize, then validate; the keys of the hash
\* map come in any order.
Submit ==
    /\ phase = "submit"
    /\ \E c \in {Normalize(canvas)} : \E order \in KeyOrders(Ids(c)) :
          /\ canvas' = c
          /\ verdict' = ValidateCanvas(c, Outcomes, order)
          /\ phase' = IF Cardinality(Ids(c)) = Len(c.nodes) THEN "evaluate" ELSE "done"
    /\ UNCHANGED <<ctx, jdm, walk, actions>>

\* A graph with a missing node or a cycle is not evaluated.
Evaluate ==
    LET graph == Translate(canvas) IN
    /\ phase = "evaluate"
    /\ jdm' = graph
    /\ phase' = IF MissingNode(graph) \/ Cyclic(graph) THEN "done" ELSE "walk"
    /\ nodes' = graph.nodes
    /\ edges' = DOMAIN graph.edges
    /\ toVisit' = <<Input>>
    /\ UNCHANGED <<input, verdict, ordered, switched, executed, iter, turns,
                   trace, actions>>

-----------------------------------------------------------------------------
(* The walk; a step is one turn of the loop in next *)

Top == Last(toVisit)
\* Fault: dependencies that are resolved are waited for again.
UnresolvedOrNot(n) == Sources(Into(n, edges))
Unresolved(n) == Sources({i \in Into(n, edges) : jdm.edges[i].source \notin ordered})

\* The turns that look at the top of the stack.
Visiting(n) == phase = "walk" /\ toVisit # <<>> /\ n = Top

Skip ==
    /\ Visiting(Top)
    /\ Top \in ordered
    /\ toVisit' = Front(toVisit)
    /\ turns' = turns + 1
    /\ UNCHANGED <<input, phase, verdict, jdm, nodes, edges, ordered, switched, executed, iter,
                   trace, actions>>

\* The node is put back under the nodes it depends on.
Defer ==
    /\ Visiting(Top)
    /\ Top \notin ordered
    /\ Unresolved(Top) # <<>>
    /\ toVisit' = toVisit \o Unresolved(Top)
    /\ turns' = turns + 1
    /\ UNCHANGED <<input, phase, verdict, jdm, nodes, edges, ordered, switched, executed, iter,
                   trace, actions>>

Ready(n) == Visiting(n) /\ n \notin ordered /\ Unresolved(n) = <<>>

DecisionOf(n) == NodeById(canvas, n[1]).config
\* Fault: the statements are negated.
UntakenSwapped(n) == {i \in OutOf(n, edges) : jdm.edges[i].handle = Decide(DecisionOf(n), ctx)}
Untaken(n) == {i \in OutOf(n, edges) : jdm.edges[i].handle # Decide(DecisionOf(n), ctx)}

\* A switch visited for the first time that loses an edge: the walk starts
\* again on what is left of the graph.
Prune ==
    LET gone == RemoveRecursively(Untaken(Top)) IN
    /\ Ready(Top)
    /\ Top[2] = "switch"
    /\ Top \notin switched
    /\ Untaken(Top) # {}
    /\ edges' = edges \ gone
    /\ nodes' = nodes \ Emptied(gone)
    /\ switched' = switched \union {Top}
    /\ trace' = Append(trace, Top)
    /\ toVisit' = IF Input \in nodes' THEN <<Input>> ELSE <<>>
    /\ ordered' = {}
    /\ iter' = iter + 1
    /\ turns' = turns + 1
    /\ UNCHANGED <<input, phase, verdict, jdm, executed, actions>>

\* Fault: every traced node is taken for a matched expression.
MatchedAll(t) == [i \in DOMAIN t |-> t[i][1]]

\* ordered_actions: the expression nodes of the trace, in its order.
Matched(t) ==
    LET at == Ascending({i \in DOMAIN t : t[i][2] = "expr"}) IN [k \in DOMAIN at |-> t[at[k]][1]]

\* The evaluation ends with an error, and no action is applied.
Fails(n) == n[2] = "proc" /\ Decide(DecisionOf(n), ctx) = "error"

\* What evaluate does with a node next has returned; next has traced a switch
\* it visits for the first time.
Execute(n) ==
    /\ executed' = executed \union {n}
    /\ trace' = IF n \in executed \union switched THEN trace ELSE Append(trace, n)
    /\ IF n \notin executed /\ Fails(n)
       THEN phase' = "done" /\ actions' = <<>>
       ELSE IF n[2] = "out" \/ iter >= IterMax
       THEN phase' = "done" /\ actions' = Matched(trace')
       ELSE UNCHANGED <<phase, actions>>

\* next returns the node, and evaluate executes it unless it has been.
Return ==
    /\ Ready(Top)
    /\ Top[2] = "switch" => Top \in switched \/ Untaken(Top) = {}
    /\ toVisit' = Front(toVisit) \o Targets(OutOf(Top, edges))
    /\ ordered' = ordered \union {Top}
    /\ switched' = IF Top[2] = "switch" THEN switched \union {Top} ELSE switched
    /\ Execute(Top)
    /\ turns' = turns + 1
    /\ UNCHANGED <<input, verdict, jdm, nodes, edges, iter>>

\* Nothing is left to visit.
Exhausted ==
    /\ phase = "walk"
    /\ toVisit = <<>>
    /\ phase' = "done"
    /\ actions' = Matched(trace)
    /\ UNCHANGED <<input, verdict, jdm, walk>>

\* The evaluation is over.
Finished == phase = "done" /\ UNCHANGED vars

Next == Submit \/ Evaluate \/ Skip \/ Defer \/ Prune \/ Return \/ Exhausted \/ Finished

Spec == Init /\ [][Next]_vars

-----------------------------------------------------------------------------
(* Properties *)

JdmIds == {Input} \union (Ids(canvas) \X {"proc", "switch", "expr", "out", "start"})

\* The walk's bookkeeping stays inside the translated graph.
TypeOK ==
    /\ phase \in {"submit", "evaluate", "walk", "done"}
    /\ jdm.nodes \subseteq JdmIds
    /\ nodes \subseteq jdm.nodes
    /\ edges \subseteq DOMAIN jdm.edges
    /\ Range(toVisit) \union ordered \union switched \union executed \subseteq jdm.nodes
    /\ Range(trace) \subseteq jdm.nodes
    /\ iter \in 0..IterMax
    /\ Range(actions) \subseteq Ids(canvas)

\* Reference: the nodes routed from the start node by the processors' answers.
Chosen(id) ==
    {e.target : e \in {e \in Range(canvas.edges) :
        /\ e.source = id
        /\ KindOf(canvas, id) = "decision" => e.branch = Decide(NodeById(canvas, id).config, ctx)}}

Routed ==
    LET start == CHOOSE node \in Nodes(canvas) : node.kind = "start"
        path[k \in 0..Len(canvas.nodes)] ==
            IF k = 0 THEN <<start.id>>
            ELSE LET taken == path[k - 1] IN taken \o SetToSeq(Chosen(Last(taken)))
    IN  path[Len(canvas.nodes)]

ExpressionIds == {node.id : node \in {n \in Nodes(canvas) : n.kind = "expression"}}
RoutedActions == Keeping(Routed, ExpressionIds)

Decisions == {node \in Nodes(canvas) : node.kind = "decision"}
Failing(S) == \E node \in Decisions : node.id \in S /\ Decide(node.config, ctx) = "error"

Evaluated == phase = "done" /\ verdict = {}

\* The actions of an accepted canvas whose nodes can all be reached are the
\* expression nodes on the routed path, in its order, however branches join
\* again; when a decision on that path fails there are none.
\* (walker.rs, next; evaluator.rs, ordered_actions)
RoutedActionsOnly ==
    Evaluated /\ Ids(canvas) \subseteq Reachable(canvas) =>
        actions = IF Failing(Range(Routed)) THEN <<>> ELSE RoutedActions

\* While no decision of the canvas fails, nodes that cannot be reached never cost
\* a routed action its place.  One that fails may: when it feeds the path it is
\* visited, and its error drops all actions.
\* (walker.rs, remove_edge_recursive)
RoutedActionsKept ==
    Evaluated /\ ~Failing(Ids(canvas)) =>
        RoutedActions = Keeping(actions, Range(Routed))

\* The walk of an accepted canvas comes to an output node unless a decision
\* fails or the request takes a branch that has no edge.
\* (rule_graph_service.rs, validate_all_paths_reach_end; walker.rs, ITER_MAX)
AcceptedRunsEnd ==
    Evaluated /\ ~Failing(Ids(canvas)) =>
        \/ Last(trace)[2] = "out"
        \/ KindOf(canvas, Last(Routed)) = "decision"

\* no_cycles is reported exactly when some node reaches itself, in whatever
\* order the hash map yields its keys.  (rule_graph_service.rs, has_cycle)
OnCycle(id) == id \in Closure(Len(canvas.nodes), Successors(canvas, {id}), LAMBDA S : Successors(canvas, S))
SearchIsExact ==
    phase = "evaluate" => ("no_cycles" \in verdict <=> \E id \in Ids(canvas) : OnCycle(id))

\* What no rule of the manifest looks at: that a node of a decision's kind has
\* a decision's processor, and that a text is one, short and well formed.
Unreadable(config, name) ==
    ~IsString(Get(config, name)) \/ Len(TextOf(config, name)) > MaxPatternLen

Unforeseen(config, c) ==
    \/ config.type \notin DecisionKinds
    \/ /\ config.type = "meta_tags"
       /\ Unreadable(config, "tag_name") \/ "!" \in Range(TextOf(config, "tag_name"))
    \/ /\ config.type = "article_url"
       /\ \/ Unreadable(config, "value")
          \/ /\ TextOf(config, "operator") = <<"matches">>
             /\ "(" \in Range(TextOf(config, "value"))
    \/ /\ config.type = "json_expression"
       /\ \/ Unreadable(config, "json_path")
          \/ c.hasBody /\ Head(TextOf(config, "json_path")) # "$"
    \/ config.type = "site_match" /\ ~IsString(Get(config, "site"))

\* Where the backend's manifest and the proxy's processors part: a decision the
\* validation accepts is an error, and costs the canvas its actions, exactly
\* when it has an action's type, such as trim_json, or a text no rule reads.
\* Operators, options and missing fields never make an error, whatever the
\* request.  (rule_graph_service.rs, validate_processor; processors/)
AcceptedErrors ==
    Evaluated =>
        \A node \in Decisions :
            Decide(node.config, ctx) = "error" <=> Unforeseen(node.config, ctx)

\* The actions of a canvas are those on the routed path, as evaluate says.
\* (evaluator.rs, evaluate)
OnRoutedPath == Evaluated => Range(actions) \subseteq Range(Routed)

\* A decision resets the walk once at most.  (walker.rs, visited_switch_nodes)
ResetsBounded == iter <= Cardinality(Decisions)

\* Whatever canvas is sent, its walk ends.  Between two resets a node is
\* returned once at most; what is pushed between two returns is on one way up
\* from a node to one that waits for nothing, so a node or an edge of the graph
\* pays for each of these turns.
\* (walker.rs, next and get_unresolved_dependencies)
WalkEnds ==
    /\ ResetsBounded
    /\ turns <= (iter + 1) * (Cardinality(jdm.nodes) + 2)
                          * (Cardinality(jdm.nodes) + Len(jdm.edges))

=============================================================================
