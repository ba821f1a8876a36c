----------------------------- MODULE RuleGraph -----------------------------
(***************************************************************************)
(* The rule graph of a version and its validation: rule_graph.rs,          *)
(* node_type.rs with the manifest config/node_types.json, and              *)
(* rule_graph_service.rs.                                                  *)
(*                                                                         *)
(* A canvas is what a client may send, so identifiers may be repeated, and *)
(* edges and root may name nodes that do not exist.  Positions and edge    *)
(* ids decide nothing and are left out.  A text is a sequence of words; the *)
(* word " " is white space.                                                *)
(***************************************************************************)
EXTENDS Naturals, FiniteSets, Sequences, SequencesExt, Lists

NoNode == "no_node"   \* root_node_id left out

-----------------------------------------------------------------------------
(* Configurations of processors and actions *)

String(text) == [type |-> "string", text |-> text]
Number(text) == [type |-> "number", text |-> text]
Null == [type |-> "null", text |-> <<>>]
Absent == [type |-> "absent", text |-> <<>>]

IsBlank(text) == \A i \in DOMAIN text : text[i] = " "

\* The value of a configuration's field.
Get(config, name) == IF name \in DOMAIN config.fields THEN config.fields[name] ELSE Absent

NoExemption == [field |-> "", value |-> Absent]

Field(name, control) ==
    [name |-> name, control |-> control, required |-> TRUE,
     unless |-> NoExemption, options |-> {}]
Select(name, options) ==
    [Field(name, "select") EXCEPT !.options = {String(<<o>>) : o \in options}]
UnlessExists(name) ==
    [Field(name, "text") EXCEPT !.required = FALSE,
        !.unless = [field |-> "operator", value |-> String(<<"exists">>)]]

MetaOperators == {"contains", "equals", "exists"}
DeviceOperators == {"equals", "contains"}
UrlOperators == {"contains", "matches", "starts_with", "equals"}
\* Fault: the editor offers an operator the proxy does not have.
JsonOperatorsAndMatches ==
    {"equals", "contains", "starts_with", "ends_with", "is_one_of", "exists", "matches"}
JsonOperators == {"equals", "contains", "starts_with", "ends_with", "is_one_of", "exists"}
Devices == {"mobile", "desktop", "tablet"}

\* The fields of each node type.
Manifest ==
    [meta_tags |-> <<Field("tag_name", "text"), Select("operator", MetaOperators),
                     UnlessExists("value")>>,
     device_type |-> <<Select("operator", DeviceOperators), Select("value", Devices)>>,
     article_url |-> <<Select("operator", UrlOperators), Field("value", "text")>>,
     json_expression |-> <<Field("json_path", "text"), Select("operator", JsonOperators),
                           UnlessExists("value")>>,
     trim_json |-> <<Field("json_path", "text"), Field("length", "number")>>,
     add_attribute |-> <<Field("json_path", "text"), Field("value", "text")>>,
     apply_outcome |-> <<Field("outcome_id", "outcome_select")>>,
     site_match |-> <<Field("site", "site_select")>>]

DecisionKinds == {"meta_tags", "device_type", "article_url", "json_expression", "site_match"}

IsNonEmpty(value) ==
    /\ value.type \notin {"absent", "null"}
    /\ value.type = "string" => ~IsBlank(value.text)

IsRequired(field, config) ==
    \/ field.required
    \/ /\ field.unless # NoExemption
       /\ Get(config, field.unless.field) # field.unless.value

\* A ValidationDetail: the rule's id when it is broken.
Rule(id, broken) == IF broken THEN {id} ELSE {}

\* The rules a configuration breaks.
ProcessorViolations(config) ==
    IF config.type \notin DOMAIN Manifest THEN {"processor_kind_known"}
    ELSE LET fields == Range(Manifest[config.type])
             Value(f) == Get(config, f.name)
         IN  Rule("processor_field_required",
                  \E f \in fields : IsRequired(f, config) /\ ~IsNonEmpty(Value(f)))
             \union
             Rule("processor_field_option",
                  \E f \in fields : /\ f.control = "select"
                                    /\ IsNonEmpty(Value(f))
                                    /\ Value(f) \notin f.options)

\* Uuid::parse_str of the outcome_id, looked up in the version's outcomes.
ApplyOutcomeViolations(config, outcomes) ==
    Rule("apply_outcome_ref_exists",
         /\ config.type = "apply_outcome"
         /\ Get(config, "outcome_id") \notin {String(<<o>>) : o \in outcomes})

\* ^[a-z0-9]+(_[a-z0-9]+)*$ over words that are one character each.
IsSnakeCase(label) ==
    /\ label # <<>>
    /\ \A i \in DOMAIN label : label[i] \in {"a", "_"}
    /\ \A i \in DOMAIN label :
          label[i] = "_" => i \notin {1, Len(label)} /\ label[i + 1] # "_"

CustomLabelViolations(label) ==
    Rule("expression_custom_label_invalid", ~IsBlank(label) /\ ~IsSnakeCase(label))

-----------------------------------------------------------------------------
(* Canvases *)

NoConfig == [type |-> "", fields |-> <<>>]
Node(id, kind, config) == [id |-> id, kind |-> kind, config |-> config, label |-> <<>>]
Edge(source, target, branch) == [source |-> source, target |-> target, branch |-> branch]

Default == [nodes |-> <<Node("start", "start", NoConfig), Node("end", "end", NoConfig)>>,
            edges |-> <<Edge("start", "end", "yes")>>,
            root |-> "start"]

\* The canvases a request can carry.
NodeKinds == {"start", "decision", "expression", "end"}
IsCanvas(canvas) ==
    /\ canvas.nodes \in Seq(Range(canvas.nodes)) /\ canvas.edges \in Seq(Range(canvas.edges))
    /\ \A node \in Range(canvas.nodes) :
          /\ node.kind \in NodeKinds
          /\ \A name \in DOMAIN node.config.fields :
                LET text == node.config.fields[name].text IN text \in Seq(Range(text))

Normalize(canvas) == IF canvas.nodes = <<>> THEN Default ELSE canvas

Nodes(canvas) == Range(canvas.nodes)
Ids(canvas) == {node.id : node \in Nodes(canvas)}
WithKind(canvas, kind) == {i \in DOMAIN canvas.nodes : canvas.nodes[i].kind = kind}

\* node_by_id: the last node of an id wins.
NodeById(canvas, id) ==
    canvas.nodes[SelectLastInSeq(canvas.nodes, LAMBDA node : node.id = id)]

KindOf(canvas, id) == IF id \in Ids(canvas) THEN NodeById(canvas, id).kind ELSE "unresolved"

OutDegree(canvas, id) ==
    Cardinality({i \in DOMAIN canvas.edges : canvas.edges[i].source = id})

\* The places of the edges whose endpoints both exist.
Resolvable(canvas) ==
    {i \in DOMAIN canvas.edges :
        canvas.edges[i].source \in Ids(canvas) /\ canvas.edges[i].target \in Ids(canvas)}

Successors(canvas, S) ==
    {canvas.edges[i].target : i \in {i \in Resolvable(canvas) : canvas.edges[i].source \in S}}
Predecessors(canvas, S) ==
    {canvas.edges[i].source : i \in {i \in Resolvable(canvas) : canvas.edges[i].target \in S}}

\* A node's edges in the adjacency list.
Leaving(canvas, id) ==
    Ascending({i \in Resolvable(canvas) : canvas.edges[i].source = id})

-----------------------------------------------------------------------------
(* Cycles: a depth-first search in three colours with an explicit stack *)

\* starts are the nodes the outer loop has not come to, stack the frames of
\* node and cursor; a node in neither set is white.
Search(starts, stack, gray, black, found) ==
    [starts |-> starts, stack |-> stack, gray |-> gray, black |-> black, found |-> found]

\* The outer loop takes its next node and opens it when it is white.
NextRoot(s) ==
    LET root == Head(s.starts)
        white == root \notin s.gray \union s.black
    IN  IF white THEN Search(Tail(s.starts), <<<<root, 0>>>>, s.gray \union {root}, s.black, FALSE)
        ELSE Search(Tail(s.starts), <<>>, s.gray, s.black, FALSE)

\* Fault: a node seen before closes a cycle, as if there were two colours.
AdvanceTwoColours(canvas, s) ==
    LET frame == Last(s.stack)
        next == canvas.edges[Leaving(canvas, frame[1])[frame[2] + 1]].target
        advanced == [s.stack EXCEPT ![Len(s.stack)] = <<frame[1], frame[2] + 1>>]
    IN  IF next \in s.gray \union s.black
        THEN Search(s.starts, advanced, s.gray, s.black, TRUE)
        ELSE Search(s.starts, Append(advanced, <<next, 0>>), s.gray \union {next}, s.black, FALSE)

\* The top frame looks at its next neighbour.
Advance(canvas, s) ==
    LET frame == Last(s.stack)
        next == canvas.edges[Leaving(canvas, frame[1])[frame[2] + 1]].target
        advanced == [s.stack EXCEPT ![Len(s.stack)] = <<frame[1], frame[2] + 1>>]
    IN  IF next \in s.gray THEN Search(s.starts, advanced, s.gray, s.black, TRUE)
        ELSE IF next \in s.black THEN Search(s.starts, advanced, s.gray, s.black, FALSE)
        ELSE Search(s.starts, Append(advanced, <<next, 0>>), s.gray \union {next}, s.black, FALSE)

\* The top frame has no neighbour left.
Close(s) ==
    LET node == Last(s.stack)[1]
    IN  Search(s.starts, Front(s.stack), s.gray \ {node}, s.black \union {node}, FALSE)

SearchStep(canvas, s) ==
    IF s.found \/ (s.stack = <<>> /\ s.starts = <<>>) THEN s
    ELSE IF s.stack = <<>> THEN NextRoot(s)
    ELSE IF Last(s.stack)[2] < Len(Leaving(canvas, Last(s.stack)[1]))
         THEN Advance(canvas, s)
         ELSE Close(s)

\* order is the order of the hash map's keys.
HasCycle(canvas, order) ==
    LET steps == 3 * Len(order) + Len(canvas.edges)
        search[k \in 0..steps] ==
            IF k = 0 THEN Search(order, <<>>, {}, {}, FALSE) ELSE SearchStep(canvas, search[k - 1])
    IN  search[steps].found

-----------------------------------------------------------------------------
(* The rules *)

\* What repeated Next reaches from S in n steps.
Closure(n, S, Next(_)) ==
    LET grown[k \in 0..n] ==
            IF k = 0 THEN S ELSE LET reached == grown[k - 1] IN reached \union Next(reached)
    IN  grown[n]

CanReachEnd(canvas) ==
    Closure(Len(canvas.nodes), {canvas.nodes[i].id : i \in WithKind(canvas, "end")},
            LAMBDA S : Predecessors(canvas, S))

\* Asked only when there is one start node.
Reachable(canvas) ==
    Closure(Len(canvas.nodes), {canvas.nodes[i].id : i \in WithKind(canvas, "start")},
            LAMBDA S : Successors(canvas, S))

DeadEnd(canvas) ==
    /\ Cardinality(WithKind(canvas, "start")) = 1
    /\ Reachable(canvas) \ CanReachEnd(canvas) # {}

NodeViolations(canvas) ==
    Rule("edge_endpoint_exists",
         \E i, j \in DOMAIN canvas.nodes : i # j /\ canvas.nodes[i].id = canvas.nodes[j].id)
    \union
    Rule("root_in_nodes", canvas.root # NoNode /\ canvas.root \notin Ids(canvas))
    \union
    Rule("start_present", canvas.nodes # <<>> /\ Cardinality(WithKind(canvas, "start")) # 1)
    \union
    Rule("end_present", canvas.nodes # <<>> /\ WithKind(canvas, "end") = {})

ConfigViolations(canvas, outcomes) ==
    UNION {(IF node.kind \in {"decision", "expression"} THEN ProcessorViolations(node.config)
            ELSE {})
           \union
           (IF node.kind = "expression"
            THEN ApplyOutcomeViolations(node.config, outcomes) \union CustomLabelViolations(node.label)
            ELSE {}) : node \in Nodes(canvas)}

EdgeViolations(canvas) ==
    LET edges == Range(canvas.edges) IN
    Rule("edge_endpoint_exists", \E e \in edges : {e.source, e.target} \ Ids(canvas) # {})
    \union
    Rule("start_no_incoming", \E e \in edges : KindOf(canvas, e.target) = "start")
    \union
    Rule("end_terminal", \E e \in edges : KindOf(canvas, e.source) = "end")
    \union
    Rule("edge_source_kind", \E e \in edges : KindOf(canvas, e.source) = "end")
    \union
    Rule("branch_unique",
         \E i, j \in DOMAIN canvas.edges :
            /\ i # j
            /\ canvas.edges[i].source = canvas.edges[j].source
            /\ canvas.edges[i].branch = canvas.edges[j].branch
            /\ KindOf(canvas, canvas.edges[i].source) = "decision")

SingleOut == [start |-> "start_single_out", expression |-> "expression_single_out"]
DegreeViolations(canvas) ==
    UNION {Rule(SingleOut[kind],
                \E i \in WithKind(canvas, kind) : OutDegree(canvas, canvas.nodes[i].id) # 1) :
           kind \in DOMAIN SingleOut}

\* The rules a canvas breaks; the keys of node_by_id come in some order.
ValidateCanvas(canvas, outcomes, order) ==
    NodeViolations(canvas)
    \union ConfigViolations(canvas, outcomes)
    \union EdgeViolations(canvas)
    \union DegreeViolations(canvas)
    \union Rule("no_cycles", HasCycle(canvas, order))
    \union Rule("all_paths_reach_end", DeadEnd(canvas))

=============================================================================
