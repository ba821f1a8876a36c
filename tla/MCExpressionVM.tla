--------------------------- MODULE MCExpressionVM ---------------------------
(* Sources for the expression engine: trees of every shape the parser knows,   *)
(* printed with the parentheses their operators need and no others, and cells. *)
EXTENDS ExpressionVM

RECURSIVE PrintNode(_)

\* How tightly a node holds together.
Tightness(n) ==
    CASE n.node = "Binary" -> BinaryOperators[n.operator]
      [] n.node = "Unary" -> UnaryOperators[n.operator]
      [] n.node \in {"Conditional", "Assignments"} -> 0
      [] OTHER -> 1000
Wrapped(n, tightness) ==
    IF Tightness(n) < tightness
    THEN <<Bracket("(")>> \o PrintNode(n) \o <<Bracket(")")>> ELSE PrintNode(n)

Separated(parts, by) ==
    FlattenSeq([i \in DOMAIN parts |-> (IF i = 1 THEN <<>> ELSE <<Operator(by)>>) \o parts[i]])
Printed(nodes) == [i \in DOMAIN nodes |-> PrintNode(nodes[i])]
Between(left, tokens, right) == <<Bracket(left)>> \o tokens \o <<Bracket(right)>>
Optionally(n) == IF n = NoNode THEN <<>> ELSE PrintNode(n)
Text(v) == <<Quote("'"), Word(v.string), Quote("'")>>

PrintLiteral(v) ==
    CASE Is(v, "null") -> <<NullToken>>
      [] Is(v, "bool") -> <<Boolean(v.bool)>>
      [] Is(v, "number") -> <<Numeral(v.number)>>
      [] Is(v, "string") -> Text(v)

PrintOf(n) ==
    IF n.node \in {"Literal", "Object", "Template", "Binary", "Unary", "Conditional", "Assignments"}
    THEN Between("(", PrintNode(n), ")") ELSE PrintNode(n)

PrintBinary(n) ==
    LET binds == BinaryOperators[n.operator]
        right == n.operator = "^"
    IN  Wrapped(n.left, IF right THEN binds + 1 ELSE binds) \o <<Operator(n.operator)>>
        \o Wrapped(n.right, IF right THEN binds ELSE binds + 1)

PrintCall(n) ==
    LET alias == IF n.function \in Closures THEN n.arguments[2].alias ELSE NoAlias
        arguments ==
            IF n.function \notin Closures THEN Separated(Printed(n.arguments), ",")
            ELSE PrintNode(n.arguments[1]) \o (IF alias = NoAlias THEN <<>> ELSE <<As, Word(alias)>>)
                 \o <<Operator(",")>> \o PrintNode(n.arguments[2].body)
    IN  <<Word(<<n.function>>)>> \o Between("(", arguments, ")")

PrintKey(n) == IF n.node = "Literal" THEN PrintLiteral(n.value) ELSE Between("[", PrintNode(n), "]")
PrintPart(n) ==
    IF n.node = "Literal" /\ Is(n.value, "string") THEN <<Word(n.value.string)>>
    ELSE <<TemplatePart("${")>> \o PrintNode(n) \o <<TemplatePart("}")>>

PrintNode(n) ==
    CASE n.node = "Literal" -> PrintLiteral(n.value)
      [] n.node = "Pointer" -> <<CallbackReference>>
      [] n.node = "Root" -> <<RootReference>>
      [] n.node = "Identifier" -> <<IF n = Context THEN ContextReference ELSE Word(n.name)>>
      [] n.node = "Array" -> Between("[", Separated(Printed(n.items), ","), "]")
      [] n.node = "Object" ->
           Between("{", Separated([i \in DOMAIN n.entries |-> PrintKey(n.entries[i][1])
               \o <<Operator(":")>> \o PrintNode(n.entries[i][2])], ","), "}")
      [] n.node = "Template" ->
           <<Quote("backtick")>> \o FlattenSeq([i \in DOMAIN n.parts |-> PrintPart(n.parts[i])])
           \o <<Quote("backtick")>>
      [] n.node = "Assignments" ->
           Separated([i \in DOMAIN n.list |-> <<Word(n.list[i][1].value.string), Operator("=")>>
                                              \o PrintNode(n.list[i][2])], ";")
           \o (IF n.output = NoNode THEN <<>> ELSE <<Operator(";")>> \o PrintNode(n.output))
      [] n.node = "Member" ->
           PrintOf(n.of) \o (IF n.property.node = "Literal" /\ Is(n.property.value, "string")
                             THEN <<Operator("."), Word(n.property.value.string)>>
                             ELSE Between("[", PrintNode(n.property), "]"))
      [] n.node = "Slice" ->
           PrintOf(n.of) \o Between("[", Optionally(n.from) \o <<Operator(":")>> \o Optionally(n.to), "]")
      [] n.node = "Interval" ->
           Between(n.left, PrintNode(n.from) \o <<Operator("..")>> \o PrintNode(n.to), n.right)
      [] n.node = "Conditional" ->
           Wrapped(n.condition, 1) \o <<Operator("?")>> \o PrintNode(n.onTrue)
           \o <<Operator(":")>> \o PrintNode(n.onFalse)
      [] n.node = "Unary" -> <<Operator(n.operator)>> \o Wrapped(n.of, UnaryOperators[n.operator])
      [] n.node = "Binary" -> PrintBinary(n)
      [] n.node = "FunctionCall" -> PrintCall(n)

-----------------------------------------------------------------------------

N(n) == LiteralNode(Number(n))
S(s) == LiteralNode(String(s))
T == LiteralNode(Bool(TRUE))
F == LiteralNode(Bool(FALSE))
Nil == LiteralNode(Null)
V(name) == IdentifierNode(<<name>>)
Dot(of, key) == MemberNode(of, S(<<key>>))
Nums(ns) == ArrayNode([i \in DOMAIN ns |-> N(ns[i])])
Span(left, from, to, right) == IntervalNode(left, N(from), N(to), right)
Over(function, of, alias, body) == CallNode(function, <<of, ClosureNode(body, alias)>>)

AnEnv ==
    Object((<<"a">> :> Number(2)) @@ (<<"b">> :> Array(<<Number(1), Number(2), Number(3)>>))
           @@ (<<"o">> :> Object((<<"k">> :> Number(1))
                                 @@ (<<"l">> :> Array(<<Number(5), String(<<"x">>)>>))))
           @@ (<<"s">> :> String(<<"x", "y">>)) @@ (<<"t">> :> Bool(TRUE)))

Operators == DOMAIN BinaryOperators
Triples ==
    {<<N(8), N(4), N(2)>>, <<N(2), N(3), N(2)>>, <<T, F, T>>, <<F, T, T>>,
     <<Nil, N(2), N(3)>>, <<N(2), Nums(<<2>>), T>>, <<S(<<"x">>), S(<<"y">>), N(0)>>}
Grouped ==
    UNION {{BinaryNode(BinaryNode(x[1], p, x[2]), q, x[3]), BinaryNode(x[1], p, BinaryNode(x[2], q, x[3]))} :
              x \in Triples, p \in Operators, q \in Operators}
Signed ==
    UNION {{UnaryNode(u, BinaryNode(x[1], p, x[2])), BinaryNode(UnaryNode(u, x[1]), p, x[2]),
            BinaryNode(x[1], p, UnaryNode(u, x[2]))} :
              x \in {<<N(4), N(2)>>, <<T, F>>, <<F, T>>}, p \in Operators, u \in DOMAIN UnaryOperators}

If(c, x, y) == ConditionalNode(c, x, y)
Conditionals ==
    UNION {{If(c, x, If(d, y, N(3))), If(If(c, d, T), x, y), If(c, If(d, x, y), N(4)),
            BinaryNode(N(1), "+", If(c, x, y)), If(BinaryNode(c, "and", d), x, BinaryNode(y, "+", N(1)))} :
              c \in {T, F, N(1)}, d \in {T, F}, x \in {N(1), T}, y \in {N(2)}}

X == <<"x">>
Iterated ==
    {Nums(<<>>), Nums(<<1, 2, 3>>), V("b"), Span("[", 1, 3, "]"), Span("(", 1, 3, ")"),
     Span("(", 2, 2, ")"), Span("]", 1, 2, "["), N(5), ArrayNode(<<T, N(1)>>),
     ArrayNode(<<Nums(<<1, 2>>), Nums(<<>>)>>)}
Hash == PointerNode
Bodies ==
    {<<NoAlias, BinaryNode(Hash, ">", N(1))>>, <<NoAlias, BinaryNode(Hash, "==", N(2))>>,
     <<NoAlias, Hash>>, <<NoAlias, BinaryNode(BinaryNode(Hash, ">", N(1)), "and", BinaryNode(Hash, "<", V("a")))>>,
     <<X, BinaryNode(V("x"), ">", V("a"))>>,
     <<X, Over("some", V("b"), NoAlias, BinaryNode(Hash, ">", V("x")))>>,
     <<X, Over("all", Nums(<<1, 3>>), X, BinaryNode(V("x"), "<", N(3)))>>,
     <<NoAlias, Over("map", Nums(<<1>>), X, BinaryNode(Hash, "+", V("x")))>>,
     <<X, Over("count", Nums(<<1, 2>>), <<"y">>, If(BinaryNode(V("y"), "==", V("x")), T, F))>>}
Iterations == {Over(f, of, b[1], b[2]) : f \in Closures, of \in Iterated, b \in Bodies}

Assigned(pairs, output) ==
    AssignmentsNode([i \in DOMAIN pairs |-> <<S(<<pairs[i][1]>>), pairs[i][2]>>], output)
Texted(parts) == TemplateNode(parts)
Shapes ==
    {Dot(V("o"), "k"), Dot(V("a"), "k"), MemberNode(Dot(V("o"), "l"), N(0)), MemberNode(V("b"), V("a")),
     MemberNode(V("b"), N(9)), MemberNode(S(<<"x", "y">>), N(1)), MemberNode(V("b"), UnaryNode("-", N(1))),
     Dot(RootNode, "a"), Dot(RootNode, "z"), RootNode, V("z"), Dot(Dot(V("o"), "l"), "k"),
     SliceNode(V("b"), N(1), NoNode), SliceNode(V("b"), NoNode, N(1)), SliceNode(V("b"), NoNode, NoNode),
     SliceNode(V("s"), N(0), N(0)), SliceNode(V("s"), N(1), N(9)), SliceNode(V("a"), N(0), NoNode),
     MemberNode(SliceNode(V("b"), N(1), N(2)), N(0)),
     Texted(<<S(<<"p">>), V("a"), S(<<"q">>)>>), Texted(<<>>), Texted(<<V("b")>>), Texted(<<T, Nil>>),
     ObjectNode(<<>>), ObjectNode(<<<<S(<<"m">>), N(1)>>, <<S(<<"m">>), N(2)>>>>),
     ObjectNode(<<<<V("s"), N(1)>>, <<N(3), Nums(<<1>>)>>, <<T, F>>>>),
     Dot(ObjectNode(<<<<S(<<"m">>), V("b")>>>>), "m"),
     Assigned(<<<<"c", N(1)>>>>, NoNode), Assigned(<<<<"c", N(1)>>, <<"a", BinaryNode(V("c"), "+", V("a"))>>>>, NoNode),
     Assigned(<<<<"a", N(7)>>>>, BinaryNode(V("a"), "-", Dot(RootNode, "a"))),
     Assigned(<<<<"c", V("b")>>>>, Over("map", V("c"), X, BinaryNode(V("x"), "*", V("a")))),
     Assigned(<<<<"c", N(1)>>, <<"c", N(2)>>>>, RootNode),
     CallNode("len", <<V("b")>>), CallNode("len", <<V("a")>>), CallNode("len", <<>>),
     CallNode("contains", <<V("s"), S(<<"y">>)>>), CallNode("contains", <<V("b"), N(2)>>),
     CallNode("contains", <<V("b")>>), CallNode("bool", <<S(<<>>)>>), CallNode("string", <<N(2)>>),
     BinaryNode(N(5), "in", Span("]", 1, 3, "[")), BinaryNode(N(2), "in", Span("]", 1, 3, "[")),
     BinaryNode(N(1), "not in", Span("(", 1, 3, "]")), BinaryNode(V("s"), "in", V("o")),
     BinaryNode(S(<<"k">>), "in", V("o")), BinaryNode(BinaryNode(N(1), "+", N(2)), "in", Span("[", 3, 3, "]")),
     UnaryNode("not", BinaryNode(BinaryNode(N(2), "*", N(3)), "in", Span("[", 3, 4, "]"))),
     IntervalNode("[", T, N(1), "]"), Nums(<<1>>)}

Standard(n, e) ==
    [flavour |-> "standard", tokens |-> PrintNode(n), env |-> e, means |-> n]
Known(sources) == {s \in sources : Meaning(s.means, s.env) # Beyond}

\* What is left of a source that is cut or has a token too many is refused.
Misprinted ==
    {[flavour |-> "standard", tokens |-> t, env |-> AnEnv, means |-> UnaryNode("-", T)] :
        t \in {<<>>, <<Numeral(1), Numeral(2)>>, <<Bracket("("), Numeral(1)>>, <<Operator("*"), Numeral(1)>>,
               <<Word(<<"f">>), Bracket("("), Bracket(")")>>, <<Bracket("["), Numeral(1), Operator("..")>>,
               <<Word(<<"a">>), Operator(".")>>, <<Word(<<"a">>), Operator("="), Numeral(1), Numeral(2)>>,
               <<CallbackReference, Operator("+"), Numeral(1)>>, <<Bracket("{"), Word(<<"m">>), Bracket("}")>>}}

-----------------------------------------------------------------------------
(* Cells *)

Cell(n, means) == [tokens |-> PrintNode(n), means |-> means]
Against(op, n) == [tokens |-> <<Operator(op)>> \o PrintNode(n), means |-> BinaryNode(Context, op, n)]
Plain(n) == Cell(n, BinaryNode(Context, "==", n))
Among(n) == Cell(n, BinaryNode(Context, "in", n))
Answer(n) == Cell(n, CallNode("bool", <<n>>))

Joinable == {Against(">", N(1)), Plain(N(5)), Among(Span("[", 1, 3, "]")), Answer(BinaryNode(V("a"), "<", Context))}
Atoms ==
    Joinable \union
    {Against("not in", Nums(<<1, 2>>)), Against("!=", Nil), Plain(S(<<"x">>)), Plain(V("a")), Plain(Nil),
     Among(Nums(<<1, 5>>)), Among(SliceNode(V("b"), N(0), N(1))), Among(Over("filter", V("b"), NoAlias, BinaryNode(Hash, ">", N(1)))),
     Answer(CallNode("contains", <<Context, S(<<"x">>)>>)), Plain(UnaryNode("not", V("t"))),
     Answer(Over("some", V("b"), NoAlias, BinaryNode(BinaryNode(Hash, ">", N(2)), "and", BinaryNode(Hash, "<", Context)))),
     Plain(BinaryNode(N(2), "+", N(3))), Plain(CallNode("len", <<V("b")>>)),
     Plain(If(V("t"), N(1), Nums(<<1>>))), Among(If(V("t"), Nums(<<1>>), Nums(<<2>>))), Plain(ObjectNode(<<>>))}

JoinedBy(l, op, r) ==
    [tokens |-> l.tokens \o <<Operator(op)>> \o r.tokens,
     means |-> BinaryNode(l.means, IF op = "and" THEN "and" ELSE "or", r.means)]
Joins3 ==
    {JoinedBy(JoinedBy(x, p, y), q, z) : x \in Joinable, y \in Joinable, z \in Joinable,
                                 p \in {"and", "or", ","}, q \in {"and", "or", ","}}

CellEnv(v) == Object((<<"$">> :> v) @@ AnEnv.object)
Cells ==
    {[flavour |-> "unary", tokens |-> c.tokens, means |-> c.means, env |-> CellEnv(v)] :
        c \in Atoms, v \in {Number(1), Number(5), String(<<"x">>), Null}}
    \union
    {[flavour |-> "unary", tokens |-> c.tokens, means |-> c.means, env |-> CellEnv(v)] :
        c \in Joins3, v \in {Number(1), Number(3)}}

MCSources ==
    Known({Standard(n, AnEnv) : n \in Grouped \union Signed \union Conditionals \union Iterations \union Shapes})
    \union {Standard(n, Null) : n \in {V("a"), Dot(V("a"), "k"), RootNode, Assigned(<<<<"a", N(1)>>>>, NoNode)}}
    \union {Standard(n, Number(1)) : n \in {V("a"), RootNode}}
    \union Misprinted \union Known(Cells)

=============================================================================
