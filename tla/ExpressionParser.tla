-------------------------- MODULE ExpressionParser --------------------------
(***************************************************************************)
(* The parser of the expression language: from tokens to a tree, in the    *)
(* standard flavour (expressions of the canvas) and in the unary one (the  *)
(* cells of a decision table, which test the value called $).              *)
(*                                                                         *)
(* A parser is its tokens, its position and the depth of closures around   *)
(* it; node is what it has just parsed.  An error node anywhere makes the  *)
(* whole parse an error, so a parser that has met one is lost: it has no   *)
(* token left and never comes to the end.  Calls of methods (of dates) and *)
(* assignments to a path of several keys are left out.                     *)
(***************************************************************************)
EXTENDS ExpressionValues

-----------------------------------------------------------------------------
(* Tokens: a word is the name of a literal, a string or an identifier *)

Operator(text) == [kind |-> "operator", text |-> text]
Bracket(text) == [kind |-> "bracket", text |-> text]
Quote(text) == [kind |-> "quote", text |-> text]
TemplatePart(text) == [kind |-> "template", text |-> text]
Word(word) == [kind |-> "literal", word |-> word]
Identifier(word) == [kind |-> "identifier", word |-> word]
Numeral(n) == [kind |-> "number", number |-> n]
Boolean(b) == [kind |-> "boolean", bool |-> b]
NoToken == [kind |-> "none"]

ContextReference == Identifier(<<"$">>)
RootReference == Identifier(<<"$root">>)
CallbackReference == Identifier(<<"#">>)
NullToken == Identifier(<<"null">>)
As == Word(<<"as">>)

BinaryOperators ==
    [op \in {"or"} |-> 10] @@ [op \in {"and"} |-> 15]
    @@ [op \in {"==", "!=", "<", ">", "<=", ">=", "in", "not in"} |-> 20]
    @@ [op \in {"+", "-"} |-> 30] @@ [op \in {"*", "/", "%"} |-> 60]
    @@ [op \in {"^"} |-> 70] @@ [op \in {"??"} |-> 80]
UnaryOperators == [op \in {"not"} |-> 50] @@ [op \in {"+", "-"} |-> 200]
Comparisons == {"==", "!=", "<", ">", "<=", ">=", "in", "not in"}
ArithmeticOperators == {"+", "-", "*", "/", "%", "^"}

Closures == {"all", "none", "some", "one", "filter", "map", "flatMap", "count"}
IsFunction(word) == Len(word) = 1 /\ word[1] \in DOMAIN Arity \union Closures

-----------------------------------------------------------------------------
(* Nodes *)

LiteralNode(v) == [node |-> "Literal", value |-> v]
PointerNode == [node |-> "Pointer"]
RootNode == [node |-> "Root"]
IdentifierNode(name) == [node |-> "Identifier", name |-> name]
ArrayNode(items) == [node |-> "Array", items |-> items]
ObjectNode(entries) == [node |-> "Object", entries |-> entries]
TemplateNode(parts) == [node |-> "Template", parts |-> parts]
AssignmentsNode(list, output) == [node |-> "Assignments", list |-> list, output |-> output]
ClosureNode(body, alias) == [node |-> "Closure", body |-> body, alias |-> alias]
ParenthesizedNode(of) == [node |-> "Parenthesized", of |-> of]
MemberNode(of, property) == [node |-> "Member", of |-> of, property |-> property]
SliceNode(of, from, to) == [node |-> "Slice", of |-> of, from |-> from, to |-> to]
IntervalNode(left, from, to, right) ==
    [node |-> "Interval", left |-> left, from |-> from, to |-> to, right |-> right]
ConditionalNode(if, then, else) ==
    [node |-> "Conditional", condition |-> if, onTrue |-> then, onFalse |-> else]
UnaryNode(op, of) == [node |-> "Unary", operator |-> op, of |-> of]
BinaryNode(left, op, right) ==
    [node |-> "Binary", left |-> left, operator |-> op, right |-> right]
CallNode(function, arguments) ==
    [node |-> "FunctionCall", function |-> function, arguments |-> arguments]
NoNode == [node |-> "none"]
ErrorNode == [node |-> "Error"]
NoAlias == <<>>

-----------------------------------------------------------------------------
(* The cursor *)

Nowhere == 0
Parser(tokens) == [tokens |-> tokens, at |-> 1, depth |-> 0, node |-> NoNode]
Current(p) == IF p.at \in DOMAIN p.tokens THEN p.tokens[p.at] ELSE NoToken
Lost(p) == [p EXCEPT !.at = Nowhere]
Step(p) == IF p.at \in DOMAIN p.tokens THEN [p EXCEPT !.at = @ + 1] ELSE Lost(p)
Give(p, node) == [p EXCEPT !.node = node]
Expect(p, token) == IF Current(p) = token THEN Step(p) ELSE Lost(p)
HasRange(p) == \E i \in DOMAIN p.tokens : p.tokens[i] = Operator("..")
IsOperator(token, operators) == token.kind = "operator" /\ token.text \in operators

\* The context a nested expression is parsed in: only the body of a closure
\* in a unary expression may use the operators that join cells.
Inner(context) == IF context = "standard" THEN "standard" ELSE "global"
Body(context) == IF context = "standard" THEN "standard" ELSE "closure"
Joins(context) == IF context = "global" THEN {"and", "or"} ELSE {}

-----------------------------------------------------------------------------
(* Expressions *)

RECURSIVE Expression(_, _, _), Binaries(_, _, _), Operand(_, _), Interval(_, _),
          Postfix(_, _), List(_, _, _, _), Entries(_, _, _), Assignments(_, _, _),
          TemplateParts(_, _, _)

\* Fault: every operator groups to the right.
BinariesToTheRight(p, precedence, context) ==
    LET token == Current(p)
        binds == BinaryOperators[token.text]
        right == Expression(Step(p), binds, Inner(context))
    IN  IF /\ IsOperator(token, DOMAIN BinaryOperators \ Joins(context))
           /\ binds >= precedence
        THEN Binaries(Give(right, BinaryNode(p.node, token.text, right.node)), precedence, context)
        ELSE p

\* Precedence climbing: the operators from a precedence on.
Binaries(p, precedence, context) ==
    LET token == Current(p)
        binds == BinaryOperators[token.text]
        right == Expression(Step(p), IF token.text = "^" THEN binds ELSE binds + 1, Inner(context))
    IN  IF /\ IsOperator(token, DOMAIN BinaryOperators \ Joins(context))
           /\ binds >= precedence
        THEN Binaries(Give(right, BinaryNode(p.node, token.text, right.node)), precedence, context)
        ELSE p

Conditional(p, context) ==
    LET then == Expression(Step(p), 0, context)
        else == Expression(Expect(then, Operator(":")), 0, context)
    IN  IF Current(p) = Operator("?")
        THEN Give(else, ConditionalNode(p.node, then.node, else.node))
        ELSE p

Expression(p, precedence, context) ==
    LET binary == Binaries(Operand(p, Inner(context)), precedence, context)
    IN  IF precedence = 0 THEN Conditional(binary, Inner(context)) ELSE binary

\* What a bracket opens is an interval if it can be parsed as one.
Interval(p, context) ==
    LET left == Expression(Step(p), 0, context)
        right == Expression(Expect(left, Operator("..")), 0, context)
        interval == IntervalNode(Current(p).text, left.node, right.node, Current(right).text)
    IN  IF Current(p).kind = "bracket" /\ HasRange(p) /\ Current(right).kind = "bracket"
        THEN Postfix(Give(Step(right), interval), context)
        ELSE Lost(p)

-----------------------------------------------------------------------------
(* Literals *)

SimpleString(p) ==
    LET word == Current(Step(p))
    IN  IF word.kind = "literal"
        THEN Give(Expect(Step(Step(p)), Current(p)), LiteralNode(String(word.word)))
        ELSE Lost(p)

TemplateParts(p, parts, context) ==
    LET token == Current(p)
        expression == Expression(Step(p), 0, context)
        end == TemplatePart("}")
    IN  CASE token = TemplatePart("${") ->
               TemplateParts(Expect(expression, end), Append(parts, expression.node), context)
          [] token = end -> TemplateParts(Step(p), parts, context)
          [] token.kind = "literal" ->
               TemplateParts(Step(p), Append(parts, LiteralNode(String(token.word))), context)
          [] OTHER -> Give(Expect(p, Quote("backtick")), TemplateNode(parts))

\* Expressions separated by commas, the last of which may be left over.
List(p, close, items, context) ==
    LET item == Expression(p, 0, context)
        longer == Append(items, item.node)
    IN  IF Current(p) = close THEN Give(Step(p), items)
        ELSE IF Current(item) = Operator(",") THEN List(Step(item), close, longer, context)
        ELSE Give(Expect(item, close), longer)

ArrayLiteral(p, context) ==
    LET list == List(Step(p), Bracket("]"), <<>>, context)
    IN  Postfix(Give(list, ArrayNode(list.node)), context)

ObjectKey(p, context) ==
    LET token == Current(p)
    IN  CASE token.kind \in {"identifier", "literal"} ->
               Give(Step(p), LiteralNode(String(token.word)))
          [] token.kind = "number" -> Give(Step(p), LiteralNode(String(<<ToString(token.number)>>)))
          [] token.kind = "boolean" ->
               Give(Step(p), LiteralNode(String(IF token.bool THEN <<"true">> ELSE <<"false">>)))
          [] token \in {Quote("'"), Quote("\"")} -> SimpleString(p)
          [] token = Bracket("[") -> Expect(Expression(Step(p), 0, context), Bracket("]"))
          [] OTHER -> Lost(p)

Entries(p, entries, context) ==
    LET key == ObjectKey(p, context)
        value == Expression(Expect(key, Operator(":")), 0, context)
        longer == Append(entries, <<key.node, value.node>>)
    IN  IF Current(value) = Operator(",") THEN Entries(Step(value), longer, context)
        ELSE Give(Expect(value, Bracket("}")), ObjectNode(longer))

ObjectLiteral(p, context) ==
    LET open == Step(p)
    IN  IF Current(open) = Bracket("}") THEN Give(Step(open), ObjectNode(<<>>))
        ELSE Entries(open, <<>>, context)

-----------------------------------------------------------------------------
(* Access to parts *)

PropertyName(token) ==
    CASE token.kind \in {"identifier", "literal"} -> token.word
      [] IsOperator(token, {"and", "or", "not", "??", "in"}) -> <<token.text>>
      [] OTHER -> <<>>

MemberAccess(p) ==
    LET name == PropertyName(Current(Step(p)))
        after == Step(Step(p))
    IN  IF name = <<>> \/ Current(after) = Bracket("(") THEN Lost(p)
        ELSE Give(after, MemberNode(p.node, LiteralNode(String(name))))

PropertyAccess(p, context) ==
    LET open == Step(p)
        colon == Operator(":")
        close == Bracket("]")
        from == IF Current(open) = colon THEN Give(open, NoNode) ELSE Expression(open, 0, context)
        to == IF Current(Step(from)) = close THEN Give(Step(from), NoNode)
              ELSE Expression(Step(from), 0, context)
    IN  IF Current(from) = colon
        THEN Give(Expect(to, close), SliceNode(p.node, from.node, to.node))
        ELSE Give(Expect(from, close), MemberNode(p.node, from.node))

Postfix(p, context) ==
    CASE Current(p) = Operator(".") -> Postfix(MemberAccess(p), context)
      [] Current(p) = Bracket("[") -> Postfix(PropertyAccess(p, context), context)
      [] OTHER -> p

-----------------------------------------------------------------------------
(* Names, assignments and calls *)

\* name = value; name = value; ... and perhaps an expression, up to the end.
Assignments(p, list, context) ==
    LET value == Expression(Expect(p, Operator("=")), 0, context)
        longer == Append(list, <<LiteralNode(String(p.node.name)), value.node>>)
        after == Expect(value, Operator(";"))
        token == Current(after)
        key == Postfix(Give(Step(after), IdentifierNode(PropertyName(token))), context)
        output == Expression(after, 0, context)
    IN  IF p.node.node # "Identifier" THEN Lost(p)
        ELSE IF Current(value) = NoToken THEN Give(value, AssignmentsNode(longer, NoNode))
        ELSE IF token = NoToken THEN Give(after, AssignmentsNode(longer, NoNode))
        ELSE IF Current(key) = Operator("=") THEN Assignments(key, longer, context)
        ELSE Give(output, AssignmentsNode(longer, output.node))

ClosureCall(p, function, context) ==
    LET of == Expression(p, 0, context)
        alias == Current(Step(of))
        named == IF Current(of) # As THEN of
                 ELSE IF alias.kind = "literal" THEN Step(Step(of)) ELSE Lost(of)
        comma == Expect(named, Operator(","))
        body == Expression([comma EXCEPT !.depth = @ + 1], 0, Body(context))
        close == Expect([body EXCEPT !.depth = @ - 1], Bracket(")"))
        closure == ClosureNode(body.node, IF Current(of) = As THEN alias.word ELSE NoAlias)
    IN  Give(close, CallNode(function, <<of.node, closure>>))

FunctionCall(p, function, context) ==
    LET arguments == List(p, Bracket(")"), <<>>, context)
    IN  IF function \in Closures THEN ClosureCall(p, function, context)
        ELSE Give(arguments, CallNode(function, arguments.node))

Name(p, context) ==
    LET token == Current(p)
        after == Step(p)
        node == IF token = RootReference THEN RootNode ELSE IdentifierNode(token.word)
        named == Postfix(Give(after, node), context)
    IN  IF Current(after) = Bracket("(")
        THEN IF IsFunction(token.word)
             THEN Postfix(FunctionCall(Step(after), token.word[1], context), context)
             ELSE Lost(p)
        ELSE IF Current(named) = Operator("=") THEN Assignments(named, <<>>, context)
        ELSE named

Literal(p, context) ==
    LET token == Current(p)
    IN  CASE token = NullToken -> Give(Step(p), LiteralNode(Null))
          [] token # NullToken /\ token.kind \in {"identifier", "literal"} -> Name(p, context)
          [] token.kind = "number" -> Give(Step(p), LiteralNode(Number(token.number)))
          [] token.kind = "boolean" -> Give(Step(p), LiteralNode(Bool(token.bool)))
          [] token \in {Quote("'"), Quote("\"")} -> SimpleString(p)
          [] token = Quote("backtick") -> TemplateParts(Step(p), <<>>, context)
          [] token = Bracket("[") -> ArrayLiteral(p, context)
          [] token = Bracket("{") -> ObjectLiteral(p, context)
          [] OTHER -> Lost(p)

Parentheses(p, context) ==
    LET inner == Expression(Step(p), 0, context)
        close == Expect(inner, Bracket(")"))
    IN  Postfix(Give(close, ParenthesizedNode(inner.node)), context)

Operand(p, context) ==
    LET token == Current(p)
        operand == Expression(Step(p), UnaryOperators[token.text], context)
        interval == Interval(p, context)
    IN  IF p.depth > 0 /\ token = CallbackReference THEN Postfix(Give(Step(p), PointerNode), context)
        ELSE IF IsOperator(token, DOMAIN UnaryOperators)
             THEN Give(operand, UnaryNode(token.text, operand.node))
        ELSE IF interval.at # Nowhere THEN interval
        ELSE IF token = Bracket("(") THEN Parentheses(p, context)
        ELSE Literal(p, context)

-----------------------------------------------------------------------------
(* Unary expressions *)

Context == IdentifierNode(ContextReference.word)

CallBehaviour(function) ==
    CASE function \in {"contains", "all", "some", "none", "one"} -> "bool"
      [] function \in {"filter", "map", "flatMap"} -> "in"
      [] OTHER -> "=="

\* How an expression on its own tests the value: compared with it, asked
\* whether it holds it, or taken as the answer.
RECURSIVE Behaviour(_)
Behaviour(n) ==
    LET both(a, b) == IF Behaviour(a) = Behaviour(b) THEN Behaviour(a) ELSE "=="
    IN  CASE n.node \in {"Pointer", "Closure"} -> "bool"
          [] n.node \in {"Array", "Slice", "Interval"} -> "in"
          [] n.node = "Conditional" -> both(n.onTrue, n.onFalse)
          [] n.node \in {"Unary", "Parenthesized"} -> Behaviour(n.of)
          [] n.node = "Binary" ->
               IF n.operator \in ArithmeticOperators THEN both(n.left, n.right) ELSE "bool"
          [] n.node = "FunctionCall" -> CallBehaviour(n.function)
          [] OTHER -> "=="

Asked(n) ==
    IF Behaviour(n) = "bool" THEN CallNode("bool", <<n>>) ELSE BinaryNode(Context, Behaviour(n), n)

Compared(left, right) == Give(right, BinaryNode(left.node, Current(left).text, right.node))
Tested(left) ==
    IF IsOperator(Current(left), Comparisons)
    THEN Compared(left, Expression(Step(left), 0, "global"))
    ELSE Give(left, Asked(left.node))

Pair(p) ==
    Tested(IF IsOperator(Current(p), Comparisons) THEN Give(p, Context)
           ELSE Expression(p, 0, "global"))

\* Pairs are joined from left to right: no operator binds tighter.
RECURSIVE Joined(_)
JoinedTo(left, right) ==
    Give(right, BinaryNode(left.node, IF Current(left).text = "and" THEN "and" ELSE "or", right.node))
Joined(p) ==
    IF Current(p) = NoToken THEN p
    ELSE IF IsOperator(Current(p), {"and", "or", ","}) THEN Joined(JoinedTo(p, Pair(Step(p))))
    ELSE Lost(p)

-----------------------------------------------------------------------------

\* The tree of a source; an error when a token is left or anything is wrong.
Whole(p) == IF p.at = Len(p.tokens) + 1 THEN p.node ELSE ErrorNode

Parse(tokens, flavour) ==
    Whole(IF flavour = "unary" THEN Joined(Pair(Parser(tokens)))
          ELSE Expression(Parser(tokens), 0, "standard"))

=============================================================================
