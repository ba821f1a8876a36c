------------------------- MODULE ExpressionCompiler -------------------------
(***************************************************************************)
(* The compiler of the expression language: from a tree to the instructions *)
(* of the stack machine.  Jumps are relative to the instruction after them. *)
(* A tree that cannot be compiled gives an instruction Error.              *)
(***************************************************************************)
EXTENDS ExpressionParser

Instruction(op) == [op |-> op]
Push(v) == [op |-> "Push", value |-> v]
Jump(when, by) == [op |-> "Jump", when |-> when, by |-> by]
PointerTo(depth) == [op |-> "Pointer", depth |-> depth]
CallFunction(function, count) == [op |-> "CallFunction", function |-> function, count |-> count]
Operate(operator) == [op |-> "Binary", operator |-> operator]
PushInterval(left, right) == [op |-> "Interval", left |-> left, right |-> right]
EndAssigned(withReturn) == [op |-> "AssignedObjectEnd", withReturn |-> withReturn]
FetchFast(path) == [op |-> "FetchFast", path |-> path]
FetchEnv(name) == [op |-> "FetchEnv", name |-> name]
ToRoot == [type |-> "root"]
ToBegin == [type |-> "begin"]

Uncompilable(code) == \E i \in DOMAIN code : code[i] = Instruction("Error")

-----------------------------------------------------------------------------
(* Names and paths *)

Aliases(aliases, name) == {i \in DOMAIN aliases : aliases[i] # NoAlias /\ aliases[i] = name}

\* How many scopes out the innermost closure of that alias is.
AliasDepth(aliases, name) ==
    Len(aliases) - CHOOSE i \in Aliases(aliases, name) : \A j \in Aliases(aliases, name) : j <= i

\* The targets of a path fetched by one instruction, none when it is not such
\* a path: it starts at the root or at a name and goes by constant keys.
RECURSIVE FastPath(_, _)
FastPath(n, aliases) ==
    CASE n.node = "Root" -> <<ToRoot>>
      [] n.node = "Identifier" ->
           IF Aliases(aliases, n.name) = {} THEN <<ToBegin, String(n.name)>> ELSE <<>>
      [] n.node = "Member" ->
           LET path == FastPath(n.of, aliases)
               constant == /\ n.property.node = "Literal"
                           /\ \/ Is(n.property.value, "string")
                              \/ Is(n.property.value, "number") /\ n.property.value.number >= 0
           IN  IF path # <<>> /\ constant THEN Append(path, n.property.value) ELSE <<>>
      [] OTHER -> <<>>

-----------------------------------------------------------------------------
(* Pieces of control: each is given the code of its parts *)

\* The right side is computed when the left does not decide.
ShortCircuit(left, when, right) ==
    left \o <<Jump(when, Len(right) + 1), Instruction("Pop")>> \o right

Branches(condition, onTrue, onFalse) ==
    condition \o <<Jump("IfFalse", Len(onTrue) + 2), Instruction("Pop")>>
    \o onTrue \o <<Jump("Forward", Len(onFalse) + 1), Instruction("Pop")>> \o onFalse

\* Fault: the loop is left on its last instruction.
LoopShort(body) ==
    <<Jump("IfEnd", Len(body) + 1)>> \o body
    \o <<Instruction("IncrementIt"), Jump("Backward", Len(body) + 3)>>

Loop(body) ==
    <<Jump("IfEnd", Len(body) + 2)>> \o body
    \o <<Instruction("IncrementIt"), Jump("Backward", Len(body) + 3)>>

\* Does something with an element whose body is true.
Cond(do) ==
    <<Jump("IfFalse", Len(do) + 2), Instruction("Pop")>> \o do
    \o <<Jump("Forward", 1), Instruction("Pop")>>

\* Fault: the jump out of the loop passes the end of the scope too.
QuantifierPastEnd(body, when, otherwise) ==
    Loop(body \o <<Jump(when, 5), Instruction("Pop")>>)
    \o <<Push(Bool(otherwise)), Instruction("End")>>

\* A loop that stops at the first element whose body decides; a false or true
\* left on the stack is the answer.
Quantifier(body, when, otherwise) ==
    Loop(body \o <<Jump(when, 4), Instruction("Pop")>>)
    \o <<Push(Bool(otherwise)), Instruction("End")>>

ClosureCode(function, of, body) ==
    LET scope == of \o <<Instruction("Begin")>>
        count == <<Instruction("IncrementCount")>>
        counted == scope \o Loop(body \o Cond(count)) \o <<Instruction("GetCount")>>
        collected == scope \o Loop(body) \o <<Instruction("GetLen"), Instruction("End"),
                                              Instruction("Array")>>
    IN  CASE function = "all" -> scope \o Quantifier(body, "IfFalse", TRUE)
          [] function = "none" ->
               scope \o Quantifier(body \o <<Instruction("Not")>>, "IfFalse", TRUE)
          [] function = "some" -> scope \o Quantifier(body, "IfTrue", FALSE)
          [] function = "one" ->
               counted \o <<Push(Number(1)), Operate("=="), Instruction("End")>>
          [] function = "count" -> counted \o <<Instruction("End")>>
          [] function = "filter" ->
               scope \o Loop(body \o Cond(count \o <<PointerTo(0)>>))
               \o <<Instruction("GetCount"), Instruction("End"), Instruction("Array")>>
          [] function = "map" -> collected
          [] function = "flatMap" -> collected \o <<Instruction("Flatten")>>

-----------------------------------------------------------------------------

RECURSIVE CompileNode(_, _)

Compiled(nodes, aliases) == [i \in DOMAIN nodes |-> CompileNode(nodes[i], aliases)]
Collected(code, op, n) == FlattenSeq(code) \o <<Push(Number(n)), Instruction(op)>>
Stringified(code) == code \o <<CallFunction("string", 1)>>

TemplateCode(parts, aliases) ==
    Collected([i \in DOMAIN parts |-> Stringified(CompileNode(parts[i], aliases))],
              "Array", Len(parts))
    \o <<Push(String(<<>>)), Instruction("Join")>>

ObjectCode(entries, aliases) ==
    Collected([i \in DOMAIN entries |-> Stringified(CompileNode(entries[i][1], aliases))
                                        \o CompileNode(entries[i][2], aliases)],
              "Object", Len(entries))

AssignmentsCode(list, output, aliases) ==
    <<Instruction("AssignedObjectBegin")>>
    \o FlattenSeq([i \in DOMAIN list |-> FlattenSeq(Compiled(list[i], aliases))
                                         \o <<Instruction("AssignedObjectStep")>>])
    \o (IF output = NoNode THEN <<>> ELSE CompileNode(output, aliases))
    \o <<EndAssigned(output # NoNode)>>

\* The length is taken of the value sliced, which is on top of the stack.
SliceCode(n, aliases) ==
    CompileNode(n.of, aliases)
    \o (IF n.to # NoNode THEN CompileNode(n.to, aliases)
        ELSE <<Instruction("Len"), Push(Number(1)), Operate("-")>>)
    \o (IF n.from # NoNode THEN CompileNode(n.from, aliases) ELSE <<Push(Number(0))>>)
    \o <<Instruction("Slice")>>

UnaryCode(operator, of) ==
    CASE operator = "+" -> of
      [] operator = "-" -> of \o <<Instruction("Negate")>>
      [] operator = "not" -> of \o <<Instruction("Not")>>

BinaryCode(left, operator, right) ==
    CASE operator = "or" -> ShortCircuit(left, "IfTrue", right)
      [] operator = "and" -> ShortCircuit(left, "IfFalse", right)
      [] operator = "??" -> ShortCircuit(left, "IfNotNull", right)
      [] operator = "!=" -> left \o right \o <<Operate("=="), Instruction("Not")>>
      [] operator = "not in" -> left \o right \o <<Operate("in"), Instruction("Not")>>
      [] OTHER -> left \o right \o <<Operate(operator)>>

CallCode(function, arguments, aliases) ==
    LET code == Compiled(arguments, aliases)
    IN  IF function \in Closures THEN ClosureCode(function, code[1], code[2])
        ELSE IF Len(arguments) # Arity[function] THEN <<Instruction("Error")>>
        ELSE FlattenSeq(code) \o <<CallFunction(function, Len(arguments))>>

CompileNode(n, aliases) ==
    CASE n.node = "Literal" -> <<Push(n.value)>>
      [] n.node = "Pointer" -> <<PointerTo(0)>>
      [] n.node = "Root" -> <<Instruction("FetchRootEnv")>>
      [] n.node = "Array" -> Collected(Compiled(n.items, aliases), "Array", Len(n.items))
      [] n.node = "Object" -> ObjectCode(n.entries, aliases)
      [] n.node = "Template" -> TemplateCode(n.parts, aliases)
      [] n.node = "Assignments" -> AssignmentsCode(n.list, n.output, aliases)
      [] n.node = "Identifier" ->
           IF Aliases(aliases, n.name) = {} THEN <<FetchEnv(n.name)>>
           ELSE <<PointerTo(AliasDepth(aliases, n.name))>>
      [] n.node = "Closure" -> CompileNode(n.body, Append(aliases, n.alias))
      [] n.node = "Parenthesized" -> CompileNode(n.of, aliases)
      [] n.node = "Member" ->
           IF FastPath(n, aliases) # <<>> THEN <<FetchFast(FastPath(n, aliases))>>
           ELSE CompileNode(n.of, aliases) \o CompileNode(n.property, aliases)
                \o <<Instruction("Fetch")>>
      [] n.node = "Slice" -> SliceCode(n, aliases)
      [] n.node = "Interval" ->
           CompileNode(n.from, aliases) \o CompileNode(n.to, aliases)
           \o <<PushInterval(n.left, n.right)>>
      [] n.node = "Conditional" ->
           Branches(CompileNode(n.condition, aliases), CompileNode(n.onTrue, aliases),
                    CompileNode(n.onFalse, aliases))
      [] n.node = "Unary" -> UnaryCode(n.operator, CompileNode(n.of, aliases))
      [] n.node = "Binary" ->
           BinaryCode(CompileNode(n.left, aliases), n.operator, CompileNode(n.right, aliases))
      [] n.node = "FunctionCall" -> CallCode(n.function, n.arguments, aliases)
      [] OTHER -> <<Instruction("Error")>>

=============================================================================
