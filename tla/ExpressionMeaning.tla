------------------------- MODULE ExpressionMeaning -------------------------
(***************************************************************************)
(* What an expression means, said of its tree alone: the abstract          *)
(* specification of the parser, the compiler and the machine.              *)
(*                                                                         *)
(* A context is the environment with the names assigned so far, the        *)
(* environment the isolate was given, and the elements of the closures     *)
(* around, the innermost last.                                             *)
(***************************************************************************)
EXTENDS ExpressionParser

\* The first of some values that is not one, or what they make when all are.
Strict(values, made) ==
    LET stops == {i \in DOMAIN values : Stops(values[i])}
    IN  IF stops = {} THEN made ELSE values[CHOOSE i \in stops : \A j \in stops : i <= j]

\* A boolean that decides, or what follows it.
Decide(v, decided, answer, otherwise) ==
    CASE Stops(v) -> v
      [] v = Bool(decided) -> answer
      [] v = Bool(~decided) -> otherwise
      [] OTHER -> Failed

\* The answers to a question asked of elements in turn, up to the first that
\* is not as expected.
Quantified(answers, expected, all) ==
    LET others == {i \in DOMAIN answers : answers[i] # Bool(expected)}
        first == answers[CHOOSE i \in others : \A j \in others : i <= j]
    IN  IF others = {} THEN Bool(all) ELSE Decide(first, ~expected, Bool(~all), Failed)

\* The elements of which the answer is true, when all answers are booleans.
Chosen(elements, answers) ==
    LET asked == [i \in DOMAIN answers |->
            IF Stops(answers[i]) \/ Is(answers[i], "bool") THEN answers[i] ELSE Failed]
        chosen == {i \in DOMAIN answers : answers[i] = Bool(TRUE)}
    IN  Strict(asked, Array([k \in 1..Cardinality(chosen) |->
            elements[CHOOSE i \in chosen : Cardinality({j \in chosen : j <= i}) = k]]))

OfClosure(function, elements, answers) ==
    LET chosen == Chosen(elements, answers)
        counted == IF Stops(chosen) THEN chosen ELSE Number(Len(chosen.array))
    IN  CASE function = "all" -> Quantified(answers, TRUE, TRUE)
          [] function = "none" -> Quantified(answers, FALSE, TRUE)
          [] function = "some" -> Quantified(answers, FALSE, FALSE)
          [] function = "filter" -> chosen
          [] function = "count" -> counted
          [] function = "one" -> IF Stops(counted) THEN counted ELSE Bool(counted.number = 1)
          [] function = "map" -> Strict(answers, Array(answers))
          [] function = "flatMap" -> Strict(answers, Flatten(Array(answers)))

RECURSIVE MeaningIn(_, _)

Meanings(nodes, c) == [i \in DOMAIN nodes |-> MeaningIn(nodes[i], c)]

MeaningOfName(name, c) ==
    LET named == {i \in DOMAIN c.elements : c.elements[i].alias = name}
    IN  IF named # {} THEN c.elements[CHOOSE i \in named : \A j \in named : j <= i].value
        ELSE IF c.env.type \in {"object", "null"} THEN Key(c.env, name) ELSE Failed

MeaningOfClosure(function, of, closure, c) ==
    LET over == MeaningIn(of, c)
        elements == Elements(over).array
        answer(v) == MeaningIn(closure.body, [c EXCEPT !.elements =
                                                Append(@, [alias |-> closure.alias, value |-> v])])
    IN  IF Stops(over) THEN over ELSE IF Elements(over) = Failed THEN Failed
        ELSE OfClosure(function, elements, [i \in DOMAIN elements |-> answer(elements[i])])

MeaningOfBinary(left, op, right, c) ==
    LET l == MeaningIn(left, c)
        r == MeaningIn(right, c)
        both(v) == Strict(<<l, r>>, v)
    IN  CASE op = "or" -> Decide(l, TRUE, l, r)
          [] op = "and" -> Decide(l, FALSE, l, r)
          [] op = "??" -> IF l = Null THEN r ELSE l
          [] op = "!=" -> both(Not(Binary("==", l, r)))
          [] op = "not in" -> both(IF Stops(Contained(l, r)) THEN Contained(l, r)
                                   ELSE Not(Contained(l, r)))
          [] OTHER -> both(Binary(op, l, r))

\* The names of a list of assignments are seen by what follows them.
MeaningOfAssignments(list, output, c) ==
    LET assign(s, pair) ==
            LET v == MeaningIn(pair[2], [c EXCEPT !.env = s.env])
            IN  IF Stops(s.failed) THEN s
                ELSE IF Stops(v) THEN [s EXCEPT !.failed = v]
                ELSE IF ~Is(s.env, "object") THEN [s EXCEPT !.failed = Failed]
                ELSE [s EXCEPT !.env = Insert(s.env, pair[1].value.string, v),
                               !.object = Insert(s.object, pair[1].value.string, v)]
        end == FoldLeft(assign, [env |-> c.env, object |-> Object([k \in {} |-> Null]),
                                 failed |-> Null], list)
    IN  IF Stops(end.failed) THEN end.failed
        ELSE IF output = NoNode THEN end.object
        ELSE MeaningIn(output, [c EXCEPT !.env = end.env])

MeaningOfSlice(n, c) ==
    LET of == MeaningIn(n.of, c)
        to == IF n.to # NoNode THEN MeaningIn(n.to, c)
              ELSE IF Stops(of) \/ Stops(LenOf(of)) THEN Failed ELSE Number(LenOf(of).number - 1)
        from == IF n.from # NoNode THEN MeaningIn(n.from, c) ELSE Number(0)
    IN  Strict(<<of, to, from>>, Slice(of, from, to))

MeaningOfTexts(nodes, c) ==
    [i \in DOMAIN nodes |->
        LET v == MeaningIn(nodes[i], c) IN IF Stops(v) THEN v ELSE ToStringOf(v)]

MeaningOfObject(entries, c) ==
    LET keys == MeaningOfTexts([i \in DOMAIN entries |-> entries[i][1]], c)
        parts == FlattenSeq([i \in DOMAIN entries |-> <<keys[i], MeaningIn(entries[i][2], c)>>])
    IN  Strict(parts, MakeObject(parts))

MeaningIn(n, c) ==
    CASE n.node = "Literal" -> n.value
      [] n.node = "Pointer" -> c.elements[Len(c.elements)].value
      [] n.node = "Root" -> c.env
      [] n.node = "Identifier" -> MeaningOfName(n.name, c)
      [] n.node = "Array" -> LET vs == Meanings(n.items, c) IN Strict(vs, Array(vs))
      [] n.node = "Object" -> MeaningOfObject(n.entries, c)
      [] n.node = "Template" -> LET vs == MeaningOfTexts(n.parts, c) IN Strict(vs, Join(Array(vs)))
      [] n.node = "Assignments" -> MeaningOfAssignments(n.list, n.output, c)
      [] n.node = "Parenthesized" -> MeaningIn(n.of, c)
      [] n.node = "Member" ->
           LET of == IF n.of = RootNode THEN c.root ELSE MeaningIn(n.of, c)
               key == MeaningIn(n.property, c)
           IN  Strict(<<of, key>>, Fetch(of, key))
      [] n.node = "Slice" -> MeaningOfSlice(n, c)
      [] n.node = "Interval" ->
           LET l == MeaningIn(n.from, c)
               r == MeaningIn(n.to, c)
           IN  Strict(<<l, r>>, IntervalOf(n.left, l, r, n.right))
      [] n.node = "Conditional" ->
           Decide(MeaningIn(n.condition, c), TRUE, MeaningIn(n.onTrue, c), MeaningIn(n.onFalse, c))
      [] n.node = "Unary" ->
           LET v == MeaningIn(n.of, c)
           IN  Strict(<<v>>, CASE n.operator = "+" -> v
                               [] n.operator = "-" -> Negate(v)
                               [] n.operator = "not" -> Not(v))
      [] n.node = "Binary" -> MeaningOfBinary(n.left, n.operator, n.right, c)
      [] n.node = "FunctionCall" ->
           IF n.function \in Closures
           THEN MeaningOfClosure(n.function, n.arguments[1], n.arguments[2], c)
           ELSE LET vs == Meanings(n.arguments, c)
                IN  IF Len(vs) # Arity[n.function] THEN Failed
                    ELSE Strict(vs, Call(n.function, vs))

Meaning(n, env) == MeaningIn(n, [env |-> env, root |-> env, elements |-> <<>>])

=============================================================================
