-------------------------- MODULE ExpressionValues --------------------------
(***************************************************************************)
(* The values of the expression language and what its instructions do to   *)
(* them: the type dispatch of each instruction and the functions len,      *)
(* contains, string and bool.  An operation that the machine refuses is    *)
(* Failed, one on which it panics is Panicked.                             *)
(*                                                                         *)
(* Numbers are small integers: a result that is not one, such as an inexact *)
(* quotient, is Beyond, and no source is enumerated that has it.  A string *)
(* is the sequence of its characters (a keyword or a printed number counts *)
(* as one), and dates are left out.                                        *)
(***************************************************************************)
EXTENDS Integers, SequencesExt

CONSTANT OverflowChecks   \* whether the build checks arithmetic, as debug builds do

ASSUME OverflowAssumption == OverflowChecks \in BOOLEAN

Null == [type |-> "null"]
Bool(b) == [type |-> "bool", bool |-> b]
Number(n) == [type |-> "number", number |-> n]
String(s) == [type |-> "string", string |-> s]
Array(s) == [type |-> "array", array |-> s]
Object(f) == [type |-> "object", object |-> f]
VmInterval(left, l, r, right) ==
    [type |-> "interval", left |-> left, from |-> l, to |-> r, right |-> right]
Failed == [type |-> "failed"]
Panicked == [type |-> "panicked"]
Beyond == [type |-> "beyond"]

Is(v, type) == v.type = type
Are(a, b, type) == a.type = type /\ b.type = type
Stops(v) == v \in {Failed, Panicked, Beyond}

\* Only values of these types can equal another value.
Scalar(v) == v.type \in {"null", "bool", "number", "string"}
Same(a, b) == Scalar(a) /\ a.type = b.type /\ a = b

-----------------------------------------------------------------------------
(* Intervals *)

\* An interval whose brackets are turned outwards is what is not between them.
Includes(i, n) ==
    LET first == CASE i.left = "(" -> i.from < n
                   [] i.left = "[" -> i.from <= n
                   [] i.left = ")" -> i.from > n
                   [] i.left = "]" -> i.from >= n
        second == CASE i.right = ")" -> i.to > n
                    [] i.right = "]" -> i.to >= n
                    [] i.right = "(" -> i.to < n
                    [] i.right = "[" -> i.to <= n
    IN  IF i.left \in {")", "]"} THEN first \/ second ELSE first /\ second

ToArray(i) ==
    LET start == IF i.left = "(" THEN i.from + 1 ELSE i.from
        end == IF i.right = ")" THEN i.to - 1 ELSE i.to
        length == IF start <= end THEN end - start + 1 ELSE 0
    IN  [k \in 1..length |-> Number(start + k - 1)]

IntervalOf(left, a, b, right) ==
    IF Are(a, b, "number") THEN VmInterval(left, a.number, b.number, right) ELSE Failed

\* What a closure iterates over.
Elements(v) ==
    CASE Is(v, "array") -> v
      [] Is(v, "interval") ->
           IF v.left \in {"(", "["} /\ v.right \in {")", "]"} THEN Array(ToArray(v)) ELSE Failed
      [] OTHER -> Failed

-----------------------------------------------------------------------------
(* Operators *)

Equal(a, b) == Bool(Same(a, b))

Contained(a, b) ==
    CASE Scalar(a) /\ Is(b, "array") ->
           Bool(\E i \in DOMAIN b.array : Same(a, b.array[i]))
      [] Is(a, "number") /\ Is(b, "interval") -> Bool(Includes(b, a.number))
      [] Is(a, "string") /\ Is(b, "object") -> Bool(a.string \in DOMAIN b.object)
      [] OTHER -> Failed

Compare(op, a, b) ==
    IF ~Are(a, b, "number") THEN Failed
    ELSE Bool(CASE op = "<" -> a.number < b.number
                [] op = "<=" -> a.number <= b.number
                [] op = ">" -> a.number > b.number
                [] op = ">=" -> a.number >= b.number)

Sign(n) == IF n < 0 THEN -1 ELSE 1
Magnitude(n) == Sign(n) * n

Quotient(a, b) ==
    IF a % Magnitude(b) = 0 THEN Number((Sign(b) * a) \div Magnitude(b)) ELSE Beyond

\* The remainder has the sign of the dividend.
Remainder(a, b) == Number(Sign(a) * (Magnitude(a) % Magnitude(b)))

Power(a, b) ==
    CASE b \in {0, 1} -> Number(IF b = 0 THEN 1 ELSE a)
      [] b \in 2..9 /\ a \in -10..10 -> Number(a ^ b)
      [] OTHER -> Beyond

\* Division by zero is null; the remainder of one is a panic of the decimals.
Arithmetic(op, a, b) ==
    CASE op = "+" /\ Are(a, b, "string") -> String(a.string \o b.string)
      [] ~Are(a, b, "number") -> Failed
      [] OTHER ->
           LET m == a.number
               n == b.number
           IN  CASE op = "+" -> Number(m + n)
                 [] op = "-" -> Number(m - n)
                 [] op = "*" -> Number(m * n)
                 [] op = "/" -> IF n = 0 THEN Null ELSE Quotient(m, n)
                 [] op = "%" -> IF n = 0 THEN Panicked ELSE Remainder(m, n)
                 [] op = "^" -> Power(m, n)

\* The operators that compute both of their sides.
Binary(op, a, b) ==
    CASE op = "==" -> Equal(a, b)
      [] op = "in" -> Contained(a, b)
      [] op \in {"<", "<=", ">", ">="} -> Compare(op, a, b)
      [] op \in {"+", "-", "*", "/", "%", "^"} -> Arithmetic(op, a, b)

Negate(a) == IF Is(a, "number") THEN Number(-a.number) ELSE Failed
Not(a) == IF Is(a, "bool") THEN Bool(~a.bool) ELSE Failed

-----------------------------------------------------------------------------
(* Parts of a value *)

Key(v, key) ==
    IF Is(v, "object") /\ key \in DOMAIN v.object THEN v.object[key] ELSE Null
Index(s, n) == IF n + 1 \in DOMAIN s THEN s[n + 1] ELSE Null

Fetch(a, b) ==
    CASE Is(a, "object") /\ Is(b, "string") -> Key(a, b.string)
      [] a.type \in {"array", "string"} /\ Is(b, "number") /\ b.number < 0 -> Failed
      [] Is(a, "array") /\ Is(b, "number") -> Index(a.array, b.number)
      [] Is(a, "string") /\ Is(b, "number") ->
           IF b.number < Len(a.string) THEN String(<<a.string[b.number + 1]>>) ELSE Null
      [] OTHER -> Null

\* One target of a fast path: unlike Fetch it does not look into strings.
FetchTarget(v, target) ==
    CASE Is(target, "string") -> Key(v, target.string)
      [] Is(target, "number") -> IF Is(v, "array") THEN Index(v.array, target.number) ELSE Null

Slice(v, from, to) ==
    IF ~Are(from, to, "number") \/ from.number < 0 \/ to.number < 0 THEN Failed
    ELSE LET ok(s) == from.number <= to.number + 1 /\ to.number < Len(s)
             part(s) == SubSeq(s, from.number + 1, to.number + 1)
         IN  CASE Is(v, "array") /\ ok(v.array) -> Array(part(v.array))
               [] Is(v, "string") /\ ok(v.string) -> String(part(v.string))
               [] OTHER -> Failed

Flatten(v) ==
    IF ~Is(v, "array") THEN Failed
    ELSE Array(FlattenSeq([i \in DOMAIN v.array |->
        IF Is(v.array[i], "array") THEN v.array[i].array ELSE <<v.array[i]>>]))

\* The capacity of the text counts one separator less than there are parts.
Join(v) ==
    IF ~Is(v, "array") \/ \E i \in DOMAIN v.array : ~Is(v.array[i], "string") THEN Failed
    ELSE IF v.array = <<>> /\ OverflowChecks THEN Panicked
    ELSE String(FlattenSeq([i \in DOMAIN v.array |-> v.array[i].string]))

\* Keys and values in turn; they are popped from the end, so the first of two
\* equal keys wins.
MakeObject(pairs) ==
    LET key(i) == pairs[2 * i - 1]
        keys == 1..(Len(pairs) \div 2)
        first(k) == CHOOSE i \in keys : key(i).string = k /\ \A j \in 1..i-1 : key(j).string # k
    IN  IF \E i \in keys : ~Is(key(i), "string") THEN Failed
        ELSE Object([k \in {key(i).string : i \in keys} |-> pairs[2 * first(k)]])

\* An assignment to one key.
Insert(v, key, new) ==
    IF ~Is(v, "object") THEN Failed
    ELSE Object([k \in DOMAIN v.object \union {key} |-> IF k = key THEN new ELSE v.object[k]])

-----------------------------------------------------------------------------
(* Functions *)

Arity == [len |-> 1, string |-> 1, bool |-> 1, contains |-> 2]

ToBool(v) ==
    CASE Is(v, "null") -> FALSE
      [] Is(v, "bool") -> v.bool
      [] Is(v, "number") -> v.number # 0
      [] Is(v, "string") -> v.string = <<"true">> \/ v.string = <<>>
      [] OTHER -> TRUE

ToStringOf(v) ==
    CASE Is(v, "null") -> String(<<"null">>)
      [] Is(v, "bool") -> String(IF v.bool THEN <<"true">> ELSE <<"false">>)
      [] Is(v, "number") -> String(<<ToString(v.number)>>)
      [] Is(v, "string") -> v
      [] OTHER -> Failed

LenOf(v) ==
    CASE Is(v, "string") -> Number(Len(v.string))
      [] Is(v, "array") -> Number(Len(v.array))
      [] OTHER -> Failed

ContainsValue(a, b) ==
    CASE Are(a, b, "string") ->
           Bool(\E i \in 0..Len(a.string) - Len(b.string) :
                    SubSeq(a.string, i + 1, i + Len(b.string)) = b.string)
      [] Is(a, "array") -> Bool(\E i \in DOMAIN a.array : Same(a.array[i], b))
      [] OTHER -> Failed

Call(function, args) ==
    CASE function = "len" -> LenOf(args[1])
      [] function = "string" -> ToStringOf(args[1])
      [] function = "bool" -> Bool(ToBool(args[1]))
      [] function = "contains" -> ContainsValue(args[1], args[2])

=============================================================================
