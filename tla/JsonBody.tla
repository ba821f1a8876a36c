------------------------------ MODULE JsonBody ------------------------------
(***************************************************************************)
(* JSON bodies and what the proxy does to them: applier/json_path.rs and   *)
(* applier/json_apply.rs.                                                  *)
(*                                                                         *)
(* A JSON value is a function from the paths it has to what is there: an   *)
(* "object", an "array" or a scalar.  A path is a sequence of segments, a  *)
(* text a sequence of words; each of $ . [ ] * ? " is a word of its own.   *)
(***************************************************************************)
EXTENDS Integers, FiniteSets, Sequences, SequencesExt

Key(name) == [key |-> name]
Index(i) == [index |-> i]
IsKey(seg) == "key" \in DOMAIN seg

-----------------------------------------------------------------------------
(* json_path.rs: the simple paths of mutations *)

CONSTANTS MaxPathLen,   \* MAX_PATH_LEN, in words
          Numerals      \* the words that are numerals, a function to their values

ASSUME NumeralsAssumption == \A word \in DOMAIN Numerals : Numerals[word] \in Nat

Trimmed(text) ==
    LET inked == {i \in DOMAIN text : text[i] # " "} IN
    IF inked = {} THEN <<>>
    ELSE SubSeq(text, CHOOSE i \in inked : \A j \in inked : i <= j,
                      CHOOSE i \in inked : \A j \in inked : i >= j)

\* A ParsePathError, or the segments of the path.
Unparsed == [ok |-> FALSE, segs |-> <<>>]
Parsed(segs) == [ok |-> TRUE, segs |-> segs]

\* What stands between brackets: a quoted key or an index.
BracketSegment(inner) ==
    IF Len(inner) >= 2 /\ inner[1] = "\"" /\ Last(inner) = "\""
    THEN {Key(SubSeq(inner, 2, Len(inner) - 1))}
    ELSE IF Len(inner) = 1 /\ inner[1] \in DOMAIN Numerals THEN {Index(Numerals[inner[1]])}
    ELSE {}

\* One turn of the loop of parse at p.at, after the segments p.segs; a bare key
\* is only the first of them.
ParseSegment(text, p) ==
    LET i == p.at
        n == Len(text)
        KeyEnd(from) == CHOOSE j \in from..(n + 1) :
                           /\ j = n + 1 \/ text[j] \in {".", "["}
                           /\ \A k \in from..(j - 1) : text[k] \notin {".", "["}
        closing == {j \in i..n : text[j] = "]" /\ \A k \in i..(j - 1) : text[k] # "]"}
        close == CHOOSE j \in closing : TRUE
        inside == BracketSegment(Trimmed(SubSeq(text, i + 1, close - 1)))
        Take(seg, at) == [ok |-> TRUE, segs |-> Append(p.segs, seg), at |-> at]
        KeyFrom(from) == Take(Key(SubSeq(text, from, KeyEnd(from) - 1)), KeyEnd(from))
        failed == [p EXCEPT !.ok = FALSE]
    IN  CASE ~p.ok \/ i > n -> p
          [] p.ok /\ i <= n /\ text[i] = "." ->
                IF KeyEnd(i + 1) = i + 1 THEN failed ELSE KeyFrom(i + 1)
          [] p.ok /\ i <= n /\ text[i] = "[" ->
                IF closing = {} \/ inside = {} THEN failed
                ELSE Take(CHOOSE s \in inside : TRUE, close + 1)
          [] OTHER -> IF p.segs = <<>> THEN KeyFrom(i) ELSE failed

ParseSegments(text) ==
    LET after[k \in 0..Len(text)] ==
            IF k = 0 THEN [ok |-> TRUE, segs |-> <<>>, at |-> IF text[1] = "$" THEN 2 ELSE 1]
            ELSE ParseSegment(text, after[k - 1])
        end == after[Len(text)]
    IN  IF end.ok THEN Parsed(end.segs) ELSE Unparsed

IsQuery(text) ==
    \/ {"*", "?"} \intersect Range(text) # {}
    \/ \E i \in 1..(Len(text) - 1) : text[i] = "." /\ text[i + 1] = "."

ParsePath(path) ==
    LET text == Trimmed(path) IN
    IF text = <<>> \/ Len(text) > MaxPathLen \/ IsQuery(text) THEN Unparsed
    ELSE LET parsed == ParseSegments(text) IN IF parsed.segs = <<>> THEN Unparsed ELSE parsed

-----------------------------------------------------------------------------
(* Trees *)

Scalar(v) == [p \in {<<>>} |-> v]
EmptyObject == Scalar("object")

Below(tree, path) == {p \in DOMAIN tree : IsPrefix(path, p)}
Children(tree, path) == {p \in Below(tree, path) : Len(p) = Len(path) + 1}
Relative(path, p) == SubSeq(p, Len(path) + 1, Len(p))

IsObject(tree, path) == tree[path] = "object"
HasIndex(tree, path, i) == tree[path] = "array" /\ i < Cardinality(Children(tree, path))

\* The value at a path.
ValueAt(tree, path) ==
    [r \in {Relative(path, p) : p \in Below(tree, path)} |-> tree[path \o r]]

Without(tree, path) == Restrict(tree, DOMAIN tree \ Below(tree, path))

\* tree with value at path.
Insert(tree, path, value) ==
    LET below == {path \o r : r \in DOMAIN value} IN
    [p \in below \union DOMAIN Without(tree, path) |->
        IF p \in below THEN value[Relative(path, p)] ELSE tree[p]]

\* Fault: the elements behind the removed one stay where they are.
RemoveNodeGap(tree, path) == Without(tree, path)

\* Elements behind a removed one move up.
RemoveNode(tree, path) ==
    LET n == Len(path)
        kept == DOMAIN Without(tree, path)
        Behind(p) == /\ p \in Below(tree, Front(path)) \ {Front(path)}
                     /\ p[n].index > Last(path).index
        Shifted(p) == IF Behind(p) THEN [p EXCEPT ![n] = Index(@.index - 1)] ELSE p
    IN  IF IsKey(Last(path)) THEN Without(tree, path)
        ELSE [q \in {Shifted(p) : p \in kept} |-> tree[CHOOSE p \in kept : Shifted(p) = q]]

-----------------------------------------------------------------------------
(* json_apply.rs; a result says whether the operation reports a change *)

Result(tree, changed) == [tree |-> tree, changed |-> changed]

RemovePath(tree, segs) ==
    IF segs \in DOMAIN tree THEN Result(RemoveNode(tree, segs), TRUE) ELSE Result(tree, FALSE)

\* Fault: what stands in the way is replaced by an object.
DescendClobbering(walk, path, seg, create) ==
    IF ~IsKey(seg) THEN [walk EXCEPT !.open = HasIndex(walk.tree, path, seg.index)]
    ELSE IF IsObject(walk.tree, path) /\ Append(path, seg) \in DOMAIN walk.tree THEN walk
    ELSE IF ~create THEN [walk EXCEPT !.open = FALSE]
    ELSE [walk EXCEPT !.tree = Insert(IF IsObject(@, path) THEN @ ELSE Insert(@, path, EmptyObject),
                                      Append(path, seg), EmptyObject)]

\* One step of set_path to a parent; a missing key becomes an object.
Descend(walk, path, seg, create) ==
    IF IsKey(seg)
    THEN IF ~IsObject(walk.tree, path) THEN [walk EXCEPT !.open = FALSE]
         ELSE IF Append(path, seg) \in DOMAIN walk.tree THEN walk
         ELSE IF create THEN [walk EXCEPT !.tree = Insert(@, Append(path, seg), EmptyObject)]
         ELSE [walk EXCEPT !.open = FALSE]
    ELSE [walk EXCEPT !.open = HasIndex(walk.tree, path, seg.index)]

SetPath(tree, segs, value, create) ==
    LET walk[k \in 0..(Len(segs) - 1)] ==
            IF k = 0 THEN [tree |-> tree, open |-> TRUE]
            ELSE LET before == walk[k - 1] IN
                 IF before.open THEN Descend(before, SubSeq(segs, 1, k - 1), segs[k], create)
                 ELSE before
        reached == walk[Len(segs) - 1]
        leaf == Last(segs)
        Settable == IF IsKey(leaf) THEN IsObject(reached.tree, Front(segs))
                    ELSE HasIndex(reached.tree, Front(segs), leaf.index)
    IN  IF \/ ~reached.open
           \/ ~Settable
           \/ segs \in DOMAIN reached.tree /\ ValueAt(reached.tree, segs) = value
        THEN Result(reached.tree, FALSE)
        ELSE Result(Insert(reached.tree, segs, value), TRUE)

\* json_replace: only where the path resolves.
ReplacePath(tree, segs, value) ==
    IF segs \in DOMAIN tree THEN SetPath(tree, segs, value, FALSE) ELSE Result(tree, FALSE)

\* trim_json keeps the first elements of an array; a negative length is 0.
TrimArray(tree, segs, length) ==
    LET keep == IF length < 0 THEN 0 ELSE length
        cut == {p \in Below(tree, segs) \ {segs} : p[Len(segs) + 1].index >= keep}
    IN  IF segs \notin DOMAIN tree \/ tree[segs] # "array" \/ cut = {} THEN Result(tree, FALSE)
        ELSE Result(Restrict(tree, DOMAIN tree \ cut), TRUE)

JsonTypes == {"json_remove", "json_set", "json_replace"}

\* A component; a type that is not for JSON does nothing.
ApplyJsonComponent(tree, c) ==
    LET parsed == ParsePath(c.config.path) IN
    CASE c.type \notin JsonTypes -> Result(tree, FALSE)
      [] c.type \in JsonTypes /\ ~parsed.ok -> Result(tree, FALSE)
      [] c.type = "json_remove" /\ parsed.ok -> RemovePath(tree, parsed.segs)
      [] c.type = "json_set" /\ parsed.ok -> SetPath(tree, parsed.segs, c.config.value, TRUE)
      [] c.type = "json_replace" /\ parsed.ok -> ReplacePath(tree, parsed.segs, c.config.value)

Rank(placement) == CASE placement = "inline" -> 0
                     [] placement = "sticky_footer" -> 1
                     [] placement = "popup" -> 2

\* The components in the order they are applied: a stable sort.
Ordered(components) ==
    LET Before(i, j) ==
            LET a == components[i]
                b == components[j]
            IN  \/ Rank(a.placement) < Rank(b.placement)
                \/ /\ Rank(a.placement) = Rank(b.placement)
                   /\ a.order < b.order \/ (a.order = b.order /\ i < j)
        Ahead(i) == {j \in DOMAIN components : Before(j, i)}
    IN  [k \in DOMAIN components |->
            components[CHOOSE i \in DOMAIN components : Cardinality(Ahead(i)) = k - 1]]

\* The components of an outcome, one after the other.
FoldComponents(body, components, Apply(_, _)) ==
    LET ordered == Ordered(components)
        after[k \in 0..Len(ordered)] ==
            IF k = 0 THEN Result(body, FALSE)
            ELSE LET before == after[k - 1]
                     next == Apply(before.tree, ordered[k])
                 IN  Result(next.tree, before.changed \/ next.changed)
    IN  after[Len(ordered)]

ApplyOutcomeJson(tree, components) == FoldComponents(tree, components, ApplyJsonComponent)

\* One matched action.
ApplyActionJson(tree, action, outcomes) ==
    CASE action.type = "trim_json" ->
            LET parsed == ParsePath(action.path) IN
            IF parsed.ok THEN TrimArray(tree, parsed.segs, action.length) ELSE Result(tree, FALSE)
      [] action.type = "add_attribute" ->
            LET parsed == ParsePath(action.path) IN
            IF parsed.ok THEN SetPath(tree, parsed.segs, action.value, TRUE) ELSE Result(tree, FALSE)
      [] action.type = "apply_outcome" ->
            IF action.outcome \in DOMAIN outcomes
            THEN ApplyOutcomeJson(tree, outcomes[action.outcome])
            ELSE Result(tree, FALSE)
      [] OTHER -> Result(tree, FALSE)

\* A tree: what is below is in an object or an array, whose elements are
\* numbered from 0.
WellFormed(tree) ==
    /\ <<>> \in DOMAIN tree
    /\ \A p \in DOMAIN tree \ {<<>>} :
          /\ Front(p) \in DOMAIN tree
          /\ tree[Front(p)] = IF IsKey(Last(p)) THEN "object" ELSE "array"
    /\ \A p \in DOMAIN tree :
          tree[p] = "array" =>
              {Last(q) : q \in Children(tree, p)} =
                  {Index(i) : i \in 0..(Cardinality(Children(tree, p)) - 1)}

IsTree(tree) ==
    /\ tree = [p \in DOMAIN tree |-> tree[p]]
    /\ IsFiniteSet(DOMAIN tree)
    /\ \A p \in DOMAIN tree : p \in Seq(Range(p))
    /\ WellFormed(tree)

IsJsonComponent(c) ==
    /\ c.placement \in {"inline", "sticky_footer", "popup"}
    /\ c.order \in Int
    /\ c.type \in JsonTypes => c.config.path \in Seq(Range(c.config.path))
    /\ c.type \in {"json_set", "json_replace"} => IsTree(c.config.value)

IsJsonAction(action) ==
    /\ action.type \in {"trim_json", "add_attribute"} => action.path \in Seq(Range(action.path))
    /\ action.type = "trim_json" => action.length \in Int
    /\ action.type = "add_attribute" => IsTree(action.value)

=============================================================================
