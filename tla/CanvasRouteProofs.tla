-------------------------- MODULE CanvasRouteProofs --------------------------
(***************************************************************************)
(* Theorems about CanvasWalk, for every set of canvases and requests: the   *)
(* actions of an accepted canvas are those on its routed path, and its walk *)
(* comes to an end of it.  The routed path of the canvas is a path of its   *)
(* translation; a walk is on its way along it, or has traced all of it,     *)
(* whatever the resets remove.                                              *)
(***************************************************************************)
EXTENDS CanvasWalkProofs

-----------------------------------------------------------------------------
(* Lists in one order *)

\* Two lists of the same elements in the same order are the same list.
LEMMA SameOrder ==
    ASSUME NEW A, NEW f \in [A -> Nat], NEW s \in Seq(A), NEW t \in Seq(A),
           Range(s) = Range(t), RisingIn(s, A, f), RisingIn(t, A, f)
    PROVE  s = t
<1>1. /\ Len(s) \in Nat /\ Len(t) \in Nat /\ DOMAIN s = 1..Len(s) /\ DOMAIN t = 1..Len(t)
      /\ \A i \in DOMAIN s : s[i] \in A
      /\ \A i \in DOMAIN t : t[i] \in A
  BY LenProperties
<1>2. /\ \A i, j \in DOMAIN s : i < j => f[s[i]] < f[s[j]]
      /\ \A i, j \in DOMAIN t : i < j => f[t[i]] < f[t[j]]
  BY <1>1 DEF RisingIn
<1>3. /\ \A i \in DOMAIN s : f[s[i]] \in Nat
      /\ \A i \in DOMAIN t : f[t[i]] \in Nat
  BY <1>1
<1>4. /\ \A i \in DOMAIN s : \E j \in DOMAIN t : s[i] = t[j]
      /\ \A i \in DOMAIN t : \E j \in DOMAIN s : t[i] = s[j]
  BY DEF Range
<1> DEFINE differ == {k \in DOMAIN s : k \in DOMAIN t /\ s[k] # t[k]}
<1>5. differ = {}
  <2> SUFFICES ASSUME differ # {} PROVE FALSE
    OBVIOUS
  <2>1. differ \subseteq Nat
    BY <1>1
  <2>2. PICK k \in differ : \A l \in differ : k <= l
    <3> HIDE DEF differ
    <3>1. QED
      BY <2>1, HasSmallest
  <2>3. \A j \in DOMAIN s \cap DOMAIN t : j < k => s[j] = t[j]
    BY <1>1, <2>2
  <2>4. PICK j \in DOMAIN t : s[k] = t[j]
    BY <1>4
  <2>5. PICK i \in DOMAIN s : t[k] = s[i]
    BY <1>4
  <2>6. ~(j < k)
    <3>1. SUFFICES ASSUME j < k PROVE FALSE
      OBVIOUS
    <3>2. j \in DOMAIN s /\ s[j] = t[j]
      BY <1>1, <2>3, <3>1, SMTT(30)
    <3>3. f[s[j]] < f[s[k]] /\ f[s[k]] \in Nat /\ f[s[j]] = f[s[k]]
      BY <1>2, <1>3, <2>4, <3>1, <3>2
    <3>4. QED
      BY <3>3
  <2>7. ~(i < k)
    <3>1. SUFFICES ASSUME i < k PROVE FALSE
      OBVIOUS
    <3>2. i \in DOMAIN t /\ s[i] = t[i]
      BY <1>1, <2>3, <3>1, SMTT(30)
    <3>3. f[t[i]] < f[t[k]] /\ f[t[k]] \in Nat /\ f[t[i]] = f[t[k]]
      BY <1>2, <1>3, <2>5, <3>1, <3>2
    <3>4. QED
      BY <3>3
  <2>8. j # k /\ i # k
    BY <2>4, <2>5
  <2>9. k < j /\ k < i
    BY <1>1, <2>6, <2>7, <2>8, SMTT(30)
  <2>10. f[t[k]] < f[s[k]] /\ f[s[k]] < f[t[k]]
    BY <1>2, <2>4, <2>5, <2>9
  <2>11. QED
    BY <1>3, <2>10, SMTT(30)
<1> HIDE DEF differ
<1>6. \A k \in DOMAIN s \cap DOMAIN t : s[k] = t[k]
  BY <1>5 DEF differ
<1>7. ~(Len(s) < Len(t))
  <2>1. SUFFICES ASSUME Len(s) < Len(t) PROVE FALSE
    OBVIOUS
  <2>2. Len(s) + 1 \in DOMAIN t
    BY <1>1, <2>1
  <2>3. PICK j \in DOMAIN s : t[Len(s) + 1] = s[j]
    BY <1>4, <2>2
  <2>4. j \in DOMAIN t /\ j < Len(s) + 1 /\ t[j] = s[j]
    BY <1>1, <1>6, <2>1
  <2>5. f[t[j]] < f[t[Len(s) + 1]] /\ f[t[j]] = f[t[Len(s) + 1]] /\ f[t[j]] \in Nat
    BY <1>2, <1>3, <2>2, <2>3, <2>4
  <2>6. QED
    BY <2>5
<1>8. ~(Len(t) < Len(s))
  <2>1. SUFFICES ASSUME Len(t) < Len(s) PROVE FALSE
    OBVIOUS
  <2>2. Len(t) + 1 \in DOMAIN s
    BY <1>1, <2>1
  <2>3. PICK j \in DOMAIN t : s[Len(t) + 1] = t[j]
    BY <1>4, <2>2
  <2>4. j \in DOMAIN s /\ j < Len(t) + 1 /\ t[j] = s[j]
    BY <1>1, <1>6, <2>1
  <2>5. f[s[j]] < f[s[Len(t) + 1]] /\ f[s[j]] = f[s[Len(t) + 1]] /\ f[s[j]] \in Nat
    BY <1>2, <1>3, <2>2, <2>3, <2>4
  <2>6. QED
    BY <2>5
<1>9. Len(s) = Len(t)
  <2>1. \A a, b \in Nat : ~(a < b) /\ ~(b < a) => a = b
    OBVIOUS
  <2>2. QED
    BY <1>1, <1>7, <1>8, <2>1
<1>10. QED
  BY <1>1, <1>6, <1>9, SeqEqual

\* The matched actions are the expressions of the trace, in its order.
LEMMA MatchedLists ==
    ASSUME NEW A, NEW t \in Seq(A)
    PROVE  /\ Matched(t) \in Seq(Range(Matched(t)))
           /\ \A id : id \in Range(Matched(t)) <=>
                 \E i \in DOMAIN t : t[i][2] = "expr" /\ t[i][1] = id
           /\ \A k, l \in DOMAIN Matched(t) : k < l =>
                 \E i, j \in DOMAIN t : /\ i < j /\ t[i][2] = "expr" /\ t[j][2] = "expr"
                                        /\ Matched(t)[k] = t[i][1] /\ Matched(t)[l] = t[j][1]
<1> DEFINE E == {i \in DOMAIN t : t[i][2] = "expr"}
           at == Ascending(E)
           found == Matched(t)
<1>1. E \subseteq DOMAIN t /\ \A i : i \in E <=> i \in DOMAIN t /\ t[i][2] = "expr"
  OBVIOUS
<1>2. found = [k \in DOMAIN at |-> t[at[k]][1]]
  BY DEF Matched
<1> HIDE DEF E
<1>3. /\ DOMAIN at = 1..Cardinality(E) /\ Cardinality(E) \in Nat
      /\ \A k \in DOMAIN at : at[k] \in E
      /\ \A i \in E : \E k \in DOMAIN at : at[k] = i
      /\ \A k, l \in DOMAIN at : k < l => at[k] < at[l]
  BY <1>1, PlacesInOrder
<1> HIDE DEF at, found
<1>4. DOMAIN found = 1..Cardinality(E)
  BY <1>2, <1>3
<1>5. found \in [1..Cardinality(E) -> Range(found)]
  BY <1>2, <1>4 DEF Range
<1>6. found \in Seq(Range(found))
  <2> DEFINE m == Cardinality(E)
             R == Range(found)
  <2> HIDE DEF m, R
  <2>1. \A g \in [1..m -> R] : m \in Nat => g \in Seq(R)
    OBVIOUS
  <2>2. QED
    BY <1>3, <1>5, <2>1 DEF m, R
<1>7. \A id : id \in Range(found) <=> \E i \in DOMAIN t : t[i][2] = "expr" /\ t[i][1] = id
  BY <1>1, <1>2, <1>3, <1>4 DEF Range
<1>8. ASSUME NEW k \in DOMAIN found, NEW l \in DOMAIN found, k < l
      PROVE  \E i, j \in DOMAIN t : /\ i < j /\ t[i][2] = "expr" /\ t[j][2] = "expr"
                                    /\ found[k] = t[i][1] /\ found[l] = t[j][1]
  BY <1>1, <1>2, <1>3, <1>4, <1>8
<1>9. QED
  BY <1>6, <1>7, <1>8 DEF found

\* What lists of one element or none hold.
LEMMA ShortLists ==
    /\ DOMAIN <<>> = {} /\ Range(<<>>) = {}
    /\ \A a : Range(<<a>>) = {a}
<1>1. DOMAIN <<>> = {} /\ Range(<<>>) = {}
  <2>1. <<>> \in Seq({}) /\ Len(<<>>) = 0
    BY EmptySeq
  <2>2. DOMAIN <<>> = 1..0 /\ 1..0 = {}
    BY <2>1, LenProperties
  <2>3. QED
    BY <2>2 DEF Range
<1>2. ASSUME NEW a PROVE Range(<<a>>) = {a}
  <2>1. <<a>> \in Seq({a}) /\ Len(<<a>>) = 1 /\ <<a>>[1] = a
    OBVIOUS
  <2>2. DOMAIN <<a>> = 1..1
    BY <2>1, LenProperties
  <2>3. QED
    BY <2>1, <2>2 DEF Range
<1>3. QED
  BY <1>1, <1>2

\* A list is one of its elements.
LEMMA ListInRange ==
    ASSUME NEW S, NEW s \in Seq(S), NEW A, Range(s) \subseteq A
    PROVE  s \in Seq(A)
<1> DEFINE m == Len(s)
<1>1. m \in Nat /\ DOMAIN s = 1..m /\ s \in [1..m -> S]
  BY LenProperties
<1>2. \A k \in 1..m : s[k] \in A
  BY <1>1 DEF Range
<1> HIDE DEF m
<1>3. s \in [1..m -> A]
  BY <1>1, <1>2
<1>4. \A g \in [1..m -> A] : m \in Nat => g \in Seq(A)
  OBVIOUS
<1>5. s \in [1..m -> A] /\ m \in Nat => s \in Seq(A)
  BY <1>4
<1>6. QED
  BY <1>1, <1>3, <1>5

\* A list joined to another holds what both hold.
LEMMA ConcatRange ==
    ASSUME NEW A, NEW s \in Seq(A), NEW t \in Seq(A)
    PROVE  Range(s \o t) = Range(s) \union Range(t)
<1> DEFINE m == Len(s)
           n == Len(t)
           u == s \o t
<1>1. m \in Nat /\ n \in Nat /\ DOMAIN s = 1..m /\ DOMAIN t = 1..n
  BY LenProperties
<1>2. /\ u \in Seq(A) /\ Len(u) = m + n
      /\ \A k \in 1..m + n : u[k] = IF k <= m THEN s[k] ELSE t[k - m]
  BY ConcatProperties
<1>3. DOMAIN u = 1..m + n
  BY <1>2, LenProperties
<1> HIDE DEF m, n, u
<1>4. \A k \in 1..m : k \in 1..m + n /\ u[k] = s[k]
  BY <1>1, <1>2
<1>5. \A k \in 1..n : m + k \in 1..m + n /\ ~(m + k <= m) /\ (m + k) - m = k
  BY <1>1
<1>6. \A k \in 1..n : m + k \in 1..m + n /\ u[m + k] = t[k]
  BY <1>2, <1>5
<1>7. ASSUME NEW k \in 1..m + n PROVE u[k] \in Range(s) \union Range(t)
  <2>1. k \in 1..m \/ (k - m \in 1..n /\ ~(k <= m))
    BY <1>1
  <2>2. QED
    BY <1>1, <1>2, <1>4, <2>1 DEF Range
<1>8. Range(u) \subseteq Range(s) \union Range(t)
  BY <1>3, <1>7 DEF Range
<1>9. ASSUME NEW a \in Range(s) PROVE a \in Range(u)
  BY <1>1, <1>3, <1>4, <1>9 DEF Range
<1>10. ASSUME NEW a \in Range(t) PROVE a \in Range(u)
  BY <1>1, <1>3, <1>6, <1>10 DEF Range
<1>11. QED
  BY <1>8, <1>9, <1>10 DEF u

\* Lists without a common element join without repeating one.
LEMMA InjectiveConcat ==
    ASSUME NEW A, NEW s \in Seq(A), NEW t \in Seq(A), IsInjective(s), IsInjective(t),
           Range(s) \intersect Range(t) = {}
    PROVE  s \o t \in Seq(A) /\ IsInjective(s \o t) /\ Range(s \o t) = Range(s) \union Range(t)
<1> DEFINE m == Len(s)
           n == Len(t)
           u == s \o t
<1>1. m \in Nat /\ n \in Nat /\ DOMAIN s = 1..m /\ DOMAIN t = 1..n
  BY LenProperties
<1>2. /\ u \in Seq(A) /\ Len(u) = m + n
      /\ \A k \in 1..m + n : u[k] = IF k <= m THEN s[k] ELSE t[k - m]
  BY ConcatProperties
<1>3. DOMAIN u = 1..m + n
  BY <1>2, LenProperties
<1> HIDE DEF m, n, u
<1>4. \A k \in 1..m : k \in 1..m + n /\ k <= m
  BY <1>1
<1>5. \A k \in 1..n : m + k \in 1..m + n /\ ~(m + k <= m) /\ (m + k) - m = k
  BY <1>1
<1>6. ASSUME NEW k \in 1..m + n
      PROVE  k \in 1..m \/ (k - m \in 1..n /\ ~(k <= m) /\ k = m + (k - m))
  BY <1>1
<1>7. Range(u) = Range(s) \union Range(t)
  BY ConcatRange DEF u
<1>8. IsInjective(u)
  <2>1. SUFFICES ASSUME NEW i \in 1..m + n, NEW j \in 1..m + n, u[i] = u[j] PROVE i = j
    BY <1>3 DEF IsInjective
  <2>2. CASE i \in 1..m /\ j \in 1..m
    BY <1>1, <1>2, <1>4, <2>1, <2>2 DEF IsInjective
  <2>3. ASSUME NEW a \in 1..m, NEW b \in 1..n PROVE s[a] # t[b]
    BY <1>1 DEF Range
  <2>4. CASE i \in 1..m /\ j \notin 1..m
    BY <1>2, <1>4, <1>6, <2>1, <2>3, <2>4
  <2>5. CASE i \notin 1..m /\ j \in 1..m
    BY <1>2, <1>4, <1>6, <2>1, <2>3, <2>5
  <2>6. CASE i \notin 1..m /\ j \notin 1..m
    <3>1. i - m \in 1..n /\ j - m \in 1..n /\ t[i - m] = t[j - m]
      BY <1>2, <1>6, <2>1, <2>6
    <3>2. i - m = j - m
      BY <1>1, <3>1 DEF IsInjective
    <3>3. i = m + (i - m) /\ j = m + (j - m)
      BY <1>6, <2>6
    <3>4. QED
      BY <3>2, <3>3
  <2>7. QED
    BY <2>2, <2>4, <2>5, <2>6
<1>9. QED
  BY <1>2, <1>7, <1>8 DEF u

\* A stack holds its top and what is below it.
LEMMA FrontRange ==
    ASSUME NEW S, NEW stack \in Seq(S), stack # <<>>
    PROVE  Range(stack) = Range(Front(stack)) \union {Last(stack)}
<1> DEFINE m == Len(stack)
           low == Front(stack)
<1>1. m \in Nat \ {0} /\ DOMAIN stack = 1..m
  BY FrontShorter, LenProperties
<1>2. low \in Seq(S) /\ Len(low) = m - 1
  BY FrontShorter
<1>3. DOMAIN low = 1..m - 1
  BY <1>2, LenProperties
<1>4. \A k \in 1..m - 1 : low[k] = stack[k]
  <2>1. low = SubSeq(stack, 1, m - 1)
    BY DEF Front
  <2>2. \A i \in 1..m - 1 : stack[i] \in S
    BY <1>1, ElementOfSeq
  <2>3. 1 \in Int /\ m - 1 \in Int /\ 1 <= (m - 1) + 1 /\ (m - 1) - 1 + 1 = m - 1
    BY <1>1
  <2>4. \A k \in 1..m - 1 : SubSeq(stack, 1, m - 1)[k] = stack[1 + k - 1]
    BY <2>2, <2>3, SubSeqProperties
  <2>5. \A k \in 1..m - 1 : 1 + k - 1 = k
    OBVIOUS
  <2> HIDE DEF m, low
  <2>6. QED
    BY <2>1, <2>4, <2>5
<1>5. Last(stack) = stack[m]
  BY DEF Last
<1> HIDE DEF m, low
<1>6. m \in 1..m /\ (\A k \in 1..m : k \in 1..m - 1 \/ k = m) /\ \A k \in 1..m - 1 : k \in 1..m
  BY <1>1
<1>7. \A k \in 1..m : stack[k] \in Range(low) \union {Last(stack)}
  BY <1>3, <1>4, <1>5, <1>6 DEF Range
<1>8. \A k \in 1..m - 1 : low[k] \in Range(stack)
  BY <1>1, <1>4, <1>6 DEF Range
<1>9. Last(stack) \in Range(stack)
  BY <1>1, <1>5, <1>6 DEF Range
<1>10. Range(stack) \subseteq Range(low) \union {Last(stack)}
  BY <1>1, <1>7 DEF Range
<1>11. Range(low) \subseteq Range(stack)
  BY <1>3, <1>8 DEF Range
<1>12. QED
  BY <1>9, <1>10, <1>11 DEF low

-----------------------------------------------------------------------------
(* What an accepted canvas is like *)

WellRouted(c) ==
    /\ IsCanvas(c)
    /\ \A i, j \in DOMAIN c.nodes : c.nodes[i].id = c.nodes[j].id => i = j
    /\ \E start \in Nodes(c) : /\ start.kind = "start"
                              /\ \A n \in Nodes(c) : n.kind = "start" => n = start
    /\ \A e \in Range(c.edges) :
          /\ e.source \in Ids(c) /\ e.target \in Ids(c)
          /\ KindOf(c, e.target) # "start" /\ KindOf(c, e.source) # "end"
    /\ \A i, j \in DOMAIN c.edges :
          /\ c.edges[i].source = c.edges[j].source
          /\ c.edges[i].branch = c.edges[j].branch
          /\ KindOf(c, c.edges[i].source) = "decision"
          => i = j
    /\ \A n \in Nodes(c) : n.kind \in {"start", "expression"} =>
          \E i \in DOMAIN c.edges : \A j \in DOMAIN c.edges : c.edges[j].source = n.id <=> j = i
    /\ \A id \in Ids(c) : ~ReachesItself(c, id)

\* What no rule objects to.
LEMMA AcceptedIsWellRouted ==
    ASSUME NEW c, IsCanvas(c), c.nodes # <<>>, NEW outcomes, NEW order,
           ValidateCanvas(c, outcomes, order) = {},
           \A id \in Ids(c) : ~ReachesItself(c, id)
    PROVE  WellRouted(c)
<1>1. \A id, broken : Rule(id, broken) = {} => ~broken
  BY DEF Rule
<1>2. NodeViolations(c) = {} /\ EdgeViolations(c) = {} /\ DegreeViolations(c) = {}
  BY DEF ValidateCanvas
<1>3. /\ Len(c.nodes) \in Nat /\ DOMAIN c.nodes = 1..Len(c.nodes)
      /\ Len(c.edges) \in Nat /\ DOMAIN c.edges = 1..Len(c.edges)
  BY LenProperties DEF IsCanvas
<1>4. \A i, j \in DOMAIN c.nodes : c.nodes[i].id = c.nodes[j].id => i = j
  BY <1>1, <1>2 DEF NodeViolations
<1>5. Cardinality(WithKind(c, "start")) = 1
  BY <1>1, <1>2 DEF NodeViolations
<1>6. \E start \in Nodes(c) : /\ start.kind = "start"
                              /\ \A n \in Nodes(c) : n.kind = "start" => n = start
  <2>1. WithKind(c, "start") \subseteq 1..Len(c.nodes) /\ IsFiniteSet(1..Len(c.nodes))
    BY <1>3, FS_Interval, SMTT(30) DEF WithKind
  <2>2. IsFiniteSet(WithKind(c, "start"))
    BY <2>1, FS_Subset
  <2>3. PICK i : WithKind(c, "start") = {i}
    BY <1>5, <2>2, FS_Singleton
  <2>4. /\ i \in DOMAIN c.nodes /\ c.nodes[i].kind = "start"
        /\ \A j \in DOMAIN c.nodes : c.nodes[j].kind = "start" => j = i
    BY <2>3 DEF WithKind
  <2>5. QED
    BY <2>4 DEF Nodes, Range
<1>7. \A e \in Range(c.edges) :
          /\ e.source \in Ids(c) /\ e.target \in Ids(c)
          /\ KindOf(c, e.target) # "start" /\ KindOf(c, e.source) # "end"
  <2>1. ~\E e \in Range(c.edges) : {e.source, e.target} \ Ids(c) # {}
    BY <1>1, <1>2 DEF EdgeViolations
  <2>2. ~\E e \in Range(c.edges) : KindOf(c, e.target) = "start"
    BY <1>1, <1>2 DEF EdgeViolations
  <2>3. ~\E e \in Range(c.edges) : KindOf(c, e.source) = "end"
    BY <1>1, <1>2 DEF EdgeViolations
  <2>4. QED
    BY <2>1, <2>2, <2>3
<1>8. \A i, j \in DOMAIN c.edges :
          /\ c.edges[i].source = c.edges[j].source
          /\ c.edges[i].branch = c.edges[j].branch
          /\ KindOf(c, c.edges[i].source) = "decision"
          => i = j
  BY <1>1, <1>2 DEF EdgeViolations
<1>9. ASSUME NEW n \in Nodes(c), n.kind \in {"start", "expression"}
      PROVE  \E i \in DOMAIN c.edges : \A j \in DOMAIN c.edges : c.edges[j].source = n.id <=> j = i
  <2> DEFINE E == {i \in DOMAIN c.edges : c.edges[i].source = n.id}
  <2>1. PICK k \in WithKind(c, n.kind) : c.nodes[k] = n
    BY DEF Nodes, Range, WithKind
  <2>2. n.kind \in DOMAIN SingleOut
    BY <1>9 DEF SingleOut
  <2>3. Rule(SingleOut[n.kind], \E i \in WithKind(c, n.kind) : OutDegree(c, c.nodes[i].id) # 1) = {}
    BY <1>2, <2>2 DEF DegreeViolations
  <2>4. OutDegree(c, n.id) = 1
    BY <1>1, <2>1, <2>3
  <2>5. E \subseteq 1..Len(c.edges) /\ IsFiniteSet(1..Len(c.edges))
    BY <1>3, FS_Interval
  <2>6. IsFiniteSet(E)
    BY <2>5, FS_Subset
  <2>7. PICK i : E = {i}
    BY <2>4, <2>6, FS_Singleton DEF OutDegree
  <2>8. QED
    BY <2>7
<1>10. QED
  BY <1>4, <1>6, <1>7, <1>8, <1>9 DEF WellRouted

\* Ids name nodes.
LEMMA NodesNamed ==
    ASSUME NEW c, WellRouted(c)
    PROVE  /\ \A m, n \in Nodes(c) : m.id = n.id => m = n
           /\ \A n \in Nodes(c) : n.id \in Ids(c) /\ NodeById(c, n.id) = n /\ KindOf(c, n.id) = n.kind
           /\ \A id \in Ids(c) : /\ NodeById(c, id) \in Nodes(c) /\ NodeById(c, id).id = id
                                 /\ KindOf(c, id) = NodeById(c, id).kind
                                 /\ KindOf(c, id) \in NodeKinds
<1>1. IsCanvas(c)
  BY DEF WellRouted
<1>2. \A m, n \in Nodes(c) : m.id = n.id => m = n
  BY DEF WellRouted, Nodes, Range
<1>3. ASSUME NEW id \in Ids(c) PROVE NodeById(c, id) \in Nodes(c) /\ NodeById(c, id).id = id
  <2> DEFINE I == {i \in 1..Len(c.nodes) : c.nodes[i].id = id}
  <2>1. Len(c.nodes) \in Nat /\ DOMAIN c.nodes = 1..Len(c.nodes)
    BY <1>1, LenProperties DEF IsCanvas
  <2>2. I \subseteq 1..Len(c.nodes) /\ I # {}
    BY <2>1 DEF Ids, Nodes, Range
  <2>3. Max(I) \in I
    <3> HIDE DEF I
    <3>1. 1 \in Int /\ Len(c.nodes) \in Int
      BY <2>1
    <3>2. QED
      BY <2>2, <3>1, BoundedMax
  <2>4. NodeById(c, id) = c.nodes[Max(I)]
    BY <2>2 DEF NodeById, SelectLastInSeq
  <2>5. QED
    BY <2>1, <2>3, <2>4 DEF Nodes, Range
<1>4. \A n \in Nodes(c) : n.id \in Ids(c) /\ n.kind \in NodeKinds
  BY <1>1 DEF Ids, IsCanvas, Nodes
<1>5. \A id \in Ids(c) : KindOf(c, id) = NodeById(c, id).kind
  BY DEF KindOf
<1>6. QED
  BY <1>2, <1>3, <1>4, <1>5

\* Chosen and Routed of any canvas for any request.
ChosenIn(c, x, id) ==
    {e.target : e \in {e \in Range(c.edges) :
        /\ e.source = id
        /\ KindOf(c, id) = "decision" => e.branch = Decide(NodeById(c, id).config, x)}}

RoutedIn(c, x) ==
    LET start == CHOOSE node \in Nodes(c) : node.kind = "start"
        path[k \in 0..Len(c.nodes)] ==
            IF k = 0 THEN <<start.id>>
            ELSE LET taken == path[k - 1] IN taken \o SetToSeq(ChosenIn(c, x, Last(taken)))
    IN  path[Len(c.nodes)]

\* The routed path of the canvas that is evaluated.
LEMMA RoutedHere == Routed = RoutedIn(canvas, ctx)
BY DEF Routed, Chosen, RoutedIn, ChosenIn

\* A node leads to one node for a request at most.
LEMMA ChosenOnce ==
    ASSUME NEW c, NEW x, WellRouted(c), NEW id \in Ids(c)
    PROVE  /\ ChosenIn(c, x, id) \subseteq Ids(c)
           /\ \A a, b \in ChosenIn(c, x, id) : a = b
           /\ \A a \in ChosenIn(c, x, id) : Linked(c, id, a)
           /\ KindOf(c, id) \in {"start", "expression"} => ChosenIn(c, x, id) # {}
           /\ KindOf(c, id) = "end" => ChosenIn(c, x, id) = {}
<1> DEFINE takes(i) == /\ c.edges[i].source = id
                       /\ KindOf(c, id) = "decision" =>
                             c.edges[i].branch = Decide(NodeById(c, id).config, x)
<1>1. \A a : a \in ChosenIn(c, x, id) <=> \E i \in DOMAIN c.edges : takes(i) /\ c.edges[i].target = a
  BY DEF ChosenIn, Range
<1>2. \A i \in DOMAIN c.edges :
          /\ c.edges[i].source \in Ids(c) /\ c.edges[i].target \in Ids(c)
          /\ KindOf(c, c.edges[i].source) # "end"
  BY DEF WellRouted, Range
<1>3. ASSUME KindOf(c, id) \in {"start", "expression"}
      PROVE  \E i \in DOMAIN c.edges : \A j \in DOMAIN c.edges :
                c.edges[j].source = id <=> j = i
  <2>1. PICK n \in Nodes(c) : n.id = id /\ n.kind = KindOf(c, id)
    BY NodesNamed
  <2>2. QED
    BY <1>3, <2>1 DEF WellRouted
<1>4. KindOf(c, id) \in NodeKinds
  BY NodesNamed
<1>5. ASSUME NEW i \in DOMAIN c.edges, NEW j \in DOMAIN c.edges, takes(i), takes(j)
      PROVE  i = j
  <2>1. CASE KindOf(c, id) \in {"start", "expression"}
    BY <1>3, <1>5, <2>1
  <2>2. CASE KindOf(c, id) = "decision"
    BY <1>5, <2>2 DEF WellRouted
  <2>3. CASE KindOf(c, id) = "end"
    BY <1>2, <1>5, <2>3
  <2>4. QED
    BY <1>4, <2>1, <2>2, <2>3 DEF NodeKinds
<1>6. \A i \in DOMAIN c.edges : takes(i) => Linked(c, id, c.edges[i].target)
  BY <1>2 DEF Linked, Resolvable
<1>7. KindOf(c, id) \in {"start", "expression"} => \E i \in DOMAIN c.edges : takes(i)
  BY <1>3
<1>8. KindOf(c, id) = "end" => \A i \in DOMAIN c.edges : ~takes(i)
  BY <1>2
<1> HIDE DEF takes
<1>9. QED
  BY <1>1, <1>2, <1>5, <1>6, <1>7, <1>8

-----------------------------------------------------------------------------
(* The routed path *)

\* What is reached is closed under the edges.
LEMMA ReachedClosed ==
    ASSUME NEW c, IsCanvas(c), NEW S, S \subseteq Ids(c)
    PROVE  S \subseteq Reached(c, S) /\ Successors(c, Reached(c, S)) \subseteq Reached(c, S)
<1> DEFINE n == Len(c.nodes)
           D == SUBSET Ids(c)
           F == [R \in D |-> R \union Successors(c, R)]
           P == [R \in D |-> n - Cardinality(R)]
           Done == {R \in D : Successors(c, R) \subseteq R}
<1>1. n \in Nat /\ n \in 0..n /\ 0 \in 0..n /\ \A k \in 1..n : k \in 0..n /\ k - 1 \in 0..n
  BY LenProperties DEF IsCanvas
<1>2. IsFiniteSet(Ids(c)) /\ Cardinality(Ids(c)) <= n /\ Cardinality(Ids(c)) \in Nat
  BY CanvasFinite, FS_CardinalityType
<1>3. PICK g \in [0..n -> D] :
              /\ g[0] = S
              /\ \A k \in 1..n : g[k] = g[k - 1] \union Successors(c, g[k - 1])
              /\ Reached(c, S) = g[n]
  BY ClosureGrows
<1>4. F \in [D -> D] /\ S \in D
  BY SuccessorsLinked
<1> HIDE DEF n
<1>5. Iteration(g, n, D, S, F)
  BY <1>1, <1>3 DEF Iteration
<1>6. \A R \in D : Cardinality(R) \in Nat /\ Cardinality(R) <= n /\ P[R] \in Nat /\ P[R] <= n
  <2>1. ASSUME NEW R \in D PROVE Cardinality(R) \in Nat /\ Cardinality(R) <= n
    <3>1. Cardinality(R) <= Cardinality(Ids(c)) /\ Cardinality(R) \in Nat
      BY <1>2, SmallerSet
    <3>2. QED
      BY <1>1, <1>2, <3>1
  <2>2. QED
    BY <1>1, <2>1
<1>7. \A R \in D : R \in Done \/ P[F[R]] < P[R]
  <2>1. SUFFICES ASSUME NEW R \in D, R \notin Done PROVE P[F[R]] < P[R]
    OBVIOUS
  <2>2. R \subseteq F[R] /\ R # F[R] /\ F[R] \in D
    BY <1>4, <2>1
  <2>3. IsFiniteSet(F[R])
    BY <1>2, <2>2, FS_Subset
  <2>4. Cardinality(R) < Cardinality(F[R])
    BY <2>2, <2>3, SmallerSet
  <2>5. \A T \in D : P[T] = n - Cardinality(T)
    OBVIOUS
  <2> HIDE DEF D, F, P, Done
  <2>6. P[R] = n - Cardinality(R) /\ P[F[R]] = n - Cardinality(F[R])
    BY <2>2, <2>5
  <2>7. Cardinality(R) \in Nat /\ Cardinality(F[R]) \in Nat
    BY <1>6, <2>2
  <2>8. QED
    BY <1>1, <2>4, <2>6, <2>7
<1>8. g[n] \in Done
  <2>1. P \in [D -> Nat] /\ P[S] <= n
    BY <1>4, <1>6
  <2>2. \A R \in D : R \in Done => F[R] = R
    OBVIOUS
  <2> HIDE DEF D, F, P, Done
  <2>3. QED
    BY <1>1, <1>4, <1>5, <1>7, <2>1, <2>2, Settles
<1>9. S \subseteq g[n]
  <2> DEFINE T == {k \in 0..n : S \subseteq g[k]}
  <2>1. 0 \in T /\ \A k \in 1..n : k - 1 \in T => k \in T
    BY <1>1, <1>3
  <2>2. 0..n \subseteq T
    <3> HIDE DEF T
    <3>1. QED
      BY <1>1, <2>1, SetInduction
  <2>3. QED
    BY <1>1, <2>2
<1>10. QED
  BY <1>3, <1>8, <1>9

\* Nothing, or one thing, as a list.
LEMMA FewListed ==
    /\ SetToSeq({}) = <<>>
    /\ \A b : SetToSeq({b}) = <<b>>
<1>1. SetToSeq({}) \in Seq({})
  BY FS_EmptySet, SetToSeqLists
<1>2. SetToSeq({}) = <<>>
  <2>1. \A s \in Seq({}) : s = <<>>
    <3>1. SUFFICES ASSUME NEW s \in Seq({}), s # <<>> PROVE FALSE
      OBVIOUS
    <3>2. Head(s) \in {}
      BY <3>1
    <3>3. QED
      BY <3>2
  <2>2. QED
    BY <1>1, <2>1
<1>3. ASSUME NEW b PROVE SetToSeq({b}) = <<b>>
  <2>1. IsFiniteSet({b}) /\ Cardinality({b}) = 1
    BY FS_Singleton
  <2> DEFINE f == [k \in 1..1 |-> b]
  <2>2. f \in [1..1 -> {b}] /\ IsInjective(f)
    BY DEF IsInjective
  <2>3. SetToSeq({b}) \in [1..1 -> {b}]
    BY <2>1, <2>2 DEF SetToSeq
  <2>4. QED
    BY <2>3
<1>4. QED
  BY <1>2, <1>3

\* A path of chosen edges from the start node.
Trail(c, x, s) ==
    /\ s \in Seq(Ids(c)) /\ Len(s) \in 1..Len(c.nodes)
    /\ \E node \in Nodes(c) : node.kind = "start" /\ s[1] = node.id
    /\ \A k \in 1..Len(s) - 1 : s[k + 1] \in ChosenIn(c, x, s[k])

\* A path of an accepted canvas passes each node once, also with one step more.
LEMMA TrailOnce ==
    ASSUME NEW c, NEW x, WellRouted(c), NEW s \in Seq(Ids(c)), Len(s) <= Len(c.nodes) + 1,
           \A k \in 1..Len(s) - 1 : s[k + 1] \in ChosenIn(c, x, s[k])
    PROVE  IsInjective(s) /\ Len(s) <= Len(c.nodes)
<1> DEFINE n == Len(c.nodes)
           m == Len(s)
<1>1. /\ n \in Nat /\ m \in Nat /\ m <= n + 1 /\ DOMAIN s = 1..m
      /\ s \in [1..m -> Ids(c)] /\ \A k \in 1..m : s[k] \in Ids(c)
      /\ \A k \in 1..m - 1 : s[k + 1] \in ChosenIn(c, x, s[k])
  BY LenProperties DEF WellRouted, IsCanvas
<1>2. IsCanvas(c) /\ \A id \in Ids(c) : ~ReachesItself(c, id)
  BY DEF WellRouted
<1> HIDE DEF m, n
<1>3. \A k \in 1..m : k # m => k \in 1..m - 1
  BY <1>1
<1>4. \A k \in 1..m : k # m => Linked(c, s[k], s[k + 1])
  BY <1>1, <1>3, ChosenOnce
<1>5. ASSUME NEW i \in 1..m, NEW j \in 1..m, i < j PROVE s[i] # s[j]
  <2> DEFINE path == [k \in 1..m |-> IF i + k - 1 \in 1..m THEN s[i + k - 1] ELSE s[j]]
             d == j - i
  <2>1. d \in 1..n /\ d \in 1..m /\ d + 1 \in 1..m /\ 1 \in 1..m
    BY <1>1, <1>5
  <2>2. \A k \in 1..d : k \in 1..m /\ k + 1 \in 1..m /\ i + k - 1 \in 1..m /\ i + k - 1 # m
                         /\ i + (k + 1) - 1 = (i + k - 1) + 1 /\ (i + k - 1) + 1 \in 1..m
    BY <1>1, <1>5
  <2>3. \A k \in 1..d : path[k] = s[i + k - 1] /\ path[k + 1] = s[(i + k - 1) + 1]
    BY <2>2
  <2>4. path[1] = s[i] /\ path[d + 1] = s[j]
    BY <1>1, <1>5, <2>1
  <2> HIDE DEF path
  <2>5. \A k \in 1..d : Linked(c, path[k], path[k + 1])
    BY <1>4, <2>2, <2>3
  <2>6. path[d + 1] \in Reached(c, Successors(c, {path[1]}))
    <3> HIDE DEF d
    <3>1. QED
      BY <1>2, <2>1, <2>5, PathReaches DEF n
  <2>7. QED
    BY <1>1, <1>2, <2>4, <2>6 DEF ReachesItself
<1>6. IsInjective(s)
  <2>1. \A i, j \in 1..m : i = j \/ i < j \/ j < i
    BY <1>1
  <2>2. QED
    BY <1>1, <1>5, <2>1 DEF IsInjective
<1>7. m <= n
  <2>1. s \in Injection(1..m, Ids(c))
    BY <1>1, <1>6 DEF Injection
  <2>2. IsFiniteSet(Ids(c)) /\ Cardinality(Ids(c)) <= n /\ Cardinality(Ids(c)) \in Nat
    BY <1>2, CanvasFinite, FS_CardinalityType DEF n
  <2>3. Cardinality(1..m) = m
    BY <1>1, FS_Interval
  <2>4. Cardinality(1..m) <= Cardinality(Ids(c))
    BY <2>1, <2>2, FS_Injection
  <2>5. QED
    BY <1>1, <2>2, <2>3, <2>4
<1>8. QED
  BY <1>6, <1>7 DEF m, n

\* One step more along a trail.
Further(c, x, s) == s \o SetToSeq(ChosenIn(c, x, Last(s)))

\* A trail goes on as long as a node is chosen.
LEMMA TrailGrows ==
    ASSUME NEW c, NEW x, WellRouted(c), NEW s, Trail(c, x, s)
    PROVE  /\ Last(s) \in Ids(c)
           /\ ChosenIn(c, x, Last(s)) = {} => Further(c, x, s) = s
           /\ ChosenIn(c, x, Last(s)) # {} =>
                 Trail(c, x, Further(c, x, s)) /\ Len(Further(c, x, s)) = Len(s) + 1
<1> DEFINE m == Len(s)
           n == Len(c.nodes)
<1>1. /\ m \in Nat /\ m \in 1..n /\ m \in 1..m /\ 1 \in 1..m /\ DOMAIN s = 1..m /\ n \in Nat
      /\ s \in Seq(Ids(c)) /\ \A k \in 1..m : s[k] \in Ids(c)
      /\ \A k \in 1..m - 1 : s[k + 1] \in ChosenIn(c, x, s[k])
  BY LenProperties DEF Trail, WellRouted, IsCanvas
<1>2. Last(s) = s[m] /\ Last(s) \in Ids(c)
  BY <1>1 DEF Last
<1>3. ASSUME ChosenIn(c, x, Last(s)) = {} PROVE Further(c, x, s) = s
  <2>1. Further(c, x, s) = s \o <<>>
    BY <1>3, FewListed DEF Further
  <2>2. QED
    BY <1>1, <2>1, ConcatEmptySeq
<1>4. ASSUME ChosenIn(c, x, Last(s)) # {}
      PROVE  Trail(c, x, Further(c, x, s)) /\ Len(Further(c, x, s)) = m + 1
  <2> DEFINE t == Further(c, x, s)
  <2>1. PICK b : b \in ChosenIn(c, x, Last(s))
    BY <1>4
  <2>2. ChosenIn(c, x, Last(s)) = {b} /\ b \in Ids(c)
    BY <1>2, <2>1, ChosenOnce
  <2>3. t = s \o <<b>>
    BY <2>2, FewListed DEF Further
  <2>4. <<b>> \in Seq(Ids(c)) /\ Len(<<b>>) = 1 /\ <<b>>[1] = b
    BY <2>2
  <2>5. /\ t \in Seq(Ids(c)) /\ Len(t) = m + 1
        /\ \A k \in 1..m + 1 : t[k] = IF k <= m THEN s[k] ELSE <<b>>[k - m]
    <3> HIDE DEF t
    <3>1. QED
      BY <1>1, <2>3, <2>4, ConcatProperties
  <2>6. /\ t[m + 1] = b /\ \A k \in 1..m : t[k] = s[k]
    <3>1. m + 1 \in 1..m + 1 /\ ~(m + 1 <= m) /\ (m + 1) - m = 1
          /\ \A k \in 1..m : k \in 1..m + 1 /\ k <= m
      BY <1>1
    <3> HIDE DEF t, m
    <3>2. QED
      BY <2>4, <2>5, <3>1
  <2>7. \A k \in 1..Len(t) - 1 : t[k + 1] \in ChosenIn(c, x, t[k])
    <3> HIDE DEF t
    <3>1. ASSUME NEW k \in 1..m PROVE t[k + 1] \in ChosenIn(c, x, t[k])
      <4>1. CASE k = m
        BY <1>2, <2>1, <2>6, <4>1
      <4>2. CASE k # m
        <5>1. k \in 1..m - 1 /\ k + 1 \in 1..m
          <6> HIDE DEF m
          <6>1. QED
            BY <1>1, <4>2
        <5>2. QED
          BY <1>1, <2>6, <5>1
      <4>3. QED
        BY <4>1, <4>2
    <3>2. Len(t) - 1 = m
      BY <1>1, <2>5
    <3>3. QED
      BY <3>1, <3>2
  <2>8. Len(t) <= n
    <3>1. Len(t) <= n + 1
      BY <1>1, <2>5
    <3> HIDE DEF t
    <3>2. QED
      BY <2>5, <2>7, <3>1, TrailOnce DEF n
  <2>9. \E node \in Nodes(c) : node.kind = "start" /\ t[1] = node.id
    BY <1>1, <2>6 DEF Trail
  <2> HIDE DEF t, m, n
  <2>10. Len(t) \in 1..n
    BY <1>1, <2>5, <2>8
  <2>11. QED
    BY <2>5, <2>7, <2>9, <2>10 DEF Trail, t, n
<1>5. QED
  BY <1>2, <1>3, <1>4

\* The routed path of an accepted canvas: as far as the processors' answers lead.
LEMMA RoutedIsTrail ==
    ASSUME NEW c, NEW x, WellRouted(c)
    PROVE  /\ Trail(c, x, RoutedIn(c, x))
           /\ ChosenIn(c, x, Last(RoutedIn(c, x))) = {}
<1> DEFINE n == Len(c.nodes)
           D == {s \in Seq(Ids(c)) : Trail(c, x, s)}
           F == [s \in D |-> Further(c, x, s)]
           P == [s \in D |-> n - Len(s)]
           Done == {s \in D : ChosenIn(c, x, Last(s)) = {}}
           start == CHOOSE node \in Nodes(c) : node.kind = "start"
           first == <<start.id>>
           Is(g) == g = [k \in 0..n |->
                           IF k = 0 THEN first
                           ELSE LET taken == g[k - 1]
                                IN  taken \o SetToSeq(ChosenIn(c, x, Last(taken)))]
           grown == CHOOSE g : Is(g)
<1>1. start \in Nodes(c) /\ start.kind = "start" /\ start.id \in Ids(c)
  BY DEF WellRouted, Ids
<1>2. n \in Nat /\ n \in 0..n /\ 0 \in 0..n /\ \A k \in 1..n : k \in 0..n /\ k - 1 \in 0..n /\ k # 0
  BY LenProperties DEF WellRouted, IsCanvas
<1>3. n >= 1
  <2>1. DOMAIN c.nodes = 1..n
    BY LenProperties DEF WellRouted, IsCanvas
  <2>2. QED
    BY <1>1, <1>2, <2>1 DEF Nodes, Range
<1> HIDE DEF start
<1>4. first \in D /\ Len(first) = 1
  <2>1. first \in Seq(Ids(c)) /\ Len(first) = 1 /\ first[1] = start.id
    BY <1>1
  <2>2. Len(first) \in 1..n
    BY <1>2, <1>3, <2>1
  <2>3. \A k \in 1..Len(first) - 1 : FALSE
    BY <2>1
  <2>4. QED
    BY <1>1, <2>1, <2>2, <2>3 DEF Trail
<1>5. \A s \in D : Further(c, x, s) \in D
  <2>1. SUFFICES ASSUME NEW s \in Seq(Ids(c)), Trail(c, x, s)
                 PROVE  Trail(c, x, Further(c, x, s))
    BY DEF Trail
  <2>2. QED
    BY <2>1, TrailGrows
<1>6. F \in [D -> D]
  BY <1>5
<1> HIDE DEF n, first
<1>7. PICK g : Iteration(g, n, D, first, F)
  <2> HIDE DEF D, F
  <2>1. QED
    BY <1>2, <1>4, <1>6, Iterates
<1>8. /\ g \in [0..n -> D] /\ g[0] = first
      /\ \A k \in 1..n : g[k] = Further(c, x, g[k - 1])
  <2>1. \A s \in D : F[s] = Further(c, x, s)
    OBVIOUS
  <2> HIDE DEF D, F
  <2>2. QED
    BY <1>2, <1>7, <2>1 DEF Iteration
<1>9. Is(g)
  <2>1. \A k \in 0..n : k # 0 => k \in 1..n
    BY <1>2
  <2>2. \A k \in 0..n : g[k] = IF k = 0 THEN first ELSE Further(c, x, g[k - 1])
    BY <1>8, <2>1
  <2> HIDE DEF D
  <2>3. g = [k \in 0..n |-> IF k = 0 THEN first ELSE Further(c, x, g[k - 1])]
    BY <1>8, <2>2
  <2>4. QED
    BY <2>3 DEF Further
<1>10. Is(grown)
  <2> HIDE DEF Is
  <2>1. QED
    BY <1>9
<1>11. RoutedIn(c, x) = grown[n]
  BY DEF RoutedIn, n, first, start
<1> HIDE DEF grown
<1>12. grown = g
  <2> DEFINE T == {k \in 0..n : grown[k] = g[k]}
  <2>1. grown = [k \in 0..n |-> IF k = 0 THEN first ELSE Further(c, x, grown[k - 1])]
    BY <1>10 DEF Further
  <2>2. 0 \in T /\ \A k \in 1..n : k - 1 \in T => k \in T
    BY <1>2, <1>8, <2>1
  <2>3. 0..n \subseteq T
    <3> HIDE DEF T
    <3>1. QED
      BY <1>2, <2>2, SetInduction
  <2>4. \A k \in 0..n : grown[k] = g[k]
    BY <2>3
  <2> HIDE DEF D
  <2>5. QED
    BY <1>8, <2>1, <2>4
<1>13. \A s \in D : Len(s) \in 1..n /\ P[s] = n - Len(s) /\ P[s] \in Nat /\ P[s] <= n
  <2>1. \A s \in D : Len(s) \in 1..n
    BY DEF Trail, n
  <2>2. QED
    BY <1>2, <2>1
<1>14. \A s \in D : s \in Done \/ P[F[s]] < P[s]
  <2>1. SUFFICES ASSUME NEW s \in D, s \notin Done PROVE P[F[s]] < P[s]
    OBVIOUS
  <2>2. F[s] \in D /\ Len(F[s]) = Len(s) + 1
    BY <1>6, <2>1, TrailGrows
  <2> HIDE DEF D, F, P, Done
  <2>3. P[F[s]] = n - (Len(s) + 1) /\ P[s] = n - Len(s) /\ Len(s) \in 1..n
    BY <1>13, <2>2
  <2>4. QED
    BY <1>2, <2>3
<1>15. g[n] \in Done
  <2>1. P \in [D -> Nat] /\ P[first] <= n
    BY <1>4, <1>13
  <2>2. \A s \in D : s \in Done => F[s] = s
    BY TrailGrows
  <2> HIDE DEF D, F, P, Done
  <2>3. QED
    BY <1>2, <1>4, <1>6, <1>7, <1>14, <2>1, <2>2, Settles
<1>16. QED
  BY <1>11, <1>12, <1>15

-----------------------------------------------------------------------------
(* The edges of the translated graph *)

\* The start node leads to one node, by its only edge.
LEMMA StartLeads ==
    ASSUME NEW c, WellRouted(c), NEW start \in Nodes(c), start.kind = "start"
    PROVE  /\ \A x : ChosenIn(c, x, start.id) # {}
           /\ \A x, n : n \in StartSuccessor(c) <=> n \in Nodes(c) /\ n.id \in ChosenIn(c, x, start.id)
           /\ \E n \in Nodes(c) : n.kind # "start" /\ StartSuccessor(c) = {n}
<1> DEFINE I == {i \in 1..Len(c.nodes) : c.nodes[i].kind = "start"}
           O == {i \in 1..Len(c.edges) : c.edges[i].source = start.id}
<1>1. /\ Len(c.nodes) \in Nat /\ DOMAIN c.nodes = 1..Len(c.nodes)
      /\ Len(c.edges) \in Nat /\ DOMAIN c.edges = 1..Len(c.edges)
  BY LenProperties DEF WellRouted, IsCanvas
<1>2. PICK k \in DOMAIN c.edges : \A j \in DOMAIN c.edges : c.edges[j].source = start.id <=> j = k
  BY DEF WellRouted
<1>3. O = {k} /\ k \in 1..Len(c.edges)
  BY <1>1, <1>2
<1>4. I # {} /\ \A i \in I : c.nodes[i] = start
  BY <1>1 DEF WellRouted, Nodes, Range
<1>5. Min(I) \in I /\ Min(I) \in 1..Len(c.nodes)
  <2>1. I \subseteq 1..Len(c.nodes) /\ 1 \in Int /\ Len(c.nodes) \in Int
    BY <1>1
  <2> HIDE DEF I
  <2>2. QED
    BY <1>4, <2>1, BoundedMin
<1>6. Min(O) = k
  <2>1. O \subseteq 1..Len(c.edges) /\ O # {} /\ 1 \in Int /\ Len(c.edges) \in Int
    BY <1>1, <1>3
  <2> HIDE DEF O
  <2>2. Min(O) \in O
    BY <2>1, BoundedMin
  <2>3. QED
    BY <1>3, <2>2
<1> DEFINE root == SelectInSeq(c.nodes, LAMBDA n : n.kind = "start")
           out == SelectInSeq(c.edges, LAMBDA e : e.source = c.nodes[root].id)
<1>7. root = Min(I)
  BY <1>4 DEF SelectInSeq
<1>8. c.nodes[root] = start /\ root # 0
  <2>1. \A l \in Nat : 0 \notin 1..l
    OBVIOUS
  <2> HIDE DEF I, root
  <2>2. QED
    BY <1>1, <1>4, <1>5, <1>7, <2>1
<1>9. out = k /\ k # 0
  <2>1. \A l \in Nat : 0 \notin 1..l
    OBVIOUS
  <2> HIDE DEF root
  <2>2. {i \in 1..Len(c.edges) : c.edges[i].source = c.nodes[root].id} = O
    BY <1>8
  <2>3. out = Min(O)
    BY <1>3, <2>2 DEF SelectInSeq
  <2>4. QED
    BY <1>1, <1>3, <1>6, <2>1, <2>3
<1>10. StartSuccessor(c) = {n \in Nodes(c) : n.id = c.edges[k].target}
  <2>1. root # 0 => StartSuccessor(c) = {n \in Nodes(c) : out # 0 /\ n.id = c.edges[out].target}
    BY Zenon DEF StartSuccessor
  <2> HIDE DEF root, out
  <2>2. QED
    BY <1>8, <1>9, <2>1
<1>11. KindOf(c, start.id) = "start"
  BY NodesNamed
<1>12. \A x : ChosenIn(c, x, start.id) = {c.edges[k].target}
  BY <1>2, <1>11 DEF ChosenIn, Range
<1>13. c.edges[k].target \in Ids(c) /\ KindOf(c, c.edges[k].target) # "start"
  BY <1>2 DEF WellRouted, Range
<1>14. PICK n \in Nodes(c) : n.id = c.edges[k].target /\ n.kind # "start"
  BY <1>13, NodesNamed
<1>15. StartSuccessor(c) = {n}
  BY <1>10, <1>14, NodesNamed
<1>16. QED
  BY <1>10, <1>12, <1>14, <1>15

Inner(d) == JdmEdge(Entry(d), Exit(d), "none")
First(n) == JdmEdge(Input, Entry(n), "none")

DecisionsOf(c) == {d \in Nodes(c) : d.kind = "decision"}

\* The places of the canvas edges that become routing edges.
RoutingPlaces(c) ==
    {k \in DOMAIN c.edges : KindOf(c, c.edges[k].source) \in {"decision", "expression"}}

\* What the translation makes of a node or an edge, field by field.
LEMMA EdgeShape ==
    ASSUME NEW c, WellRouted(c)
    PROVE  /\ \A d \in DecisionsOf(c) :
                 /\ Inner(d).source = <<d.id, "proc">> /\ Inner(d).target = <<d.id, "switch">>
                 /\ Inner(d).source \in JdmNodes(c) /\ Inner(d).target \in JdmNodes(c)
           /\ \A k \in RoutingPlaces(c) :
                 LET e == c.edges[k]
                     r == RoutingEdge(c, e)
                     target == NodeById(c, e.target)
                 IN  /\ e \in Range(c.edges) /\ e.source \in Ids(c) /\ e.target \in Ids(c)
                     /\ r.source = <<e.source, IF KindOf(c, e.source) = "decision" THEN "switch" ELSE "expr">>
                     /\ KindOf(c, e.source) = "decision" => r.handle = e.branch
                     /\ target \in Nodes(c) /\ target.id = e.target /\ target.kind # "start"
                     /\ r.target = Entry(target)
                     /\ r.source \in JdmNodes(c) /\ r.target \in JdmNodes(c)
           /\ \A n \in StartSuccessor(c) :
                 /\ n \in Nodes(c) /\ n.kind # "start"
                 /\ First(n).source = Input /\ First(n).target = Entry(n)
                 /\ First(n).source \in JdmNodes(c) /\ First(n).target \in JdmNodes(c)
<1>1. ASSUME NEW s, NEW t, NEW h
      PROVE  JdmEdge(s, t, h).source = s /\ JdmEdge(s, t, h).target = t /\ JdmEdge(s, t, h).handle = h
  BY DEF JdmEdge
<1>2. ASSUME NEW d \in DecisionsOf(c)
      PROVE  /\ Inner(d).source = <<d.id, "proc">> /\ Inner(d).target = <<d.id, "switch">>
             /\ Inner(d).source \in JdmNodes(c) /\ Inner(d).target \in JdmNodes(c)
  <2>1. d \in Nodes(c) /\ d.kind = "decision"
    BY DEF DecisionsOf
  <2>2. Entry(d) = <<d.id, "proc">> /\ Exit(d) = <<d.id, "switch">>
    BY <2>1 DEF Entry, EntryKind, Exit
  <2>3. Entry(d) \in JdmNodes(c) /\ Exit(d) \in JdmNodes(c)
    BY <2>1 DEF JdmNodes
  <2>4. QED
    BY <1>1, <2>2, <2>3 DEF Inner
<1>3. \A n \in Nodes(c) : n.kind # "start" => Entry(n) \in JdmNodes(c)
  BY DEF JdmNodes
<1>4. ASSUME NEW k \in RoutingPlaces(c), NEW e, e = c.edges[k], NEW r, r = RoutingEdge(c, e),
             NEW target, target = NodeById(c, e.target)
      PROVE  /\ e \in Range(c.edges) /\ e.source \in Ids(c) /\ e.target \in Ids(c)
             /\ r.source = <<e.source, IF KindOf(c, e.source) = "decision" THEN "switch" ELSE "expr">>
             /\ KindOf(c, e.source) = "decision" => r.handle = e.branch
             /\ target \in Nodes(c) /\ target.id = e.target /\ target.kind # "start"
             /\ r.target = Entry(target)
             /\ r.source \in JdmNodes(c) /\ r.target \in JdmNodes(c)
  <2> DEFINE source == NodeById(c, e.source)
  <2>1. e \in Range(c.edges) /\ KindOf(c, e.source) \in {"decision", "expression"}
    BY <1>4 DEF RoutingPlaces, Range
  <2>2. e.source \in Ids(c) /\ e.target \in Ids(c) /\ KindOf(c, e.target) # "start"
    BY <2>1 DEF WellRouted
  <2>3. /\ source \in Nodes(c) /\ source.id = e.source /\ source.kind = KindOf(c, e.source)
        /\ target \in Nodes(c) /\ target.id = e.target /\ target.kind # "start"
    BY <1>4, <2>2, NodesNamed
  <2>4. r = JdmEdge(Exit(source), Entry(target), IF source.kind = "decision" THEN e.branch ELSE "none")
    BY <1>4 DEF RoutingEdge
  <2>5. Exit(source) = <<e.source, IF KindOf(c, e.source) = "decision" THEN "switch" ELSE "expr">>
    BY <2>3 DEF Exit
  <2>6. Exit(source) \in JdmNodes(c)
    <3>1. CASE source.kind = "decision"
      BY <2>3, <3>1 DEF JdmNodes
    <3>2. CASE source.kind = "expression"
      <4>1. Exit(source) = Entry(source)
        BY <3>2 DEF Exit, Entry, EntryKind
      <4>2. QED
        BY <1>3, <2>3, <3>2, <4>1
    <3>3. QED
      BY <2>1, <2>3, <3>1, <3>2
  <2> HIDE DEF source
  <2>7. r.source = Exit(source) /\ r.target = Entry(target)
        /\ r.handle = IF source.kind = "decision" THEN e.branch ELSE "none"
    BY <1>1, <2>4
  <2>8. QED
    BY <1>3, <2>1, <2>2, <2>3, <2>5, <2>6, <2>7
<1>5. ASSUME NEW n \in StartSuccessor(c)
      PROVE  /\ n \in Nodes(c) /\ n.kind # "start"
             /\ First(n).source = Input /\ First(n).target = Entry(n)
             /\ First(n).source \in JdmNodes(c) /\ First(n).target \in JdmNodes(c)
  <2>1. PICK start \in Nodes(c) : start.kind = "start"
    BY DEF WellRouted
  <2>2. n \in Nodes(c) /\ n.kind # "start"
    BY <2>1, StartLeads
  <2>3. Input \in JdmNodes(c)
    BY DEF JdmNodes
  <2>4. QED
    BY <1>1, <1>3, <2>2, <2>3 DEF First
<1>6. QED
  BY <1>2, <1>4, <1>5

\* The translation has an edge for each decision, for each edge from a decision
\* or an expression, and for the start; no edge comes twice.
LEMMA TranslatedEdges ==
    ASSUME NEW c, WellRouted(c)
    PROVE  /\ Translate(c).edges \in Seq(Range(Translate(c).edges))
           /\ IsInjective(Translate(c).edges)
           /\ Range(Translate(c).edges) =
                 {Inner(d) : d \in DecisionsOf(c)}
                 \union {RoutingEdge(c, c.edges[k]) : k \in RoutingPlaces(c)}
                 \union {First(n) : n \in StartSuccessor(c)}
<1> DEFINE inner == InternalEdges(c)
           routing == RoutingEdges(c)
           firsts == {First(n) : n \in StartSuccessor(c)}
           inners == {Inner(d) : d \in DecisionsOf(c)}
           routings == {RoutingEdge(c, c.edges[k]) : k \in RoutingPlaces(c)}
           A == inners \union routings \union firsts
<1>1. /\ Len(c.nodes) \in Nat /\ DOMAIN c.nodes = 1..Len(c.nodes)
      /\ Len(c.edges) \in Nat /\ DOMAIN c.edges = 1..Len(c.edges)
      /\ c.nodes \in Seq(Nodes(c)) /\ c.edges \in Seq(Range(c.edges))
  BY LenProperties DEF WellRouted, IsCanvas, Nodes
<1>2. inner \in Seq(A) /\ Range(inner) = inners /\ IsInjective(inner)
  <2> DEFINE E == WithKind(c, "decision")
             at == Ascending(E)
  <2>1. E \subseteq DOMAIN c.nodes /\ E \subseteq 1..Len(c.nodes)
    BY <1>1 DEF WithKind
  <2>2. inner = [k \in DOMAIN at |-> Inner(c.nodes[at[k]])]
    BY DEF InternalEdges, Inner
  <2>3. /\ \A i \in E : c.nodes[i] \in DecisionsOf(c)
        /\ \A d \in DecisionsOf(c) : \E i \in E : c.nodes[i] = d
    BY DEF WithKind, DecisionsOf, Nodes, Range
  <2>4. \A i, j \in E : Inner(c.nodes[i]) = Inner(c.nodes[j]) => i = j
    <3>1. SUFFICES ASSUME NEW i \in E, NEW j \in E, Inner(c.nodes[i]) = Inner(c.nodes[j])
                   PROVE  i = j
      OBVIOUS
    <3>2. <<c.nodes[i].id, "proc">> = <<c.nodes[j].id, "proc">>
      BY <2>3, <3>1, EdgeShape
    <3>3. c.nodes[i].id = c.nodes[j].id
      BY <3>2
    <3>4. QED
      BY <2>1, <3>3 DEF WellRouted
  <2> HIDE DEF E
  <2>5. /\ DOMAIN at = 1..Cardinality(E) /\ Cardinality(E) \in Nat
        /\ \A k \in DOMAIN at : at[k] \in E
        /\ \A i \in E : \E k \in DOMAIN at : at[k] = i
        /\ \A k, l \in 1..Cardinality(E) : at[k] = at[l] => k = l
    BY <1>1, <2>1, PlacesInOrder, AscendingLists
  <2> HIDE DEF at, inner
  <2>6. inner \in [1..Cardinality(E) -> inners] /\ DOMAIN inner = 1..Cardinality(E)
    BY <2>2, <2>3, <2>5
  <2>7. Range(inner) = inners
    <3>1. \A d \in DecisionsOf(c) : \E k \in DOMAIN at : inner[k] = Inner(d)
      BY <2>2, <2>3, <2>5
    <3>2. \A e \in inners : e \in Range(inner)
      BY <2>5, <2>6, <3>1 DEF Range
    <3>3. QED
      BY <2>6, <3>2 DEF Range
  <2>8. IsInjective(inner)
    BY <2>2, <2>4, <2>5, <2>6 DEF IsInjective
  <2>9. inner \in Seq(A)
    <3> DEFINE m == Cardinality(E)
    <3>1. inner \in [1..m -> A]
      BY <2>6
    <3> HIDE DEF m, A
    <3>2. \A s \in [1..m -> A] : m \in Nat => s \in Seq(A)
      OBVIOUS
    <3>3. QED
      BY <2>5, <3>1, <3>2 DEF m
  <2>10. QED
    BY <2>7, <2>8, <2>9
<1>3. routing \in Seq(A) /\ Range(routing) = routings /\ IsInjective(routing)
  <2> DEFINE E == RoutingPlaces(c)
             at == Ascending(E)
  <2>1. E \subseteq DOMAIN c.edges /\ E \subseteq 1..Len(c.edges)
    BY <1>1 DEF RoutingPlaces
  <2>2. E = {i \in DOMAIN c.edges : /\ KindOf(c, c.edges[i].source) \in {"decision", "expression"}
                                    /\ c.edges[i].target \in Ids(c)}
    BY DEF RoutingPlaces, WellRouted, Range
  <2>3. routing = [k \in DOMAIN at |-> RoutingEdge(c, c.edges[at[k]])]
    <3> HIDE DEF E
    <3>1. QED
      BY <2>2 DEF RoutingEdges
  <2>4. \A i, j \in E : RoutingEdge(c, c.edges[i]) = RoutingEdge(c, c.edges[j]) => i = j
    <3>1. SUFFICES ASSUME NEW i \in E, NEW j \in E,
                          RoutingEdge(c, c.edges[i]) = RoutingEdge(c, c.edges[j])
                   PROVE  i = j
      OBVIOUS
    <3> DEFINE a == c.edges[i].source
               b == c.edges[j].source
    <3>2. /\ <<a, IF KindOf(c, a) = "decision" THEN "switch" ELSE "expr">>
              = <<b, IF KindOf(c, b) = "decision" THEN "switch" ELSE "expr">>
          /\ a \in Ids(c)
      BY <3>1, EdgeShape
    <3>3. a = b
      BY <3>2
    <3>4. KindOf(c, a) \in {"decision", "expression"} /\ i \in DOMAIN c.edges /\ j \in DOMAIN c.edges
      BY DEF RoutingPlaces
    <3>5. CASE KindOf(c, a) = "decision"
      <4>1. c.edges[i].branch = c.edges[j].branch
        BY <3>1, <3>3, <3>5, EdgeShape
      <4>2. QED
        BY <3>3, <3>4, <3>5, <4>1 DEF WellRouted
    <3>6. CASE KindOf(c, a) = "expression"
      <4>1. PICK n \in Nodes(c) : n.id = a /\ n.kind = "expression"
        BY <3>2, <3>6, NodesNamed
      <4>2. QED
        BY <3>3, <3>4, <4>1 DEF WellRouted
    <3>7. QED
      BY <3>4, <3>5, <3>6
  <2> HIDE DEF E
  <2>5. /\ DOMAIN at = 1..Cardinality(E) /\ Cardinality(E) \in Nat
        /\ \A k \in DOMAIN at : at[k] \in E
        /\ \A i \in E : \E k \in DOMAIN at : at[k] = i
        /\ \A k, l \in 1..Cardinality(E) : at[k] = at[l] => k = l
    BY <1>1, <2>1, PlacesInOrder, AscendingLists
  <2> HIDE DEF at, routing
  <2>6. routings = {RoutingEdge(c, c.edges[k]) : k \in E}
    BY DEF E
  <2>7. routing \in [1..Cardinality(E) -> routings] /\ DOMAIN routing = 1..Cardinality(E)
    <3> HIDE DEF routings
    <3>1. \A k \in E : RoutingEdge(c, c.edges[k]) \in routings
      BY <2>6
    <3>2. QED
      BY <2>3, <2>5, <3>1
  <2>8. Range(routing) = routings
    <3>1. \A i \in E : \E k \in DOMAIN at : routing[k] = RoutingEdge(c, c.edges[i])
      BY <2>3, <2>5
    <3>2. \A e \in routings : e \in Range(routing)
      BY <2>5, <2>6, <2>7, <3>1 DEF Range
    <3>3. QED
      BY <2>7, <3>2 DEF Range
  <2>9. IsInjective(routing)
    BY <2>3, <2>4, <2>5, <2>7 DEF IsInjective
  <2>10. routing \in Seq(A)
    <3> DEFINE m == Cardinality(E)
    <3>1. routing \in [1..m -> A]
      BY <2>7
    <3> HIDE DEF m, A
    <3>2. \A s \in [1..m -> A] : m \in Nat => s \in Seq(A)
      OBVIOUS
    <3>3. QED
      BY <2>5, <3>1, <3>2 DEF m
  <2>11. QED
    BY <2>8, <2>9, <2>10
<1>4. PICK n \in Nodes(c) : n.kind # "start" /\ StartSuccessor(c) = {n}
  <2>1. PICK start \in Nodes(c) : start.kind = "start"
    BY DEF WellRouted
  <2>2. QED
    BY <2>1, StartLeads
<1>5. firsts = {First(n)}
  BY <1>4
<1>6. {JdmEdge(Input, Entry(m), "none") : m \in StartSuccessor(c)} = firsts
  BY DEF First
<1>7. SetToSeq(firsts) = <<First(n)>>
  BY <1>5, FewListed
<1> DEFINE one == <<First(n)>>
<1>8. one \in Seq(A) /\ Range(one) = firsts /\ IsInjective(one)
  <2>1. First(n) \in A
    BY <1>5
  <2>2. one \in Seq(A) /\ Len(one) = 1 /\ one[1] = First(n)
    BY <2>1
  <2>3. DOMAIN one = {1}
    <3>1. DOMAIN one = 1..1
      BY <2>2, LenProperties
    <3>2. QED
      BY <3>1
  <2>4. QED
    BY <1>5, <2>2, <2>3 DEF Range, IsInjective
<1>9. inners \intersect routings = {}
  <2>1. SUFFICES ASSUME NEW d \in DecisionsOf(c), NEW k \in RoutingPlaces(c),
                        Inner(d) = RoutingEdge(c, c.edges[k])
                 PROVE  FALSE
    OBVIOUS
  <2>2. <<d.id, "proc">>[2] \in {"switch", "expr"}
    BY <2>1, EdgeShape
  <2>3. QED
    BY <2>2
<1>10. (inners \union routings) \intersect firsts = {}
  <2>1. \A d \in DecisionsOf(c) : Inner(d).source[2] = "proc"
    BY EdgeShape
  <2>2. \A k \in RoutingPlaces(c) : RoutingEdge(c, c.edges[k]).source[2] \in {"switch", "expr"}
    <3>1. ASSUME NEW k \in RoutingPlaces(c)
          PROVE  RoutingEdge(c, c.edges[k]).source[2] \in {"switch", "expr"}
      BY EdgeShape, SMTT(60)
    <3>2. QED
      BY <3>1
  <2>3. First(n).source[2] = "input"
    BY <1>4, EdgeShape DEF Input
  <2>4. QED
    BY <1>5, <2>1, <2>2, <2>3
<1>11. Translate(c).edges = (inner \o routing) \o one
  BY <1>6, <1>7 DEF Translate
<1> DEFINE two == inner \o routing
<1> HIDE DEF inner, routing, one, inners, routings, firsts, A
<1>12. two \in Seq(A) /\ IsInjective(two) /\ Range(two) = inners \union routings
  BY <1>2, <1>3, <1>9, InjectiveConcat
<1> HIDE DEF two
<1>13. /\ two \o one \in Seq(A) /\ IsInjective(two \o one)
       /\ Range(two \o one) = (inners \union routings) \union firsts
  BY <1>8, <1>10, <1>12, InjectiveConcat
<1>14. Translate(c).edges \in Seq(Range(Translate(c).edges))
  BY EdgesLeadOn DEF WellRouted
<1>15. QED
  BY <1>11, <1>13, <1>14 DEF two, inners, routings, firsts

-----------------------------------------------------------------------------
(* Where the edges of the translated graph lead *)

\* The edge from the processor of a decision to its switch, the edge of a
\* canvas edge, and the edge from the input.
IsInner(c, e) == \E d \in DecisionsOf(c) : e.source = <<d.id, "proc">> /\ e.target = <<d.id, "switch">>
IsRouting(c, e) ==
    \E k \in RoutingPlaces(c), n \in Nodes(c) :
        /\ n.id = c.edges[k].target /\ n.kind # "start"
        /\ e.source = <<c.edges[k].source,
                        IF KindOf(c, c.edges[k].source) = "decision" THEN "switch" ELSE "expr">>
        /\ e.target = Entry(n)
        /\ KindOf(c, c.edges[k].source) = "decision" => e.handle = c.edges[k].branch
IsFirst(c, e) ==
    \E n \in StartSuccessor(c) :
        n \in Nodes(c) /\ n.kind # "start" /\ e.source = Input /\ e.target = Entry(n)

\* Every edge of the translation is of one of these kinds.
LEMMA EdgeCases ==
    ASSUME NEW c, WellRouted(c), NEW i \in DOMAIN Translate(c).edges,
           NEW e, e = Translate(c).edges[i]
    PROVE  /\ IsInner(c, e) \/ IsRouting(c, e) \/ IsFirst(c, e)
           /\ e.source \in JdmNodes(c) /\ e.target \in JdmNodes(c)
<1>1. e \in Range(Translate(c).edges)
  BY DEF Range
<1>2. \/ \E d \in DecisionsOf(c) : e = Inner(d)
      \/ \E k \in RoutingPlaces(c) : e = RoutingEdge(c, c.edges[k])
      \/ \E n \in StartSuccessor(c) : e = First(n)
  <2>1. e \in {Inner(d) : d \in DecisionsOf(c)}
             \union {RoutingEdge(c, c.edges[k]) : k \in RoutingPlaces(c)}
             \union {First(n) : n \in StartSuccessor(c)}
    BY <1>1, TranslatedEdges, Zenon
  <2>2. QED
    BY <2>1
<1>3. CASE \E d \in DecisionsOf(c) : e = Inner(d)
  BY <1>3, EdgeShape DEF IsInner
<1>4. ASSUME NEW k \in RoutingPlaces(c), e = RoutingEdge(c, c.edges[k])
      PROVE  IsRouting(c, e) /\ e.source \in JdmNodes(c) /\ e.target \in JdmNodes(c)
  BY <1>4, EdgeShape, ZenonT(30) DEF IsRouting
<1>5. CASE \E n \in StartSuccessor(c) : e = First(n)
  BY <1>5, EdgeShape DEF IsFirst
<1>6. QED
  BY <1>2, <1>3, <1>4, <1>5

\* What a node of the canvas becomes.
LEMMA EntryCases ==
    ASSUME NEW c, WellRouted(c), NEW n \in Nodes(c), n.kind # "start"
    PROVE  /\ n.kind = "decision" => Entry(n) = <<n.id, "proc">>
           /\ n.kind = "expression" => Entry(n) = <<n.id, "expr">>
           /\ n.kind = "end" => Entry(n) = <<n.id, "out">>
           /\ n.kind \in {"decision", "expression", "end"}
           /\ Entry(n)[1] = n.id /\ Entry(n)[2] \in {"proc", "expr", "out"}
           /\ Entry(n) = <<Entry(n)[1], Entry(n)[2]>>
<1>1. n.kind \in {"decision", "expression", "end"}
  BY DEF WellRouted, IsCanvas, Nodes, NodeKinds
<1>2. QED
  BY <1>1 DEF Entry, EntryKind

\* What an edge of the translation leads to.
LEMMA EdgeMoves ==
    ASSUME NEW c, WellRouted(c), NEW a, NEW b, Joined(Translate(c), a, b)
    PROVE  /\ b[2] \in {"proc", "switch", "expr", "out"} /\ b \in JdmNodes(c)
           /\ \/ a[2] = "input" /\ a = Input
              \/ a[2] = "proc" /\ b = <<a[1], "switch">>
              \/ a[2] \in {"switch", "expr"} /\ b[2] # "switch" /\ Linked(c, a[1], b[1])
<1>1. PICK i \in DOMAIN Translate(c).edges :
          Translate(c).edges[i].source = a /\ Translate(c).edges[i].target = b
  BY DEF Joined
<1> DEFINE e == Translate(c).edges[i]
<1>2. IsInner(c, e) \/ IsRouting(c, e) \/ IsFirst(c, e)
  BY EdgeCases
<1>3. e.target \in JdmNodes(c)
  BY EdgeCases
<1>4. e.source = a /\ e.target = b
  BY <1>1
<1> HIDE DEF e
<1>5. CASE IsInner(c, e)
  BY <1>3, <1>4, <1>5 DEF IsInner
<1>6. CASE IsRouting(c, e)
  <2>1. PICK k \in RoutingPlaces(c), n \in Nodes(c) :
          /\ n.id = c.edges[k].target /\ n.kind # "start"
          /\ a = <<c.edges[k].source,
                   IF KindOf(c, c.edges[k].source) = "decision" THEN "switch" ELSE "expr">>
          /\ b = Entry(n)
    BY <1>4, <1>6 DEF IsRouting
  <2>2. a[1] = c.edges[k].source /\ a[2] \in {"switch", "expr"}
    BY <2>1
  <2>3. b[1] = c.edges[k].target /\ b[2] \in {"proc", "expr", "out"}
    BY <2>1, EntryCases
  <2>4. Linked(c, c.edges[k].source, c.edges[k].target)
    <3>1. k \in DOMAIN c.edges /\ c.edges[k] \in Range(c.edges)
      BY DEF RoutingPlaces, Range
    <3>2. QED
      BY <3>1 DEF Linked, Resolvable, WellRouted
  <2>5. QED
    BY <1>3, <1>4, <2>2, <2>3, <2>4
<1>7. CASE IsFirst(c, e)
  <2>1. PICK n \in Nodes(c) : n.kind # "start" /\ a = Input /\ b = Entry(n)
    BY <1>4, <1>7 DEF IsFirst
  <2>2. b[2] \in {"proc", "expr", "out"}
    BY <2>1, EntryCases
  <2>3. QED
    BY <1>3, <1>4, <2>1, <2>2 DEF Input
<1>8. QED
  BY <1>2, <1>5, <1>6, <1>7

\* An accepted canvas is walked: its translation has all its nodes, and a cycle
\* in it would be one of the canvas.
LEMMA AcceptedIsWalked ==
    ASSUME NEW c, WellRouted(c)
    PROVE  ~MissingNode(Translate(c)) /\ ~Cyclic(Translate(c))
<1> DEFINE G == Translate(c)
<1>1. G.nodes = JdmNodes(c) /\ IsCanvas(c)
  BY DEF Translate, WellRouted
<1>2. ~MissingNode(G)
  <2>1. SUFFICES ASSUME NEW e \in Range(G.edges) PROVE e.source \in G.nodes /\ e.target \in G.nodes
    BY DEF MissingNode
  <2>2. PICK i \in DOMAIN G.edges : e = G.edges[i]
    BY DEF Range
  <2>3. QED
    BY <1>1, <2>2, EdgeCases
<1>3. IsFiniteSet(G.nodes)
  BY <1>1, JdmFinite
<1>4. SUFFICES ASSUME NEW n \in G.nodes, n \in Descendants(G, n) PROVE FALSE
  BY <1>2 DEF Cyclic
<1>5. n[2] # "input"
  <2> DEFINE B == {m \in G.nodes : m[2] # "input"}
  <2>1. \A m \in G.nodes : Joined(G, n, m) => m \in B
    BY EdgeMoves
  <2>2. \A l \in B, m \in G.nodes : Joined(G, l, m) => m \in B
    BY EdgeMoves
  <2>3. Descendants(G, n) \subseteq B
    <3> HIDE DEF B, G
    <3>1. QED
      BY <1>3, <2>1, <2>2, DescendantsClosed
  <2>4. QED
    BY <1>4, <2>3
<1> DEFINE S == Successors(c, {n[1]})
           R == Reached(c, S)
           B == {m \in G.nodes : m[2] # "input" /\ (m[1] \in R \/ (n[2] = "proc" /\ m = <<n[1], "switch">>))}
<1>6. S \subseteq R /\ \A a \in R : \A b : Linked(c, a, b) => b \in R
  <2>1. S \subseteq Ids(c)
    BY SuccessorsLinked
  <2>2. S \subseteq R /\ Successors(c, R) \subseteq R
    BY <1>1, <2>1, ReachedClosed
  <2>3. QED
    BY <2>2, SuccessorsLinked
<1>7. \A b : Linked(c, n[1], b) => b \in S
  BY SuccessorsLinked
<1>8. n[1] \in Ids(c) /\ n[1] \notin R
  <2>1. n[1] \in Ids(c)
    BY <1>1, <1>5, JdmNodesShape
  <2>2. QED
    BY <2>1 DEF WellRouted, ReachesItself
<1>9. ASSUME NEW m \in G.nodes, Joined(G, n, m) PROVE m \in B
  <2>1. /\ m[2] # "input"
        /\ \/ n[2] = "proc" /\ m = <<n[1], "switch">>
           \/ Linked(c, n[1], m[1])
    BY <1>5, <1>9, EdgeMoves
  <2>2. QED
    BY <1>6, <1>7, <2>1
<1>10. ASSUME NEW l \in B, NEW m \in G.nodes, Joined(G, l, m) PROVE m \in B
  <2>1. /\ m[2] # "input"
        /\ \/ l[2] = "proc" /\ m = <<l[1], "switch">>
           \/ l[2] # "proc" /\ Linked(c, l[1], m[1])
    BY <1>10, EdgeMoves
  <2>2. l[1] \in R \/ (n[2] = "proc" /\ l = <<n[1], "switch">>)
    OBVIOUS
  <2>3. CASE l[2] = "proc"
    <3>1. l[1] \in R
      BY <2>2, <2>3
    <3>2. m[1] = l[1]
      BY <2>1, <2>3
    <3>3. QED
      BY <2>1, <3>1, <3>2
  <2>4. CASE l[2] # "proc" /\ l[1] \in R
    BY <1>6, <2>1, <2>4
  <2>5. CASE l[2] # "proc" /\ l = <<n[1], "switch">>
    <3>1. Linked(c, n[1], m[1])
      BY <2>1, <2>5
    <3>2. QED
      BY <1>6, <1>7, <2>1, <3>1
  <2>6. QED
    BY <2>2, <2>3, <2>4, <2>5
<1>11. Descendants(G, n) \subseteq B
  <2> HIDE DEF B, G
  <2>1. QED
    BY <1>3, <1>9, <1>10, DescendantsClosed
<1>12. n[1] \in R \/ (n[2] = "proc" /\ n = <<n[1], "switch">>)
  BY <1>4, <1>11
<1>13. QED
  BY <1>8, <1>12

-----------------------------------------------------------------------------
(* The routed path in the translated graph *)

\* An edge a request follows: of a switch only the branch taken.
FollowsIn(c, x, e) ==
    e.source[2] = "switch" => e.handle = Decide(NodeById(c, e.source[1]).config, x)
Followed(c, x) == {i \in DOMAIN Translate(c).edges : FollowsIn(c, x, Translate(c).edges[i])}

\* The nodes of the translation that the routed path passes ...
RouteIn(c, x) ==
    {n \in JdmNodes(c) : n = Input \/ (n[2] # "input" /\ n[1] \in Range(RoutedIn(c, x)))}

\* ... and their order.
PosIn(c, x, id) == CHOOSE k \in DOMAIN RoutedIn(c, x) : RoutedIn(c, x)[k] = id
PlaceIn(c, x) ==
    [n \in RouteIn(c, x) |->
        IF n = Input THEN 1 ELSE 2 * PosIn(c, x, n[1]) + (IF n[2] = "switch" THEN 1 ELSE 0)]

\* What a node of the translation stands for.
LEMMA JdmNodeCases ==
    ASSUME NEW c, WellRouted(c), NEW n \in JdmNodes(c), n # Input
    PROVE  /\ n = <<n[1], n[2]>> /\ n[2] # "input" /\ n[1] \in Ids(c)
           /\ KindOf(c, n[1]) \in {"decision", "expression", "end"}
           /\ KindOf(c, n[1]) = "decision" <=> n[2] \in {"proc", "switch"}
           /\ KindOf(c, n[1]) = "expression" <=> n[2] = "expr"
           /\ KindOf(c, n[1]) = "end" <=> n[2] = "out"
<1>1. PICK node \in Nodes(c) : \/ node.kind # "start" /\ n = Entry(node)
                               \/ node.kind = "decision" /\ n = Exit(node)
  BY DEF JdmNodes
<1>2. node.kind # "start"
  BY <1>1
<1>3. \/ n = Entry(node)
      \/ node.kind = "decision" /\ n = <<node.id, "switch">>
  BY <1>1 DEF Exit
<1>4. /\ \/ node.kind = "decision" /\ n \in {<<node.id, "proc">>, <<node.id, "switch">>}
         \/ node.kind = "expression" /\ n = <<node.id, "expr">>
         \/ node.kind = "end" /\ n = <<node.id, "out">>
  BY <1>2, <1>3, EntryCases
<1>5. node.id \in Ids(c) /\ KindOf(c, node.id) = node.kind
  BY NodesNamed
<1>6. QED
  BY <1>4, <1>5

\* The routed path as a list.
IsRoutedList(c, x, s) ==
    /\ Len(s) \in Nat /\ Len(s) >= 1 /\ DOMAIN s = 1..Len(s)
    /\ \A k \in 1..Len(s) : s[k] \in Ids(c) /\ PosIn(c, x, s[k]) = k
    /\ \A k, l \in 1..Len(s) : s[k] = s[l] => k = l
    /\ \A k \in 1..Len(s) : KindOf(c, s[k]) = "start" <=> k = 1
    /\ \A k \in 1..Len(s) : \A b \in ChosenIn(c, x, s[k]) : k + 1 \in 1..Len(s) /\ s[k + 1] = b
    /\ \A k \in 1..Len(s) : k # Len(s) => s[k + 1] \in ChosenIn(c, x, s[k])
    /\ \A id \in Range(s) : PosIn(c, x, id) \in 1..Len(s) /\ s[PosIn(c, x, id)] = id

\* It holds each of its nodes once, each chosen by the one before it.
LEMMA RoutedList ==
    ASSUME NEW c, NEW x, WellRouted(c)
    PROVE  IsRoutedList(c, x, RoutedIn(c, x))
<1> DEFINE s == RoutedIn(c, x)
           m == Len(s)
<1>1. /\ s \in Seq(Ids(c)) /\ m \in 1..Len(c.nodes)
      /\ \E node \in Nodes(c) : node.kind = "start" /\ s[1] = node.id
      /\ \A k \in 1..m - 1 : s[k + 1] \in ChosenIn(c, x, s[k])
      /\ ChosenIn(c, x, Last(s)) = {}
  BY RoutedIsTrail DEF Trail
<1>2. m \in Nat /\ m >= 1 /\ DOMAIN s = 1..m /\ \A k \in 1..m : s[k] \in Ids(c)
  BY <1>1, LenProperties
<1>3. Last(s) = s[m]
  BY DEF Last
<1>4. m <= Len(c.nodes) + 1 /\ m <= Len(c.nodes)
  <2>1. Len(c.nodes) \in Nat
    BY LenProperties DEF WellRouted, IsCanvas
  <2> HIDE DEF m
  <2>2. QED
    BY <1>1, <2>1
<1>5. IsInjective(s)
  BY <1>1, <1>4, TrailOnce
<1>0. \A k : k \in DOMAIN s => (PosIn(c, x, s[k]) \in DOMAIN s /\ s[PosIn(c, x, s[k])] = s[k])
  BY DEF PosIn
<1> HIDE DEF m, s
<1>6. \A k, l \in 1..m : s[k] = s[l] => k = l
  BY <1>2, <1>5 DEF IsInjective
<1>7. \A k \in 1..m : PosIn(c, x, s[k]) = k
  BY <1>0, <1>2, <1>6
<1>8. \A k \in 1..m : k # m => k \in 1..m - 1 /\ k + 1 \in 1..m
  BY <1>2
<1>9. \A k \in 1..m : k # m => s[k + 1] \in ChosenIn(c, x, s[k])
  BY <1>1, <1>8
<1>10. ASSUME NEW k \in 1..m, NEW b \in ChosenIn(c, x, s[k])
       PROVE  k + 1 \in 1..m /\ s[k + 1] = b
  <2>1. k # m
    BY <1>1, <1>3, <1>10
  <2>2. s[k] \in Ids(c)
    BY <1>2
  <2>3. s[k + 1] = b
    BY <1>9, <1>10, <2>1, <2>2, ChosenOnce
  <2>4. QED
    BY <1>8, <2>1, <2>3
<1>11. 1 \in 1..m
  BY <1>2
<1>12. ASSUME NEW k \in 1..m, KindOf(c, s[k]) = "start" PROVE k = 1
  <2>1. PICK node \in Nodes(c) : node.kind = "start" /\ s[1] = node.id
    BY <1>1
  <2>2. NodeById(c, s[k]) \in Nodes(c) /\ NodeById(c, s[k]).id = s[k] /\ NodeById(c, s[k]).kind = "start"
    BY <1>2, <1>12, NodesNamed
  <2>3. NodeById(c, s[k]) = node
    BY <2>1, <2>2 DEF WellRouted
  <2>4. QED
    BY <1>6, <1>11, <2>1, <2>2, <2>3
<1>13. KindOf(c, s[1]) = "start"
  BY <1>1, NodesNamed
<1>14. \A id \in Range(s) : \E k \in 1..m : s[k] = id
  BY <1>2 DEF Range
<1>15. \A k \in 1..m : KindOf(c, s[k]) = "start" <=> k = 1
  BY <1>12, <1>13
<1>16. \A id \in Range(s) : PosIn(c, x, id) \in 1..m /\ s[PosIn(c, x, id)] = id
  BY <1>7, <1>14
<1>17. QED
  BY <1>2, <1>6, <1>7, <1>9, <1>10, <1>15, <1>16, Zenon DEF m, s, IsRoutedList

\* A node on the routed path and its place.
LEMMA RouteNodes ==
    ASSUME NEW c, NEW x, WellRouted(c), NEW n \in RouteIn(c, x), n # Input,
           NEW k, k = PosIn(c, x, n[1]), NEW s, s = RoutedIn(c, x)
    PROVE  /\ k \in 2..Len(s) /\ s[k] = n[1] /\ n \in JdmNodes(c)
           /\ n[2] = "switch" => PlaceIn(c, x)[n] = 2 * k + 1
           /\ n[2] # "switch" => PlaceIn(c, x)[n] = 2 * k
<1>1. n \in JdmNodes(c) /\ n[1] \in Range(s)
  BY DEF RouteIn
<1>2. k \in 1..Len(s) /\ s[k] = n[1] /\ Len(s) \in Nat
  BY <1>1, RoutedList DEF IsRoutedList
<1>3. k # 1
  BY <1>1, <1>2, JdmNodeCases, RoutedList DEF IsRoutedList
<1>4. k \in 2..Len(s)
  BY <1>2, <1>3
<1>5. PlaceIn(c, x)[n] = 2 * k + (IF n[2] = "switch" THEN 1 ELSE 0)
  BY DEF PlaceIn
<1>6. QED
  BY <1>1, <1>2, <1>4, <1>5

\* Where a request goes on from a node.
LEMMA FollowedMoves ==
    ASSUME NEW c, NEW x, WellRouted(c), NEW i \in Followed(c, x),
           NEW a, a = Translate(c).edges[i].source, NEW b, b = Translate(c).edges[i].target
    PROVE  /\ a \in JdmNodes(c) /\ b \in JdmNodes(c)
           /\ \/ \E start \in Nodes(c), n \in Nodes(c) :
                    /\ start.kind = "start" /\ n.kind # "start" /\ a = Input /\ b = Entry(n)
                    /\ n.id \in ChosenIn(c, x, start.id)
              \/ \E id \in Ids(c) : a = <<id, "proc">> /\ b = <<id, "switch">>
              \/ \E id \in Ids(c), n \in Nodes(c) :
                    /\ a \in {<<id, "switch">>, <<id, "expr">>} /\ b = Entry(n) /\ n.kind # "start"
                    /\ n.id \in ChosenIn(c, x, id)
<1> DEFINE e == Translate(c).edges[i]
<1>1. i \in DOMAIN Translate(c).edges /\ FollowsIn(c, x, e)
  BY DEF Followed
<1>2. /\ IsInner(c, e) \/ IsRouting(c, e) \/ IsFirst(c, e)
      /\ e.source \in JdmNodes(c) /\ e.target \in JdmNodes(c)
  BY <1>1, EdgeCases
<1>3. a = e.source /\ b = e.target
  OBVIOUS
<1> HIDE DEF e
<1>4. ASSUME IsInner(c, e)
      PROVE  \E id \in Ids(c) : a = <<id, "proc">> /\ b = <<id, "switch">>
  BY <1>3, <1>4 DEF IsInner, DecisionsOf, Ids
<1>5. ASSUME IsRouting(c, e)
      PROVE  \E id \in Ids(c), n \in Nodes(c) :
                    /\ a \in {<<id, "switch">>, <<id, "expr">>} /\ b = Entry(n) /\ n.kind # "start"
                    /\ n.id \in ChosenIn(c, x, id)
  <2>1. PICK k \in RoutingPlaces(c), n \in Nodes(c) :
          /\ n.id = c.edges[k].target /\ n.kind # "start"
          /\ a = <<c.edges[k].source,
                   IF KindOf(c, c.edges[k].source) = "decision" THEN "switch" ELSE "expr">>
          /\ b = Entry(n)
          /\ KindOf(c, c.edges[k].source) = "decision" => e.handle = c.edges[k].branch
    BY <1>3, <1>5 DEF IsRouting
  <2> DEFINE id == c.edges[k].source
  <2>2. c.edges[k] \in Range(c.edges) /\ id \in Ids(c)
    BY DEF RoutingPlaces, Range, WellRouted
  <2>3. KindOf(c, id) = "decision" => c.edges[k].branch = Decide(NodeById(c, id).config, x)
    <3>1. SUFFICES ASSUME KindOf(c, id) = "decision"
                   PROVE  c.edges[k].branch = Decide(NodeById(c, id).config, x)
      OBVIOUS
    <3>2. a[1] = id /\ a[2] = "switch" /\ e.handle = c.edges[k].branch
      BY <2>1, <3>1
    <3>3. QED
      BY <1>1, <1>3, <3>2 DEF FollowsIn
  <2>4. n.id \in ChosenIn(c, x, id)
    BY <2>1, <2>2, <2>3 DEF ChosenIn
  <2>5. a \in {<<id, "switch">>, <<id, "expr">>}
    BY <2>1
  <2>6. QED
    BY <2>1, <2>2, <2>4, <2>5
<1>6. ASSUME IsFirst(c, e)
      PROVE  \E start \in Nodes(c), n \in Nodes(c) :
                    /\ start.kind = "start" /\ n.kind # "start" /\ a = Input /\ b = Entry(n)
                    /\ n.id \in ChosenIn(c, x, start.id)
  <2>1. PICK start \in Nodes(c) : start.kind = "start"
    BY DEF WellRouted
  <2>2. PICK n \in StartSuccessor(c) :
            n \in Nodes(c) /\ n.kind # "start" /\ a = Input /\ b = Entry(n)
    BY <1>3, <1>6 DEF IsFirst
  <2>3. n.id \in ChosenIn(c, x, start.id)
    BY <2>1, <2>2, StartLeads
  <2>4. QED
    BY <2>1, <2>2, <2>3
<1>7. QED
  BY <1>2, <1>3, <1>4, <1>5, <1>6

\* A request goes on wherever the processors' answers lead.
LEMMA FollowedEdge ==
    ASSUME NEW c, NEW x, WellRouted(c), NEW e, FollowsIn(c, x, e),
           \/ \E d \in DecisionsOf(c) : e = Inner(d)
           \/ \E k \in RoutingPlaces(c) : e = RoutingEdge(c, c.edges[k])
           \/ \E n \in StartSuccessor(c) : e = First(n)
    PROVE  \E i \in Followed(c, x) : Translate(c).edges[i] = e
<1>1. Range(Translate(c).edges) = {Inner(d) : d \in DecisionsOf(c)}
                    \union {RoutingEdge(c, c.edges[k]) : k \in RoutingPlaces(c)}
                    \union {First(n) : n \in StartSuccessor(c)}
  BY TranslatedEdges
<1>2. e \in Range(Translate(c).edges)
  BY <1>1
<1>3. PICK i \in DOMAIN Translate(c).edges : Translate(c).edges[i] = e
  BY <1>2 DEF Range
<1>4. QED
  BY <1>3 DEF Followed

\* The start of the canvas is followed from the input.
LEMMA FirstFollowed ==
    ASSUME NEW c, NEW x, WellRouted(c), NEW start \in Nodes(c), start.kind = "start",
           NEW n \in Nodes(c), n.id \in ChosenIn(c, x, start.id)
    PROVE  \E i \in Followed(c, x) : /\ Translate(c).edges[i].source = Input
                                     /\ Translate(c).edges[i].target = Entry(n)
<1>1. n \in StartSuccessor(c)
  BY StartLeads
<1>2. First(n).source = Input /\ First(n).target = Entry(n)
  BY <1>1, EdgeShape
<1>3. FollowsIn(c, x, First(n))
  BY <1>2 DEF FollowsIn, Input
<1>4. PICK i \in Followed(c, x) : Translate(c).edges[i] = First(n)
  BY <1>1, <1>3, FollowedEdge
<1>5. QED
  BY <1>2, <1>4

\* The processor of a decision leads to its switch.
LEMMA InnerFollowed ==
    ASSUME NEW c, NEW x, WellRouted(c), NEW id \in Ids(c), KindOf(c, id) = "decision"
    PROVE  \E i \in Followed(c, x) : /\ Translate(c).edges[i].source = <<id, "proc">>
                                     /\ Translate(c).edges[i].target = <<id, "switch">>
<1>1. PICK d \in DecisionsOf(c) : d.id = id
  BY NodesNamed DEF DecisionsOf
<1>2. Inner(d).source = <<id, "proc">> /\ Inner(d).target = <<id, "switch">>
  BY <1>1, EdgeShape
<1>3. FollowsIn(c, x, Inner(d))
  BY <1>2 DEF FollowsIn
<1>4. PICK i \in Followed(c, x) : Translate(c).edges[i] = Inner(d)
  BY <1>3, FollowedEdge
<1>5. QED
  BY <1>2, <1>4

\* The edge a decision chooses, or an expression has, is followed.
LEMMA ChosenFollowed ==
    ASSUME NEW c, NEW x, WellRouted(c), NEW id \in Ids(c), NEW n \in Nodes(c),
           KindOf(c, id) \in {"decision", "expression"}, n.id \in ChosenIn(c, x, id),
           NEW a, a = <<id, IF KindOf(c, id) = "decision" THEN "switch" ELSE "expr">>
    PROVE  \E i \in Followed(c, x) : Translate(c).edges[i].source = a /\ Translate(c).edges[i].target = Entry(n)
<1>1. PICK k \in DOMAIN c.edges :
          /\ c.edges[k].source = id /\ c.edges[k].target = n.id
          /\ KindOf(c, id) = "decision" => c.edges[k].branch = Decide(NodeById(c, id).config, x)
  BY DEF ChosenIn, Range
<1>2. k \in RoutingPlaces(c)
  BY <1>1 DEF RoutingPlaces
<1>3. NodeById(c, n.id) = n
  BY NodesNamed
<1> DEFINE e == c.edges[k]
           r == RoutingEdge(c, e)
<1>4. /\ r.source = <<e.source, IF KindOf(c, e.source) = "decision" THEN "switch" ELSE "expr">>
      /\ KindOf(c, e.source) = "decision" => r.handle = e.branch
      /\ r.target = Entry(NodeById(c, e.target))
  BY <1>2, EdgeShape
<1>5. \E j \in RoutingPlaces(c) : r = RoutingEdge(c, c.edges[j])
  BY <1>2
<1> HIDE DEF r
<1>6. r.source = a /\ r.target = Entry(n) /\ (KindOf(c, id) = "decision" => r.handle = e.branch)
  BY <1>1, <1>3, <1>4
<1>7. FollowsIn(c, x, r)
  <2>1. CASE KindOf(c, id) = "decision"
    BY <1>1, <1>6, <2>1 DEF FollowsIn
  <2>2. CASE KindOf(c, id) # "decision"
    BY <1>6, <2>2 DEF FollowsIn
  <2>3. QED
    BY <2>1, <2>2
<1>8. PICK i \in Followed(c, x) : Translate(c).edges[i] = r
  BY <1>5, <1>7, FollowedEdge
<1>9. QED
  BY <1>6, <1>8

-----------------------------------------------------------------------------
(* A path through a graph *)

\* R is a path through the graph: W are the edges a request follows, and P
\* numbers the nodes of R in their order.
Routes(graph, R, P, W) ==
    /\ R \subseteq graph.nodes /\ Input \in R
    /\ P \in [R -> Nat] /\ \A n \in R : P[Input] <= P[n]
    /\ W \subseteq DOMAIN graph.edges
    /\ \A i \in DOMAIN graph.edges :
          /\ graph.edges[i].source[2] # "switch" => i \in W
          /\ graph.edges[i].source[2] # "out"
    /\ \A i, j \in W : graph.edges[i].source = graph.edges[j].source => i = j
    /\ \A i \in W : graph.edges[i].source \in R => graph.edges[i].target \in R
    /\ \A n \in R \ {Input} : \E i \in W :
          /\ graph.edges[i].target = n /\ graph.edges[i].source \in R
          /\ P[graph.edges[i].source] < P[n]
          /\ \A m \in R : P[m] < P[n] => P[m] <= P[graph.edges[i].source]
    /\ \A m, n \in R : P[m] = P[n] => m = n
    /\ \A n \in R : (\A i \in W : graph.edges[i].source # n) => \A m \in R : P[m] <= P[n]

\* What follows a node on the routed path.
LEMMA RouteGoesOn ==
    ASSUME NEW c, NEW x, WellRouted(c), NEW i \in Followed(c, x),
           Translate(c).edges[i].source \in RouteIn(c, x)
    PROVE  Translate(c).edges[i].target \in RouteIn(c, x)
<1> DEFINE a == Translate(c).edges[i].source
           b == Translate(c).edges[i].target
           s == RoutedIn(c, x)
<1>1. /\ a \in JdmNodes(c) /\ b \in JdmNodes(c) /\ a \in RouteIn(c, x)
      /\ \/ \E start \in Nodes(c), n \in Nodes(c) :
               /\ start.kind = "start" /\ n.kind # "start" /\ a = Input /\ b = Entry(n)
               /\ n.id \in ChosenIn(c, x, start.id)
         \/ \E id \in Ids(c) : a = <<id, "proc">> /\ b = <<id, "switch">>
         \/ \E id \in Ids(c), n \in Nodes(c) :
               /\ a \in {<<id, "switch">>, <<id, "expr">>} /\ b = Entry(n) /\ n.kind # "start"
               /\ n.id \in ChosenIn(c, x, id)
  BY FollowedMoves
<1> HIDE DEF a, b
<1>2. a = Input \/ a[1] \in Range(s)
  BY <1>1 DEF RouteIn
<1>3. ASSUME NEW id \in Range(s), NEW t \in ChosenIn(c, x, id) PROVE t \in Range(s)
  <2>1. PICK k \in 1..Len(s) : s[k] = id
    BY RoutedList DEF IsRoutedList, Range
  <2>2. t \in ChosenIn(c, x, s[k])
    BY <1>3, <2>1
  <2>3. DOMAIN s = 1..Len(s)
    BY RoutedList DEF IsRoutedList
  <2>5. \A j \in 1..Len(s) : \A r \in ChosenIn(c, x, s[j]) : j + 1 \in 1..Len(s) /\ s[j + 1] = r
    BY RoutedList DEF IsRoutedList
  <2> HIDE DEF s
  <2>6. QED
    BY <2>1, <2>2, <2>3, <2>5 DEF Range
<1>4. ASSUME NEW start \in Nodes(c), start.kind = "start" PROVE start.id \in Range(s)
  <2>1. 1 \in DOMAIN s /\ s[1] \in Ids(c) /\ KindOf(c, s[1]) = "start"
    BY RoutedList DEF IsRoutedList
  <2>2. s[1] = start.id
    BY <1>4, <2>1, NodesNamed DEF WellRouted
  <2>3. QED
    BY <2>1, <2>2 DEF Range
<1>5. CASE \E start \in Nodes(c), n \in Nodes(c) :
               /\ start.kind = "start" /\ n.kind # "start" /\ a = Input /\ b = Entry(n)
               /\ n.id \in ChosenIn(c, x, start.id)
  <2>1. PICK n \in Nodes(c) : n.kind # "start" /\ b = Entry(n) /\ n.id \in Range(s)
    BY <1>3, <1>4, <1>5
  <2>2. b[1] = n.id /\ b[2] # "input"
    BY <2>1, EntryCases
  <2>3. QED
    BY <1>1, <2>1, <2>2 DEF RouteIn, b
<1>6. CASE \E id \in Ids(c) : a = <<id, "proc">> /\ b = <<id, "switch">>
  <2>1. a # Input /\ a[1] = b[1] /\ b[2] # "input"
    BY <1>6 DEF Input
  <2>2. QED
    BY <1>1, <1>2, <2>1 DEF RouteIn, b
<1>7. CASE \E id \in Ids(c), n \in Nodes(c) :
               /\ a \in {<<id, "switch">>, <<id, "expr">>} /\ b = Entry(n) /\ n.kind # "start"
               /\ n.id \in ChosenIn(c, x, id)
  <2>1. PICK id \in Ids(c), n \in Nodes(c) :
               /\ a \in {<<id, "switch">>, <<id, "expr">>} /\ b = Entry(n) /\ n.kind # "start"
               /\ n.id \in ChosenIn(c, x, id)
    BY <1>7
  <2>2. a # Input /\ a[1] = id
    BY <2>1 DEF Input
  <2>3. n.id \in Range(s)
    BY <1>2, <1>3, <2>1, <2>2
  <2>4. b[1] = n.id /\ b[2] # "input"
    BY <2>1, EntryCases
  <2>5. QED
    BY <1>1, <2>3, <2>4 DEF RouteIn, b
<1>8. QED
  BY <1>1, <1>5, <1>6, <1>7 DEF b

\* What comes before a node on the routed path.
LEMMA RouteComesFrom ==
    ASSUME NEW c, NEW x, WellRouted(c), NEW n \in RouteIn(c, x), n # Input,
           NEW P, P = PlaceIn(c, x)
    PROVE  \E i \in Followed(c, x) :
              /\ Translate(c).edges[i].target = n /\ Translate(c).edges[i].source \in RouteIn(c, x)
              /\ P[Translate(c).edges[i].source] < P[n]
              /\ \A m \in RouteIn(c, x) : P[m] < P[n] => P[m] <= P[Translate(c).edges[i].source]
<1> DEFINE s == RoutedIn(c, x)
           k == PosIn(c, x, n[1])
           R == RouteIn(c, x)
           es == Translate(c).edges
<1>1. /\ k \in 2..Len(s) /\ s[k] = n[1] /\ n \in JdmNodes(c)
      /\ n[2] = "switch" => P[n] = 2 * k + 1
      /\ n[2] # "switch" => P[n] = 2 * k
  BY RouteNodes
<1>2. /\ Len(s) \in Nat /\ DOMAIN s = 1..Len(s)
      /\ \A l \in 1..Len(s) : s[l] \in Ids(c) /\ PosIn(c, x, s[l]) = l
      /\ \A l \in 1..Len(s) : l # Len(s) => s[l + 1] \in ChosenIn(c, x, s[l])
      /\ \A l \in 1..Len(s) : KindOf(c, s[l]) = "start" <=> l = 1
  BY RoutedList DEF IsRoutedList
<1>3. /\ n = <<n[1], n[2]>> /\ n[1] \in Ids(c)
      /\ KindOf(c, n[1]) \in {"decision", "expression", "end"}
      /\ KindOf(c, n[1]) = "decision" <=> n[2] \in {"proc", "switch"}
      /\ KindOf(c, n[1]) = "expression" <=> n[2] = "expr"
      /\ KindOf(c, n[1]) = "end" <=> n[2] = "out"
  BY <1>1, JdmNodeCases
<1>4. P[Input] = 1 /\ Input \in R
  <2>1. Input \in R
    BY DEF RouteIn, JdmNodes
  <2>2. QED
    BY <2>1 DEF PlaceIn
<1>5. \A m \in R : \/ m = Input
                   \/ /\ PosIn(c, x, m[1]) \in 2..Len(s) /\ s[PosIn(c, x, m[1])] = m[1] /\ m \in JdmNodes(c)
                      /\ m[2] = "switch" => P[m] = 2 * PosIn(c, x, m[1]) + 1
                      /\ m[2] # "switch" => P[m] = 2 * PosIn(c, x, m[1])
  BY RouteNodes
<1> HIDE DEF s, k, R
<1>9. /\ \A m \in R : P[m] \in Nat
      /\ \A m \in R : m # Input => P[m] >= 4
      /\ k \in Nat /\ k >= 2
  <2>0. Len(s) \in Nat
    BY <1>2
  <2>1. \A p \in 2..Len(s) : p \in Nat /\ p >= 2
    BY <2>0
  <2>2. ASSUME NEW m \in R, m # Input PROVE P[m] \in Nat /\ P[m] >= 4
    <3> DEFINE p == PosIn(c, x, m[1])
    <3>1. p \in 2..Len(s) /\ P[m] \in {2 * p, 2 * p + 1}
      BY <1>5, <2>2
    <3> HIDE DEF p
    <3>2. p \in Nat /\ p >= 2
      BY <2>1, <3>1
    <3>3. QED
      BY <3>1, <3>2
  <2>3. QED
    BY <1>1, <1>4, <2>1, <2>2
<1>6. CASE n[2] = "switch"
  <2>0. KindOf(c, n[1]) = "decision" /\ n[1] \in Ids(c)
    BY <1>3, <1>6
  <2>1. PICK i \in Followed(c, x) : es[i].source = <<n[1], "proc">> /\ es[i].target = <<n[1], "switch">>
    BY <2>0, InnerFollowed, ZenonT(30)
  <2> DEFINE a == <<n[1], "proc">>
  <2>2. a \in R /\ a # Input /\ a[1] = n[1] /\ a[2] = "proc"
    <3>1. a \in JdmNodes(c)
      BY <2>1, FollowedMoves
    <3>2. n[1] \in Range(s)
      BY <1>6 DEF RouteIn, Input, s
    <3>3. QED
      BY <3>1, <3>2 DEF RouteIn, R, s, Input
  <2>3. P[a] = 2 * k /\ P[n] = 2 * k + 1
    BY <1>1, <1>4, <1>5, <1>6, <2>2 DEF k
  <2>4. \A m \in R : P[m] < P[n] => P[m] <= P[a]
    <3> HIDE DEF a
    <3>1. QED
      BY <1>9, <2>3
  <2>5. es[i].source = a /\ es[i].target = n
    BY <1>3, <1>6, <2>1
  <2> HIDE DEF a, es
  <2>6. P[a] < P[n]
    BY <1>9, <2>3
  <2>7. /\ es[i].target = n /\ es[i].source \in R /\ P[es[i].source] < P[n]
        /\ \A m \in R : P[m] < P[n] => P[m] <= P[es[i].source]
    BY <2>2, <2>4, <2>5, <2>6
  <2>8. QED
    BY <2>7 DEF R, es
<1>7. CASE n[2] # "switch"
  <2> DEFINE l == k - 1
  <2>1. l \in 1..Len(s) /\ l # Len(s) /\ l + 1 = k /\ P[n] = 2 * l + 2 /\ l \in Nat
    <3>1. k \in 2..Len(s) /\ P[n] = 2 * k /\ Len(s) \in Nat /\ k \in Nat
      BY <1>1, <1>2, <1>7, <1>9
    <3>2. QED
      BY <3>1
  <2>2. n[1] \in ChosenIn(c, x, s[l]) /\ s[l] \in Ids(c)
    BY <1>1, <1>2, <2>1
  <2>3. PICK node \in Nodes(c) : node.id = n[1] /\ node.kind = KindOf(c, n[1])
    BY <1>3, NodesNamed
  <2>4. Entry(node) = n
    <3>1. /\ node.kind # "start"
          /\ node.kind = "decision" => n[2] = "proc"
          /\ node.kind = "expression" => n[2] = "expr"
          /\ node.kind = "end" => n[2] = "out"
          /\ node.kind \in {"decision", "expression", "end"}
      BY <1>3, <1>7, <2>3
    <3>2. QED
      BY <1>3, <2>3, <3>1, EntryCases
  <2>5. CASE l = 1
    <3>1. PICK start \in Nodes(c) : start.id = s[l] /\ start.kind = "start"
      <4>1. KindOf(c, s[l]) = "start" /\ s[l] \in Ids(c)
        BY <1>2, <2>1, <2>2, <2>5
      <4>2. QED
        BY <4>1, NodesNamed
    <3>2. PICK i \in Followed(c, x) : es[i].source = Input /\ es[i].target = n
      <4>1. node.id \in ChosenIn(c, x, start.id)
        BY <2>2, <2>3, <3>1
      <4>2. \E i \in Followed(c, x) : es[i].source = Input /\ es[i].target = Entry(node)
        BY <3>1, <4>1, FirstFollowed
      <4>3. QED
        BY <2>4, <4>2
    <3>3. \A m \in R : P[m] < P[n] => P[m] <= P[Input]
      <4>1. P[n] = 4
        BY <2>1, <2>5
      <4>2. QED
        BY <1>4, <1>9, <4>1
    <3>4. P[Input] < P[n]
      BY <1>4, <2>1, <2>5
    <3> HIDE DEF es
    <3>5. /\ es[i].target = n /\ es[i].source \in R /\ P[es[i].source] < P[n]
          /\ \A m \in R : P[m] < P[n] => P[m] <= P[es[i].source]
      BY <1>4, <3>2, <3>3, <3>4
    <3>6. QED
      BY <3>5 DEF R, es
  <2>6. CASE l # 1
    <3>1. KindOf(c, s[l]) \in {"decision", "expression"}
      <4>1. KindOf(c, s[l]) \in NodeKinds /\ KindOf(c, s[l]) # "start"
        BY <1>2, <2>1, <2>2, <2>6, NodesNamed
      <4>2. KindOf(c, s[l]) # "end"
        BY <2>2, ChosenOnce
      <4>3. QED
        BY <4>1, <4>2 DEF NodeKinds
    <3> DEFINE a == <<s[l], IF KindOf(c, s[l]) = "decision" THEN "switch" ELSE "expr">>
    <3>2. PICK i \in Followed(c, x) : es[i].source = a /\ es[i].target = n
      <4>1. node.id \in ChosenIn(c, x, s[l]) /\ s[l] \in Ids(c)
        BY <2>2, <2>3
      <4>2. ASSUME NEW b, b = a
            PROVE  \E i \in Followed(c, x) : es[i].source = b /\ es[i].target = Entry(node)
        BY <3>1, <4>1, <4>2, ChosenFollowed
      <4> HIDE DEF a
      <4>3. QED
        BY <2>4, <4>2
    <3>3. a \in R /\ a # Input /\ a[1] = s[l] /\ PosIn(c, x, a[1]) = l
      <4>1. a \in JdmNodes(c)
        BY <3>2, FollowedMoves
      <4>2. s[l] \in Range(s)
        BY <1>2, <2>1 DEF Range
      <4>3. QED
        BY <1>2, <2>1, <4>1, <4>2 DEF RouteIn, R, s, Input
    <3>4. CASE KindOf(c, s[l]) = "decision"
      <4>1. P[a] = 2 * l + 1
        BY <1>5, <3>3, <3>4
      <4>2. P[a] < P[n] /\ \A m \in R : P[m] < P[n] => P[m] <= P[a]
        <5> HIDE DEF a, l
        <5>1. QED
          BY <1>9, <2>1, <4>1
      <4> HIDE DEF a, es
      <4>3. /\ es[i].target = n /\ es[i].source \in R /\ P[es[i].source] < P[n]
            /\ \A m \in R : P[m] < P[n] => P[m] <= P[es[i].source]
        BY <3>2, <3>3, <4>2
      <4>4. QED
        BY <4>3 DEF R, es
    <3>5. CASE KindOf(c, s[l]) = "expression"
      <4>1. P[a] = 2 * l
        BY <1>5, <3>3, <3>5
      <4>2. \A m \in R : P[m] # 2 * l + 1
        <5>1. SUFFICES ASSUME NEW m \in R, P[m] = 2 * l + 1 PROVE FALSE
          OBVIOUS
        <5>2. m # Input
          <6>1. \A j \in Nat : j # 0 => 2 * j + 1 # 1
            OBVIOUS
          <6>2. l # 0
            BY <2>1
          <6> HIDE DEF l
          <6>3. QED
            BY <1>4, <2>1, <5>1, <6>1, <6>2
        <5>3. m[2] = "switch" /\ PosIn(c, x, m[1]) = l /\ m \in JdmNodes(c)
          <6> DEFINE p == PosIn(c, x, m[1])
          <6>1. p \in 2..Len(s) /\ m \in JdmNodes(c)
                /\ (m[2] = "switch" => P[m] = 2 * p + 1) /\ (m[2] # "switch" => P[m] = 2 * p)
            BY <1>5, <5>2
          <6> HIDE DEF p, l
          <6>2. p \in Nat
            BY <1>2, <6>1
          <6>3. m[2] = "switch" /\ p = l
            BY <2>1, <5>1, <6>1, <6>2
          <6>4. QED
            BY <6>1, <6>3 DEF p
        <5>4. m[1] = s[l]
          BY <1>5, <5>2, <5>3
        <5>5. KindOf(c, m[1]) = "decision"
          BY <5>2, <5>3, JdmNodeCases
        <5>6. QED
          BY <3>5, <5>4, <5>5
      <4>3. P[a] < P[n] /\ \A m \in R : P[m] < P[n] => P[m] <= P[a]
        <5> HIDE DEF a, l
        <5>1. QED
          BY <1>9, <2>1, <4>1, <4>2
      <4> HIDE DEF a, es
      <4>4. /\ es[i].target = n /\ es[i].source \in R /\ P[es[i].source] < P[n]
            /\ \A m \in R : P[m] < P[n] => P[m] <= P[es[i].source]
        BY <3>2, <3>3, <4>3
      <4>5. QED
        BY <4>4 DEF R, es
    <3>6. QED
      BY <3>1, <3>4, <3>5
  <2>7. QED
    BY <2>5, <2>6
<1>8. QED
  BY <1>6, <1>7

\* The three kinds of edges leave from different kinds of nodes.
LEMMA EdgeForms ==
    ASSUME NEW c, WellRouted(c), NEW i \in DOMAIN Translate(c).edges,
           NEW e, e = Translate(c).edges[i]
    PROVE  \/ e.source[2] = "proc" /\ \E d \in DecisionsOf(c) : e = Inner(d) /\ e.source[1] = d.id
           \/ /\ e.source[2] \in {"switch", "expr"}
              /\ \E k \in RoutingPlaces(c) :
                    /\ e = RoutingEdge(c, c.edges[k]) /\ e.source[1] = c.edges[k].source
                    /\ e.source[2] = "switch" =>
                          KindOf(c, c.edges[k].source) = "decision" /\ e.handle = c.edges[k].branch
                    /\ e.source[2] = "expr" => KindOf(c, c.edges[k].source) = "expression"
           \/ e.source[2] = "input" /\ \E n \in StartSuccessor(c) : e = First(n)
<1>1. e \in Range(Translate(c).edges)
  BY DEF Range
<1>2. e \in {Inner(d) : d \in DecisionsOf(c)}
             \union {RoutingEdge(c, c.edges[k]) : k \in RoutingPlaces(c)}
             \union {First(n) : n \in StartSuccessor(c)}
  BY <1>1, TranslatedEdges, Zenon
<1>3. ASSUME NEW d \in DecisionsOf(c), e = Inner(d)
      PROVE  e.source[2] = "proc" /\ e.source[1] = d.id
  BY <1>3, EdgeShape
<1>4. ASSUME NEW k \in RoutingPlaces(c), e = RoutingEdge(c, c.edges[k])
      PROVE  /\ e.source[2] \in {"switch", "expr"} /\ e.source[1] = c.edges[k].source
             /\ e.source[2] = "switch" =>
                   KindOf(c, c.edges[k].source) = "decision" /\ e.handle = c.edges[k].branch
             /\ e.source[2] = "expr" => KindOf(c, c.edges[k].source) = "expression"
  <2>1. /\ e.source = <<c.edges[k].source,
                        IF KindOf(c, c.edges[k].source) = "decision" THEN "switch" ELSE "expr">>
        /\ KindOf(c, c.edges[k].source) = "decision" => e.handle = c.edges[k].branch
    BY <1>4, EdgeShape
  <2>2. KindOf(c, c.edges[k].source) \in {"decision", "expression"}
    BY DEF RoutingPlaces
  <2>3. QED
    BY <2>1, <2>2
<1>5. ASSUME NEW n \in StartSuccessor(c), e = First(n) PROVE e.source[2] = "input"
  BY <1>5, EdgeShape DEF Input
<1>6. QED
  BY <1>2, <1>3, <1>4, <1>5

\* A request follows one edge from a node at most.
LEMMA FollowedOnce ==
    ASSUME NEW c, NEW x, WellRouted(c), NEW i \in Followed(c, x), NEW j \in Followed(c, x),
           Translate(c).edges[i].source = Translate(c).edges[j].source
    PROVE  i = j
<1> DEFINE e == Translate(c).edges[i]
           f == Translate(c).edges[j]
<1>1. /\ i \in DOMAIN Translate(c).edges /\ FollowsIn(c, x, e)
      /\ j \in DOMAIN Translate(c).edges /\ FollowsIn(c, x, f)
      /\ e.source = f.source
  BY DEF Followed
<1>2. ASSUME e = f PROVE i = j
  BY <1>1, <1>2, TranslatedEdges DEF IsInjective
<1> HIDE DEF e, f
<1>3. CASE e.source[2] = "proc"
  <2>1. PICK d \in DecisionsOf(c) : e = Inner(d) /\ e.source[1] = d.id
    BY <1>1, <1>3, EdgeForms DEF e
  <2>2. PICK d2 \in DecisionsOf(c) : f = Inner(d2) /\ f.source[1] = d2.id
    BY <1>1, <1>3, EdgeForms DEF f
  <2>3. d = d2
    BY <1>1, <2>1, <2>2, NodesNamed DEF DecisionsOf
  <2>4. QED
    BY <1>2, <2>1, <2>2, <2>3
<1>4. CASE e.source[2] \in {"switch", "expr"}
  <2>1. PICK k \in RoutingPlaces(c) :
                    /\ e = RoutingEdge(c, c.edges[k]) /\ e.source[1] = c.edges[k].source
                    /\ e.source[2] = "switch" =>
                          KindOf(c, c.edges[k].source) = "decision" /\ e.handle = c.edges[k].branch
                    /\ e.source[2] = "expr" => KindOf(c, c.edges[k].source) = "expression"
    BY <1>1, <1>4, EdgeForms DEF e
  <2>2. PICK l \in RoutingPlaces(c) :
                    /\ f = RoutingEdge(c, c.edges[l]) /\ f.source[1] = c.edges[l].source
                    /\ f.source[2] = "switch" =>
                          KindOf(c, c.edges[l].source) = "decision" /\ f.handle = c.edges[l].branch
                    /\ f.source[2] = "expr" => KindOf(c, c.edges[l].source) = "expression"
    BY <1>1, <1>4, EdgeForms DEF f
  <2>3. k \in DOMAIN c.edges /\ l \in DOMAIN c.edges /\ c.edges[k].source = c.edges[l].source
    BY <1>1, <2>1, <2>2 DEF RoutingPlaces
  <2>4. CASE e.source[2] = "switch"
    <3>1. e.handle = f.handle
      BY <1>1, <2>4 DEF FollowsIn
    <3>2. c.edges[k].branch = c.edges[l].branch /\ KindOf(c, c.edges[k].source) = "decision"
      BY <1>1, <2>1, <2>2, <2>4, <3>1
    <3>3. k = l
      BY <2>3, <3>2 DEF WellRouted
    <3>4. QED
      BY <1>2, <2>1, <2>2, <3>3
  <2>5. CASE e.source[2] = "expr"
    <3>1. c.edges[k].source \in Ids(c) /\ KindOf(c, c.edges[k].source) = "expression"
      BY <2>1, <2>3, <2>5 DEF WellRouted, Range
    <3>2. PICK n \in Nodes(c) : n.id = c.edges[k].source /\ n.kind = "expression"
      BY <3>1, NodesNamed
    <3>3. k = l
      BY <2>3, <3>2 DEF WellRouted
    <3>4. QED
      BY <1>2, <2>1, <2>2, <3>3
  <2>6. QED
    BY <1>4, <2>4, <2>5
<1>5. CASE e.source[2] = "input"
  <2>1. PICK n \in StartSuccessor(c) : e = First(n)
    BY <1>1, <1>5, EdgeForms DEF e
  <2>2. PICK m \in StartSuccessor(c) : f = First(m)
    BY <1>1, <1>5, EdgeForms DEF f
  <2>3. n = m
    <3>1. PICK start \in Nodes(c) : start.kind = "start"
      BY DEF WellRouted
    <3>2. QED
      BY <3>1, StartLeads
  <2>4. QED
    BY <1>2, <2>1, <2>2, <2>3
<1>6. QED
  BY <1>1, <1>3, <1>4, <1>5, EdgeForms DEF e

\* The routed path of an accepted canvas is a path of its translation.
LEMMA RoutesHold ==
    ASSUME NEW c, NEW x, WellRouted(c)
    PROVE  Routes(Translate(c), RouteIn(c, x), PlaceIn(c, x), Followed(c, x))
<1> DEFINE s == RoutedIn(c, x)
           R == RouteIn(c, x)
           P == PlaceIn(c, x)
           W == Followed(c, x)
           G == Translate(c)
           pos(n) == PosIn(c, x, n[1])
<1>1. IsRoutedList(c, x, s)
  BY RoutedList
<1>2. /\ Len(s) \in Nat /\ \A k \in 2..Len(s) : k \in Nat /\ k >= 2
  <2>1. Len(s) \in Nat
    BY <1>1 DEF IsRoutedList
  <2>2. QED
    BY <2>1
<1>3. P[Input] = 1 /\ Input \in R /\ R \subseteq G.nodes
  <2>1. Input \in R /\ R \subseteq G.nodes
    BY DEF RouteIn, JdmNodes, Translate
  <2>2. QED
    BY <2>1 DEF PlaceIn
<1>4. ASSUME NEW n \in R, n # Input
      PROVE  /\ pos(n) \in Nat /\ pos(n) >= 2 /\ pos(n) <= Len(s) /\ pos(n) \in 1..Len(s)
             /\ s[pos(n)] = n[1] /\ n \in JdmNodes(c)
             /\ P[n] = 2 * pos(n) + (IF n[2] = "switch" THEN 1 ELSE 0)
             /\ n = <<n[1], n[2]>> /\ n[1] \in Ids(c)
             /\ KindOf(c, n[1]) \in {"decision", "expression", "end"}
             /\ KindOf(c, n[1]) = "decision" <=> n[2] \in {"proc", "switch"}
             /\ KindOf(c, n[1]) = "expression" <=> n[2] = "expr"
             /\ KindOf(c, n[1]) = "end" <=> n[2] = "out"
  <2>1. pos(n) \in 2..Len(s) /\ s[pos(n)] = n[1] /\ n \in JdmNodes(c)
    BY <1>4, RouteNodes
  <2>2. P[n] = 2 * pos(n) + (IF n[2] = "switch" THEN 1 ELSE 0)
    BY <1>4 DEF PlaceIn
  <2>3. pos(n) \in Nat /\ pos(n) >= 2 /\ pos(n) <= Len(s) /\ pos(n) \in 1..Len(s)
    <3> DEFINE k == pos(n)
               m == Len(s)
    <3>1. k \in 2..m /\ m \in Nat
      BY <1>2, <2>1
    <3> HIDE DEF k, m
    <3>2. k \in Nat /\ k >= 2 /\ k <= m /\ k \in 1..m
      BY <3>1
    <3>3. QED
      BY <3>2 DEF k, m
  <2>4. QED
    BY <1>4, <2>1, <2>2, <2>3, JdmNodeCases
<1> HIDE DEF s, R, P, W, G, pos
<1>5. \A n \in R : P[n] \in Nat
  <2>1. ASSUME NEW n \in R, n # Input PROVE P[n] \in Nat
    <3>1. pos(n) \in Nat /\ P[n] \in {2 * pos(n), 2 * pos(n) + 1}
      BY <1>4, <2>1
    <3>2. QED
      BY <3>1
  <2>2. QED
    BY <1>3, <2>1
<1>6. P \in [R -> Nat]
  <2>1. P = [n \in R |-> P[n]]
    BY DEF PlaceIn, P, R
  <2>2. QED
    BY <1>5, <2>1
<1>7. W \subseteq DOMAIN G.edges
  BY DEF Followed, W, G
<1>8. \A i \in DOMAIN G.edges : G.edges[i].source[2] # "switch" => i \in W
  BY DEF Followed, FollowsIn, W, G
<1>9. \A i \in DOMAIN G.edges : G.edges[i].source[2] # "out"
  BY EdgeForms DEF G
<1>10. \A i, j \in W : G.edges[i].source = G.edges[j].source => i = j
  BY FollowedOnce DEF W, G
<1>11. \A i \in W : G.edges[i].source \in R => G.edges[i].target \in R
  BY RouteGoesOn DEF W, G, R
<1>12. \A n \in R \ {Input} : \E i \in W :
          /\ G.edges[i].target = n /\ G.edges[i].source \in R
          /\ P[G.edges[i].source] < P[n]
          /\ \A m \in R : P[m] < P[n] => P[m] <= P[G.edges[i].source]
  BY RouteComesFrom DEF W, G, R, P
<1>13. ASSUME NEW m \in R, NEW n \in R, P[m] = P[n], m # Input, n # Input
       PROVE  m = n
  <2>1. /\ pos(m) \in Nat /\ P[m] = 2 * pos(m) + (IF m[2] = "switch" THEN 1 ELSE 0)
        /\ pos(n) \in Nat /\ P[n] = 2 * pos(n) + (IF n[2] = "switch" THEN 1 ELSE 0)
    BY <1>4, <1>13
  <2>2. pos(m) = pos(n) /\ (m[2] = "switch" <=> n[2] = "switch")
    <3> DEFINE p == pos(m)
               q == pos(n)
    <3>1. \A a, b \in Nat : (2 * a = 2 * b => a = b) /\ 2 * a + 1 # 2 * b
      OBVIOUS
    <3>2. p \in Nat /\ q \in Nat
      BY <2>1
    <3>3. 2 * p + (IF m[2] = "switch" THEN 1 ELSE 0) = 2 * q + (IF n[2] = "switch" THEN 1 ELSE 0)
      BY <1>13, <2>1
    <3> HIDE DEF p, q
    <3>4. p = q /\ (m[2] = "switch" <=> n[2] = "switch")
      BY <3>1, <3>2, <3>3
    <3>5. QED
      BY <3>4 DEF p, q
  <2>3. m[1] = n[1]
    BY <1>4, <1>13, <2>2
  <2>4. m[2] = n[2]
    BY <1>4, <1>13, <2>2, <2>3
  <2>5. m = <<m[1], m[2]>> /\ n = <<n[1], n[2]>>
    BY <1>4, <1>13
  <2>6. QED
    BY <2>3, <2>4, <2>5
<1>14. \A n \in R : n # Input => P[n] >= 4
  <2>1. SUFFICES ASSUME NEW n \in R, n # Input PROVE P[n] >= 4
    OBVIOUS
  <2>2. pos(n) \in Nat /\ pos(n) >= 2 /\ P[n] \in {2 * pos(n), 2 * pos(n) + 1}
    BY <1>4, <2>1
  <2>3. QED
    BY <2>2
<1>15. \A m, n \in R : P[m] = P[n] => m = n
  BY <1>3, <1>5, <1>13, <1>14
<1>16. ASSUME NEW n \in R, \A i \in W : G.edges[i].source # n
       PROVE  \A m \in R : P[m] <= P[n]
  <2>1. n # Input
    <3>1. PICK start \in Nodes(c) : start.kind = "start"
      BY DEF WellRouted
    <3>2. PICK b \in Nodes(c) : b.id \in ChosenIn(c, x, start.id)
      BY <3>1, StartLeads
    <3>3. \E i \in W : G.edges[i].source = Input
      BY <3>1, <3>2, FirstFollowed DEF W, G
    <3>4. QED
      BY <1>16, <3>3
  <2>2. n[2] # "proc"
    <3>1. SUFFICES ASSUME n[2] = "proc" PROVE FALSE
      OBVIOUS
    <3>2. KindOf(c, n[1]) = "decision" /\ n[1] \in Ids(c) /\ n = <<n[1], "proc">>
      BY <1>4, <2>1, <3>1
    <3>3. \E i \in W : G.edges[i].source = <<n[1], "proc">>
      BY <3>2, InnerFollowed, ZenonT(30) DEF W, G
    <3>4. QED
      BY <1>16, <3>2, <3>3
  <2>3. ChosenIn(c, x, n[1]) = {}
    <3>1. SUFFICES ASSUME NEW t \in ChosenIn(c, x, n[1]) PROVE FALSE
      OBVIOUS
    <3>2. n[1] \in Ids(c) /\ KindOf(c, n[1]) \in {"decision", "expression", "end"}
      BY <1>4, <2>1
    <3>3. KindOf(c, n[1]) # "end"
      BY <3>2, ChosenOnce
    <3>4. n = <<n[1], IF KindOf(c, n[1]) = "decision" THEN "switch" ELSE "expr">>
      BY <1>4, <2>1, <2>2, <3>2, <3>3
    <3>5. PICK b \in Nodes(c) : b.id = t
      BY <3>2, ChosenOnce DEF Ids
    <3>6. \E i \in W : G.edges[i].source = n
      BY <3>1, <3>2, <3>3, <3>4, <3>5, ChosenFollowed DEF W, G
    <3>7. QED
      BY <1>16, <3>6
  <2>4. pos(n) = Len(s)
    BY <1>1, <1>4, <2>1, <2>3 DEF IsRoutedList
  <2>5. ASSUME NEW m \in R, m # Input PROVE P[m] <= P[n]
    <3>1. /\ pos(m) \in Nat /\ P[m] = 2 * pos(m) + (IF m[2] = "switch" THEN 1 ELSE 0)
          /\ pos(n) \in Nat /\ P[n] = 2 * pos(n) + (IF n[2] = "switch" THEN 1 ELSE 0)
          /\ pos(m) <= pos(n)
      BY <1>4, <2>1, <2>4, <2>5
    <3>2. CASE pos(m) = pos(n) /\ m[2] = "switch"
      <4>1. m[1] = n[1]
        BY <1>4, <2>1, <2>5, <3>2
      <4>2. KindOf(c, n[1]) = "decision"
        BY <1>4, <2>5, <3>2, <4>1
      <4>3. n[2] = "switch"
        BY <1>4, <2>1, <2>2, <4>2
      <4>4. QED
        BY <3>1, <3>2, <4>3
    <3>3. CASE ~(pos(m) = pos(n) /\ m[2] = "switch")
      BY <3>1, <3>3
    <3>4. QED
      BY <3>2, <3>3
  <2>6. QED
    BY <1>3, <1>14, <1>5, <2>1, <2>5
<1>17. \A n \in R : P[Input] <= P[n]
  BY <1>3, <1>5, <1>14
<1>18. QED
  BY <1>3, <1>6, <1>7, <1>8, <1>9, <1>10, <1>11, <1>12, <1>15, <1>16, <1>17
     DEF Routes, R, P, W, G

-----------------------------------------------------------------------------
(* What a reset removes *)

\* The edges of the nodes that have lost their last edge on one side.
Swept(gone) == UNION {Into(n, edges) \union OutOf(n, edges) : n \in Emptied(gone)}

\* What is removed is grown from the edges given until nothing more is swept.
LEMMA RemovalSettles ==
    ASSUME GraphInv, WalkInv, NEW removed \in SUBSET edges
    PROVE  /\ RemoveRecursively(removed) \in SUBSET edges
           /\ Swept(RemoveRecursively(removed)) \subseteq RemoveRecursively(removed)
           /\ \A Good : removed \in Good /\ (\A gone \in SUBSET edges :
                           gone \in Good => gone \union Swept(gone) \in Good)
                        => RemoveRecursively(removed) \in Good
<1> DEFINE n == Cardinality(edges)
           D == SUBSET edges
           F == [gone \in D |-> gone \union Swept(gone)]
           P == [gone \in D |-> n - Cardinality(gone)]
           Done == {gone \in D : Swept(gone) \subseteq gone}
           Is(g) == g = [k \in 0..n |->
                           IF k = 0 THEN removed ELSE g[k - 1] \union Swept(g[k - 1])]
           grown == CHOOSE g : Is(g)
<1>1. n \in Nat /\ n \in 0..n /\ 0 \in 0..n /\ \A k \in 1..n : k \in 0..n /\ k - 1 \in 0..n /\ k # 0
  BY EdgePlaces
<1>2. \A gone : Swept(gone) \subseteq edges
  BY DEF Into, OutOf, Swept
<1>3. removed \in D /\ F \in [D -> D]
  BY <1>2
<1>4. RemoveRecursively(removed) = grown[n]
  BY DEF RemoveRecursively, Closure, Swept
<1>5. IsFiniteSet(edges)
  BY EdgePlaces
<1> HIDE DEF n
<1>6. PICK g : Iteration(g, n, D, removed, F)
  <2> HIDE DEF D, F
  <2>1. QED
    BY <1>1, <1>3, Iterates
<1>7. /\ g \in [0..n -> D] /\ g[0] = removed
      /\ \A k \in 1..n : g[k] = g[k - 1] \union Swept(g[k - 1])
  BY <1>1, <1>6 DEF Iteration
<1>8. Is(g)
  <2>1. \A k \in 0..n : k # 0 => k \in 1..n
    BY <1>1
  <2>2. \A k \in 0..n : g[k] = IF k = 0 THEN removed ELSE g[k - 1] \union Swept(g[k - 1])
    BY <1>7, <2>1
  <2>3. QED
    BY <1>7, <2>2
<1>9. Is(grown)
  <2> HIDE DEF Is
  <2>1. QED
    BY <1>8
<1> HIDE DEF grown
<1>10. Iteration(grown, n, D, removed, F)
  <2> DEFINE T == {k \in 0..n : grown[k] = g[k]}
  <2>1. grown = [k \in 0..n |-> grown[k]] /\ grown[0] = removed
        /\ \A k \in 1..n : grown[k] = grown[k - 1] \union Swept(grown[k - 1])
    BY <1>1, <1>9
  <2>2. 0 \in T /\ \A k \in 1..n : k - 1 \in T => k \in T
    BY <1>1, <1>7, <2>1
  <2>3. 0..n \subseteq T
    <3> HIDE DEF T
    <3>1. QED
      BY <1>1, <2>2, SetInduction
  <2>4. grown = g
    BY <1>7, <2>1, <2>3
  <2>5. QED
    BY <1>6, <2>4
<1>11. /\ grown \in [0..n -> D] /\ grown[0] = removed
       /\ \A k \in 1..n : grown[k] = grown[k - 1] \union Swept(grown[k - 1])
  BY <1>1, <1>10 DEF Iteration
<1>12. \A S \in D : Cardinality(S) \in Nat /\ Cardinality(S) <= n /\ P[S] \in Nat /\ P[S] <= n
  <2>1. ASSUME NEW S \in D PROVE Cardinality(S) \in Nat /\ Cardinality(S) <= n
    BY <1>5, SmallerSet DEF n
  <2>2. QED
    BY <1>1, <2>1
<1>13. \A S \in D : S \in Done \/ P[F[S]] < P[S]
  <2>1. SUFFICES ASSUME NEW S \in D, S \notin Done PROVE P[F[S]] < P[S]
    OBVIOUS
  <2>2. S \subseteq F[S] /\ S # F[S] /\ F[S] \in D
    BY <1>3, <2>1 DEF Done
  <2>3. IsFiniteSet(F[S])
    BY <1>5, <2>2, FS_Subset
  <2>4. Cardinality(S) < Cardinality(F[S])
    BY <2>2, <2>3, SmallerSet
  <2>5. \A R \in D : P[R] = n - Cardinality(R)
    OBVIOUS
  <2> HIDE DEF D, F, P, Done
  <2>6. P[S] = n - Cardinality(S) /\ P[F[S]] = n - Cardinality(F[S])
    BY <2>2, <2>5
  <2>7. Cardinality(S) \in Nat /\ Cardinality(F[S]) \in Nat
    BY <1>12, <2>2
  <2>8. QED
    BY <1>1, <2>4, <2>6, <2>7
<1>14. grown[n] \in Done
  <2>1. P \in [D -> Nat] /\ P[removed] <= n
    BY <1>3, <1>12
  <2>2. \A S \in D : S \in Done => F[S] = S
    OBVIOUS
  <2> HIDE DEF D, F, P, Done
  <2>3. QED
    BY <1>1, <1>3, <1>10, <1>13, <2>1, <2>2, Settles
<1>15. ASSUME NEW Good, removed \in Good,
              \A gone \in SUBSET edges : gone \in Good => gone \union Swept(gone) \in Good
       PROVE  grown[n] \in Good
  <2> DEFINE T == {k \in 0..n : grown[k] \in Good}
  <2>1. 0 \in T /\ \A k \in 1..n : k - 1 \in T => k \in T
    BY <1>1, <1>11, <1>15
  <2>2. 0..n \subseteq T
    <3> HIDE DEF T
    <3>1. QED
      BY <1>1, <2>1, SetInduction
  <2>3. QED
    BY <1>1, <2>2
<1>16. QED
  BY <1>4, <1>14, <1>15

-----------------------------------------------------------------------------
(* The walk on its way along the routed path *)

Route == RouteIn(canvas, ctx)
Order == PlaceIn(canvas, ctx)
Follows == Followed(canvas, ctx)

\* The edges of the routed path.
Live == {i \in Follows : jdm.edges[i].source \in Route}

\* An accepted canvas is walked.
OnCourse == jdm = Translate(canvas) /\ WellRouted(canvas)

\* The routed path of the canvas runs through the graph that is walked.
LEMMA RouteHere ==
    ASSUME OnCourse, edges \subseteq DOMAIN jdm.edges
    PROVE  /\ Routes(jdm, Route, Order, Follows)
           /\ \A n : n[2] = "switch" => \A i \in OutOf(n, edges) : i \in Untaken(n) <=> i \notin Follows
           /\ \A n : n[2] # "switch" => \A i \in OutOf(n, edges) : i \in Follows
<1>1. Routes(jdm, Route, Order, Follows)
  BY RoutesHold DEF OnCourse, Route, Order, Follows
<1>2. \A i \in DOMAIN jdm.edges : i \in Follows <=>
          (jdm.edges[i].source[2] = "switch" =>
             jdm.edges[i].handle = Decide(DecisionOf(jdm.edges[i].source), ctx))
  BY DEF OnCourse, Follows, Followed, FollowsIn, DecisionOf
<1>3. ASSUME NEW n, n[2] = "switch", NEW i \in OutOf(n, edges)
      PROVE  i \in Untaken(n) <=> i \notin Follows
  BY <1>2, <1>3 DEF Untaken, OutOf
<1>4. ASSUME NEW n, n[2] # "switch", NEW i \in OutOf(n, edges) PROVE i \in Follows
  BY <1>2, <1>4 DEF OutOf
<1>5. QED
  BY <1>1, <1>3, <1>4

\* What is traced of the routed path is a beginning of it, in its order.
InOrder(R, P, t) ==
    /\ \A x, y \in R : P[x] < P[y] /\ y \in Range(t) => x \in Range(t)
    /\ RisingIn(t, R, P)

\* Tracing a node whose predecessor on the path is traced keeps the order.
LEMMA TracedNext ==
    ASSUME NEW G, NEW R, NEW P, NEW W, Routes(G, R, P, W), NEW S, NEW t \in Seq(S), InOrder(R, P, t),
           IsInjective(t), NEW n \in S, n \notin Range(t),
           n \in R => \A i \in W : G.edges[i].target = n /\ G.edges[i].source \in R
                                    => G.edges[i].source \in Range(t)
    PROVE  InOrder(R, P, Append(t, n))
<1> DEFINE u == Append(t, n)
           m == Len(t)
<1>1. Range(u) = Range(t) \union {n}
  BY TraceGrows
<1>2. /\ m \in Nat /\ DOMAIN t = 1..m /\ DOMAIN u = 1..m + 1
      /\ \A i \in 1..m : u[i] = t[i] /\ u[m + 1] = n
      /\ u[m + 1] = n
  <2>1. m \in Nat /\ DOMAIN t = 1..m
    BY LenProperties
  <2>2. u \in Seq(S) /\ Len(u) = m + 1 /\ u[m + 1] = n /\ \A i \in 1..m : u[i] = t[i]
    OBVIOUS
  <2>3. DOMAIN u = 1..m + 1
    BY <2>2, LenProperties
  <2>4. QED
    BY <2>1, <2>2, <2>3
<1>3. \A y \in R : P[y] \in Nat
  BY DEF Routes
<1>4. ASSUME n \in R, NEW y \in R, P[y] < P[n] PROVE y \in Range(t)
  <2>1. n # Input
    BY <1>3, <1>4 DEF Routes
  <2>2. PICK i \in W : /\ G.edges[i].target = n /\ G.edges[i].source \in R
                       /\ \A z \in R : P[z] < P[n] => P[z] <= P[G.edges[i].source]
    BY <1>4, <2>1 DEF Routes
  <2> DEFINE p == G.edges[i].source
  <2>3. p \in R /\ p \in Range(t) /\ P[y] <= P[p]
    BY <1>4, <2>2
  <2> HIDE DEF p
  <2>4. P[y] < P[p] \/ P[y] = P[p]
    BY <1>3, <2>3
  <2>5. CASE P[y] = P[p]
    BY <2>3, <2>5 DEF Routes
  <2>6. CASE P[y] < P[p]
    BY <2>3, <2>6 DEF InOrder
  <2>7. QED
    BY <2>4, <2>5, <2>6
<1> HIDE DEF u, m
<1>5. \A x, y \in R : P[x] < P[y] /\ y \in Range(u) => x \in Range(u)
  <2>1. SUFFICES ASSUME NEW x \in R, NEW y \in R, P[x] < P[y], y \in Range(u) PROVE x \in Range(u)
    OBVIOUS
  <2>2. CASE y \in Range(t)
    BY <1>1, <2>1, <2>2 DEF InOrder
  <2>3. CASE y = n
    BY <1>1, <1>4, <2>1, <2>3
  <2>4. QED
    BY <1>1, <2>1, <2>2, <2>3
<1>6. ASSUME NEW i \in 1..m + 1, NEW j \in 1..m + 1, i < j, u[i] \in R, u[j] \in R
      PROVE  P[u[i]] < P[u[j]]
  <2>1. i \in 1..m /\ (j \in 1..m \/ j = m + 1)
    BY <1>2, <1>6
  <2>2. u[i] = t[i] /\ u[i] \in Range(t)
    BY <1>2, <2>1 DEF Range
  <2>3. CASE j \in 1..m
    <3>1. u[j] = t[j]
      BY <1>2, <2>3
    <3>2. RisingIn(t, R, P)
      BY DEF InOrder
    <3>3. QED
      BY <1>2, <1>6, <2>1, <2>2, <2>3, <3>1, <3>2 DEF RisingIn
  <2>4. CASE j = m + 1
    <3>1. u[j] = n /\ n \in R
      BY <1>2, <1>6, <2>4
    <3>2. ~(P[n] < P[u[i]])
      BY <1>6, <2>2, <3>1 DEF InOrder
    <3>3. P[u[i]] # P[n]
      <4>1. P[u[i]] = P[n] => u[i] = n
        BY <1>6, <3>1 DEF Routes
      <4>2. QED
        BY <2>2, <4>1
    <3>4. P[u[i]] \in Nat /\ P[n] \in Nat
      BY <1>3, <1>6, <3>1
    <3>5. QED
      BY <3>1, <3>2, <3>3, <3>4
  <2>5. QED
    BY <2>1, <2>3, <2>4
<1>7. RisingIn(u, R, P)
  BY <1>2, <1>6 DEF RisingIn
<1>8. QED
  BY <1>5, <1>7 DEF InOrder, u

-----------------------------------------------------------------------------
(* The invariant of the walk of an accepted canvas *)

AllTraced == Route \subseteq Range(trace)

\* From each node of U edges that are left lead to the routed path, along U.
LeadOn(es, E, R, U) == \A n \in U : n \in R \/ \E i \in E : es[i].source = n /\ es[i].target \in U

\* Since the last reset the walk is on its way: the routed path is left, and
\* what has been visited of it has its next node visited or on the stack.
OnWay ==
    /\ Live \subseteq edges
    /\ Input \in nodes
    /\ Input \in ordered \union Range(toVisit)
    /\ \A i \in Live : jdm.edges[i].source \in ordered =>
                          jdm.edges[i].target \in ordered \union Range(toVisit)
    /\ \E U : Range(toVisit) \subseteq U /\ LeadOn(jdm.edges, edges, Route, U)

WayInv ==
    /\ ordered \subseteq executed
    /\ InOrder(Route, Order, trace)
    /\ AllTraced \/ OnWay

\* Nothing has ended the evaluation.
Running == \A n \in executed : n[2] # "out" /\ ~Fails(n)

\* A node that waits for nothing.
LEMMA ReadyTop ==
    ASSUME IndInv, Ready(Top)
    PROVE  /\ phase = "walk" /\ toVisit # <<>> /\ Top \in jdm.nodes /\ Top \notin ordered
           /\ Top \in Range(toVisit)
           /\ \A i \in Into(Top, edges) : jdm.edges[i].source \in ordered
           /\ Range(toVisit) = Range(Front(toVisit)) \union {Top}
           /\ edges \subseteq DOMAIN jdm.edges
<1>1. phase = "walk" /\ toVisit # <<>> /\ Top \notin ordered /\ Unresolved(Top) = <<>>
  BY DEF Ready, Visiting
<1>2. Top \in jdm.nodes /\ toVisit \in Seq(jdm.nodes) /\ edges \subseteq DOMAIN jdm.edges
  BY <1>1, TopOfStack DEF IndInv, WalkInv
<1>3. \A i \in Into(Top, edges) : jdm.edges[i].source \in ordered
  <2> DEFINE E == {i \in Into(Top, edges) : jdm.edges[i].source \notin ordered}
  <2>1. E \subseteq edges /\ Sources(E) = <<>>
    BY <1>1 DEF Into, Unresolved
  <2>2. E = {}
    BY <1>1, <2>1, EndsOfEdges DEF IndInv
  <2>3. QED
    BY <2>2
<1>4. Range(toVisit) = Range(Front(toVisit)) \union {Top}
  BY <1>1, <1>2, FrontRange DEF Top
<1>5. QED
  BY <1>1, <1>2, <1>3, <1>4

\* A node that is traced comes next on the routed path if it is on it.
LEMMA ReadyTraced ==
    ASSUME IndInv, OnCourse, WayInv, Ready(Top), Top \notin Range(trace)
    PROVE  /\ InOrder(Route, Order, Append(trace, Top))
           /\ Range(Append(trace, Top)) = Range(trace) \union {Top}
<1>1. /\ Top \in jdm.nodes /\ \A i \in Into(Top, edges) : jdm.edges[i].source \in ordered
      /\ edges \subseteq DOMAIN jdm.edges
  BY ReadyTop
<1>2. Routes(jdm, Route, Order, Follows)
  BY <1>1, RouteHere
<1>3. trace \in Seq(jdm.nodes) /\ IsInjective(trace) /\ executed \subseteq Range(trace)
  BY DEF IndInv, WalkInv, TraceInv
<1>4. ASSUME Top \in Route, NEW i \in Follows, jdm.edges[i].target = Top, jdm.edges[i].source \in Route
      PROVE  jdm.edges[i].source \in Range(trace)
  <2>1. OnWay
    BY <1>4 DEF WayInv, AllTraced
  <2>2. i \in edges
    BY <1>4, <2>1 DEF OnWay, Live
  <2>3. jdm.edges[i].source \in ordered
    BY <1>1, <1>4, <2>2 DEF Into
  <2>4. QED
    BY <1>3, <2>3 DEF WayInv
<1>5. InOrder(Route, Order, trace)
  BY DEF WayInv
<1>6. InOrder(Route, Order, Append(trace, Top))
  <2> DEFINE n == Top
             t == trace
             R == Route
             P == Order
             W == Follows
             G == jdm
             S == G.nodes
  <2>1. /\ Routes(G, R, P, W) /\ t \in Seq(S) /\ InOrder(R, P, t) /\ IsInjective(t) /\ n \in S
        /\ n \notin Range(t)
        /\ n \in R => \A i \in W : G.edges[i].target = n /\ G.edges[i].source \in R
                                    => G.edges[i].source \in Range(t)
    BY <1>1, <1>2, <1>3, <1>4, <1>5
  <2> HIDE DEF n, t, R, P, W, G, S
  <2>2. InOrder(R, P, Append(t, n))
    BY <2>1, TracedNext
  <2>3. QED
    BY <2>2 DEF n, t, R, P
<1>7. QED
  BY <1>1, <1>3, <1>6, TraceGrows

-----------------------------------------------------------------------------
(* Its steps *)

\* The walk of an accepted canvas starts on its way.
LEMMA EvaluateOnWay ==
    ASSUME IndInv, Evaluate, WellRouted(canvas)
    PROVE  phase' = "walk" /\ OnCourse' /\ WayInv' /\ Running'
<1>1. /\ phase = "evaluate" /\ canvas' = canvas /\ ctx' = ctx /\ jdm' = Translate(canvas)
      /\ phase' = "walk" /\ nodes' = jdm'.nodes /\ edges' = DOMAIN jdm'.edges
      /\ toVisit' = <<Input>> /\ UNCHANGED <<ordered, executed, trace>>
  BY AcceptedIsWalked DEF Evaluate, input
<1>2. ordered = {} /\ executed = {} /\ trace = <<>>
  BY <1>1 DEF IndInv, GraphInv
<1>3. OnCourse'
  BY <1>1 DEF OnCourse
<1>4. Routes(jdm', Route', Order', Follows')
  BY <1>1, RoutesHold DEF Route, Order, Follows
<1>5. Range(<<>>) = {} /\ DOMAIN <<>> = {}
  BY ShortLists
<1>6. InOrder(Route', Order', trace')
  BY <1>1, <1>2, <1>5 DEF InOrder, RisingIn
<1>7. Range(toVisit') = {Input}
  BY <1>1, ShortLists
<1>8. OnWay'
  <2>1. Live' \subseteq edges' /\ Input \in nodes'
    BY <1>1, <1>4 DEF Routes, Live
  <2>2. LeadOn(jdm'.edges, edges', Route', {Input})
    BY <1>4 DEF Routes, LeadOn
  <2>3. QED
    BY <1>1, <1>2, <1>7, <2>1, <2>2 DEF OnWay
<1>9. QED
  BY <1>1, <1>2, <1>3, <1>6, <1>8 DEF WayInv, Running

\* The stack changes, and what is visited stays visited.
LEMMA StackKeepsWay ==
    ASSUME OnCourse, WayInv, UNCHANGED <<canvas, ctx, jdm, nodes, edges, ordered, executed, trace>>,
           Range(toVisit) \subseteq ordered \union Range(toVisit'),
           \A n \in Range(toVisit') : n \in Range(toVisit) \/
               \E i \in edges : jdm.edges[i].source = n /\ jdm.edges[i].target \in Range(toVisit)
    PROVE  OnCourse' /\ WayInv'
<1>1. Route' = Route /\ Order' = Order /\ Follows' = Follows
  BY DEF Route, Order, Follows
<1>2. Live' = Live
  BY <1>1 DEF Live
<1>3. OnCourse'
  BY DEF OnCourse
<1>4. ASSUME OnWay PROVE OnWay'
  <2>1. PICK U : Range(toVisit) \subseteq U /\ LeadOn(jdm.edges, edges, Route, U)
    BY <1>4 DEF OnWay
  <2> DEFINE V == U \union Range(toVisit')
  <2>2. LeadOn(jdm.edges, edges, Route, V)
    BY <2>1 DEF LeadOn
  <2>3. \E V1 : Range(toVisit') \subseteq V1 /\ LeadOn(jdm'.edges, edges', Route', V1)
    BY <1>1, <2>2
  <2>4. QED
    BY <1>1, <1>2, <1>4, <2>3 DEF OnWay
<1>5. QED
  BY <1>1, <1>3, <1>4 DEF WayInv, AllTraced

\* Skipping a visited node keeps the walk on its way.
LEMMA SkipOnWay ==
    ASSUME IndInv, OnCourse, WayInv, Running, Skip
    PROVE  OnCourse' /\ WayInv' /\ Running'
<1>1. /\ phase = "walk" /\ toVisit # <<>> /\ toVisit' = Front(toVisit) /\ Top \in ordered
      /\ UNCHANGED <<canvas, ctx, jdm, nodes, edges, ordered, executed, trace>>
  BY DEF Skip, Visiting, input
<1>2. toVisit \in Seq(jdm.nodes)
  BY DEF IndInv, WalkInv
<1>3. Range(toVisit) = Range(toVisit') \union {Top}
  BY <1>1, <1>2, FrontRange DEF Top
<1>4. Running'
  BY <1>1 DEF Running, Fails, DecisionOf
<1>5. QED
  BY <1>1, <1>3, <1>4, StackKeepsWay

\* Waiting for dependencies keeps the walk on its way.
LEMMA DeferOnWay ==
    ASSUME IndInv, OnCourse, WayInv, Running, Defer
    PROVE  OnCourse' /\ WayInv' /\ Running'
<1>1. /\ phase = "walk" /\ toVisit # <<>> /\ toVisit' = toVisit \o Unresolved(Top)
      /\ UNCHANGED <<canvas, ctx, jdm, nodes, edges, ordered, executed, trace>>
  BY DEF Defer, Visiting, input
<1>2. toVisit \in Seq(jdm.nodes) /\ Top \in Range(toVisit)
  <2>1. toVisit \in Seq(jdm.nodes)
    BY DEF IndInv, WalkInv
  <2>2. QED
    BY <1>1, <2>1, FrontRange DEF Top
<1> DEFINE E == {i \in Into(Top, edges) : jdm.edges[i].source \notin ordered}
<1>3. E \subseteq edges /\ Unresolved(Top) = Sources(E)
  BY DEF Into, Unresolved
<1>4. /\ Sources(E) \in Seq(jdm.nodes)
      /\ \A n \in Range(Sources(E)) : \E i \in E : n = jdm.edges[i].source
  <2> HIDE DEF E
  <2>1. /\ Sources(E) \in Seq(jdm.nodes) /\ Len(Sources(E)) = Cardinality(E)
        /\ \A k \in 1..Cardinality(E) : \E i \in E : Sources(E)[k] = jdm.edges[i].source
    BY <1>1, <1>3, EndsOfEdges DEF IndInv
  <2>2. DOMAIN Sources(E) = 1..Cardinality(E)
    BY <2>1, LenProperties
  <2>3. QED
    BY <2>1, <2>2 DEF Range
<1>5. Range(toVisit') = Range(toVisit) \union Range(Sources(E))
  <2>1. toVisit' = toVisit \o Sources(E)
    BY <1>1, <1>3
  <2>2. Range(toVisit \o Sources(E)) = Range(toVisit) \union Range(Sources(E))
    <3> HIDE DEF E
    <3>1. QED
      BY <1>2, <1>4, ConcatRange
  <2>3. QED
    BY <2>1, <2>2
<1>6. \A n \in Range(Sources(E)) :
          \E i \in edges : jdm.edges[i].source = n /\ jdm.edges[i].target \in Range(toVisit)
  BY <1>2, <1>4 DEF Into
<1>7. Running'
  BY <1>1 DEF Running, Fails, DecisionOf
<1>8. QED
  BY <1>1, <1>5, <1>6, <1>7, StackKeepsWay

-----------------------------------------------------------------------------
(* The walk goes on *)

\* Targets lists the ends of the edges, and nothing else.
LEMMA TargetsCover ==
    ASSUME GraphInv, WalkInv, phase = "walk", NEW E, E \subseteq edges
    PROVE  Range(Targets(E)) = {jdm.edges[i].target : i \in E}
<1> DEFINE at == LatestFirst(E)
<1>1. /\ at \in Seq(E) /\ DOMAIN at = 1..Cardinality(E) /\ Cardinality(E) \in Nat
      /\ \A i \in E : \E k \in DOMAIN at : at[k] = i
  BY EdgePlaces, LatestFirstLists
<1>2. Targets(E) = [k \in DOMAIN at |-> jdm.edges[at[k]].target]
  BY DEF Targets
<1> HIDE DEF at
<1>3. \A k \in DOMAIN at : at[k] \in E
  BY <1>1, LenProperties
<1>4. DOMAIN Targets(E) = DOMAIN at /\ \A k \in DOMAIN at : Targets(E)[k] = jdm.edges[at[k]].target
  BY <1>2
<1>5. \A i \in E : jdm.edges[i].target \in Range(Targets(E))
  BY <1>1, <1>4 DEF Range
<1>6. \A a \in Range(Targets(E)) : \E i \in E : a = jdm.edges[i].target
  BY <1>3, <1>4 DEF Range
<1>7. QED
  BY <1>5, <1>6

\* When the last node of the routed path is traced, all of it is.
LEMMA LastTraced ==
    ASSUME NEW G, NEW R, NEW P, NEW W, Routes(G, R, P, W), NEW t, InOrder(R, P, t),
           NEW n \in R, n \in Range(t), \A i \in W : G.edges[i].source # n
    PROVE  R \subseteq Range(t)
<1>1. ASSUME NEW m \in R PROVE m \in Range(t)
  <2>1. P[m] \in Nat /\ P[n] \in Nat /\ P[m] <= P[n]
    BY DEF Routes
  <2>2. CASE P[m] = P[n]
    BY <2>2 DEF Routes
  <2>3. CASE P[m] < P[n]
    BY <2>3 DEF InOrder
  <2>4. QED
    BY <2>1, <2>2, <2>3
<1>2. QED
  BY <1>1

\* Returning a node keeps the walk on its way; an output node comes last.
LEMMA ReturnOnWay ==
    ASSUME IndInv, OnCourse, WayInv, Running, Return
    PROVE  /\ OnCourse' /\ WayInv'
           /\ Top[2] = "out" => AllTraced'
           /\ phase' = "walk" => Running'
<1>1. /\ Ready(Top) /\ (Top[2] = "switch" => Top \in switched \/ Untaken(Top) = {})
      /\ toVisit' = Front(toVisit) \o Targets(OutOf(Top, edges)) /\ ordered' = ordered \union {Top}
      /\ executed' = executed \union {Top}
      /\ trace' = IF Top \in executed \union switched THEN trace ELSE Append(trace, Top)
      /\ phase' = "walk" => ~(Top \notin executed /\ Fails(Top)) /\ Top[2] # "out"
      /\ UNCHANGED <<canvas, ctx, jdm, nodes, edges>>
  <2>1. Return
    OBVIOUS
  <2>2. Ready(Top) => phase = "walk"
    BY DEF Ready, Visiting
  <2>3. QED
    BY <2>1, <2>2 DEF Return, Execute, input
<1>2. /\ phase = "walk" /\ toVisit # <<>> /\ Top \in jdm.nodes /\ Top \notin ordered
      /\ Top \in Range(toVisit)
      /\ Range(toVisit) = Range(Front(toVisit)) \union {Top}
      /\ edges \subseteq DOMAIN jdm.edges
  BY <1>1, ReadyTop
<1>3. /\ Routes(jdm, Route, Order, Follows)
      /\ \A i \in OutOf(Top, edges) : i \in Follows
  <2>1. /\ Routes(jdm, Route, Order, Follows)
        /\ \A n : n[2] = "switch" => \A i \in OutOf(n, edges) : i \in Untaken(n) <=> i \notin Follows
        /\ \A n : n[2] # "switch" => \A i \in OutOf(n, edges) : i \in Follows
    BY <1>2, RouteHere
  <2>2. Top[2] = "switch" => Untaken(Top) = {}
    BY <1>1 DEF IndInv, TakenBranchesOnly
  <2>3. QED
    BY <2>1, <2>2
<1>4. Route' = Route /\ Order' = Order /\ Follows' = Follows
  BY <1>1 DEF Route, Order, Follows
<1>5. Live' = Live
  BY <1>1, <1>4 DEF Live
<1>6. OnCourse'
  BY <1>1 DEF OnCourse
<1>7. Range(trace) = executed \union switched
  BY DEF IndInv, TraceInv
<1>8. /\ InOrder(Route, Order, trace') /\ Range(trace') = Range(trace) \union {Top}
  <2>1. CASE Top \in executed \union switched
    BY <1>1, <1>7, <2>1 DEF WayInv
  <2>2. CASE Top \notin executed \union switched
    BY <1>1, <1>7, <2>2, ReadyTraced
  <2>3. QED
    BY <2>1, <2>2
<1>9. ordered' \subseteq executed'
  BY <1>1 DEF WayInv
<1> DEFINE ends == {jdm.edges[i].target : i \in OutOf(Top, edges)}
<1>10. Range(toVisit') = Range(Front(toVisit)) \union ends
  <2>1. OutOf(Top, edges) \subseteq edges
    BY DEF OutOf
  <2>2. Front(toVisit) \in Seq(jdm.nodes)
    BY <1>2, TopOfStack DEF IndInv, WalkInv
  <2>3. Targets(OutOf(Top, edges)) \in Seq(jdm.nodes)
    BY <1>2, <2>1, EndsOfEdges DEF IndInv
  <2>4. Range(Targets(OutOf(Top, edges))) = ends
    BY <1>2, <2>1, TargetsCover DEF IndInv
  <2>5. Range(toVisit') = Range(Front(toVisit)) \union Range(Targets(OutOf(Top, edges)))
    BY <1>1, <2>2, <2>3, ConcatRange
  <2>6. QED
    BY <2>4, <2>5
<1>11. ASSUME OnWay PROVE OnWay'
  <2>1. PICK U : Range(toVisit) \subseteq U /\ LeadOn(jdm.edges, edges, Route, U)
    BY <1>11 DEF OnWay
  <2> DEFINE V == U \union ends
  <2>2. ends \subseteq Route \union U
    <3>1. SUFFICES ASSUME NEW j \in OutOf(Top, edges) PROVE jdm.edges[j].target \in Route \union U
      OBVIOUS
    <3>2. j \in Follows /\ jdm.edges[j].source = Top
      BY <1>3 DEF OutOf
    <3>3. CASE Top \in Route
      BY <1>3, <3>2, <3>3 DEF Routes
    <3>4. CASE Top \notin Route
      <4>1. PICK i \in edges : jdm.edges[i].source = Top /\ jdm.edges[i].target \in U
        BY <1>2, <2>1, <3>4 DEF LeadOn
      <4>2. i \in Follows
        BY <1>3, <4>1 DEF OutOf
      <4>3. i = j
        BY <1>3, <3>2, <4>1, <4>2 DEF Routes
      <4>4. QED
        BY <4>1, <4>3
    <3>5. QED
      BY <3>3, <3>4
  <2>3. LeadOn(jdm.edges, edges, Route, V)
    <3> HIDE DEF ends
    <3>1. QED
      BY <2>1, <2>2 DEF LeadOn
  <2>4. Range(toVisit') \subseteq V
    BY <1>2, <1>10, <2>1
  <2>5. Input \in ordered' \union Range(toVisit')
    BY <1>1, <1>2, <1>10, <1>11 DEF OnWay
  <2>6. ASSUME NEW i \in Live, jdm.edges[i].source \in ordered'
        PROVE  jdm.edges[i].target \in ordered' \union Range(toVisit')
    <3>1. CASE jdm.edges[i].source \in ordered
      BY <1>1, <1>2, <1>10, <1>11, <3>1 DEF OnWay
    <3>2. CASE jdm.edges[i].source = Top
      <4>1. i \in OutOf(Top, edges)
        BY <1>11, <3>2 DEF OnWay, OutOf
      <4>2. QED
        BY <1>10, <4>1
    <3>3. QED
      BY <1>1, <2>6, <3>1, <3>2
  <2>7. Live \subseteq edges /\ Input \in nodes
    BY <1>11 DEF OnWay
  <2>8. \E V1 : Range(toVisit') \subseteq V1 /\ LeadOn(jdm'.edges, edges', Route', V1)
    <3> HIDE DEF V
    <3>1. QED
      BY <1>1, <1>4, <2>3, <2>4
  <2>9. QED
    BY <1>1, <1>5, <2>5, <2>6, <2>7, <2>8 DEF OnWay
<1>12. AllTraced => AllTraced'
  BY <1>4, <1>8 DEF AllTraced
<1>13. WayInv'
  BY <1>4, <1>8, <1>9, <1>11, <1>12 DEF WayInv
<1>14. ASSUME Top[2] = "out" PROVE AllTraced'
  <2>1. CASE OnWay
    <3>1. \A i \in DOMAIN jdm.edges : jdm.edges[i].source # Top
      BY <1>3, <1>14 DEF Routes
    <3>2. Top \in Route
      BY <1>2, <2>1, <3>1 DEF OnWay, LeadOn
    <3>3. \A i \in Follows : jdm.edges[i].source # Top
      BY <1>3, <3>1 DEF Routes
    <3>4. Route \subseteq Range(trace')
      BY <1>3, <1>8, <3>2, <3>3, LastTraced
    <3>5. QED
      BY <1>4, <3>4 DEF AllTraced
  <2>2. QED
    BY <1>12, <2>1 DEF WayInv
<1>15. ASSUME phase' = "walk" PROVE Running'
  <2>1. \A n : Fails(n)' <=> Fails(n)
    BY <1>1 DEF Fails, DecisionOf
  <2>2. QED
    BY <1>1, <1>15, <2>1 DEF Running
<1>16. QED
  BY <1>6, <1>13, <1>14, <1>15

\* When nothing is left to visit, the routed path has been visited.
LEMMA ExhaustedAtEnd ==
    ASSUME IndInv, OnCourse, WayInv, Exhausted
    PROVE  AllTraced
<1>1. SUFFICES ASSUME OnWay PROVE AllTraced
  BY DEF WayInv
<1>2. Routes(jdm, Route, Order, Follows)
  BY RouteHere DEF IndInv, WalkInv
<1>3. Range(toVisit) = {}
  BY ShortLists DEF Exhausted
<1> DEFINE rest == {n \in Route : n \notin ordered}
           T == {Order[n] : n \in rest}
<1>4. rest = {}
  <2>1. SUFFICES ASSUME rest # {} PROVE FALSE
    OBVIOUS
  <2>2. T \subseteq Nat /\ T # {}
    BY <1>2, <2>1 DEF Routes
  <2>3. PICK p \in T : \A q \in T : p <= q
    <3> HIDE DEF T
    <3>1. QED
      BY <2>2, HasSmallest
  <2>4. PICK n \in rest : Order[n] = p
    OBVIOUS
  <2>5. n # Input
    BY <1>1, <1>3, <2>4 DEF OnWay
  <2>6. PICK i \in Follows : /\ jdm.edges[i].target = n /\ jdm.edges[i].source \in Route
                             /\ Order[jdm.edges[i].source] < Order[n]
    BY <1>2, <2>4, <2>5 DEF Routes
  <2>7. jdm.edges[i].source \in ordered
    <3>1. Order[jdm.edges[i].source] \in Nat /\ Order[n] \in Nat
      BY <1>2, <2>4, <2>6 DEF Routes
    <3>2. ~(Order[n] <= Order[jdm.edges[i].source])
      BY <2>6, <3>1
    <3>3. jdm.edges[i].source \notin rest
      BY <2>3, <2>4, <3>2
    <3>4. QED
      BY <2>6, <3>3
  <2>8. QED
    BY <1>1, <1>3, <2>4, <2>6, <2>7 DEF OnWay, Live
<1>5. QED
  BY <1>4 DEF AllTraced, WayInv, IndInv, TraceInv

-----------------------------------------------------------------------------
(* A reset keeps the routed path *)

\* What may go: no edge of the routed path, and only edges of nodes that have
\* been visited or are left without a way to them.
MayGo(gone) ==
    \A i \in gone :
        /\ i \notin Live
        /\ \/ jdm.edges[i].source \in ordered \union {Top}
           \/ Into(jdm.edges[i].source, edges) \subseteq gone

\* Removing the branches a switch did not take spares the routed path, unless
\* that path ends there.
LEMMA PruneSpares ==
    ASSUME IndInv, OnCourse, WayInv, OnWay, Ready(Top), Top[2] = "switch",
           Top \in Route => \E k \in Follows : jdm.edges[k].source = Top
    PROVE  MayGo(RemoveRecursively(Untaken(Top)))
<1>1. /\ Top \in jdm.nodes
      /\ \A i \in Into(Top, edges) : jdm.edges[i].source \in ordered
      /\ edges \subseteq DOMAIN jdm.edges
  BY ReadyTop
<1>2. /\ Routes(jdm, Route, Order, Follows)
      /\ \A n : n[2] = "switch" => \A i \in OutOf(n, edges) : i \in Untaken(n) <=> i \notin Follows
      /\ \A n : n[2] # "switch" => \A i \in OutOf(n, edges) : i \in Follows
  BY <1>1, RouteHere
<1>3. \A n \in ordered : n[2] = "switch" => Untaken(n) = {}
  BY DEF WayInv, IndInv, TraceInv, TakenBranchesOnly
<1>4. \A n \in ordered \union {Top} : \A i \in Into(n, edges) : jdm.edges[i].source \in ordered
  BY <1>1 DEF IndInv, DependenciesFirst
<1>5. Live \subseteq edges /\ \A i : i \in Live <=> i \in Follows /\ jdm.edges[i].source \in Route
  BY DEF OnWay, Live
<1>6. \A i \in edges : jdm.edges[i].target # Input
  BY <1>1 DEF IndInv, GraphInv, Input
<1> DEFINE Good == {gone \in SUBSET edges : MayGo(gone)}
<1>7. Untaken(Top) \in Good
  <2>1. Untaken(Top) \subseteq OutOf(Top, edges) /\ OutOf(Top, edges) \subseteq edges
    BY DEF Untaken, OutOf
  <2>2. ASSUME NEW i \in Untaken(Top) PROVE i \notin Live /\ jdm.edges[i].source = Top
    BY <1>2, <1>5, <2>1 DEF OutOf
  <2>3. QED
    BY <2>1, <2>2 DEF MayGo
<1>8. ASSUME NEW gone \in SUBSET edges, gone \in Good PROVE gone \union Swept(gone) \in Good
  <2> DEFINE more == gone \union Swept(gone)
  <2>1. more \in SUBSET edges
    BY DEF Swept, Into, OutOf
  <2>2. \A i \in gone : /\ i \notin Live
                        /\ \/ jdm.edges[i].source \in ordered \union {Top}
                           \/ Into(jdm.edges[i].source, edges) \subseteq gone
    BY <1>8 DEF MayGo
  <2>3. ASSUME NEW n \in Emptied(gone), NEW i \in Into(n, edges) \union OutOf(n, edges), i \notin gone
        PROVE  /\ i \notin Live
               /\ \/ jdm.edges[i].source \in ordered \union {Top}
                  \/ Into(jdm.edges[i].source, edges) \subseteq more
    <3>1. \/ Into(n, gone) # {} /\ Into(n, edges) \subseteq gone
          \/ OutOf(n, gone) # {} /\ OutOf(n, edges) \subseteq gone
      BY DEF Emptied
    <3>2. CASE Into(n, gone) # {} /\ Into(n, edges) \subseteq gone
      <4>1. i \in edges /\ jdm.edges[i].source = n
        BY <2>3, <3>2 DEF OutOf
      <4>2. n # Input
        BY <1>6, <3>2 DEF Into
      <4>3. ASSUME i \in Live PROVE FALSE
        <5>1. n \in Route
          BY <1>5, <4>1, <4>3
        <5>2. PICK j \in Follows : jdm.edges[j].target = n /\ jdm.edges[j].source \in Route
          BY <1>2, <4>2, <5>1 DEF Routes
        <5>3. j \in Live /\ j \in Into(n, edges)
          BY <1>5, <5>2 DEF Into
        <5>4. QED
          BY <2>2, <3>2, <5>3
      <4>4. QED
        BY <3>2, <4>1, <4>3
    <3>3. CASE OutOf(n, gone) # {} /\ OutOf(n, edges) \subseteq gone
      <4>1. i \in edges /\ jdm.edges[i].target = n /\ i \in Into(n, edges)
        BY <2>3, <3>3 DEF Into
      <4>2. PICK j \in gone : jdm.edges[j].source = n
        BY <3>3 DEF OutOf
      <4>3. n \in ordered \union {Top}
        BY <2>2, <2>3, <4>1, <4>2
      <4>4. jdm.edges[i].source \in ordered
        BY <1>4, <4>1, <4>3
      <4>5. ASSUME i \in Live PROVE FALSE
        <5>1. n \in Route
          BY <1>2, <1>5, <4>1, <4>5 DEF Routes
        <5>2. j \notin Follows
          BY <1>5, <2>2, <4>2, <5>1
        <5>3. j \in OutOf(n, edges)
          BY <4>2 DEF OutOf
        <5>4. n[2] = "switch" /\ j \in Untaken(n)
          BY <1>2, <5>2, <5>3
        <5>5. n = Top
          BY <1>3, <4>3, <5>4
        <5>6. PICK k \in Follows : jdm.edges[k].source = n
          BY <5>1, <5>5
        <5>7. k \in Live /\ k \in OutOf(n, edges)
          BY <1>5, <5>1, <5>6 DEF OutOf
        <5>8. QED
          BY <2>2, <3>3, <5>7
      <4>6. QED
        BY <4>4, <4>5
    <3>4. QED
      BY <3>1, <3>2, <3>3
  <2>4. ASSUME NEW i \in more
        PROVE  /\ i \notin Live
               /\ \/ jdm.edges[i].source \in ordered \union {Top}
                  \/ Into(jdm.edges[i].source, edges) \subseteq more
    <3>1. CASE i \in gone
      BY <2>2, <3>1
    <3>2. CASE i \notin gone
      <4>1. PICK n \in Emptied(gone) : i \in Into(n, edges) \union OutOf(n, edges)
        BY <3>2 DEF Swept
      <4> HIDE DEF more
      <4>2. QED
        BY <2>3, <3>2, <4>1
    <3>3. QED
      BY <3>1, <3>2
  <2> HIDE DEF more
  <2>5. MayGo(more)
    BY <2>4 DEF MayGo
  <2>6. QED
    BY <2>1, <2>5 DEF more
<1>9. Untaken(Top) \in SUBSET edges
  BY DEF Untaken, OutOf
<1>10. RemoveRecursively(Untaken(Top)) \in Good
  <2> HIDE DEF Good
  <2>1. QED
    BY <1>7, <1>8, <1>9, RemovalSettles DEF IndInv
<1>11. QED
  BY <1>10

\* A reset keeps the walk on its way.
LEMMA PruneOnWay ==
    ASSUME IndInv, OnCourse, WayInv, Running, Prune
    PROVE  OnCourse' /\ WayInv' /\ Running'
<1> DEFINE gone == RemoveRecursively(Untaken(Top))
<1>1. /\ Ready(Top) /\ Top[2] = "switch" /\ Top \notin switched
      /\ edges' = edges \ gone /\ nodes' = nodes \ Emptied(gone)
      /\ trace' = Append(trace, Top)
      /\ toVisit' = (IF Input \in nodes' THEN <<Input>> ELSE <<>>)
      /\ ordered' = {}
      /\ UNCHANGED <<canvas, ctx, jdm, executed>>
  BY DEF Prune, input
<1>2. Top \notin Range(trace)
  BY <1>1 DEF IndInv, TraceInv
<1>3. InOrder(Route, Order, trace') /\ Range(trace') = Range(trace) \union {Top}
  BY <1>1, <1>2, ReadyTraced
<1>4. Route' = Route /\ Order' = Order /\ Follows' = Follows
  BY <1>1 DEF Route, Order, Follows
<1>5. Live' = Live
  BY <1>1, <1>4 DEF Live
<1>6. OnCourse'
  BY <1>1 DEF OnCourse
<1>7. edges \subseteq DOMAIN jdm.edges
  BY DEF IndInv, WalkInv
<1>8. Routes(jdm, Route, Order, Follows)
  BY <1>7, RouteHere
<1>9. ordered' \subseteq executed'
  BY <1>1
<1>10. Running'
  BY <1>1 DEF Running, Fails, DecisionOf
<1>11. CASE AllTraced
  <2>1. AllTraced'
    BY <1>3, <1>4, <1>11 DEF AllTraced
  <2>2. QED
    BY <1>3, <1>4, <1>6, <1>9, <1>10, <2>1 DEF WayInv
<1>12. CASE Top \in Route /\ \A k \in Follows : jdm.edges[k].source # Top
  <2>1. Route \subseteq Range(trace')
    BY <1>3, <1>8, <1>12, LastTraced
  <2>2. AllTraced'
    BY <1>4, <2>1 DEF AllTraced
  <2>3. QED
    BY <1>3, <1>4, <1>6, <1>9, <1>10, <2>2 DEF WayInv
<1>13. CASE OnWay /\ (Top \in Route => \E k \in Follows : jdm.edges[k].source = Top)
  <2>1. MayGo(gone)
    BY <1>1, <1>13, PruneSpares
  <2>2. Live \subseteq edges \ gone
    BY <1>13, <2>1 DEF MayGo, OnWay
  <2>3. Untaken(Top) \in SUBSET edges
    BY DEF Untaken, OutOf
  <2>4. gone \in SUBSET edges
    BY <2>3, RemovalSettles DEF IndInv
  <2> HIDE DEF gone
  <2>5. Input \notin Emptied(gone)
    <3>1. Into(Input, gone) = {}
      BY <1>7, <2>4 DEF Into, IndInv, GraphInv, Input
    <3>2. ASSUME NEW i \in OutOf(Input, gone) PROVE FALSE
      <4>1. i \in gone /\ jdm.edges[i].source = Input
        BY <3>2 DEF OutOf
      <4>2. Input[2] # "switch"
        BY DEF Input
      <4>3. i \in Follows
        BY <1>7, <1>8, <2>4, <4>1, <4>2 DEF Routes
      <4>4. i \in Live
        BY <1>8, <4>1, <4>3 DEF Routes, Live
      <4>5. QED
        BY <2>2, <4>1, <4>4
    <3>3. QED
      BY <3>1, <3>2 DEF Emptied
  <2>6. Input \in nodes' /\ toVisit' = <<Input>>
    BY <1>1, <1>13, <2>5 DEF OnWay
  <2>7. Range(toVisit') = {Input}
    BY <2>6, ShortLists
  <2>8. LeadOn(jdm'.edges, edges', Route', {Input})
    BY <1>4, <1>8 DEF Routes, LeadOn
  <2>9. OnWay'
    BY <1>1, <1>5, <2>2, <2>6, <2>7, <2>8 DEF OnWay
  <2>10. QED
    BY <1>3, <1>4, <1>6, <1>9, <1>10, <2>9 DEF WayInv
<1>14. QED
  BY <1>11, <1>12, <1>13 DEF WayInv

-----------------------------------------------------------------------------
(* Canvases whose nodes can all be reached *)

AllReachable(c) == Ids(c) \subseteq Reachable(c)

\* Every node of the translation but the input is led to.
LEMMA AllLedTo ==
    ASSUME NEW c, WellRouted(c), AllReachable(c), NEW n \in JdmNodes(c), n # Input
    PROVE  \E i \in DOMAIN Translate(c).edges : Translate(c).edges[i].target = n
<1> DEFINE es == Translate(c).edges
           id == n[1]
           starts == {c.nodes[i].id : i \in WithKind(c, "start")}
           B == starts \union {b \in Ids(c) : \E a \in Ids(c) : Linked(c, a, b)}
<1>1. /\ n = <<n[1], n[2]>> /\ id \in Ids(c) /\ KindOf(c, id) \in {"decision", "expression", "end"}
      /\ KindOf(c, id) = "decision" <=> n[2] \in {"proc", "switch"}
      /\ KindOf(c, id) = "expression" <=> n[2] = "expr"
      /\ KindOf(c, id) = "end" <=> n[2] = "out"
  BY JdmNodeCases
<1>2. Range(es) = {Inner(d) : d \in DecisionsOf(c)}
                  \union {RoutingEdge(c, c.edges[k]) : k \in RoutingPlaces(c)}
                  \union {First(m) : m \in StartSuccessor(c)}
  BY TranslatedEdges
<1>3. /\ NodeById(c, id) \in Nodes(c) /\ NodeById(c, id).id = id
      /\ NodeById(c, id).kind = KindOf(c, id)
  BY <1>1, NodesNamed
<1>4. SUFFICES \E e \in Range(es) : e.target = n
  BY DEF Range
<1> HIDE DEF es
<1>5. CASE n[2] = "switch"
  <2>1. NodeById(c, id) \in DecisionsOf(c)
    BY <1>1, <1>3, <1>5 DEF DecisionsOf
  <2>2. Inner(NodeById(c, id)).target = n
    BY <1>1, <1>3, <1>5, <2>1, EdgeShape
  <2>3. QED
    BY <1>2, <2>1, <2>2
<1>6. CASE n[2] # "switch"
  <2>1. Entry(NodeById(c, id)) = n
    <3>1. NodeById(c, id).kind # "start"
      BY <1>1, <1>3
    <3>2. /\ NodeById(c, id).kind = "decision" => Entry(NodeById(c, id)) = <<id, "proc">>
          /\ NodeById(c, id).kind = "expression" => Entry(NodeById(c, id)) = <<id, "expr">>
          /\ NodeById(c, id).kind = "end" => Entry(NodeById(c, id)) = <<id, "out">>
      BY <1>3, <3>1, EntryCases
    <3>3. QED
      BY <1>1, <1>3, <1>6, <3>2
  <2>2. starts \subseteq Ids(c) /\ \A b \in starts : KindOf(c, b) = "start"
    <3>1. ASSUME NEW i \in WithKind(c, "start")
          PROVE  c.nodes[i] \in Nodes(c) /\ c.nodes[i].kind = "start"
      BY DEF WithKind, Nodes, Range
    <3>2. QED
      BY <3>1, NodesNamed
  <2>3. Reachable(c) \subseteq B
    <3>1. Reachable(c) = Reached(c, starts)
      BY DEF Reachable, Reached
    <3>2. Successors(c, B) \subseteq B
      <4>1. ASSUME NEW b \in Successors(c, B) PROVE b \in B
        <5>1. b \in Ids(c) /\ \E a \in B : Linked(c, a, b)
          BY SuccessorsLinked
        <5>2. B \subseteq Ids(c)
          BY <2>2
        <5> HIDE DEF starts
        <5>3. QED
          BY <5>1, <5>2
      <4>2. QED
        BY <4>1
    <3>3. starts \subseteq B
      OBVIOUS
    <3>4. IsCanvas(c)
      BY DEF WellRouted
    <3> HIDE DEF starts, B
    <3>5. QED
      BY <2>2, <3>1, <3>2, <3>3, <3>4, ClosedHolds
  <2>4. PICK a \in Ids(c) : Linked(c, a, id)
    <3>1. id \in B /\ id \notin starts
      BY <1>1, <2>2, <2>3 DEF AllReachable
    <3> HIDE DEF starts
    <3>2. QED
      BY <3>1
  <2>5. PICK k \in DOMAIN c.edges : c.edges[k].source = a /\ c.edges[k].target = id
    BY <2>4 DEF Linked, Resolvable
  <2>6. c.edges[k] \in Range(c.edges)
    BY <2>5 DEF Range
  <2>7. KindOf(c, a) # "end" /\ KindOf(c, a) \in NodeKinds
    BY <2>5, <2>6, NodesNamed DEF WellRouted
  <2>8. CASE KindOf(c, a) = "start"
    <3>1. NodeById(c, a) \in Nodes(c) /\ NodeById(c, a).id = a /\ NodeById(c, a).kind = "start"
      BY <2>8, NodesNamed
    <3>2. id \in ChosenIn(c, <<>>, a)
      BY <2>5, <2>6, <2>8 DEF ChosenIn
    <3>3. NodeById(c, id) \in StartSuccessor(c)
      BY <1>3, <3>1, <3>2, StartLeads
    <3>4. First(NodeById(c, id)).target = n
      BY <2>1, <3>3, EdgeShape
    <3>5. QED
      BY <1>2, <3>3, <3>4
  <2>9. CASE KindOf(c, a) # "start"
    <3>1. k \in RoutingPlaces(c)
      BY <2>5, <2>7, <2>9 DEF RoutingPlaces, NodeKinds
    <3>2. RoutingEdge(c, c.edges[k]).target = n
      BY <2>1, <2>5, <3>1, EdgeShape
    <3>3. QED
      BY <1>2, <3>1, <3>2
  <2>10. QED
    BY <2>8, <2>9
<1>7. QED
  BY <1>5, <1>6

\* What is left of the graph is led to, and what is visited is routed.
ReachInv ==
    /\ \A i \in edges : jdm.edges[i].source \in nodes /\ jdm.edges[i].target \in nodes
    /\ \A i \in edges : jdm.edges[i].source = Input \/ Into(jdm.edges[i].source, edges) # {}
    /\ \A n \in Range(toVisit) : n = Input \/ Into(n, edges) # {}
    /\ ordered \union Range(trace) \subseteq Route

\* A node that is ready is on the routed path.
LEMMA ReadyRouted ==
    ASSUME IndInv, OnCourse, WayInv, ReachInv, Ready(Top)
    PROVE  Top \in Route
<1>1. /\ Top \in Range(toVisit) /\ edges \subseteq DOMAIN jdm.edges
      /\ \A i \in Into(Top, edges) : jdm.edges[i].source \in ordered
  BY ReadyTop
<1>2. /\ Routes(jdm, Route, Order, Follows)
      /\ \A n : n[2] = "switch" => \A i \in OutOf(n, edges) : i \in Untaken(n) <=> i \notin Follows
      /\ \A n : n[2] # "switch" => \A i \in OutOf(n, edges) : i \in Follows
  BY <1>1, RouteHere
<1>3. CASE Top = Input
  BY <1>2, <1>3 DEF Routes
<1>4. CASE Top # Input
  <2>1. PICK i \in edges : jdm.edges[i].target = Top
    BY <1>1, <1>4 DEF ReachInv, Into
  <2> DEFINE s == jdm.edges[i].source
  <2>2. s \in ordered /\ s \in Route /\ i \in OutOf(s, edges)
    BY <1>1, <2>1 DEF ReachInv, Into, OutOf
  <2>3. s[2] = "switch" => Untaken(s) = {}
    BY <2>2 DEF WayInv, IndInv, TraceInv, TakenBranchesOnly
  <2>4. i \in Follows
    <3> HIDE DEF s
    <3>1. QED
      BY <1>2, <2>2, <2>3
  <2>5. QED
    BY <1>2, <2>1, <2>2, <2>4 DEF Routes
<1>5. QED
  BY <1>3, <1>4

\* At first every node of the graph is led to.
LEMMA EvaluateReached ==
    ASSUME IndInv, IndInv', Evaluate, WellRouted(canvas), AllReachable(canvas)
    PROVE  ReachInv'
<1>1. /\ phase = "evaluate" /\ canvas' = canvas /\ jdm' = Translate(canvas)
      /\ phase' = "walk" /\ nodes' = jdm'.nodes /\ edges' = DOMAIN jdm'.edges
      /\ toVisit' = <<Input>> /\ UNCHANGED <<ordered, trace>>
  BY AcceptedIsWalked DEF Evaluate, input
<1>2. ordered = {} /\ trace = <<>>
  BY <1>1 DEF IndInv, GraphInv
<1>3. \A i \in edges' : jdm'.edges[i].source \in nodes' /\ jdm'.edges[i].target \in nodes'
  BY <1>1 DEF IndInv, GraphInv
<1>4. jdm'.nodes = JdmNodes(canvas)
  BY <1>1 DEF Translate
<1>5. \A i \in edges' : jdm'.edges[i].source = Input \/ Into(jdm.edges[i].source, edges)' # {}
  <2>1. SUFFICES ASSUME NEW i \in edges', jdm'.edges[i].source # Input
                 PROVE  \E j \in edges' : jdm'.edges[j].target = jdm'.edges[i].source
    BY DEF Into
  <2>2. jdm'.edges[i].source \in JdmNodes(canvas)
    BY <1>1, <1>3, <1>4, <2>1
  <2>3. QED
    BY <1>1, <2>1, <2>2, AllLedTo
<1>6. Range(<<>>) = {}
  BY ShortLists
<1>7. Range(toVisit') = {Input}
  BY <1>1, ShortLists
<1>8. QED
  <2>1. Range(trace') = {} /\ ordered' = {}
    BY <1>1, <1>2, <1>6
  <2>2. QED
    BY <1>3, <1>5, <1>7, <2>1 DEF ReachInv

\* Skipping a visited node pushes nothing.
LEMMA SkipReached ==
    ASSUME IndInv, OnCourse, WayInv, ReachInv, Skip
    PROVE  ReachInv'
<1>1. /\ toVisit # <<>> /\ toVisit' = Front(toVisit)
      /\ UNCHANGED <<canvas, ctx, jdm, nodes, edges, ordered, trace>>
  BY DEF Skip, Visiting, input
<1>2. toVisit \in Seq(jdm.nodes)
  BY DEF IndInv, WalkInv
<1>3. Range(toVisit') \subseteq Range(toVisit)
  BY <1>1, <1>2, FrontRange
<1>4. QED
  BY <1>1, <1>3 DEF ReachInv, Into, Route

\* The nodes that are waited for are led to.
LEMMA DeferReached ==
    ASSUME IndInv, OnCourse, WayInv, ReachInv, Defer
    PROVE  ReachInv'
<1>1. /\ phase = "walk" /\ toVisit # <<>> /\ toVisit' = toVisit \o Unresolved(Top)
      /\ UNCHANGED <<canvas, ctx, jdm, nodes, edges, ordered, trace>>
  BY DEF Defer, Visiting, input
<1>2. toVisit \in Seq(jdm.nodes)
  BY DEF IndInv, WalkInv
<1> DEFINE E == {i \in Into(Top, edges) : jdm.edges[i].source \notin ordered}
<1>3. E \subseteq edges /\ toVisit' = toVisit \o Sources(E)
  BY <1>1 DEF Into, Unresolved
<1> HIDE DEF E
<1>4. /\ Sources(E) \in Seq(jdm.nodes) /\ Len(Sources(E)) = Cardinality(E)
      /\ \A k \in 1..Cardinality(E) : \E i \in E : Sources(E)[k] = jdm.edges[i].source
  BY <1>1, <1>3, EndsOfEdges DEF IndInv
<1>5. DOMAIN Sources(E) = 1..Cardinality(E)
  BY <1>4, LenProperties
<1>6. \A n \in Range(Sources(E)) : \E i \in edges : n = jdm.edges[i].source
  BY <1>3, <1>4, <1>5 DEF Range
<1>7. Range(toVisit') = Range(toVisit) \union Range(Sources(E))
  BY <1>2, <1>3, <1>4, ConcatRange
<1>8. \A n \in Range(toVisit') : n = Input \/ Into(n, edges) # {}
  BY <1>6, <1>7 DEF ReachInv
<1>9. QED
  BY <1>1, <1>8 DEF ReachInv, Into, Route

\* A returned node is routed, and those it leads to are led to.
LEMMA ReturnReached ==
    ASSUME IndInv, OnCourse, WayInv, ReachInv, Return
    PROVE  ReachInv' /\ Top \in Route
<1>1. /\ Ready(Top) /\ toVisit' = Front(toVisit) \o Targets(OutOf(Top, edges))
      /\ ordered' = ordered \union {Top}
      /\ trace' = IF Top \in executed \union switched THEN trace ELSE Append(trace, Top)
      /\ UNCHANGED <<canvas, ctx, jdm, nodes, edges>>
  BY DEF Return, Execute, input
<1>2. /\ phase = "walk" /\ toVisit # <<>> /\ Top \in jdm.nodes
      /\ Range(toVisit) = Range(Front(toVisit)) \union {Top}
  BY <1>1, ReadyTop
<1>3. Top \in Route
  BY <1>1, ReadyRouted
<1>4. Range(trace') \subseteq Range(trace) \union {Top}
  <2>1. Range(trace) = executed \union switched /\ trace \in Seq(jdm.nodes) /\ IsInjective(trace)
    BY DEF IndInv, TraceInv, WalkInv
  <2>2. QED
    BY <1>1, <1>2, <2>1, TraceGrows
<1> DEFINE E == OutOf(Top, edges)
<1>5. E \subseteq edges
  BY DEF OutOf
<1>6. /\ Front(toVisit) \in Seq(jdm.nodes)
      /\ Targets(E) \in Seq(jdm.nodes) /\ Range(Targets(E)) = {jdm.edges[i].target : i \in E}
  <2> HIDE DEF E
  <2>1. Front(toVisit) \in Seq(jdm.nodes)
    BY <1>2, TopOfStack DEF IndInv, WalkInv
  <2>2. Targets(E) \in Seq(jdm.nodes)
    BY <1>2, <1>5, EndsOfEdges DEF IndInv
  <2>3. QED
    BY <1>2, <1>5, <2>1, <2>2, TargetsCover DEF IndInv
<1>7. Range(toVisit') = Range(Front(toVisit)) \union {jdm.edges[i].target : i \in E}
  BY <1>1, <1>6, ConcatRange
<1>8. \A n \in Range(toVisit') : n = Input \/ Into(n, edges) # {}
  <2> HIDE DEF E
  <2>1. \A i \in E : i \in Into(jdm.edges[i].target, edges)
    BY <1>5 DEF Into
  <2>2. QED
    BY <1>2, <1>7, <2>1 DEF ReachInv
<1>9. QED
  BY <1>1, <1>3, <1>4, <1>8 DEF ReachInv, Into, Route

\* A reset leaves no node that nothing leads to.
LEMMA PruneReached ==
    ASSUME IndInv, OnCourse, WayInv, ReachInv, Prune
    PROVE  ReachInv'
<1> DEFINE gone == RemoveRecursively(Untaken(Top))
<1>1. /\ Ready(Top) /\ Top \notin switched
      /\ edges' = edges \ gone /\ nodes' = nodes \ Emptied(gone)
      /\ trace' = Append(trace, Top) /\ ordered' = {}
      /\ toVisit' = (IF Input \in nodes' THEN <<Input>> ELSE <<>>)
      /\ UNCHANGED <<canvas, ctx, jdm, executed>>
  BY DEF Prune, input
<1>2. Top \in Route /\ Top \in jdm.nodes
  BY <1>1, ReadyRouted, ReadyTop
<1>3. Range(trace') = Range(trace) \union {Top}
  <2>1. Range(trace) = executed \union switched /\ trace \in Seq(jdm.nodes) /\ IsInjective(trace)
        /\ \A n \in executed : n[2] = "switch" => n \in switched
    BY DEF IndInv, TraceInv, WalkInv
  <2>2. Top[2] = "switch"
    BY DEF Prune
  <2>3. QED
    BY <1>1, <1>2, <2>1, <2>2, TraceGrows
<1>4. Swept(gone) \subseteq gone
  <2>1. Untaken(Top) \in SUBSET edges
    BY DEF Untaken, OutOf
  <2>2. QED
    BY <2>1, RemovalSettles DEF IndInv
<1> HIDE DEF gone
<1>5. ASSUME NEW n \in Emptied(gone), NEW i \in edges \ gone
      PROVE  jdm.edges[i].source # n /\ jdm.edges[i].target # n
  <2>1. Into(n, edges) \union OutOf(n, edges) \subseteq gone
    BY <1>4 DEF Swept
  <2>2. QED
    BY <2>1 DEF Into, OutOf
<1>6. ASSUME NEW i \in edges'
      PROVE  jdm.edges[i].source \in nodes' /\ jdm.edges[i].target \in nodes'
  BY <1>1, <1>5, <1>6 DEF ReachInv
<1>7. ASSUME NEW i \in edges', jdm.edges[i].source # Input
      PROVE  Into(jdm.edges[i].source, edges') # {}
  <2> DEFINE s == jdm.edges[i].source
  <2>1. i \in edges \ gone /\ s \in nodes /\ Into(s, edges) # {} /\ s \notin Emptied(gone)
    BY <1>1, <1>5, <1>7 DEF ReachInv
  <2> HIDE DEF s
  <2>2. SUFFICES ASSUME Into(s, edges') = {} PROVE FALSE
    BY DEF s
  <2>3. Into(s, edges) \subseteq gone /\ Into(s, gone) # {}
    BY <1>1, <2>1, <2>2 DEF Into
  <2>4. QED
    BY <2>1, <2>3 DEF Emptied
<1>8. \A n \in Range(toVisit') : n = Input
  BY <1>1, ShortLists
<1>9. QED
  BY <1>1, <1>2, <1>3, <1>6, <1>7, <1>8 DEF ReachInv, Into, Route

-----------------------------------------------------------------------------
(* What is matched is what is routed *)

ExpressionsOf(c) == {node.id : node \in {n \in Nodes(c) : n.kind = "expression"}}

\* The place of an expression of the routed path on it.
Rank(c, x) == [id \in Range(RoutedIn(c, x)) \intersect ExpressionsOf(c) |-> PosIn(c, x, id)]

\* The expressions of the routed path are listed in its order.
LEMMA RoutedExpressions ==
    ASSUME NEW c, NEW x, WellRouted(c)
    PROVE  LET A == Range(RoutedIn(c, x)) \intersect ExpressionsOf(c)
               L == Keeping(RoutedIn(c, x), ExpressionsOf(c))
           IN  /\ Rank(c, x) \in [A -> Nat]
               /\ L \in Seq(A) /\ Range(L) = A /\ RisingIn(L, A, Rank(c, x))
<1> DEFINE s == RoutedIn(c, x)
           E == ExpressionsOf(c)
           A == Range(s) \intersect E
           L == Keeping(s, E)
           f == Rank(c, x)
<1>1. /\ Len(s) \in Nat /\ DOMAIN s = 1..Len(s)
      /\ \A k \in 1..Len(s) : s[k] \in Ids(c) /\ PosIn(c, x, s[k]) = k
      /\ \A id \in Range(s) : PosIn(c, x, id) \in 1..Len(s)
  BY RoutedList DEF IsRoutedList
<1>2. f \in [A -> Nat] /\ \A id \in A : f[id] = PosIn(c, x, id)
  BY <1>1 DEF Rank
<1>3. s \in Seq(Ids(c))
  BY RoutedIsTrail DEF Trail
<1> HIDE DEF s, E, f
<1>4. /\ L \in Seq(E) /\ Range(L) = A
      /\ \A g : RisingIn(s, E, g) => RisingIn(L, E, g)
  BY <1>3, KeepingLists
<1>5. RisingIn(s, E, f)
  <2>1. SUFFICES ASSUME NEW i \in DOMAIN s, NEW j \in DOMAIN s, i < j, s[i] \in E, s[j] \in E
                 PROVE  f[s[i]] < f[s[j]]
    BY DEF RisingIn
  <2>2. s[i] \in A /\ s[j] \in A
    BY <2>1 DEF Range
  <2>3. f[s[i]] = i /\ f[s[j]] = j
    BY <1>1, <1>2, <2>2
  <2>4. QED
    BY <2>1, <2>3
<1>6. RisingIn(L, E, f)
  BY <1>4, <1>5
<1> HIDE DEF L
<1>7. L \in Seq(A)
  BY <1>4, ListInRange
<1>8. RisingIn(L, A, f)
  BY <1>6 DEF RisingIn
<1>9. QED
  BY <1>2, <1>4, <1>7, <1>8 DEF s, E, L, f

\* The expressions of a trace that has all of the routed path in its order.
LEMMA MatchedExpressions ==
    ASSUME NEW c, NEW x, WellRouted(c), NEW t \in Seq(JdmNodes(c)),
           InOrder(RouteIn(c, x), PlaceIn(c, x), t), RouteIn(c, x) \subseteq Range(t)
    PROVE  LET A == Range(RoutedIn(c, x)) \intersect ExpressionsOf(c)
           IN  /\ Matched(t) \in Seq(Range(Matched(t)))
               /\ Range(Matched(t)) \intersect Range(RoutedIn(c, x)) = A
               /\ Range(t) \subseteq RouteIn(c, x) => Range(Matched(t)) = A
               /\ RisingIn(Matched(t), Range(RoutedIn(c, x)), Rank(c, x))
<1> DEFINE s == RoutedIn(c, x)
           E == ExpressionsOf(c)
           A == Range(s) \intersect E
           M == Matched(t)
           f == Rank(c, x)
           R == RouteIn(c, x)
           P == PlaceIn(c, x)
<1>1. /\ M \in Seq(Range(M))
      /\ \A id : id \in Range(M) <=> \E i \in DOMAIN t : t[i][2] = "expr" /\ t[i][1] = id
      /\ \A k, l \in DOMAIN M : k < l =>
                 \E i, j \in DOMAIN t : /\ i < j /\ t[i][2] = "expr" /\ t[j][2] = "expr"
                                        /\ M[k] = t[i][1] /\ M[l] = t[j][1]
  BY MatchedLists
<1>2. \A i \in DOMAIN t : t[i] \in JdmNodes(c)
  BY LenProperties
<1>3. ASSUME NEW n \in JdmNodes(c), n[2] = "expr"
      PROVE  /\ n # Input /\ n = <<n[1], "expr">> /\ n[1] \in E
             /\ n[1] \in Range(s) <=> n \in R
  <2>1. n # Input
    BY <1>3 DEF Input
  <2>2. n = <<n[1], n[2]>> /\ n[1] \in Ids(c) /\ KindOf(c, n[1]) = "expression"
    BY <1>3, <2>1, JdmNodeCases
  <2>3. n[1] \in E
    BY <2>2, NodesNamed DEF ExpressionsOf
  <2>4. QED
    BY <1>3, <2>1, <2>2, <2>3 DEF RouteIn
<1>4. ASSUME NEW id \in A PROVE <<id, "expr">> \in R /\ <<id, "expr">>[1] = id /\ <<id, "expr">>[2] = "expr"
  <2>1. PICK node \in Nodes(c) : node.id = id /\ node.kind = "expression"
    BY <1>4 DEF ExpressionsOf
  <2>2. Entry(node) = <<id, "expr">>
    BY <2>1, EntryCases
  <2>3. Entry(node) \in JdmNodes(c)
    BY <2>1 DEF JdmNodes
  <2>4. QED
    BY <1>3, <1>4, <2>2, <2>3
<1>5. A \subseteq Range(M)
  <2>1. ASSUME NEW id \in A PROVE id \in Range(M)
    <3>1. <<id, "expr">> \in Range(t)
      BY <1>4
    <3>2. PICK i \in DOMAIN t : t[i] = <<id, "expr">>
      BY <3>1 DEF Range
    <3>3. QED
      BY <1>1, <1>4, <3>2
  <2>2. QED
    BY <2>1
<1>6. Range(M) \intersect Range(s) = A
  <2>1. ASSUME NEW id \in Range(M) PROVE id \in E
    BY <1>1, <1>2, <1>3, <2>1
  <2>2. QED
    BY <1>5, <2>1
<1>7. ASSUME Range(t) \subseteq R PROVE Range(M) = A
  <2>1. ASSUME NEW id \in Range(M) PROVE id \in A
    <3>1. PICK i \in DOMAIN t : t[i][2] = "expr" /\ t[i][1] = id
      BY <1>1, <2>1
    <3>2. t[i] \in R /\ t[i] \in JdmNodes(c)
      BY <1>2, <1>7, <3>1 DEF Range
    <3>3. QED
      BY <1>3, <3>1, <3>2
  <2>2. QED
    BY <1>5, <2>1
<1>8. \A id \in A : f[id] = PosIn(c, x, id) /\ f[id] \in Nat
  BY RoutedExpressions DEF Rank
<1>9. RisingIn(M, Range(s), f)
  <2>1. SUFFICES ASSUME NEW k \in DOMAIN M, NEW l \in DOMAIN M, k < l,
                        M[k] \in Range(s), M[l] \in Range(s)
                 PROVE  f[M[k]] < f[M[l]]
    BY DEF RisingIn
  <2>2. PICK i \in DOMAIN t, j \in DOMAIN t :
            /\ i < j /\ t[i][2] = "expr" /\ t[j][2] = "expr"
            /\ M[k] = t[i][1] /\ M[l] = t[j][1]
    BY <1>1, <2>1
  <2> DEFINE a == t[i]
             b == t[j]
  <2>3. /\ a \in R /\ b \in R /\ a # Input /\ b # Input /\ M[k] \in A /\ M[l] \in A
        /\ a[2] = "expr" /\ b[2] = "expr" /\ M[k] = a[1] /\ M[l] = b[1]
    BY <1>2, <1>3, <2>1, <2>2
  <2>4. P[a] < P[b]
    BY <2>2, <2>3 DEF InOrder, RisingIn
  <2> HIDE DEF a, b, P, R, f, s, M, A
  <2>5. P[a] = 2 * PosIn(c, x, a[1]) /\ P[b] = 2 * PosIn(c, x, b[1])
    BY <2>3, RouteNodes DEF P, R
  <2>6. f[M[k]] = PosIn(c, x, a[1]) /\ f[M[l]] = PosIn(c, x, b[1])
        /\ f[M[k]] \in Nat /\ f[M[l]] \in Nat
    BY <1>8, <2>3
  <2>7. QED
    BY <2>4, <2>5, <2>6
<1>10. QED
  BY <1>1, <1>6, <1>7, <1>9

\* The actions of such a trace.
LEMMA MatchedIsRouted ==
    ASSUME NEW c, NEW x, WellRouted(c), NEW t \in Seq(JdmNodes(c)),
           InOrder(RouteIn(c, x), PlaceIn(c, x), t), RouteIn(c, x) \subseteq Range(t)
    PROVE  /\ Keeping(Matched(t), Range(RoutedIn(c, x))) = Keeping(RoutedIn(c, x), ExpressionsOf(c))
           /\ Range(t) \subseteq RouteIn(c, x) =>
                 Matched(t) = Keeping(RoutedIn(c, x), ExpressionsOf(c))
<1> DEFINE S == Range(RoutedIn(c, x))
           A == S \intersect ExpressionsOf(c)
           L == Keeping(RoutedIn(c, x), ExpressionsOf(c))
           M == Matched(t)
           K == Keeping(M, S)
           f == Rank(c, x)
<1>1. f \in [A -> Nat] /\ L \in Seq(A) /\ Range(L) = A /\ RisingIn(L, A, f)
  BY RoutedExpressions
<1>2. /\ M \in Seq(Range(M)) /\ Range(M) \intersect S = A
      /\ Range(t) \subseteq RouteIn(c, x) => Range(M) = A
      /\ RisingIn(M, S, f)
  BY MatchedExpressions
<1> HIDE DEF S, L, M, f
<1>3. K \in Seq(S) /\ Range(K) = Range(M) \intersect S /\ RisingIn(K, S, f)
  BY <1>2, KeepingLists
<1> HIDE DEF K
<1>4. \A s : RisingIn(s, S, f) => RisingIn(s, A, f)
  BY DEF RisingIn
<1>5. ASSUME NEW s \in Seq(S), Range(s) = A PROVE s \in Seq(A)
  BY <1>5, ListInRange
<1> HIDE DEF A
<1>6. K = L
  <2>1. K \in Seq(A) /\ RisingIn(K, A, f) /\ Range(K) = Range(L)
    BY <1>1, <1>2, <1>3, <1>4, <1>5
  <2>2. QED
    BY <1>1, <2>1, SameOrder
<1>7. ASSUME Range(t) \subseteq RouteIn(c, x) PROVE M = L
  <2>1. M \in Seq(A) /\ RisingIn(M, A, f) /\ Range(M) = Range(L)
    BY <1>1, <1>2, <1>4, <1>7
  <2>2. QED
    BY <1>1, <2>1, SameOrder
<1>8. QED
  BY <1>6, <1>7 DEF K, L, M, S

-----------------------------------------------------------------------------
(* What is accepted *)

\* The verdict is that of the canvas that was submitted.
RulesInv ==
    phase # "submit" =>
        /\ \E c \in Submitted : canvas = Normalize(c)
        /\ \E order : verdict = ValidateCanvas(canvas, Outcomes, order)

\* A walk has room for a reset by each decision of a canvas.
FewDecisions == \A c \in Submitted : Cardinality(DecisionsOf(c)) < IterMax

\* How the walk of an accepted canvas has ended: with the error of a decision,
\* or with the routed path traced.
EndInv ==
    \/ /\ actions = <<>>
       /\ \E d \in DecisionsOf(canvas) :
             /\ Decide(d.config, ctx) = "error"
             /\ AllReachable(canvas) => d.id \in Range(RoutedIn(canvas, ctx))
    \/ /\ actions = Matched(trace)
       /\ InOrder(Route, Order, trace)
       /\ AllTraced
       /\ \A n \in executed : ~Fails(n)
       /\ AllReachable(canvas) => Range(trace) \subseteq Route
       /\ Last(trace)[2] = "out" \/ \A n \in executed : n[2] # "out"

AcceptedInv ==
    verdict = {} =>
        /\ phase \in {"walk", "done"} => OnCourse
        /\ phase = "walk" => WayInv /\ Running /\ (AllReachable(canvas) => ReachInv)
        /\ phase = "done" => EndInv

\* A normalized canvas has nodes, and no decisions that were not sent.
LEMMA NormalizeFills ==
    ASSUME NEW c
    PROVE  /\ Normalize(c).nodes # <<>>
           /\ Normalize(c) = c \/ DecisionsOf(Normalize(c)) = {}
<1>1. Default.nodes = <<Node("start", "start", NoConfig), Node("end", "end", NoConfig)>>
  BY DEF Default
<1>2. \A a, b : <<a, b>> # <<>> /\ Range(<<a, b>>) = {a, b}
  BY DEF Range
<1>3. Nodes(Default) = {Node("start", "start", NoConfig), Node("end", "end", NoConfig)}
  BY <1>1, <1>2 DEF Nodes
<1>4. \A d \in Nodes(Default) : d.kind # "decision"
  BY <1>3 DEF Node
<1>5. DecisionsOf(Default) = {} /\ Default.nodes # <<>>
  BY <1>1, <1>2, <1>4 DEF DecisionsOf
<1>6. QED
  BY <1>5 DEF Normalize

\* Accepted canvases are routed well.
LEMMA AcceptedHere ==
    ASSUME IndInv, RulesInv, phase # "submit", verdict = {}
    PROVE  WellRouted(canvas)
<1>1. IsCanvas(canvas) /\ \A id \in Ids(canvas) : ~ReachesItself(canvas, id)
  BY DEF IndInv, GraphInv, VerdictInv
<1>2. canvas.nodes # <<>>
  BY NormalizeFills DEF RulesInv
<1>3. PICK order : ValidateCanvas(canvas, Outcomes, order) = {}
  BY DEF RulesInv
<1>4. QED
  BY <1>1, <1>2, <1>3, AcceptedIsWellRouted

\* An accepted canvas is evaluated.
LEMMA IdsCounted ==
    ASSUME NEW c, WellRouted(c)
    PROVE  Cardinality(Ids(c)) = Len(c.nodes)
<1> DEFINE n == Len(c.nodes)
           of == [i \in 1..n |-> c.nodes[i].id]
<1>1. n \in Nat /\ DOMAIN c.nodes = 1..n
  BY LenProperties DEF WellRouted, IsCanvas
<1>2. of \in Bijection(1..n, Ids(c))
  <2>1. Ids(c) = {c.nodes[i].id : i \in 1..n}
    BY <1>1 DEF Ids, Nodes, Range
  <2>2. \A i, j \in 1..n : c.nodes[i].id = c.nodes[j].id => i = j
    BY <1>1 DEF WellRouted
  <2> HIDE DEF n
  <2>3. of \in Surjection(1..n, Ids(c))
    BY <2>1 DEF Surjection
  <2>4. of \in Injection(1..n, Ids(c))
    BY <2>1, <2>2 DEF Injection, IsInjective
  <2>5. QED
    BY <2>3, <2>4 DEF Bijection
<1> HIDE DEF n, of
<1>3. IsFiniteSet(1..n) /\ Cardinality(1..n) = n
  BY <1>1, FS_Interval
<1>4. QED
  BY <1>2, <1>3, FS_Bijection DEF n, ExistsBijection

\* The resets of a walk stay below ITER_MAX.
LEMMA ResetsLeft ==
    ASSUME FewDecisions, IndInv, RulesInv, ResetsBounded, phase # "submit"
    PROVE  ~(iter >= IterMax)
<1>1. Decisions = DecisionsOf(canvas) /\ DecisionsOf(canvas) \subseteq Nodes(canvas)
  BY DEF Decisions, DecisionsOf
<1>2. IsFiniteSet(DecisionsOf(canvas)) /\ Cardinality(DecisionsOf(canvas)) \in Nat
  BY <1>1, FiniteNodes, FS_Subset, FS_CardinalityType DEF IndInv, GraphInv
<1>3. Cardinality(DecisionsOf(canvas)) < IterMax
  <2>1. PICK c \in Submitted : canvas = Normalize(c)
    BY DEF RulesInv
  <2>2. CASE Normalize(c) = c
    BY <2>1, <2>2 DEF FewDecisions
  <2>3. CASE DecisionsOf(Normalize(c)) = {}
    BY <2>1, <2>3, FS_EmptySet, IterAssumption
  <2>4. QED
    BY <2>2, <2>3, NormalizeFills
<1>4. iter \in Nat /\ iter <= Cardinality(DecisionsOf(canvas)) /\ IterMax \in Nat
  BY <1>1, IterAssumption DEF IndInv, ResetInv, ResetsBounded
<1>5. QED
  BY <1>2, <1>3, <1>4

-----------------------------------------------------------------------------
(* The end of a walk *)

\* A decision that fails.
LEMMA FailingDecision ==
    ASSUME OnCourse, NEW n \in JdmNodes(canvas), Fails(n)
    PROVE  \E d \in DecisionsOf(canvas) :
               /\ Decide(d.config, ctx) = "error"
               /\ n \in Route => d.id \in Range(RoutedIn(canvas, ctx))
<1>1. n[2] = "proc" /\ n # Input
  BY DEF Fails, Input
<1>2. n[1] \in Ids(canvas) /\ KindOf(canvas, n[1]) = "decision"
  BY <1>1, JdmNodeCases DEF OnCourse
<1> DEFINE d == NodeById(canvas, n[1])
<1>3. d \in DecisionsOf(canvas) /\ d.id = n[1]
  BY <1>2, NodesNamed DEF OnCourse, DecisionsOf
<1>4. Decide(d.config, ctx) = "error"
  BY DEF Fails, DecisionOf
<1>5. n \in Route => n[1] \in Range(RoutedIn(canvas, ctx))
  BY <1>1 DEF Route, RouteIn
<1>6. QED
  BY <1>3, <1>4, <1>5

\* A returned node that ends the walk leaves it complete, or a decision failed.
LEMMA ReturnAtEnd ==
    ASSUME IndInv, OnCourse, WayInv, Running, AllReachable(canvas) => ReachInv,
           ~(iter >= IterMax), Return, phase' = "done"
    PROVE  EndInv'
<1>1. /\ Ready(Top) /\ executed' = executed \union {Top}
      /\ trace' = IF Top \in executed \union switched THEN trace ELSE Append(trace, Top)
      /\ IF Top \notin executed /\ Fails(Top)
         THEN actions' = <<>>
         ELSE Top[2] = "out" /\ actions' = Matched(trace')
      /\ UNCHANGED <<canvas, ctx, jdm, nodes, edges>>
  <2>1. Ready(Top) => phase = "walk"
    BY DEF Ready, Visiting
  <2>2. QED
    BY <2>1 DEF Return, Execute, input
<1>2. Route' = Route /\ Order' = Order
  BY <1>1 DEF Route, Order
<1>3. WayInv' /\ (Top[2] = "out" => AllTraced')
  BY ReturnOnWay
<1>4. ASSUME AllReachable(canvas) PROVE Top \in Route /\ Range(trace') \subseteq Route
  <2>1. ReachInv' /\ Top \in Route
    BY <1>4, ReturnReached
  <2>2. QED
    BY <1>2, <2>1 DEF ReachInv
<1>5. Top \in JdmNodes(canvas)
  BY <1>1, ReadyTop DEF OnCourse, Translate
<1>6. CASE Top \notin executed /\ Fails(Top)
  <2>1. PICK d \in DecisionsOf(canvas) :
               /\ Decide(d.config, ctx) = "error"
               /\ Top \in Route => d.id \in Range(RoutedIn(canvas, ctx))
    BY <1>5, <1>6, FailingDecision
  <2>2. QED
    BY <1>1, <1>4, <1>6, <2>1 DEF EndInv
<1>7. CASE ~(Top \notin executed /\ Fails(Top))
  <2>1. Top[2] = "out" /\ actions' = Matched(trace')
    BY <1>1, <1>7
  <2>2. Top \notin executed \union switched
    BY <2>1 DEF Running, IndInv, WalkInv
  <2>3. Last(trace') = Top
    <3>1. trace \in Seq(jdm.nodes) /\ Top \in jdm.nodes
      BY <1>1, ReadyTop DEF IndInv, WalkInv
    <3>2. \A S : \A s \in Seq(S) : \A n \in S : Last(Append(s, n)) = n
      BY DEF Last
    <3>3. QED
      BY <1>1, <2>2, <3>1, <3>2
  <2>4. \A n : Fails(n)' <=> Fails(n)
    BY <1>1 DEF Fails, DecisionOf
  <2>5. ~Fails(Top)
    BY <2>1 DEF Fails
  <2>6. \A n \in executed' : ~Fails(n)'
    BY <1>1, <2>4, <2>5 DEF Running
  <2>7. InOrder(Route', Order', trace') /\ AllTraced'
    BY <1>3, <2>1 DEF WayInv
  <2>8. AllReachable(canvas') => Range(trace') \subseteq Route'
    BY <1>1, <1>2, <1>4
  <2>9. QED
    BY <2>1, <2>3, <2>6, <2>7, <2>8 DEF EndInv
<1>8. QED
  BY <1>6, <1>7

\* A walk with nothing left to visit is complete.
LEMMA ExhaustedEnds ==
    ASSUME IndInv, OnCourse, WayInv, Running, AllReachable(canvas) => ReachInv, Exhausted
    PROVE  EndInv'
<1>1. /\ actions' = Matched(trace')
      /\ UNCHANGED <<canvas, ctx, jdm, nodes, edges, executed, trace>>
  BY DEF Exhausted, input, walk
<1>2. AllTraced
  BY ExhaustedAtEnd
<1>3. Route' = Route /\ Order' = Order
  BY <1>1 DEF Route, Order
<1>4. \A n : Fails(n)' <=> Fails(n)
  BY <1>1 DEF Fails, DecisionOf
<1>5. InOrder(Route', Order', trace') /\ AllTraced'
  BY <1>1, <1>2, <1>3 DEF WayInv, AllTraced
<1>6. \A n \in executed' : ~Fails(n)' /\ n[2] # "out"
  BY <1>1, <1>4 DEF Running
<1>7. AllReachable(canvas') => Range(trace') \subseteq Route'
  BY <1>1, <1>3 DEF ReachInv
<1>8. QED
  BY <1>1, <1>5, <1>6, <1>7 DEF EndInv

-----------------------------------------------------------------------------
(* Its induction *)

\* An accepted canvas goes on to be evaluated.
LEMMA SubmitAccepts ==
    ASSUME IndInv, IndInv', Submit
    PROVE  RulesInv' /\ AcceptedInv'
<1>1. phase = "submit" /\ canvas \in Submitted
  BY DEF Submit, IndInv, VerdictInv
<1>2. /\ canvas' = Normalize(canvas)
      /\ \E order : verdict' = ValidateCanvas(canvas', Outcomes, order)
      /\ phase' = IF Cardinality(Ids(canvas')) = Len(canvas'.nodes) THEN "evaluate" ELSE "done"
  BY DEF Submit
<1>3. phase' # "submit"
  BY <1>2
<1>4. RulesInv'
  BY <1>1, <1>2 DEF RulesInv
<1>5. ASSUME verdict' = {} PROVE phase' = "evaluate"
  <2>1. WellRouted(canvas')
    <3>1. IsCanvas(canvas') /\ \A id \in Ids(canvas') : ~ReachesItself(canvas', id)
      BY <1>3, <1>5 DEF IndInv, GraphInv, VerdictInv
    <3>2. canvas'.nodes # <<>>
      BY <1>2, NormalizeFills
    <3>3. PICK order : ValidateCanvas(canvas', Outcomes, order) = {}
      BY <1>2, <1>5
    <3>4. QED
      BY <3>1, <3>2, <3>3, AcceptedIsWellRouted
  <2>2. QED
    BY <1>2, <2>1, IdsCounted
<1>6. QED
  BY <1>4, <1>5 DEF AcceptedInv

\* Every later step keeps both invariants.
LEMMA AcceptedStep ==
    ASSUME FewDecisions, IndInv, IndInv', ResetsBounded, RulesInv, AcceptedInv,
           phase # "submit", [Next]_vars
    PROVE  RulesInv' /\ AcceptedInv'
<1>1. UNCHANGED <<canvas, verdict>> /\ phase' # "submit"
  <2>1. ~Submit
    BY DEF Submit
  <2>2. phase \in {"submit", "evaluate", "walk", "done"}
    BY DEF IndInv, GraphInv
  <2>3. CASE Evaluate
    BY <2>3 DEF Evaluate, input
  <2>4. CASE Skip \/ Defer \/ Prune \/ Exhausted
    BY <2>4 DEF Skip, Defer, Prune, Exhausted, Ready, Visiting, input
  <2>5. CASE Return
    BY <2>5 DEF Return, Execute, Ready, Visiting, input
  <2>6. CASE UNCHANGED vars
    BY <2>2, <2>6 DEF vars, input
  <2>7. QED
    BY <2>1, <2>3, <2>4, <2>5, <2>6 DEF Next, Finished
<1>2. RulesInv'
  BY <1>1 DEF RulesInv
<1>3. SUFFICES ASSUME verdict = {} PROVE AcceptedInv'
  BY <1>1, <1>2 DEF AcceptedInv
<1>4. WellRouted(canvas)
  BY <1>3, AcceptedHere
<1>5. phase = "walk" => OnCourse /\ WayInv /\ Running /\ (AllReachable(canvas) => ReachInv)
  BY <1>3 DEF AcceptedInv
<1>6. AllReachable(canvas') <=> AllReachable(canvas)
  BY <1>1
<1>7. CASE Evaluate
  <2>1. phase' = "walk" /\ OnCourse' /\ WayInv' /\ Running'
    BY <1>4, <1>7, EvaluateOnWay
  <2>2. AllReachable(canvas) => ReachInv'
    BY <1>4, <1>7, EvaluateReached
  <2>3. QED
    BY <1>6, <2>1, <2>2 DEF AcceptedInv
<1>8. ASSUME Skip \/ Defer \/ Prune
      PROVE  AcceptedInv'
  <2>1. phase = "walk" /\ phase' = "walk"
    BY <1>8 DEF Skip, Defer, Prune, Ready, Visiting
  <2>2. OnCourse' /\ WayInv' /\ Running'
    BY <1>5, <1>8, <2>1, SkipOnWay, DeferOnWay, PruneOnWay
  <2>3. AllReachable(canvas) => ReachInv'
    BY <1>5, <1>8, <2>1, SkipReached, DeferReached, PruneReached
  <2>4. QED
    BY <1>6, <2>1, <2>2, <2>3 DEF AcceptedInv
<1>9. CASE Return
  <2>1. phase = "walk" /\ phase' \in {"walk", "done"}
    BY <1>9 DEF Return, Execute, Ready, Visiting
  <2>2. OnCourse' /\ WayInv' /\ (phase' = "walk" => Running')
    BY <1>5, <1>9, <2>1, ReturnOnWay
  <2>3. AllReachable(canvas) => ReachInv'
    BY <1>5, <1>9, <2>1, ReturnReached
  <2>4. ~(iter >= IterMax)
    BY ResetsLeft
  <2>5. phase' = "done" => EndInv'
    BY <1>5, <1>9, <2>1, <2>4, ReturnAtEnd
  <2>6. QED
    BY <1>6, <2>1, <2>2, <2>3, <2>5 DEF AcceptedInv
<1>10. CASE Exhausted
  <2>1. phase = "walk" /\ phase' = "done" /\ UNCHANGED <<canvas, jdm>>
    BY <1>10 DEF Exhausted, input
  <2>2. OnCourse' /\ EndInv'
    BY <1>5, <1>10, <2>1, ExhaustedEnds DEF OnCourse
  <2>3. QED
    BY <2>1, <2>2 DEF AcceptedInv
<1>11. CASE UNCHANGED vars
  <2>1. UNCHANGED <<canvas, ctx, phase, verdict, jdm, nodes, edges, toVisit, ordered, switched,
                    executed, iter, trace, actions>>
    BY <1>11 DEF vars, input, walk
  <2>2. Route' = Route /\ Order' = Order /\ Follows' = Follows
    BY <2>1 DEF Route, Order, Follows
  <2>3. OnCourse' <=> OnCourse
    BY <2>1 DEF OnCourse
  <2>4. WayInv' <=> WayInv
    BY <2>1, <2>2 DEF WayInv, AllTraced, OnWay, Live
  <2>5. \A n : Fails(n)' <=> Fails(n)
    BY <2>1 DEF Fails, DecisionOf
  <2>6. Running' <=> Running
    BY <2>1, <2>5 DEF Running
  <2>7. ReachInv' <=> ReachInv
    BY <2>1, <2>2 DEF ReachInv, Into
  <2>8. EndInv' <=> EndInv
    BY <2>1, <2>2, <2>5 DEF EndInv, AllTraced
  <2>9. QED
    BY <1>6, <2>1, <2>3, <2>4, <2>6, <2>7, <2>8 DEF AcceptedInv
<1>12. QED
  BY <1>1, <1>7, <1>8, <1>9, <1>10, <1>11 DEF Next, Finished, Submit

\* The walk of an accepted canvas keeps to the routed path.
THEOREM AcceptedWalks ==
    ASSUME FewDecisions
    PROVE  Spec => [](RulesInv /\ AcceptedInv)
<1>1. Init => RulesInv /\ AcceptedInv
  BY DEF Init, RulesInv, AcceptedInv
<1>2. IndInv /\ IndInv' /\ ResetsBounded /\ RulesInv /\ AcceptedInv /\ [Next]_vars
        => (RulesInv /\ AcceptedInv)'
  <2> SUFFICES ASSUME IndInv, IndInv', ResetsBounded, RulesInv, AcceptedInv, [Next]_vars
               PROVE  RulesInv' /\ AcceptedInv'
    OBVIOUS
  <2>1. CASE phase # "submit"
    BY <2>1, AcceptedStep
  <2>2. CASE Submit
    BY <2>2, SubmitAccepts
  <2>3. CASE phase = "submit" /\ UNCHANGED vars
    <3>1. phase' = "submit"
      BY <2>3 DEF vars
    <3>2. QED
      BY <3>1 DEF RulesInv, AcceptedInv
  <2>4. CASE phase = "submit"
    <3>1. Submit \/ UNCHANGED vars
      BY <2>4 DEF Next, Evaluate, Skip, Defer, Prune, Return, Exhausted, Finished, Ready, Visiting
    <3>2. QED
      BY <2>2, <2>3, <2>4, <3>1
  <2>5. QED
    BY <2>1, <2>4
<1>3. QED
  BY <1>1, <1>2, Inductive, ResetsAlwaysBounded, PTL DEF Spec

-----------------------------------------------------------------------------
(* The theorems *)

\* The names of the properties.
LEMMA RoutedNames ==
    /\ Routed = RoutedIn(canvas, ctx) /\ ExpressionIds = ExpressionsOf(canvas)
    /\ Decisions = DecisionsOf(canvas)
    /\ RoutedActions = Keeping(RoutedIn(canvas, ctx), ExpressionsOf(canvas))
<1>1. Routed = RoutedIn(canvas, ctx)
  BY RoutedHere
<1>2. ExpressionIds = ExpressionsOf(canvas) /\ Decisions = DecisionsOf(canvas)
  BY DEF ExpressionIds, ExpressionsOf, Decisions, DecisionsOf
<1>3. QED
  BY <1>1, <1>2 DEF RoutedActions

\* What has been traced of an accepted canvas when its walk has come to an end
\* without an error.
Traced ==
    /\ OnCourse
    /\ trace \in Seq(JdmNodes(canvas))
    /\ InOrder(Route, Order, trace)
    /\ AllTraced
    /\ Range(trace) = executed \union switched
    /\ switched \subseteq {n \in jdm.nodes : n[2] = "switch"}
    /\ \A n \in executed : ~Fails(n)

\* How the evaluation of an accepted canvas ends, together with its trace.
LEMMA EvaluatedEnds ==
    ASSUME IndInv, RulesInv, AcceptedInv, Evaluated
    PROVE  /\ OnCourse
           /\ \/ /\ actions = <<>>
                 /\ \E d \in DecisionsOf(canvas) :
                       /\ Decide(d.config, ctx) = "error"
                       /\ AllReachable(canvas) => d.id \in Range(RoutedIn(canvas, ctx))
              \/ /\ actions = Matched(trace)
                 /\ Traced
                 /\ AllReachable(canvas) => Range(trace) \subseteq Route
                 /\ Last(trace)[2] = "out" \/ \A n \in executed : n[2] # "out"
<1>1. phase = "done" /\ verdict = {}
  BY DEF Evaluated
<1>2. OnCourse /\ EndInv
  BY <1>1 DEF AcceptedInv
<1>3. trace \in Seq(JdmNodes(canvas))
  <2>1. jdm.nodes = JdmNodes(canvas)
    BY <1>2 DEF OnCourse, Translate
  <2>2. QED
    BY <2>1 DEF IndInv, WalkInv
<1>4. Range(trace) = executed \union switched /\ switched \subseteq {n \in jdm.nodes : n[2] = "switch"}
  BY DEF IndInv, WalkInv, TraceInv
<1>5. QED
  BY <1>2, <1>3, <1>4 DEF EndInv, Traced

\* No decision of the routed path fails when its trace is complete.
LEMMA TracedDecides ==
    ASSUME Traced, NEW d \in DecisionsOf(canvas), d.id \in Range(RoutedIn(canvas, ctx))
    PROVE  Decide(d.config, ctx) # "error"
<1> DEFINE n == <<d.id, "proc">>
<1>1. d \in Nodes(canvas) /\ d.kind = "decision" /\ WellRouted(canvas)
  BY DEF DecisionsOf, Traced, OnCourse
<1>2. NodeById(canvas, d.id) = d
  BY <1>1, NodesNamed
<1>3. Entry(d) = n /\ Entry(d) \in JdmNodes(canvas)
  BY <1>1, EntryCases DEF JdmNodes
<1>4. n \in Route
  BY <1>3 DEF Route, RouteIn
<1>5. n \in executed
  BY <1>4 DEF Traced, AllTraced
<1>6. ~Fails(n)
  BY <1>5 DEF Traced
<1>7. QED
  BY <1>2, <1>6 DEF Fails, DecisionOf

\* The actions of a canvas whose nodes can all be reached are the expressions
\* of the routed path, in its order, or none when a decision of it fails; for
\* every canvas validation accepts, provided ITER_MAX exceeds its decisions.
\* (walker.rs, next; evaluator.rs, ordered_actions)
THEOREM RoutedActionsAlwaysOnly ==
    ASSUME FewDecisions
    PROVE  Spec => []RoutedActionsOnly
<1>1. ASSUME IndInv, RulesInv, AcceptedInv PROVE RoutedActionsOnly
  <2>1. SUFFICES ASSUME Evaluated, AllReachable(canvas)
                 PROVE  actions = IF Failing(Range(Routed)) THEN <<>> ELSE RoutedActions
    BY DEF RoutedActionsOnly, AllReachable
  <2>2. CASE actions = <<>> /\ \E d \in DecisionsOf(canvas) :
                 Decide(d.config, ctx) = "error" /\ d.id \in Range(RoutedIn(canvas, ctx))
    BY <2>2, RoutedNames DEF Failing
  <2>3. CASE actions = Matched(trace) /\ Traced /\ Range(trace) \subseteq Route
    <3>1. ~Failing(Range(Routed))
      BY <2>3, TracedDecides, RoutedNames DEF Failing
    <3>2. Matched(trace) = Keeping(RoutedIn(canvas, ctx), ExpressionsOf(canvas))
      BY <2>3, MatchedIsRouted DEF Traced, OnCourse, Route, Order, AllTraced
    <3>3. QED
      BY <2>3, <3>1, <3>2, RoutedNames
  <2>4. QED
    BY <1>1, <2>1, <2>2, <2>3, EvaluatedEnds
<1>2. QED
  BY <1>1, Inductive, AcceptedWalks, PTL

\* While no decision fails, nodes that cannot be reached never cost a routed
\* action its place: whatever else is walked, the actions of the routed path come, each once and in its
\* order.  (walker.rs, remove_edge_recursive)
THEOREM RoutedActionsAlwaysKept ==
    ASSUME FewDecisions
    PROVE  Spec => []RoutedActionsKept
<1>1. ASSUME IndInv, RulesInv, AcceptedInv PROVE RoutedActionsKept
  <2>1. SUFFICES ASSUME Evaluated, ~Failing(Ids(canvas))
                 PROVE  RoutedActions = Keeping(actions, Range(Routed))
    BY DEF RoutedActionsKept
  <2>2. \A d \in DecisionsOf(canvas) : Decide(d.config, ctx) # "error"
    BY <2>1, RoutedNames DEF Failing, DecisionsOf, Ids
  <2>3. actions = Matched(trace) /\ Traced
    BY <1>1, <2>1, <2>2, EvaluatedEnds
  <2>4. Keeping(Matched(trace), Range(RoutedIn(canvas, ctx)))
            = Keeping(RoutedIn(canvas, ctx), ExpressionsOf(canvas))
    BY <2>3, MatchedIsRouted DEF Traced, OnCourse, Route, Order, AllTraced
  <2>5. QED
    BY <2>3, <2>4, RoutedNames
<1>2. QED
  BY <1>1, Inductive, AcceptedWalks, PTL

\* The walk of an accepted canvas comes to an output node unless a decision
\* fails or the request takes a branch that has no edge, however often the walk
\* is reset.  (rule_graph_service.rs, validate_all_paths_reach_end; walker.rs)
THEOREM AcceptedRunsAlwaysEnd ==
    ASSUME FewDecisions
    PROVE  Spec => []AcceptedRunsEnd
<1>1. ASSUME IndInv, RulesInv, AcceptedInv PROVE AcceptedRunsEnd
  <2> DEFINE s == RoutedIn(canvas, ctx)
             id == Last(s)
  <2>1. SUFFICES ASSUME Evaluated, ~Failing(Ids(canvas)), Last(trace)[2] # "out"
                 PROVE  KindOf(canvas, Last(Routed)) = "decision"
    BY DEF AcceptedRunsEnd
  <2>2. \A d \in DecisionsOf(canvas) : Decide(d.config, ctx) # "error"
    BY <2>1, RoutedNames DEF Failing, DecisionsOf, Ids
  <2>3. Traced /\ \A n \in executed : n[2] # "out"
    BY <1>1, <2>1, <2>2, EvaluatedEnds
  <2>4. WellRouted(canvas)
    BY <2>3 DEF Traced, OnCourse
  <2>5. Trail(canvas, ctx, s) /\ ChosenIn(canvas, ctx, id) = {}
    BY <2>4, RoutedIsTrail
  <2>6. id \in Ids(canvas)
    BY <2>4, <2>5, TrailGrows
  <2>7. id \in Range(s)
    <3>1. Len(s) \in 1..Len(canvas.nodes) /\ s \in Seq(Ids(canvas))
      BY <2>5 DEF Trail
    <3>2. Len(s) \in DOMAIN s
      BY <3>1, LenProperties
    <3>3. QED
      BY <3>2 DEF Last, Range
  <2>8. KindOf(canvas, id) \in NodeKinds
        /\ NodeById(canvas, id) \in Nodes(canvas) /\ NodeById(canvas, id).id = id
        /\ NodeById(canvas, id).kind = KindOf(canvas, id)
    BY <2>4, <2>6, NodesNamed
  <2>9. KindOf(canvas, id) \notin {"start", "expression"}
    BY <2>4, <2>5, <2>6, ChosenOnce
  <2>10. KindOf(canvas, id) # "end"
    <3>1. SUFFICES ASSUME KindOf(canvas, id) = "end" PROVE FALSE
      OBVIOUS
    <3>2. Entry(NodeById(canvas, id)) = <<id, "out">>
      BY <2>4, <2>8, <3>1, EntryCases
    <3>3. <<id, "out">> \in JdmNodes(canvas)
      BY <2>8, <3>1, <3>2 DEF JdmNodes
    <3> HIDE DEF id, s
    <3>4. <<id, "out">> \in Route
      BY <2>7, <3>3 DEF Route, RouteIn, s
    <3>5. <<id, "out">> \in executed
      BY <2>3, <3>4 DEF Traced, AllTraced
    <3>6. QED
      BY <2>3, <3>5
  <2>11. QED
    BY <2>8, <2>9, <2>10, RoutedNames DEF NodeKinds
<1>2. QED
  BY <1>1, Inductive, AcceptedWalks, PTL

=============================================================================
