-------------------------- MODULE CanvasWalkProofs --------------------------
(***************************************************************************)
(* Theorems about CanvasWalk, for every set of canvases and requests: what *)
(* validation accepts the processors decide, it finds every cycle, and the *)
(* walk of any canvas stays inside its graph, is reset at most once by a   *)
(* decision, ends, follows no branch a decision did not take and applies   *)
(* no action twice.                                                        *)
(***************************************************************************)
EXTENDS CanvasWalk, CommonLemmas, FiniteSetTheorems, SequenceTheorems, TLAPS

-----------------------------------------------------------------------------
(* Places in order *)

\* LatestFirst lists the same places from the last to the first.
LEMMA LatestFirstLists ==
    ASSUME NEW n \in Nat, NEW E, E \subseteq 1..n
    PROVE  /\ LatestFirst(E) \in Seq(E)
           /\ DOMAIN LatestFirst(E) = 1..Cardinality(E)
           /\ Cardinality(E) \in Nat
           /\ \A i \in E : \E k \in DOMAIN LatestFirst(E) : LatestFirst(E)[k] = i
<1> DEFINE m == Cardinality(E)
           up == Ascending(E)
           down == [k \in 1..m |-> up[m - k + 1]]
<1>1. /\ up \in Seq(E) /\ Len(up) = m /\ m \in Nat
      /\ \A i \in E : \E k \in 1..m : up[k] = i
  BY AscendingLists
<1> HIDE DEF up, m
<1>2. \A k \in 1..m : up[k] \in E
  BY <1>1, ElementOfSeq
<1>3. \A k \in 1..m : m - k + 1 \in 1..m /\ m - (m - k + 1) + 1 = k
  BY <1>1
<1>4. \A k \in 1..m : down[k] \in E /\ down[m - k + 1] = up[k]
  BY <1>2, <1>3
<1>5. down \in Seq(E) /\ DOMAIN down = 1..m
  BY <1>1, <1>4
<1>6. LatestFirst(E) = down
  BY <1>1 DEF LatestFirst, Reverse, up, m
<1>7. QED
  BY <1>1, <1>3, <1>4, <1>5, <1>6 DEF m

-----------------------------------------------------------------------------
(* What a node reaches *)

\* An edge from a to b whose ends both exist.
Linked(c, a, b) ==
    \E i \in Resolvable(c) : c.edges[i].source = a /\ c.edges[i].target = b

\* What is reached from a set of nodes, those included.
Reached(c, from) == Closure(Len(c.nodes), from, LAMBDA S : Successors(c, S))

ReachesItself(c, id) == id \in Reached(c, Successors(c, {id}))

LEMMA SuccessorsLinked ==
    ASSUME NEW c, NEW S
    PROVE  /\ Successors(c, S) \subseteq Ids(c)
           /\ \A b : b \in Successors(c, S) <=> \E a \in S : Linked(c, a, b)
  BY DEF Successors, Resolvable, Linked

\* The sets from which the closure of a set under edges is grown.
LEMMA ClosureGrows ==
    ASSUME NEW c, IsCanvas(c), NEW S, S \subseteq Ids(c)
    PROVE  \E g \in [0..Len(c.nodes) -> SUBSET Ids(c)] :
              /\ g[0] = S
              /\ \A k \in 1..Len(c.nodes) : g[k] = g[k - 1] \union Successors(c, g[k - 1])
              /\ Reached(c, S) = g[Len(c.nodes)]
<1> DEFINE n == Len(c.nodes)
           F == [R \in SUBSET Ids(c) |-> R \union Successors(c, R)]
           Is(g) == g = [k \in 0..n |->
                           IF k = 0 THEN S ELSE g[k - 1] \union Successors(c, g[k - 1])]
           grown == CHOOSE g : Is(g)
<1>1. n \in Nat /\ 0 \in 0..n /\ n \in 0..n /\ \A k \in 1..n : k \in 0..n /\ k - 1 \in 0..n /\ k # 0
  BY LenProperties DEF IsCanvas
<1>2. F \in [SUBSET Ids(c) -> SUBSET Ids(c)]
  BY SuccessorsLinked
<1>3. PICK g : Iteration(g, n, SUBSET Ids(c), S, F)
  <2> HIDE DEF F, n
  <2>1. S \in SUBSET Ids(c)
    OBVIOUS
  <2>2. QED
    BY <1>1, <1>2, <2>1, Iterates
<1> USE DEF Iteration
<1>4. \A k \in 1..n : g[k] = g[k - 1] \union Successors(c, g[k - 1])
  BY <1>1, <1>3
<1>5. Is(g)
  <2> HIDE DEF n
  <2>1. \A k \in 0..n : k # 0 => k \in 1..n
    BY <1>1
  <2>2. \A k \in 0..n : g[k] = IF k = 0 THEN S ELSE g[k - 1] \union Successors(c, g[k - 1])
    BY <1>3, <1>4, <2>1
  <2>3. QED
    BY <1>3, <2>2
<1>6. Is(grown)
  <2> HIDE DEF Is
  <2>1. QED
    BY <1>5
<1> HIDE DEF n
<1>7. /\ grown[0] = S
      /\ \A k \in 1..n : grown[k] = grown[k - 1] \union Successors(c, grown[k - 1])
  <2> HIDE DEF grown
  <2>1. QED
    BY <1>1, <1>6
<1>8. \A k \in 0..n : grown[k] = g[k]
  <2> DEFINE T == {k \in 0..n : grown[k] = g[k]}
  <2> HIDE DEF grown
  <2>1. 0 \in T
    BY <1>1, <1>3, <1>7
  <2>2. \A k \in 1..n : k - 1 \in T => k \in T
    BY <1>1, <1>4, <1>7
  <2>3. 0..n \subseteq T
    <3> HIDE DEF T
    <3>1. QED
      BY <1>1, <2>1, <2>2, SetInduction
  <2>4. QED
    BY <2>3
<1>9. Reached(c, S) = grown[n]
  BY DEF Reached, Closure, n
<1>10. Reached(c, S) = g[n]
  BY <1>1, <1>8, <1>9
<1>11. QED
  BY <1>3, <1>4, <1>10 DEF n

\* A set that edges do not leave holds whatever its nodes reach.
LEMMA ClosedHolds ==
    ASSUME NEW c, IsCanvas(c), NEW B, NEW S, S \subseteq Ids(c), S \subseteq B,
           Successors(c, B) \subseteq B
    PROVE  Reached(c, S) \subseteq B
<1> DEFINE n == Len(c.nodes)
<1>1. n \in Nat
  BY LenProperties DEF IsCanvas
<1>2. PICK g \in [0..n -> SUBSET Ids(c)] :
              /\ g[0] = S
              /\ \A k \in 1..n : g[k] = g[k - 1] \union Successors(c, g[k - 1])
              /\ Reached(c, S) = g[n]
  BY ClosureGrows
<1> HIDE DEF n
<1> DEFINE T == {k \in 0..n : g[k] \subseteq B}
<1>3. 0 \in T
  BY <1>1, <1>2
<1>4. ASSUME NEW k \in 1..n, k - 1 \in T PROVE k \in T
  <2>1. Successors(c, g[k - 1]) \subseteq Successors(c, B)
    BY <1>4, SuccessorsLinked
  <2>2. QED
    BY <1>1, <1>2, <1>4, <2>1
<1>5. 0..n \subseteq T
  <2> HIDE DEF T
  <2>1. QED
    BY <1>1, <1>3, <1>4, SetInduction
<1>6. n \in 0..n
  BY <1>1
<1>7. g[n] \subseteq B
  BY <1>5, <1>6
<1>8. QED
  BY <1>2, <1>7 DEF n

\* A path that is no longer than the canvas has nodes leads to what its first
\* node reaches.
LEMMA PathReaches ==
    ASSUME NEW c, IsCanvas(c), NEW m \in 1..Len(c.nodes), NEW path,
           \A j \in 1..m : Linked(c, path[j], path[j + 1])
    PROVE  path[m + 1] \in Reached(c, Successors(c, {path[1]}))
<1> DEFINE n == Len(c.nodes)
           S == Successors(c, {path[1]})
<1>1. n \in Nat /\ m \in 1..n
  BY LenProperties DEF IsCanvas
<1>2. S \subseteq Ids(c)
  BY SuccessorsLinked
<1>3. PICK g \in [0..n -> SUBSET Ids(c)] :
              /\ g[0] = S
              /\ \A k \in 1..n : g[k] = g[k - 1] \union Successors(c, g[k - 1])
              /\ Reached(c, S) = g[n]
  <2> HIDE DEF S
  <2>1. QED
    BY <1>2, ClosureGrows
<1> HIDE DEF n
<1> DEFINE T == {k \in 0..n : k < m => path[k + 2] \in g[k]}
           U == {k \in 0..n : k >= m => path[m + 1] \in g[k]}
<1>4. 0 \in T
  <2>1. 1 \in 1..m /\ 1 + 1 = 2 /\ 0 + 2 = 2
    BY <1>1
  <2>2. path[2] \in S
    BY <2>1, SuccessorsLinked
  <2>3. QED
    BY <1>1, <1>3, <2>1, <2>2
<1>5. ASSUME NEW k \in 1..n, k - 1 \in T PROVE k \in T
  <2>1. SUFFICES ASSUME k < m PROVE path[k + 2] \in g[k]
    BY <1>1
  <2>2. k + 1 \in 1..m /\ (k + 1) + 1 = k + 2 /\ (k - 1) + 2 = k + 1 /\ k - 1 < m
    BY <1>1, <2>1
  <2>3. path[k + 1] \in g[k - 1]
    BY <1>5, <2>2
  <2>4. Linked(c, path[k + 1], path[k + 2])
    BY <2>2
  <2>5. path[k + 2] \in Successors(c, g[k - 1])
    BY <2>3, <2>4, SuccessorsLinked
  <2>6. QED
    BY <1>3, <2>5
<1>6. 0..n \subseteq T
  <2> HIDE DEF T
  <2>1. QED
    BY <1>1, <1>4, <1>5, SetInduction
<1>7. path[m + 1] \in g[m - 1]
  <2>1. m - 1 \in 0..n /\ m - 1 < m /\ (m - 1) + 2 = m + 1
    BY <1>1
  <2>2. QED
    BY <1>6, <2>1
<1>8. ASSUME NEW k \in 1..n, k - 1 \in U PROVE k \in U
  <2>1. g[k - 1] \subseteq g[k]
    BY <1>3
  <2>2. CASE k > m
    BY <1>1, <1>8, <2>1, <2>2
  <2>3. CASE k = m
    BY <1>1, <1>7, <2>1, <2>3
  <2>4. CASE k < m
    BY <1>1, <2>4
  <2>5. QED
    BY <1>1, <2>2, <2>3, <2>4
<1>9. 0 \in U
  BY <1>1
<1>10. 0..n \subseteq U
  <2> HIDE DEF U
  <2>1. QED
    BY <1>1, <1>8, <1>9, SetInduction
<1>11. n \in 0..n /\ n >= m
  BY <1>1
<1>12. path[m + 1] \in g[n]
  BY <1>10, <1>11
<1>13. QED
  BY <1>3, <1>12 DEF n

-----------------------------------------------------------------------------
(* The search for cycles *)

Target(c, id, k) == c.edges[Leaving(c, id)[k]].target

\* The adjacency list of a node holds its edges, each once.
LEMMA LeavingLinks ==
    ASSUME NEW c, IsCanvas(c), NEW id
    PROVE  /\ Len(Leaving(c, id)) \in Nat
           /\ \A k \in 1..Len(Leaving(c, id)) :
                 /\ Leaving(c, id)[k] \in Resolvable(c)
                 /\ c.edges[Leaving(c, id)[k]].source = id
                 /\ Linked(c, id, Target(c, id, k))
                 /\ Target(c, id, k) \in Ids(c)
           /\ \A k, l \in 1..Len(Leaving(c, id)) :
                 Leaving(c, id)[k] = Leaving(c, id)[l] => k = l
           /\ \A b : Linked(c, id, b) => \E k \in 1..Len(Leaving(c, id)) : Target(c, id, k) = b
<1> DEFINE E == {i \in Resolvable(c) : c.edges[i].source = id}
           at == Leaving(c, id)
<1>1. Len(c.edges) \in Nat /\ E \subseteq 1..Len(c.edges)
  BY LenProperties DEF IsCanvas, Resolvable
<1>2. at = Ascending(E)
  BY DEF Leaving
<1> HIDE DEF E, at
<1>3. /\ at \in Seq(E) /\ Len(at) = Cardinality(E) /\ Cardinality(E) \in Nat
      /\ \A k, l \in 1..Cardinality(E) : at[k] = at[l] => k = l
      /\ \A i \in E : \E k \in 1..Cardinality(E) : at[k] = i
  BY <1>1, <1>2, AscendingLists
<1>4. \A k \in 1..Len(at) : at[k] \in E
  BY <1>3, ElementOfSeq
<1>5. ASSUME NEW k \in 1..Len(at)
      PROVE  /\ at[k] \in Resolvable(c) /\ c.edges[at[k]].source = id
             /\ c.edges[at[k]].target \in Ids(c)
  BY <1>4 DEF E, Resolvable
<1>6. ASSUME NEW k \in 1..Len(at) PROVE Linked(c, id, c.edges[at[k]].target)
  BY <1>5 DEF Linked
<1>7. ASSUME NEW b, Linked(c, id, b) PROVE \E k \in 1..Len(at) : c.edges[at[k]].target = b
  <2>1. PICK i \in Resolvable(c) : c.edges[i].source = id /\ c.edges[i].target = b
    BY <1>7 DEF Linked
  <2>2. i \in E
    BY <2>1 DEF E
  <2>3. QED
    BY <1>3, <2>1, <2>2
<1>8. QED
  BY <1>3, <1>5, <1>6, <1>7 DEF Target, at

SearchStates(c) ==
    [starts : Seq(Ids(c)), stack : Seq(Ids(c) \X Nat),
     gray : SUBSET Ids(c), black : SUBSET Ids(c), found : BOOLEAN]

\* The stack is a path of the gray nodes.
PathInv(c, s) ==
    /\ s.gray = {s.stack[p][1] : p \in 1..Len(s.stack)}
    /\ s.gray \intersect s.black = {}
    /\ \A p, q \in 1..Len(s.stack) : s.stack[p][1] = s.stack[q][1] => p = q
    /\ \A p \in 1..Len(s.stack) : s.stack[p][2] <= Len(Leaving(c, s.stack[p][1]))
    /\ \A p \in 1..Len(s.stack) - 1 : Linked(c, s.stack[p][1], s.stack[p + 1][1])

\* What a frame has looked at is black, or on the stack above it.
CursorInv(c, s) ==
    ~s.found =>
        \A p \in 1..Len(s.stack) : \A k \in 1..s.stack[p][2] :
            \/ Target(c, s.stack[p][1], k) \in s.black
            \/ p < Len(s.stack) /\ Target(c, s.stack[p][1], k) = s.stack[p + 1][1]

\* Black nodes lead to black nodes only, and are on no cycle.
BlackInv(c, s) ==
    /\ Successors(c, s.black) \subseteq s.black
    /\ \A b \in s.black : ~ReachesItself(c, b)

SearchInv(c, s) ==
    /\ PathInv(c, s)
    /\ CursorInv(c, s)
    /\ BlackInv(c, s)
    /\ Ids(c) \subseteq s.black \union s.gray \union Range(s.starts)
    /\ s.found => \E id \in Ids(c) : ReachesItself(c, id)

Searching(c) == {s \in SearchStates(c) : SearchInv(c, s)}

\* The edges no frame has looked at.
Unseen(c, s) ==
    {i \in Resolvable(c) :
        /\ c.edges[i].source \notin s.black
        /\ \A p \in 1..Len(s.stack) : \A k \in 1..s.stack[p][2] :
              Leaving(c, s.stack[p][1])[k] # i}

\* The outer loop takes a node that is black already or opens it.
LEMMA NextRootKeeps ==
    ASSUME NEW c, IsCanvas(c), NEW s \in Searching(c), ~s.found, s.stack = <<>>, s.starts # <<>>
    PROVE  /\ NextRoot(s) \in Searching(c)
           /\ Len(NextRoot(s).starts) < Len(s.starts)
           /\ NextRoot(s).black = s.black /\ Unseen(c, NextRoot(s)) \subseteq Unseen(c, s)
<1> DEFINE t == NextRoot(s)
           root == Head(s.starts)
           rest == Tail(s.starts)
<1>1. /\ s.starts \in Seq(Ids(c)) /\ s.gray \subseteq Ids(c) /\ s.black \subseteq Ids(c)
      /\ SearchInv(c, s)
  BY DEF Searching, SearchStates
<1>2. /\ root \in Ids(c) /\ rest \in Seq(Ids(c)) /\ Len(rest) = Len(s.starts) - 1
      /\ Len(s.starts) \in Nat
      /\ Range(s.starts) = {root} \union Range(rest)
  <2>1. Len(s.starts) \in Nat \ {0} /\ DOMAIN s.starts = 1..Len(s.starts)
    BY <1>1, EmptySeq, LenProperties
  <2>2. root = s.starts[1] /\ root \in Ids(c)
    BY <1>1, <2>1, HeadTailProperties, ElementOfSeq
  <2>3. rest \in Seq(Ids(c)) /\ Len(rest) = Len(s.starts) - 1 /\ DOMAIN rest = 1..Len(s.starts) - 1
    BY <1>1, <2>1, HeadTailProperties, LenProperties
  <2>4. \A i \in 1..Len(s.starts) - 1 : rest[i] = s.starts[i + 1]
    BY <1>1, <2>1, HeadTailProperties
  <2>5. \A i \in 1..Len(s.starts) : i = 1 \/ (i - 1 \in 1..Len(s.starts) - 1 /\ (i - 1) + 1 = i)
    BY <2>1
  <2>6. \A i \in 1..Len(s.starts) - 1 : i + 1 \in 1..Len(s.starts) /\ 1 \in 1..Len(s.starts)
    BY <2>1
  <2> HIDE DEF root, rest
  <2>7. Range(s.starts) = {root} \union Range(rest)
    <3>1. Range(s.starts) = {s.starts[i] : i \in 1..Len(s.starts)}
      BY <2>1 DEF Range
    <3>2. Range(rest) = {rest[i] : i \in 1..Len(s.starts) - 1}
      BY <2>3 DEF Range
    <3>3. ASSUME NEW i \in 1..Len(s.starts) PROVE s.starts[i] \in {root} \union Range(rest)
      <4>1. CASE i = 1
        BY <2>2, <4>1
      <4>2. CASE i # 1
        <5>1. i - 1 \in 1..Len(s.starts) - 1 /\ (i - 1) + 1 = i
          BY <2>5, <4>2
        <5>2. rest[i - 1] = s.starts[i]
          BY <2>4, <5>1
        <5>3. QED
          BY <3>2, <5>1, <5>2
      <4>3. QED
        BY <4>1, <4>2
    <3>4. \A i \in 1..Len(s.starts) - 1 : rest[i] \in Range(s.starts)
      BY <2>4, <2>6, <3>1
    <3>5. root \in Range(s.starts)
      BY <2>1, <2>2, <3>1
    <3>6. QED
      BY <3>1, <3>2, <3>3, <3>4, <3>5
  <2>8. QED
    BY <2>1, <2>2, <2>3, <2>7
<1>3. Len(s.stack) = 0 /\ s.gray = {}
  BY <1>1 DEF SearchInv, PathInv
<1>4. <<>> \in Seq(Ids(c) \X Nat) /\ Len(<<>>) = 0
  BY EmptySeq
<1> HIDE DEF root, rest
<1>5. CASE root \in s.black
  <2>1. t = Search(rest, <<>>, s.gray, s.black, FALSE)
    BY <1>5 DEF NextRoot, root, rest
  <2> HIDE DEF t
  <2>2. /\ t \in SearchStates(c) /\ t.starts = rest /\ t.stack = <<>> /\ t.gray = s.gray
        /\ t.black = s.black /\ ~t.found
    BY <1>1, <1>2, <1>4, <2>1 DEF Search, SearchStates
  <2>3. PathInv(c, t) /\ CursorInv(c, t)
    BY <1>1, <1>3, <1>4, <2>2 DEF PathInv, CursorInv, SearchInv
  <2>4. SearchInv(c, t)
    BY <1>1, <1>2, <1>5, <2>2, <2>3 DEF SearchInv, BlackInv
  <2>5. Unseen(c, t) \subseteq Unseen(c, s)
    BY <1>3, <2>2 DEF Unseen
  <2>6. QED
    BY <1>2, <2>2, <2>4, <2>5 DEF Searching, t
<1>6. CASE root \notin s.black
  <2> DEFINE one == <<<<root, 0>>>>
  <2>1. t = Search(rest, one, s.gray \union {root}, s.black, FALSE)
    BY <1>3, <1>6 DEF NextRoot, root, rest
  <2>2. one \in Seq(Ids(c) \X Nat) /\ Len(one) = 1 /\ one[1][1] = root /\ one[1][2] = 0
    BY <1>2
  <2> HIDE DEF t, one
  <2>3. /\ t \in SearchStates(c) /\ t.starts = rest /\ t.stack = one /\ t.gray = {root}
        /\ t.black = s.black /\ ~t.found
    BY <1>1, <1>2, <1>3, <2>1, <2>2 DEF Search, SearchStates
  <2>4. \A p \in 1..Len(t.stack) : p = 1 /\ t.stack[p][1] = root /\ t.stack[p][2] = 0
    BY <2>2, <2>3
  <2>5. Len(t.stack) = 1 /\ 1 \in 1..1
    BY <2>2, <2>3
  <2>6. PathInv(c, t)
    <3>1. Len(Leaving(c, root)) \in Nat
      BY LeavingLinks
    <3>2. t.gray = {t.stack[p][1] : p \in 1..Len(t.stack)}
      BY <2>3, <2>4, <2>5
    <3>3. QED
      BY <1>6, <2>3, <2>4, <2>5, <3>1, <3>2 DEF PathInv
  <2>7. CursorInv(c, t)
    BY <2>4 DEF CursorInv
  <2>8. SearchInv(c, t)
    BY <1>1, <1>2, <1>3, <2>3, <2>6, <2>7 DEF SearchInv, BlackInv
  <2>9. Unseen(c, t) \subseteq Unseen(c, s)
    BY <1>3, <2>3, <2>4 DEF Unseen
  <2>10. QED
    BY <1>2, <2>3, <2>8, <2>9 DEF Searching, t
<1>7. QED
  BY <1>5, <1>6

LEMMA TopFrame ==
    ASSUME NEW c, NEW s \in Searching(c), s.stack # <<>>
    PROVE  /\ Len(s.stack) \in Nat \ {0} /\ Len(s.stack) \in 1..Len(s.stack)
           /\ Last(s.stack) = s.stack[Len(s.stack)]
           /\ \A p \in 1..Len(s.stack) : s.stack[p] \in Ids(c) \X Nat
           /\ s.stack[Len(s.stack)][1] \in s.gray \ s.black
<1>1. s.stack \in Seq(Ids(c) \X Nat) /\ PathInv(c, s)
  BY DEF Searching, SearchStates, SearchInv
<1>2. Len(s.stack) \in Nat \ {0}
  BY <1>1, EmptySeq
<1>3. \A p \in 1..Len(s.stack) : s.stack[p] \in Ids(c) \X Nat
  BY <1>1, ElementOfSeq
<1>4. s.stack[Len(s.stack)][1] \in s.gray \ s.black
  BY <1>1, <1>2 DEF PathInv
<1>5. QED
  BY <1>2, <1>3, <1>4 DEF Last

\* The stack is no longer than the canvas has nodes.
LEMMA StackBounded ==
    ASSUME NEW c, IsCanvas(c), NEW s \in Searching(c)
    PROVE  Len(s.stack) <= Len(c.nodes)
<1> DEFINE L == Len(s.stack)
           n == Len(c.nodes)
           nodeAt == [p \in 1..L |-> s.stack[p][1]]
           idAt == [i \in 1..n |-> c.nodes[i].id]
<1>1. s.stack \in Seq(Ids(c) \X Nat) /\ PathInv(c, s)
  BY DEF Searching, SearchStates, SearchInv
<1>2. L \in Nat /\ n \in Nat /\ DOMAIN c.nodes = 1..n
  BY <1>1, LenProperties DEF IsCanvas
<1>3. /\ IsFiniteSet(1..n) /\ Cardinality(1..n) = n
      /\ IsFiniteSet(1..L) /\ Cardinality(1..L) = L
  <2> HIDE DEF n, L
  <2>1. QED
    BY <1>2, FS_Interval
<1>4. idAt \in Surjection(1..n, Ids(c))
  BY <1>2 DEF Surjection, Ids, Nodes, Range
<1>5. IsFiniteSet(Ids(c)) /\ Cardinality(Ids(c)) <= n
  BY <1>3, <1>4, FS_Surjection
<1>6. \A p \in 1..L : s.stack[p][1] \in Ids(c)
  BY <1>1, ElementOfSeq
<1>7. nodeAt \in Injection(1..L, Ids(c))
  BY <1>1, <1>6 DEF Injection, IsInjective, PathInv
<1>8. L <= Cardinality(Ids(c))
  BY <1>3, <1>5, <1>7, FS_Injection
<1>9. Cardinality(Ids(c)) \in Nat
  BY <1>5, FS_CardinalityType
<1>10. QED
  BY <1>2, <1>5, <1>8, <1>9

\* An edge from the top of the stack to a node on it closes a cycle.
LEMMA BackEdgeCloses ==
    ASSUME NEW c, IsCanvas(c), NEW s \in Searching(c), s.stack # <<>>,
           NEW next \in s.gray, Linked(c, s.stack[Len(s.stack)][1], next)
    PROVE  ReachesItself(c, next)
<1> DEFINE L == Len(s.stack)
<1>1. PathInv(c, s) /\ L \in Nat \ {0} /\ L <= Len(c.nodes) /\ Len(c.nodes) \in Nat
  BY TopFrame, StackBounded, LenProperties DEF Searching, SearchInv, IsCanvas
<1>2. PICK q \in 1..L : s.stack[q][1] = next
  BY <1>1 DEF PathInv
<1> DEFINE m == L - q + 1
           path == [j \in 1..m + 1 |-> IF j = m + 1 THEN next ELSE s.stack[q + j - 1][1]]
<1>3. m \in 1..Len(c.nodes) /\ 1 \in 1..m + 1 /\ m + 1 \in 1..m + 1 /\ 1 # m + 1
  BY <1>1
<1>4. path[1] = next /\ path[m + 1] = next
  BY <1>1, <1>2, <1>3
<1>5. ASSUME NEW j \in 1..m PROVE Linked(c, path[j], path[j + 1])
  <2>1. j \in 1..m + 1 /\ j + 1 \in 1..m + 1 /\ j # m + 1
    BY <1>3
  <2>2. path[j] = s.stack[q + j - 1][1]
    BY <2>1
  <2>3. CASE j = m
    <3>1. q + j - 1 = L /\ path[j + 1] = next
      BY <1>1, <2>1, <2>3
    <3>2. QED
      BY <2>2, <3>1
  <2>4. CASE j # m
    <3>1. q + j - 1 \in 1..L - 1 /\ (q + j - 1) + 1 = q + (j + 1) - 1
      BY <1>1, <2>4
    <3>2. path[j + 1] = s.stack[q + (j + 1) - 1][1]
      <4>1. j + 1 # m + 1
        BY <1>1, <2>4
      <4>2. QED
        BY <2>1, <4>1
    <3>3. Linked(c, s.stack[q + j - 1][1], s.stack[(q + j - 1) + 1][1])
      BY <1>1, <3>1 DEF PathInv
    <3>4. QED
      BY <2>2, <3>1, <3>2, <3>3
  <2>5. QED
    BY <2>3, <2>4
<1> HIDE DEF path, m
<1>6. path[m + 1] \in Reached(c, Successors(c, {path[1]}))
  BY <1>3, <1>5, PathReaches
<1>7. QED
  BY <1>4, <1>6 DEF ReachesItself

\* The top frame looks at its next neighbour.
LEMMA AdvanceKeeps ==
    ASSUME NEW c, IsCanvas(c), NEW s \in Searching(c), ~s.found, s.stack # <<>>,
           Last(s.stack)[2] < Len(Leaving(c, Last(s.stack)[1]))
    PROVE  /\ Advance(c, s) \in Searching(c)
           /\ Advance(c, s).starts = s.starts /\ Advance(c, s).black = s.black
           /\ Unseen(c, Advance(c, s)) \subseteq Unseen(c, s)
           /\ Unseen(c, Advance(c, s)) # Unseen(c, s)
<1> DEFINE t == Advance(c, s)
           L == Len(s.stack)
           node == s.stack[L][1]
           cur == s.stack[L][2] + 1
           next == Target(c, node, cur)
           advanced == [s.stack EXCEPT ![L] = <<node, cur>>]
           one == <<next, 0>>
           pushed == Append(advanced, one)
<1>1. /\ L \in Nat \ {0} /\ L \in 1..L /\ Last(s.stack) = s.stack[L] /\ node \in s.gray \ s.black
      /\ \A p \in 1..L : s.stack[p] \in Ids(c) \X Nat
  BY TopFrame
<1>2. /\ s.stack \in Seq(Ids(c) \X Nat) /\ s.starts \in Seq(Ids(c))
      /\ s.gray \subseteq Ids(c) /\ s.black \subseteq Ids(c)
      /\ PathInv(c, s) /\ CursorInv(c, s) /\ BlackInv(c, s)
      /\ Ids(c) \subseteq s.black \union s.gray \union Range(s.starts)
  BY DEF Searching, SearchStates, SearchInv
<1>3. /\ node \in Ids(c) /\ cur \in Nat \ {0} /\ cur \in 1..Len(Leaving(c, node))
      /\ Len(Leaving(c, node)) \in Nat /\ s.stack[L][2] = cur - 1
  BY <1>1, LeavingLinks
<1>4. next \in Ids(c) /\ Linked(c, node, next)
  BY <1>3, LeavingLinks
<1>5. /\ advanced \in Seq(Ids(c) \X Nat) /\ Len(advanced) = L
      /\ advanced[L][1] = node /\ advanced[L][2] = cur
      /\ \A p \in 1..L : advanced[p][1] = s.stack[p][1]
      /\ \A p \in 1..L : p # L => advanced[p][2] = s.stack[p][2]
  <2>1. <<node, cur>> \in Ids(c) \X Nat
    BY <1>3
  <2>2. advanced \in Seq(Ids(c) \X Nat) /\ Len(advanced) = L
        /\ \A p \in 1..L : advanced[p] = IF p = L THEN <<node, cur>> ELSE s.stack[p]
    <3> HIDE DEF node, cur
    <3>1. QED
      BY <1>1, <1>2, <2>1
  <2> HIDE DEF advanced
  <2>3. advanced[L] = <<node, cur>> /\ \A p \in 1..L : p # L => advanced[p] = s.stack[p]
    BY <1>1, <2>2
  <2>4. ASSUME NEW p \in 1..L PROVE advanced[p][1] = s.stack[p][1]
    BY <2>3
  <2>5. QED
    BY <2>2, <2>3, <2>4
<1>6. \/ next \in s.gray /\ t = Search(s.starts, advanced, s.gray, s.black, TRUE)
      \/ /\ next \notin s.gray /\ next \in s.black
         /\ t = Search(s.starts, advanced, s.gray, s.black, FALSE)
      \/ /\ next \notin s.gray /\ next \notin s.black
         /\ t = Search(s.starts, pushed, s.gray \union {next}, s.black, FALSE)
  BY <1>1 DEF Advance, Target
<1> HIDE DEF t, L, node, cur, next, advanced
\* What all three cases share.
<1>7. ASSUME t.gray = s.gray, t.black = s.black, t.stack = advanced PROVE PathInv(c, t)
  <2>1. s.gray = {advanced[p][1] : p \in 1..L}
    <3>1. s.gray = {s.stack[p][1] : p \in 1..L}
      BY <1>2 DEF PathInv, L
    <3>2. QED
      BY <1>5, <3>1
  <2>2. \A p \in 1..L : advanced[p][2] <= Len(Leaving(c, advanced[p][1]))
    <3>1. ASSUME NEW p \in 1..L, p # L PROVE advanced[p][2] <= Len(Leaving(c, advanced[p][1]))
      BY <1>2, <1>5, <3>1 DEF PathInv, L
    <3>2. QED
      BY <1>3, <1>5, <3>1
  <2>3. \A p \in 1..L - 1 : p \in 1..L /\ p + 1 \in 1..L
    BY <1>1
  <2>4. /\ \A p, q \in 1..L : advanced[p][1] = advanced[q][1] => p = q
        /\ \A p \in 1..L - 1 : Linked(c, advanced[p][1], advanced[p + 1][1])
    <3>1. /\ \A p, q \in 1..L : s.stack[p][1] = s.stack[q][1] => p = q
          /\ \A p \in 1..L - 1 : Linked(c, s.stack[p][1], s.stack[p + 1][1])
      BY <1>2 DEF PathInv, L
    <3>2. QED
      BY <1>5, <2>3, <3>1
  <2>5. s.gray \intersect s.black = {}
    BY <1>2 DEF PathInv
  <2>6. t.gray = s.gray /\ t.black = s.black /\ t.stack = advanced /\ Len(t.stack) = L
    BY <1>5, <1>7
  <2>7. QED
    BY <2>1, <2>2, <2>4, <2>5, <2>6 DEF PathInv
<1>8. ASSUME t.black = s.black, Len(t.stack) \in Nat, L <= Len(t.stack),
             \A p \in 1..L : t.stack[p] = advanced[p],
             \A p \in 1..Len(t.stack) : p \in 1..L \/ t.stack[p][2] = 0
      PROVE  Unseen(c, t) \subseteq Unseen(c, s) /\ Unseen(c, t) # Unseen(c, s)
  <2> DEFINE i0 == Leaving(c, node)[cur]
  <2>1. i0 \in Resolvable(c) /\ c.edges[i0].source = node
    BY <1>3, LeavingLinks
  <2>2. i0 \notin Unseen(c, t)
    <3>1. L \in 1..Len(t.stack) /\ t.stack[L][1] = node /\ t.stack[L][2] = cur /\ cur \in 1..cur
      BY <1>1, <1>3, <1>5, <1>8
    <3>2. QED
      BY <3>1 DEF Unseen
  <2>3. i0 \in Unseen(c, s)
    <3>1. ASSUME NEW p \in 1..Len(s.stack), NEW k \in 1..s.stack[p][2],
                 Leaving(c, s.stack[p][1])[k] = i0
          PROVE  FALSE
      <4>1. k \in 1..Len(Leaving(c, s.stack[p][1])) /\ k \in Nat
        <5>1. s.stack[p][2] <= Len(Leaving(c, s.stack[p][1]))
          BY <1>2 DEF PathInv
        <5>2. s.stack[p][2] \in Nat /\ Len(Leaving(c, s.stack[p][1])) \in Nat
          BY <1>1, LeavingLinks DEF L
        <5>3. QED
          BY <5>1, <5>2
      <4>2. c.edges[i0].source = s.stack[p][1]
        BY <3>1, <4>1, LeavingLinks
      <4>3. p = L
        BY <1>1, <1>2, <2>1, <4>2 DEF PathInv, L, node
      <4>4. k = cur
        BY <1>3, <3>1, <4>1, <4>3, LeavingLinks DEF node
      <4>5. QED
        BY <1>3, <4>3, <4>4
    <3>2. QED
      BY <1>1, <2>1, <3>1 DEF Unseen
  <2>4. ASSUME NEW i \in Unseen(c, t) PROVE i \in Unseen(c, s)
    <3>1. i \in Resolvable(c) /\ c.edges[i].source \notin s.black
      BY <1>8 DEF Unseen
    <3>2. ASSUME NEW p \in 1..Len(s.stack), NEW k \in 1..s.stack[p][2]
          PROVE  Leaving(c, s.stack[p][1])[k] # i
      <4>1. p \in 1..L /\ p \in 1..Len(t.stack)
        BY <1>1, <1>8 DEF L
      <4>2. t.stack[p][1] = s.stack[p][1]
        BY <1>5, <1>8, <4>1
      <4>3. k \in 1..t.stack[p][2]
        <5>1. CASE p = L
          BY <1>3, <1>5, <1>8, <4>1, <5>1
        <5>2. CASE p # L
          BY <1>5, <1>8, <4>1, <5>2
        <5>3. QED
          BY <5>1, <5>2
      <4>4. QED
        BY <4>1, <4>2, <4>3 DEF Unseen
    <3>3. QED
      BY <3>1, <3>2 DEF Unseen
  <2>5. QED
    BY <2>2, <2>3, <2>4
<1>9. \A p \in 1..L : p \in 1..L \/ advanced[p][2] = 0
  OBVIOUS
<1>10. CASE next \in s.gray
  <2>1. /\ t \in SearchStates(c) /\ t.starts = s.starts /\ t.stack = advanced
        /\ t.gray = s.gray /\ t.black = s.black /\ t.found
    <3>1. t = Search(s.starts, advanced, s.gray, s.black, TRUE)
      BY <1>6, <1>10
    <3>2. QED
      BY <1>2, <1>5, <3>1 DEF Search, SearchStates
  <2>2. PathInv(c, t)
    BY <1>7, <2>1
  <2>3. ReachesItself(c, next)
    BY <1>4, <1>10, BackEdgeCloses DEF node, L
  <2>4. SearchInv(c, t)
    BY <1>2, <1>4, <2>1, <2>2, <2>3 DEF SearchInv, CursorInv, BlackInv
  <2>5. Unseen(c, t) \subseteq Unseen(c, s) /\ Unseen(c, t) # Unseen(c, s)
    BY <1>1, <1>5, <1>8, <2>1
  <2>6. QED
    BY <2>1, <2>4, <2>5 DEF Searching, t
<1>11. CASE next \notin s.gray /\ next \in s.black
  <2>1. /\ t \in SearchStates(c) /\ t.starts = s.starts /\ t.stack = advanced
        /\ t.gray = s.gray /\ t.black = s.black /\ ~t.found
    <3>1. t = Search(s.starts, advanced, s.gray, s.black, FALSE)
      BY <1>6, <1>11
    <3>2. QED
      BY <1>2, <1>5, <3>1 DEF Search, SearchStates
  <2>2. PathInv(c, t)
    BY <1>7, <2>1
  <2>3. CursorInv(c, t)
    <3>1. ASSUME NEW p \in 1..L, NEW k \in 1..advanced[p][2]
          PROVE  \/ Target(c, s.stack[p][1], k) \in s.black
                 \/ p < L /\ Target(c, s.stack[p][1], k) = s.stack[p + 1][1]
      <4>1. CASE p = L /\ k = cur
        BY <1>11, <4>1 DEF next, node
      <4>2. CASE ~(p = L /\ k = cur)
        <5>1. k \in 1..s.stack[p][2]
          BY <1>3, <1>5, <4>2
        <5>2. QED
          BY <1>2, <5>1 DEF CursorInv, L
      <4>3. QED
        BY <4>1, <4>2
    <3>2. \A p \in 1..L : p < L => p + 1 \in 1..L
      BY <1>1
    <3>3. ASSUME NEW p \in 1..L, NEW k \in 1..advanced[p][2]
          PROVE  \/ Target(c, advanced[p][1], k) \in s.black
                 \/ p < L /\ Target(c, advanced[p][1], k) = advanced[p + 1][1]
      <4>1. advanced[p][1] = s.stack[p][1] /\ (p < L => advanced[p + 1][1] = s.stack[p + 1][1])
        BY <1>5, <3>2
      <4>2. QED
        BY <3>1, <4>1
    <3>4. QED
      BY <1>5, <2>1, <3>3 DEF CursorInv
  <2>4. SearchInv(c, t)
    BY <1>2, <2>1, <2>2, <2>3 DEF SearchInv, BlackInv
  <2>5. Unseen(c, t) \subseteq Unseen(c, s) /\ Unseen(c, t) # Unseen(c, s)
    BY <1>1, <1>5, <1>8, <2>1
  <2>6. QED
    BY <2>1, <2>4, <2>5 DEF Searching, t
<1>12. CASE next \notin s.gray /\ next \notin s.black
  <2>1. /\ pushed \in Seq(Ids(c) \X Nat) /\ Len(pushed) = L + 1
        /\ \A p \in 1..L : pushed[p] = advanced[p]
        /\ pushed[L + 1][1] = next /\ pushed[L + 1][2] = 0
    <3>1. one \in Ids(c) \X Nat /\ one[1] = next /\ one[2] = 0
      BY <1>4
    <3> HIDE DEF one
    <3>2. QED
      BY <1>5, <3>1
  <2> HIDE DEF pushed
  <2>2. /\ t \in SearchStates(c) /\ t.starts = s.starts /\ t.stack = pushed
        /\ t.gray = s.gray \union {next} /\ t.black = s.black /\ ~t.found
    <3>1. t = Search(s.starts, pushed, s.gray \union {next}, s.black, FALSE)
      BY <1>6, <1>12
    <3>2. QED
      BY <1>2, <1>4, <2>1, <3>1 DEF Search, SearchStates
  <2>3. \A p \in 1..L + 1 : p \in 1..L \/ p = L + 1
    BY <1>1
  <2>4. /\ L + 1 \in 1..L + 1 /\ \A p \in 1..L : p \in 1..L + 1
        /\ \A p \in 1..L : p # L => p \in 1..L - 1 /\ p + 1 \in 1..L
    BY <1>1
  <2>5. PathInv(c, t)
    <3>1. \A p \in 1..L : pushed[p][1] = s.stack[p][1] /\ s.stack[p][1] \in s.gray
      BY <1>2, <1>5, <2>1 DEF PathInv, L
    <3>2. t.gray = {t.stack[p][1] : p \in 1..L + 1}
      <4>1. \A p \in 1..L + 1 : pushed[p][1] \in s.gray \union {next}
        BY <2>1, <2>3, <3>1
      <4>2. \A g \in s.gray : \E p \in 1..L : g = pushed[p][1]
        <5>1. s.gray = {s.stack[p][1] : p \in 1..L}
          BY <1>2 DEF PathInv, L
        <5>2. QED
          BY <3>1, <5>1
      <4>3. QED
        BY <2>1, <2>2, <2>4, <4>1, <4>2
    <3>3. \A p, q \in 1..L + 1 : pushed[p][1] = pushed[q][1] => p = q
      BY <1>2, <1>12, <2>1, <2>3, <3>1 DEF PathInv, L
    <3>4. \A p \in 1..L + 1 : pushed[p][2] <= Len(Leaving(c, pushed[p][1]))
      <4>1. \A p \in 1..L : pushed[p][2] <= Len(Leaving(c, pushed[p][1]))
        <5>1. PathInv(c, s) /\ \A p \in 1..L : pushed[p] = advanced[p]
          BY <1>2, <2>1
        <5>2. ASSUME NEW p \in 1..L, p # L
              PROVE  advanced[p][2] <= Len(Leaving(c, advanced[p][1]))
          BY <1>5, <5>1, <5>2 DEF PathInv, L
        <5>3. QED
          BY <1>3, <1>5, <5>1, <5>2
      <4>2. pushed[L + 1][2] <= Len(Leaving(c, pushed[L + 1][1]))
        BY <2>1, LeavingLinks
      <4>3. QED
        BY <2>3, <4>1, <4>2
    <3>5. \A p \in 1..L : Linked(c, pushed[p][1], pushed[p + 1][1])
      <4>1. ASSUME NEW p \in 1..L, p # L PROVE Linked(c, pushed[p][1], pushed[p + 1][1])
        BY <1>2, <2>4, <3>1, <4>1 DEF PathInv, L
      <4>2. Linked(c, pushed[L][1], pushed[L + 1][1])
        BY <1>1, <1>4, <2>1, <3>1 DEF node
      <4>3. QED
        BY <4>1, <4>2
    <3>6. t.gray \intersect t.black = {}
      BY <1>2, <1>12, <2>2 DEF PathInv
    <3>7. Len(t.stack) = L + 1 /\ (L + 1) - 1 = L
      BY <1>1, <2>1, <2>2
    <3>8. QED
      BY <2>2, <3>2, <3>3, <3>4, <3>5, <3>6, <3>7 DEF PathInv
  <2>6. CursorInv(c, t)
    <3>1. ASSUME NEW p \in 1..L, NEW k \in 1..advanced[p][2]
          PROVE  \/ Target(c, s.stack[p][1], k) \in s.black
                 \/ Target(c, s.stack[p][1], k) = pushed[p + 1][1]
      <4>1. CASE p = L /\ k = cur
        BY <2>1, <4>1 DEF next, node
      <4>2. CASE ~(p = L /\ k = cur)
        <5>1. k \in 1..s.stack[p][2]
          BY <1>3, <1>5, <4>2
        <5>2. \/ Target(c, s.stack[p][1], k) \in s.black
              \/ p < L /\ Target(c, s.stack[p][1], k) = s.stack[p + 1][1]
          BY <1>2, <5>1 DEF CursorInv, L
        <5>3. p < L => pushed[p + 1][1] = s.stack[p + 1][1]
          <6>1. p < L => p + 1 \in 1..L
            BY <1>1
          <6>2. QED
            BY <1>5, <2>1, <6>1
        <5>4. QED
          BY <5>2, <5>3
      <4>3. QED
        BY <4>1, <4>2
    <3>2. \A p \in 1..L : p < L + 1 /\ pushed[p][1] = s.stack[p][1]
      BY <1>1, <1>5, <2>1
    <3>3. 1..pushed[L + 1][2] = {}
      BY <2>1
    <3>4. ASSUME NEW p \in 1..L + 1, NEW k \in 1..pushed[p][2]
          PROVE  \/ Target(c, pushed[p][1], k) \in s.black
                 \/ p < L + 1 /\ Target(c, pushed[p][1], k) = pushed[p + 1][1]
      <4>1. p \in 1..L
        BY <2>3, <3>3
      <4>2. k \in 1..advanced[p][2]
        BY <2>1, <4>1
      <4>3. QED
        BY <3>1, <3>2, <4>1, <4>2
    <3>5. Len(t.stack) = L + 1
      BY <2>1, <2>2
    <3>6. QED
      BY <2>2, <3>4, <3>5 DEF CursorInv
  <2>7. SearchInv(c, t)
    BY <1>2, <2>2, <2>5, <2>6 DEF SearchInv, BlackInv
  <2>8. Unseen(c, t) \subseteq Unseen(c, s) /\ Unseen(c, t) # Unseen(c, s)
    BY <1>1, <1>8, <2>1, <2>2, <2>3
  <2>9. QED
    BY <2>2, <2>7, <2>8 DEF Searching, t
<1>13. QED
  BY <1>10, <1>11, <1>12

\* The top frame has looked at every neighbour.
LEMMA CloseKeeps ==
    ASSUME NEW c, IsCanvas(c), NEW s \in Searching(c), ~s.found, s.stack # <<>>,
           ~(Last(s.stack)[2] < Len(Leaving(c, Last(s.stack)[1])))
    PROVE  /\ Close(s) \in Searching(c)
           /\ Close(s).starts = s.starts
           /\ Ids(c) \ Close(s).black \subseteq Ids(c) \ s.black
           /\ Ids(c) \ Close(s).black # Ids(c) \ s.black
           /\ Unseen(c, Close(s)) \subseteq Unseen(c, s)
<1> DEFINE t == Close(s)
           L == Len(s.stack)
           node == s.stack[L][1]
           rest == Front(s.stack)
           closed == s.black \union {node}
<1>1. /\ L \in Nat \ {0} /\ L \in 1..L /\ Last(s.stack) = s.stack[L] /\ node \in s.gray \ s.black
      /\ \A p \in 1..L : s.stack[p] \in Ids(c) \X Nat
  BY TopFrame
<1>2. /\ s.stack \in Seq(Ids(c) \X Nat) /\ s.starts \in Seq(Ids(c))
      /\ s.gray \subseteq Ids(c) /\ s.black \subseteq Ids(c)
      /\ PathInv(c, s) /\ CursorInv(c, s) /\ BlackInv(c, s)
      /\ Ids(c) \subseteq s.black \union s.gray \union Range(s.starts)
  BY DEF Searching, SearchStates, SearchInv
<1>3. /\ rest \in Seq(Ids(c) \X Nat) /\ Len(rest) = L - 1
      /\ \A p \in 1..L - 1 : rest[p] = s.stack[p]
  <2>1. L - 1 \in Int /\ rest = SubSeq(s.stack, 1, L - 1)
    BY <1>1 DEF Front
  <2>2. \A i \in 1..L - 1 : s.stack[i] \in Ids(c) \X Nat
    BY <1>1
  <2> HIDE DEF L, rest
  <2>3. QED
    BY <1>1, <2>1, <2>2, SubSeqProperties
<1>4. node \in Ids(c) /\ t = Search(s.starts, rest, s.gray \ {node}, closed, FALSE)
  BY <1>1, <1>2 DEF Close
<1> HIDE DEF t, L, node, rest
<1>5. /\ t \in SearchStates(c) /\ t.starts = s.starts /\ t.stack = rest
      /\ t.gray = s.gray \ {node} /\ t.black = closed /\ ~t.found
  BY <1>2, <1>3, <1>4 DEF Search, SearchStates
<1>6. \A p \in 1..L - 1 : p \in 1..L /\ p # L
  BY <1>1
<1>7. \A p \in 1..L : p = L \/ p \in 1..L - 1
  BY <1>1
<1>8. PathInv(c, t)
  <2>1. s.gray = {s.stack[p][1] : p \in 1..L}
    BY <1>2 DEF PathInv, L
  <2>2. \A p, q \in 1..L : s.stack[p][1] = s.stack[q][1] => p = q
    BY <1>2 DEF PathInv, L
  <2>3. t.gray = {rest[p][1] : p \in 1..L - 1}
    <3>1. \A p \in 1..L - 1 : rest[p][1] = s.stack[p][1] /\ s.stack[p][1] # node
      BY <1>1, <1>3, <1>6, <2>2 DEF node
    <3>2. \A p \in 1..L - 1 : rest[p][1] \in t.gray
      BY <1>5, <1>6, <2>1, <3>1
    <3>3. \A g \in t.gray : \E p \in 1..L - 1 : g = rest[p][1]
      <4>1. ASSUME NEW g \in t.gray PROVE \E p \in 1..L - 1 : g = rest[p][1]
        <5>1. PICK p \in 1..L : g = s.stack[p][1]
          BY <1>5, <2>1
        <5>2. p # L
          BY <1>5, <5>1 DEF node
        <5>3. QED
          BY <1>7, <3>1, <5>1, <5>2
      <4>2. QED
        BY <4>1
    <3>4. QED
      BY <3>2, <3>3
  <2>4. \A p \in 1..L - 1 : rest[p][2] <= Len(Leaving(c, rest[p][1]))
    BY <1>2, <1>3, <1>6 DEF PathInv, L
  <2>5. \A p \in 1..(L - 1) - 1 : p \in 1..L - 1 /\ p + 1 \in 1..L - 1
    BY <1>1
  <2>6. \A p \in 1..(L - 1) - 1 : Linked(c, rest[p][1], rest[p + 1][1])
    BY <1>2, <1>3, <2>5 DEF PathInv, L
  <2>7. \A p, q \in 1..L - 1 : rest[p][1] = rest[q][1] => p = q
    BY <1>3, <1>6, <2>2
  <2>8. t.gray \intersect t.black = {}
    BY <1>2, <1>5 DEF PathInv
  <2>9. QED
    <3>1. t.stack = rest /\ Len(t.stack) = L - 1 /\ Len(t.stack) - 1 = (L - 1) - 1
      BY <1>3, <1>5
    <3>2. QED
      BY <2>3, <2>4, <2>6, <2>7, <2>8, <3>1 DEF PathInv
<1>9. CursorInv(c, t)
  <2>1. ASSUME NEW p \in 1..L - 1, NEW k \in 1..rest[p][2]
        PROVE  \/ Target(c, rest[p][1], k) \in closed
               \/ p < L - 1 /\ Target(c, rest[p][1], k) = rest[p + 1][1]
    <3>1. p \in 1..L /\ rest[p] = s.stack[p] /\ k \in 1..s.stack[p][2]
      BY <1>3, <1>6
    <3>2. \/ Target(c, s.stack[p][1], k) \in s.black
          \/ p < L /\ Target(c, s.stack[p][1], k) = s.stack[p + 1][1]
      BY <1>2, <3>1 DEF CursorInv, L
    <3>3. CASE Target(c, s.stack[p][1], k) \in s.black
      BY <3>1, <3>3
    <3>4. CASE Target(c, s.stack[p][1], k) = s.stack[p + 1][1]
      <4>1. CASE p + 1 = L
        BY <3>1, <3>4, <4>1 DEF node
      <4>2. CASE p + 1 # L
        <5>1. p < L - 1 /\ p + 1 \in 1..L - 1
          BY <1>1, <4>2
        <5>2. rest[p + 1] = s.stack[p + 1]
          BY <1>3, <5>1
        <5>3. QED
          BY <3>1, <3>4, <5>1, <5>2
      <4>3. QED
        BY <4>1, <4>2
    <3>5. QED
      BY <3>2, <3>3, <3>4
  <2>2. QED
    BY <1>3, <1>5, <2>1 DEF CursorInv
<1>10. Successors(c, {node}) \subseteq s.black
  <2>1. s.stack[L][2] = Len(Leaving(c, node))
    <3>1. s.stack[L][2] <= Len(Leaving(c, node)) /\ ~(s.stack[L][2] < Len(Leaving(c, node)))
      BY <1>1, <1>2 DEF PathInv, L, node
    <3>2. s.stack[L][2] \in Nat /\ Len(Leaving(c, node)) \in Nat
      BY <1>1, LeavingLinks
    <3>3. QED
      BY <3>1, <3>2
  <2>2. \A k \in 1..Len(Leaving(c, node)) : Target(c, node, k) \in s.black
    <3>1. \A k \in 1..s.stack[L][2] :
             \/ Target(c, node, k) \in s.black
             \/ L < L /\ Target(c, node, k) = s.stack[L + 1][1]
      BY <1>1, <1>2 DEF CursorInv, L, node
    <3>2. ~(L < L)
      BY <1>1
    <3>3. QED
      BY <2>1, <3>1, <3>2
  <2>3. QED
    BY <2>2, LeavingLinks, SuccessorsLinked
<1>11. BlackInv(c, t)
  <2>1. Successors(c, s.black) \subseteq s.black /\ \A b \in s.black : ~ReachesItself(c, b)
    BY <1>2 DEF BlackInv
  <2>2. Successors(c, closed) \subseteq closed
    BY <1>10, <2>1, SuccessorsLinked
  <2>3. Reached(c, Successors(c, {node})) \subseteq s.black
    <3> DEFINE from == Successors(c, {node})
    <3>1. from \subseteq Ids(c) /\ from \subseteq s.black
      BY <1>10, SuccessorsLinked
    <3> HIDE DEF from
    <3>2. Reached(c, from) \subseteq s.black
      BY <2>1, <3>1, ClosedHolds
    <3>3. QED
      BY <3>2 DEF from
  <2>4. ~ReachesItself(c, node)
    BY <1>1, <2>3 DEF ReachesItself
  <2>5. QED
    BY <1>5, <2>1, <2>2, <2>4 DEF BlackInv
<1>12. SearchInv(c, t)
  BY <1>2, <1>5, <1>8, <1>9, <1>11 DEF SearchInv
<1>13. Unseen(c, t) \subseteq Unseen(c, s)
  <2>1. ASSUME NEW i \in Unseen(c, t) PROVE i \in Unseen(c, s)
    <3>1. i \in Resolvable(c) /\ c.edges[i].source \notin s.black /\ c.edges[i].source # node
      BY <1>5 DEF Unseen
    <3>2. ASSUME NEW p \in 1..L, NEW k \in 1..s.stack[p][2]
          PROVE  Leaving(c, s.stack[p][1])[k] # i
      <4>1. CASE p = L
        <5>1. k \in 1..Len(Leaving(c, node))
          <6>1. s.stack[L][2] <= Len(Leaving(c, node))
            BY <1>1, <1>2 DEF PathInv, L, node
          <6>2. s.stack[L][2] \in Nat /\ Len(Leaving(c, node)) \in Nat
            BY <1>1, LeavingLinks
          <6>3. QED
            BY <4>1, <6>1, <6>2
        <5>2. c.edges[Leaving(c, node)[k]].source = node
          BY <5>1, LeavingLinks
        <5>3. QED
          BY <3>1, <4>1, <5>2 DEF node
      <4>2. CASE p # L
        <5>1. p \in 1..L - 1
          BY <1>7, <4>2
        <5>2. QED
          BY <1>3, <1>5, <5>1 DEF Unseen
      <4>3. QED
        BY <4>1, <4>2
    <3>3. QED
      BY <3>1, <3>2 DEF Unseen, L
  <2>2. QED
    BY <2>1
<1>14. QED
  BY <1>1, <1>4, <1>5, <1>12, <1>13 DEF Searching, t

\* What is left to do: nodes to start from, nodes to close, edges to look at.
Measure(c, s) ==
    Len(s.starts) + Cardinality(Ids(c) \ s.black) + Cardinality(Unseen(c, s))

Ended(c) == {s \in Searching(c) : s.found \/ (s.stack = <<>> /\ s.starts = <<>>)}

\* A canvas has finitely many edges, and no more ids than nodes.
LEMMA CanvasFinite ==
    ASSUME NEW c, IsCanvas(c)
    PROVE  /\ IsFiniteSet(Ids(c)) /\ Cardinality(Ids(c)) <= Len(c.nodes)
           /\ IsFiniteSet(Resolvable(c)) /\ Cardinality(Resolvable(c)) <= Len(c.edges)
           /\ Len(c.edges) \in Nat
<1> DEFINE n == Len(c.nodes)
           e == Len(c.edges)
           idAt == [i \in 1..n |-> c.nodes[i].id]
<1>1. n \in Nat /\ DOMAIN c.nodes = 1..n /\ e \in Nat /\ DOMAIN c.edges = 1..e
  BY LenProperties DEF IsCanvas
<1>2. idAt \in Surjection(1..n, Ids(c))
  BY <1>1 DEF Surjection, Ids, Nodes, Range
<1>3. Resolvable(c) \subseteq 1..e
  BY <1>1 DEF Resolvable
<1> HIDE DEF n, e
<1>4. IsFiniteSet(1..n) /\ IsFiniteSet(1..e) /\ Cardinality(1..e) = e
  BY <1>1, FS_Interval
<1>5. IsFiniteSet(Ids(c)) /\ Cardinality(Ids(c)) <= n
  <2>1. Cardinality(1..n) = n
    BY <1>1, FS_Interval
  <2>2. QED
    BY <1>2, <1>4, <2>1, FS_Surjection
<1>6. IsFiniteSet(Resolvable(c)) /\ Cardinality(Resolvable(c)) <= e
  BY <1>3, <1>4, FS_Subset
<1>7. QED
  BY <1>1, <1>5, <1>6 DEF e, n

\* A step keeps the invariant, and there is less left to do.
LEMMA SearchStepKeeps ==
    ASSUME NEW c, IsCanvas(c), NEW s \in Searching(c)
    PROVE  /\ SearchStep(c, s) \in Searching(c)
           /\ Measure(c, s) \in Nat
           /\ s \in Ended(c) \/ Measure(c, SearchStep(c, s)) < Measure(c, s)
           /\ s \in Ended(c) => SearchStep(c, s) = s
<1> DEFINE t == SearchStep(c, s)
<1>1. s \in Ended(c) <=> s.found \/ (s.stack = <<>> /\ s.starts = <<>>)
  BY DEF Ended
<1>2. s \in Ended(c) => t = s
  BY <1>1 DEF SearchStep
<1>3. ASSUME NEW u \in Searching(c)
      PROVE  /\ Len(u.starts) \in Nat
             /\ IsFiniteSet(Ids(c) \ u.black) /\ Cardinality(Ids(c) \ u.black) \in Nat
             /\ IsFiniteSet(Unseen(c, u)) /\ Cardinality(Unseen(c, u)) \in Nat
  <2>1. Len(u.starts) \in Nat
    BY LenProperties DEF Searching, SearchStates
  <2>2. Ids(c) \ u.black \subseteq Ids(c) /\ Unseen(c, u) \subseteq Resolvable(c)
    BY DEF Unseen
  <2>3. QED
    BY <2>1, <2>2, CanvasFinite, FS_Subset, FS_CardinalityType
<1>4. Measure(c, s) \in Nat
  <2>1. /\ Len(s.starts) \in Nat /\ Cardinality(Ids(c) \ s.black) \in Nat
        /\ Cardinality(Unseen(c, s)) \in Nat
    BY <1>3
  <2>2. QED
    BY <2>1 DEF Measure
<1>5. ASSUME s \notin Ended(c) PROVE t \in Searching(c) /\ Measure(c, t) < Measure(c, s)
  <2> DEFINE left(u) == Cardinality(Ids(c) \ u.black)
             unseen(u) == Cardinality(Unseen(c, u))
             starts(u) == Len(u.starts)
  <2>1. ASSUME NEW u \in Searching(c)
        PROVE  /\ starts(u) \in Nat /\ left(u) \in Nat /\ unseen(u) \in Nat
               /\ Measure(c, u) = starts(u) + left(u) + unseen(u)
    BY <1>3 DEF Measure
  <2>2. CASE s.stack = <<>>
    <3>1. t = NextRoot(s) /\ ~s.found /\ s.starts # <<>>
      BY <1>1, <1>5, <2>2 DEF SearchStep
    <3>2. /\ t \in Searching(c) /\ Len(t.starts) < Len(s.starts) /\ t.black = s.black
          /\ Unseen(c, t) \subseteq Unseen(c, s)
      BY <2>2, <3>1, NextRootKeeps
    <3> HIDE DEF t
    <3>3. unseen(t) <= unseen(s) /\ left(t) = left(s)
      BY <1>3, <3>2, SmallerSet
    <3>4. starts(t) < starts(s)
      BY <3>2
    <3> HIDE DEF left, unseen, starts
    <3>5. QED
      BY <2>1, <3>2, <3>3, <3>4
  <2>3. CASE s.stack # <<>> /\ Last(s.stack)[2] < Len(Leaving(c, Last(s.stack)[1]))
    <3>1. t = Advance(c, s) /\ ~s.found
      BY <1>1, <1>5, <2>3 DEF SearchStep
    <3>2. /\ t \in Searching(c) /\ t.starts = s.starts /\ t.black = s.black
          /\ Unseen(c, t) \subseteq Unseen(c, s) /\ Unseen(c, t) # Unseen(c, s)
      BY <2>3, <3>1, AdvanceKeeps
    <3> HIDE DEF t
    <3>3. unseen(t) < unseen(s) /\ left(t) = left(s)
      BY <1>3, <3>2, SmallerSet
    <3>4. starts(t) = starts(s)
      BY <3>2
    <3> HIDE DEF left, unseen, starts
    <3>5. QED
      BY <2>1, <3>2, <3>3, <3>4
  <2>4. CASE s.stack # <<>> /\ ~(Last(s.stack)[2] < Len(Leaving(c, Last(s.stack)[1])))
    <3>1. t = Close(s) /\ ~s.found
      BY <1>1, <1>5, <2>4 DEF SearchStep
    <3>2. /\ t \in Searching(c) /\ t.starts = s.starts
          /\ Ids(c) \ t.black \subseteq Ids(c) \ s.black
          /\ Ids(c) \ t.black # Ids(c) \ s.black
          /\ Unseen(c, t) \subseteq Unseen(c, s)
      BY <2>4, <3>1, CloseKeeps
    <3> HIDE DEF t
    <3>3. unseen(t) <= unseen(s)
      BY <1>3, <3>2, SmallerSet
    <3>4. left(t) < left(s)
      BY <1>3, <3>2, SmallerSet
    <3>5. starts(t) = starts(s)
      BY <3>2
    <3> HIDE DEF left, unseen, starts
    <3>6. QED
      BY <2>1, <3>2, <3>3, <3>4, <3>5
  <2>5. QED
    BY <2>2, <2>3, <2>4
<1>6. QED
  BY <1>2, <1>4, <1>5

\* In whatever order the outer loop takes the nodes, the search finds a cycle
\* exactly when there is one.
LEMMA HasCycleExact ==
    ASSUME NEW c, IsCanvas(c), NEW order \in Seq(Ids(c)), Range(order) = Ids(c)
    PROVE  HasCycle(c, order) <=> \E id \in Ids(c) : ReachesItself(c, id)
<1> DEFINE steps == 3 * Len(order) + Len(c.edges)
           a == Search(order, <<>>, {}, {}, FALSE)
           D == Searching(c)
           F == [s \in D |-> SearchStep(c, s)]
           P == [s \in D |-> Measure(c, s)]
           Is(g) == g = [k \in 0..steps |-> IF k = 0 THEN a ELSE SearchStep(c, g[k - 1])]
           search == CHOOSE g : Is(g)
<1>1. /\ Len(order) \in Nat /\ DOMAIN order = 1..Len(order) /\ Len(c.edges) \in Nat
      /\ steps \in Nat
  <2>1. Len(order) \in Nat /\ DOMAIN order = 1..Len(order)
    BY LenProperties
  <2>2. Len(c.edges) \in Nat
    BY CanvasFinite
  <2>3. \A i, j \in Nat : 3 * i + j \in Nat
    OBVIOUS
  <2>4. QED
    BY <2>1, <2>2, <2>3
<1>2. a \in D
  <2>1. <<>> \in Seq(Ids(c) \X Nat) /\ Len(<<>>) = 0
    BY EmptySeq
  <2>2. /\ a \in SearchStates(c) /\ a.starts = order /\ a.stack = <<>> /\ a.gray = {}
        /\ a.black = {} /\ ~a.found
    BY <2>1 DEF Search, SearchStates
  <2> HIDE DEF a
  <2>3. PathInv(c, a) /\ CursorInv(c, a)
    BY <2>1, <2>2 DEF PathInv, CursorInv
  <2>4. BlackInv(c, a)
    BY <2>2, SuccessorsLinked DEF BlackInv
  <2>5. QED
    BY <2>2, <2>3, <2>4 DEF SearchInv, Searching
<1>3. F \in [D -> D] /\ P \in [D -> Nat]
  BY SearchStepKeeps
<1>4. /\ \A s \in D : s \in Ended(c) \/ P[F[s]] < P[s]
      /\ \A s \in D : s \in Ended(c) => F[s] = s
  BY SearchStepKeeps
<1>5. P[a] <= steps
  <2>1. a.starts = order /\ a.black = {} /\ Ids(c) \ {} = Ids(c)
    BY DEF Search
  <2>2. Cardinality(Unseen(c, a)) \in Nat /\ Cardinality(Unseen(c, a)) <= Len(c.edges)
    <3>1. Unseen(c, a) \subseteq Resolvable(c)
      BY DEF Unseen
    <3> HIDE DEF a
    <3>2. /\ Cardinality(Unseen(c, a)) <= Cardinality(Resolvable(c))
          /\ Cardinality(Unseen(c, a)) \in Nat /\ Cardinality(Resolvable(c)) \in Nat
      BY <3>1, CanvasFinite, SmallerSet
    <3>3. QED
      BY <3>2, CanvasFinite
  <2>3. Cardinality(Ids(c)) \in Nat /\ Cardinality(Ids(c)) <= Len(order)
    <3> DEFINE m == Len(order)
    <3>1. order \in [1..m -> Ids(c)]
      BY LenProperties
    <3>2. order \in Surjection(1..m, Ids(c))
      BY <1>1, <3>1 DEF Surjection, Range
    <3>6. m \in Nat
      BY <1>1
    <3> HIDE DEF m
    <3>3. IsFiniteSet(1..m) /\ Cardinality(1..m) = m
      BY <3>6, FS_Interval
    <3>4. Cardinality(Ids(c)) <= m
      BY <3>2, <3>3, FS_Surjection
    <3>5. QED
      BY <3>4, CanvasFinite, FS_CardinalityType DEF m
  <2> HIDE DEF a
  <2>4. Measure(c, a) <= steps
    <3>1. Measure(c, a) = Len(order) + Cardinality(Ids(c)) + Cardinality(Unseen(c, a))
      BY <2>1 DEF Measure
    <3>2. \A i, j, k, l \in Nat : j <= i /\ k <= l => i + j + k <= 3 * i + l
      OBVIOUS
    <3>3. QED
      BY <1>1, <2>2, <2>3, <3>1, <3>2
  <2>5. QED
    BY <1>2, <2>4
<1> HIDE DEF F, P, D, a, steps
<1>6. PICK g : Iteration(g, steps, D, a, F)
  BY <1>1, <1>2, <1>3, Iterates
<1>7. g[steps] \in Ended(c)
  BY <1>1, <1>2, <1>3, <1>4, <1>5, <1>6, Settles
<1>8. \A k \in 1..steps : k - 1 \in 0..steps /\ k \in 0..steps /\ k # 0
  BY <1>1
<1>9. g \in [0..steps -> D] /\ g[0] = a /\ \A k \in 1..steps : g[k] = SearchStep(c, g[k - 1])
  <2>1. g \in [0..steps -> D] /\ g[0] = a /\ \A k \in 1..steps : g[k] = F[g[k - 1]]
    BY <1>6 DEF Iteration
  <2>2. QED
    BY <1>8, <2>1 DEF F
<1>10. Is(g)
  <2>1. \A k \in 0..steps : k # 0 => k \in 1..steps
    BY <1>1
  <2>2. \A k \in 0..steps : g[k] = IF k = 0 THEN a ELSE SearchStep(c, g[k - 1])
    BY <1>9, <2>1
  <2>3. QED
    BY <1>9, <2>2
<1>11. Is(search)
  <2> HIDE DEF Is
  <2>1. QED
    BY <1>10
<1>12. search[steps] = g[steps]
  <2> DEFINE T == {k \in 0..steps : search[k] = g[k]}
  <2> HIDE DEF search
  <2>1. 0 \in T
    BY <1>1, <1>9, <1>11
  <2>2. \A k \in 1..steps : k - 1 \in T => k \in T
    BY <1>8, <1>9, <1>11
  <2>3. steps \in T
    <3> HIDE DEF T
    <3>1. 0..steps \subseteq T
      BY <1>1, <2>1, <2>2, SetInduction
    <3>2. QED
      BY <1>1, <3>1
  <2> HIDE DEF steps
  <2>4. QED
    BY <2>3
<1>13. HasCycle(c, order) = search[steps].found
  BY DEF HasCycle, steps, a
<1>14. HasCycle(c, order) = g[steps].found
  BY <1>12, <1>13
<1> DEFINE s == g[steps]
<1>15. SearchInv(c, s) /\ (s.found \/ (s.stack = <<>> /\ s.starts = <<>>))
  BY <1>7 DEF Ended, Searching
<1> HIDE DEF s
<1>16. CASE s.found
  BY <1>14, <1>15, <1>16 DEF SearchInv, s
<1>17. CASE ~s.found
  <2>1. Len(<<>>) = 0 /\ DOMAIN <<>> = {}
    <3>1. <<>> \in Seq({}) /\ Len(<<>>) = 0
      BY EmptySeq
    <3>2. DOMAIN <<>> = 1..0 /\ 1..0 = {}
      BY <3>1, LenProperties
    <3>3. QED
      BY <3>1, <3>2
  <2>2. s.stack = <<>> /\ s.starts = <<>> /\ s.gray = {} /\ Range(s.starts) = {}
    BY <1>15, <1>17, <2>1 DEF SearchInv, PathInv, Range
  <2>3. Ids(c) \subseteq s.black /\ \A b \in s.black : ~ReachesItself(c, b)
    BY <1>15, <2>2 DEF SearchInv, BlackInv
  <2>4. QED
    BY <1>14, <1>17, <2>3 DEF s
<1>18. QED
  BY <1>16, <1>17

-----------------------------------------------------------------------------
(* What validation accepts, the processors decide *)

\* An accepted configuration has every required field, with an option of the
\* manifest where the editor offers a choice.
LEMMA AcceptedFields ==
    ASSUME NEW config, config.type \in DOMAIN Manifest, ProcessorViolations(config) = {},
           NEW f \in Range(Manifest[config.type])
    PROVE  /\ IsRequired(f, config) => IsNonEmpty(Get(config, f.name))
           /\ f.control = "select" /\ IsNonEmpty(Get(config, f.name))
                => Get(config, f.name) \in f.options
  BY DEF ProcessorViolations, Rule

\* A text that is not empty has a first word.
LEMMA NonEmptyText ==
    ASSUME NEW config, NEW name, IsNonEmpty(Get(config, name)), IsString(Get(config, name))
    PROVE  TextOf(config, name) # <<>>
<1>1. IsBlank(<<>>)
  <2>1. <<>> \in Seq({}) /\ Len(<<>>) = 0
    BY EmptySeq
  <2>2. DOMAIN <<>> = 1..0
    BY <2>1, LenProperties
  <2>3. 1..0 = {}
    OBVIOUS
  <2>4. QED
    BY <2>2, <2>3 DEF IsBlank
<1>2. QED
  BY <1>1 DEF IsNonEmpty, IsString, TextOf

\* The option of a select, as a processor reads it.
LEMMA OptionText ==
    ASSUME NEW config, NEW name, NEW options, Get(config, name) \in {String(<<o>>) : o \in options}
    PROVE  /\ IsString(Get(config, name))
           /\ TextOf(config, name) \in Operators(options)
  BY DEF String, IsString, TextOf, Operators

LEMMA SelectField ==
    ASSUME NEW name, NEW options
    PROVE  /\ Select(name, options).name = name /\ Select(name, options).control = "select"
           /\ Select(name, options).required = TRUE
           /\ Select(name, options).options = {String(<<o>>) : o \in options}
  BY DEF Select, Field

LEMMA TextField ==
    ASSUME NEW name, NEW control
    PROVE  /\ Field(name, control).name = name /\ Field(name, control).control = control
           /\ Field(name, control).required = TRUE
  BY DEF Field

\* A decision the manifest accepts is an error exactly in the unforeseen cases:
\* the operators the editor offers are among those of the processor, the fields
\* it reads are there, and nothing else is an error.
LEMMA AcceptedDecides ==
    ASSUME NEW config, NEW c, ProcessorViolations(config) = {}
    PROVE  Decide(config, c) = "error" <=> Unforeseen(config, c)
<1>1. \A hit : Branch(hit) # "error"
  BY DEF Branch
<1>2. config.type \in DOMAIN Manifest
  BY DEF ProcessorViolations
<1>3. ASSUME NEW f \in Range(Manifest[config.type]), f.required = TRUE
      PROVE  /\ IsNonEmpty(Get(config, f.name))
             /\ f.control = "select" => Get(config, f.name) \in f.options
  BY <1>2, <1>3, AcceptedFields DEF IsRequired
<1>4. ASSUME NEW name, NEW control, Field(name, control) \in Range(Manifest[config.type])
      PROVE  IsString(Get(config, name)) => TextOf(config, name) # <<>>
  <2>1. IsNonEmpty(Get(config, name))
    BY <1>3, <1>4, TextField
  <2>2. QED
    BY <2>1, NonEmptyText
<1>5. ASSUME NEW name, NEW options, Select(name, options) \in Range(Manifest[config.type])
      PROVE  IsString(Get(config, name)) /\ TextOf(config, name) \in Operators(options)
  <2>1. Get(config, name) \in {String(<<o>>) : o \in options}
    <3> DEFINE f == Select(name, options)
    <3>1. /\ f.name = name /\ f.control = "select" /\ f.required = TRUE
          /\ f.options = {String(<<o>>) : o \in options}
      BY SelectField
    <3>2. f \in Range(Manifest[config.type])
      BY <1>5
    <3> HIDE DEF f
    <3>3. Get(config, f.name) \in f.options
      BY <1>3, <3>1, <3>2
    <3>4. QED
      BY <3>1, <3>3
  <2>2. QED
    BY <2>1, OptionText
<1>6. CASE config.type = "meta_tags"
  <2>1. /\ Field("tag_name", "text") \in Range(Manifest[config.type])
        /\ Select("operator", MetaOperators) \in Range(Manifest[config.type])
    BY <1>6 DEF Manifest, Range
  <2>2. /\ IsString(Get(config, "operator"))
        /\ TextOf(config, "operator") \in Operators({"exists", "equals", "contains"})
        /\ IsString(Get(config, "tag_name")) => TextOf(config, "tag_name") # <<>>
    BY <1>4, <1>5, <2>1 DEF Operators, MetaOperators
  <2>3. MetaTags(config, c) = "error"
          <=> Unreadable(config, "tag_name") \/ "!" \in Range(TextOf(config, "tag_name"))
    BY <1>1, <2>2 DEF MetaTags, HasText, Unreadable
  <2>4. QED
    BY <1>6, <2>3 DEF Decide, Unforeseen, DecisionKinds
<1>7. CASE config.type = "device_type"
  <2>1. /\ Select("operator", DeviceOperators) \in Range(Manifest[config.type])
        /\ Select("value", Devices) \in Range(Manifest[config.type])
    BY <1>7 DEF Manifest, Range
  <2>2. DeviceType(config, c) # "error"
    BY <1>1, <1>5, <2>1 DEF DeviceType, HasText, Operators, DeviceOperators
  <2>3. QED
    BY <1>7, <2>2 DEF Decide, Unforeseen, DecisionKinds
<1>8. CASE config.type = "article_url"
  <2>1. /\ Select("operator", UrlOperators) \in Range(Manifest[config.type])
    BY <1>8 DEF Manifest, Range
  <2>2. /\ IsString(Get(config, "operator"))
        /\ TextOf(config, "operator")
             \in Operators({"equals", "contains", "starts_with", "matches"})
    BY <1>5, <2>1 DEF Operators, UrlOperators
  <2>3. ArticleUrl(config, c) = "error"
          <=> \/ Unreadable(config, "value")
              \/ /\ TextOf(config, "operator") = <<"matches">>
                 /\ "(" \in Range(TextOf(config, "value"))
    BY <1>1, <2>2 DEF ArticleUrl, HasText, Unreadable
  <2>4. QED
    BY <1>8, <2>3 DEF Decide, Unforeseen, DecisionKinds
<1>9. CASE config.type = "json_expression"
  <2>1. /\ Field("json_path", "text") \in Range(Manifest[config.type])
        /\ Select("operator", JsonOperators) \in Range(Manifest[config.type])
    BY <1>9 DEF Manifest, Range
  <2>2. /\ IsString(Get(config, "operator"))
        /\ TextOf(config, "operator")
             \in Operators({"exists", "equals", "contains", "starts_with",
                           "ends_with", "is_one_of"})
        /\ IsString(Get(config, "json_path")) => TextOf(config, "json_path") # <<>>
    BY <1>4, <1>5, <2>1 DEF Operators, JsonOperators
  <2>3. JsonExpression(config, c) = "error"
          <=> \/ Unreadable(config, "json_path")
              \/ c.hasBody /\ TextOf(config, "json_path")[1] # "$"
    BY <1>1, <2>2 DEF JsonExpression, HasText, Unreadable
  <2>4. QED
    BY <1>9, <2>3 DEF Decide, Unforeseen, DecisionKinds
<1>10. CASE config.type = "site_match"
  <2>1. SiteMatch(config, c) = "error" <=> ~IsString(Get(config, "site"))
    BY <1>1 DEF SiteMatch, HasText
  <2>2. QED
    BY <1>10, <2>1 DEF Decide, Unforeseen, DecisionKinds
<1>11. CASE config.type \notin DecisionKinds
  BY <1>11 DEF Decide, Unforeseen, DecisionKinds
<1>12. QED
  BY <1>6, <1>7, <1>8, <1>9, <1>10, <1>11 DEF DecisionKinds

-----------------------------------------------------------------------------
(* The translated graph *)

\* node_by_id finds a node of the canvas for each of its ids.
LEMMA NodeFound ==
    ASSUME NEW c, IsCanvas(c), NEW id \in Ids(c)
    PROVE  NodeById(c, id) \in Nodes(c)
<1> DEFINE I == {i \in 1..Len(c.nodes) : c.nodes[i].id = id}
<1>1. Len(c.nodes) \in Nat /\ DOMAIN c.nodes = 1..Len(c.nodes)
  BY LenProperties DEF IsCanvas
<1>2. I \subseteq 1..Len(c.nodes) /\ I # {}
  BY <1>1 DEF Ids, Nodes, Range
<1>3. Max(I) \in I
  <2> HIDE DEF I
  <2>1. 1 \in Int /\ Len(c.nodes) \in Int
    BY <1>1
  <2>2. QED
    BY <1>2, <2>1, BoundedMax
<1>4. NodeById(c, id) = c.nodes[Max(I)]
  BY <1>2 DEF NodeById, SelectLastInSeq
<1>5. QED
  BY <1>1, <1>3, <1>4 DEF Nodes, Range

LEMMA FiniteNodes ==
    ASSUME NEW c, IsCanvas(c)
    PROVE  IsFiniteSet(Nodes(c))
<1> DEFINE m == Len(c.nodes)
<1>1. m \in Nat /\ DOMAIN c.nodes = 1..m /\ c.nodes \in [1..m -> Nodes(c)]
  BY LenProperties DEF IsCanvas, Nodes
<1>2. c.nodes \in Surjection(1..m, Nodes(c))
  BY <1>1 DEF Surjection, Nodes, Range
<1>3. IsFiniteSet(1..m)
  BY <1>1, FS_Interval
<1>4. QED
  BY <1>2, <1>3, FS_Surjection

\* The second part of a node tells what it stands for.
LEMMA EntryShape ==
    ASSUME NEW c, IsCanvas(c), NEW node \in Nodes(c)
    PROVE  /\ Entry(node) \in Ids(c) \X {"start", "proc", "expr", "out"}
           /\ Exit(node) \in Ids(c) \X {"switch", "expr"}
<1>1. node.id \in Ids(c) /\ node.kind \in NodeKinds
  BY DEF Ids, IsCanvas, Nodes
<1>2. EntryKind[node.kind] \in {"start", "proc", "expr", "out"}
  BY <1>1 DEF EntryKind, NodeKinds
<1>3. QED
  BY <1>1, <1>2 DEF Entry, Exit

LEMMA JdmNodesShape ==
    ASSUME NEW c, IsCanvas(c), NEW n \in JdmNodes(c)
    PROVE  /\ n \in {Input} \union (Ids(c) \X {"proc", "switch", "expr", "out", "start"})
           /\ n[2] = "switch" => \E d \in Nodes(c) : d.kind = "decision" /\ n = Exit(d)
           /\ n[2] # "input" => n[1] \in Ids(c)
<1>1. CASE n = Input
  BY <1>1 DEF Input
<1>2. ASSUME NEW node \in Nodes(c), n = Entry(node) PROVE n[2] # "switch"
  BY <1>2, EntryShape
<1>3. ASSUME NEW node \in Nodes(c), n = Entry(node) \/ n = Exit(node)
      PROVE  n \in Ids(c) \X {"proc", "switch", "expr", "out", "start"}
  BY <1>3, EntryShape
<1>4. \/ n = Input
      \/ \E node \in Nodes(c) : n = Entry(node)
      \/ \E node \in Nodes(c) : node.kind = "decision" /\ n = Exit(node)
  BY DEF JdmNodes
<1>5. QED
  BY <1>1, <1>2, <1>3, <1>4

\* A finite set has a listing.
LEMMA SetToSeqLists ==
    ASSUME NEW S, IsFiniteSet(S)
    PROVE  SetToSeq(S) \in Seq(S)
<1>1. Cardinality(S) \in Nat /\ ExistsBijection(1..Cardinality(S), S)
  BY FS_CardinalityType
<1>2. \E f \in [1..Cardinality(S) -> S] : IsInjective(f)
  BY <1>1 DEF ExistsBijection, Bijection, Injection, IsInjective
<1>3. SetToSeq(S) \in [1..Cardinality(S) -> S]
  BY <1>2 DEF SetToSeq
<1>4. QED
  BY <1>1, <1>3

\* No edge of the translation leads into the input node.
LEMMA EdgesLeadOn ==
    ASSUME NEW c, IsCanvas(c)
    PROVE  /\ Translate(c).edges \in Seq(Range(Translate(c).edges))
           /\ \A i \in DOMAIN Translate(c).edges : Translate(c).edges[i].target[2] # "input"
<1> DEFINE inner == InternalEdges(c)
           routing == RoutingEdges(c)
           firsts == {JdmEdge(Input, Entry(n), "none") : n \in StartSuccessor(c)}
           first == SetToSeq(firsts)
           T == Range(inner) \union Range(routing) \union Range(first)
           decisions == WithKind(c, "decision")
           routed == {i \in DOMAIN c.edges :
                        /\ KindOf(c, c.edges[i].source) \in {"decision", "expression"}
                        /\ c.edges[i].target \in Ids(c)}
<1>1. ASSUME NEW s, NEW t, NEW h PROVE JdmEdge(s, t, h).target = t
  BY DEF JdmEdge
<1>2. ASSUME NEW node \in Nodes(c)
      PROVE  Entry(node)[2] # "input" /\ Exit(node)[2] # "input"
  BY EntryShape
<1>3. /\ Len(c.nodes) \in Nat /\ DOMAIN c.nodes = 1..Len(c.nodes)
      /\ Len(c.edges) \in Nat /\ DOMAIN c.edges = 1..Len(c.edges)
  BY LenProperties DEF IsCanvas
<1>4. inner \in Seq(T) /\ \A e \in Range(inner) : e.target[2] # "input"
  <2> DEFINE at == Ascending(decisions)
  <2>1. decisions \subseteq 1..Len(c.nodes)
    BY <1>3 DEF WithKind
  <2>2. at \in Seq(decisions) /\ Len(at) \in Nat /\ DOMAIN at = 1..Len(at)
    BY <1>3, <2>1, AscendingLists, LenProperties
  <2>3. inner = [k \in DOMAIN at |-> JdmEdge(Entry(c.nodes[at[k]]), Exit(c.nodes[at[k]]), "none")]
    BY DEF InternalEdges
  <2>4. \A k \in DOMAIN at : at[k] \in decisions
    BY <2>2, ElementOfSeq
  <2>5. \A k \in DOMAIN at : c.nodes[at[k]] \in Nodes(c)
    BY <1>3, <2>1, <2>4 DEF Nodes, Range
  <2> HIDE DEF at
  <2>6. \A k \in DOMAIN at : inner[k].target[2] # "input"
    BY <1>1, <1>2, <2>3, <2>5
  <2>7. DOMAIN inner = 1..Len(at)
    BY <2>2, <2>3
  <2> HIDE DEF inner
  <2>8. inner \in [1..Len(at) -> T]
    BY <2>2, <2>3, <2>7 DEF Range
  <2>9. QED
    BY <2>2, <2>6, <2>7, <2>8 DEF Range
<1>5. routing \in Seq(T) /\ \A e \in Range(routing) : e.target[2] # "input"
  <2> DEFINE at == Ascending(routed)
  <2>1. routed \subseteq 1..Len(c.edges)
    BY <1>3
  <2> HIDE DEF routed
  <2>2. at \in Seq(routed) /\ Len(at) \in Nat /\ DOMAIN at = 1..Len(at)
    BY <1>3, <2>1, AscendingLists, LenProperties
  <2>3. routing = [k \in DOMAIN at |-> RoutingEdge(c, c.edges[at[k]])]
    BY DEF RoutingEdges, routed
  <2>4. \A k \in DOMAIN at : at[k] \in routed
    BY <2>2, ElementOfSeq
  <2>5. \A k \in DOMAIN at : NodeById(c, c.edges[at[k]].target) \in Nodes(c)
    BY <2>4, NodeFound DEF routed
  <2> HIDE DEF at
  <2>6. \A k \in DOMAIN at : routing[k].target = Entry(NodeById(c, c.edges[at[k]].target))
    BY <1>1, <2>3 DEF RoutingEdge
  <2>7. DOMAIN routing = 1..Len(at)
    BY <2>2, <2>3
  <2> HIDE DEF routing
  <2>8. \A k \in DOMAIN at : routing[k].target[2] # "input"
    BY <1>2, <2>5, <2>6
  <2>9. routing \in [1..Len(at) -> T]
    BY <2>2, <2>3, <2>7 DEF Range
  <2>10. QED
    BY <2>2, <2>7, <2>8, <2>9 DEF Range
<1>6. first \in Seq(T) /\ \A e \in Range(first) : e.target[2] # "input"
  <2>1. StartSuccessor(c) \subseteq Nodes(c)
    BY NodeFound DEF StartSuccessor
  <2>2. IsFiniteSet(StartSuccessor(c))
    BY <2>1, FiniteNodes, FS_Subset
  <2>3. IsFiniteSet(firsts)
    <3> DEFINE edge == [n \in StartSuccessor(c) |-> JdmEdge(Input, Entry(n), "none")]
    <3>1. edge \in Surjection(StartSuccessor(c), firsts)
      BY DEF Surjection
    <3>2. QED
      BY <2>2, <3>1, FS_Surjection
  <2>4. \A e \in firsts : e.target[2] # "input"
    BY <1>1, <1>2, <2>1
  <2> HIDE DEF firsts
  <2>5. first \in Seq(firsts)
    BY <2>3, SetToSeqLists
  <2> HIDE DEF first
  <2>6. Len(first) \in Nat /\ DOMAIN first = 1..Len(first) /\ first \in [1..Len(first) -> firsts]
    BY <2>5, LenProperties
  <2>7. first \in [1..Len(first) -> T]
    BY <2>6 DEF Range
  <2>8. QED
    BY <2>4, <2>6, <2>7 DEF Range
<1>7. Translate(c).edges = (inner \o routing) \o first
  BY DEF Translate
<1>8. \A e \in T : e.target[2] # "input"
  BY <1>4, <1>5, <1>6
<1> HIDE DEF inner, routing, first, T
<1>9. (inner \o routing) \o first \in Seq(T)
  BY <1>4, <1>5, <1>6, ConcatProperties
<1>10. QED
  <2> DEFINE es == Translate(c).edges
  <2>1. es \in Seq(T)
    BY <1>7, <1>9
  <2> HIDE DEF es
  <2>2. Len(es) \in Nat /\ DOMAIN es = 1..Len(es) /\ es \in [1..Len(es) -> T]
    BY <2>1, LenProperties
  <2>3. es \in Seq(Range(es)) /\ \A i \in DOMAIN es : es[i] \in T
    BY <2>2 DEF Range
  <2>4. QED
    BY <1>8, <2>3 DEF es

-----------------------------------------------------------------------------
(* The inductive invariant *)

\* What is walked is the translation of the canvas.
GraphInv ==
    /\ IsCanvas(canvas)
    /\ phase \in {"submit", "evaluate", "walk", "done"}
    /\ jdm.nodes \subseteq JdmNodes(canvas)
    /\ jdm.edges \in Seq(Range(jdm.edges))
    /\ \A i \in DOMAIN jdm.edges : jdm.edges[i].target[2] # "input"
    /\ phase \in {"submit", "evaluate"} =>
          /\ jdm.nodes = {} /\ nodes = {} /\ edges = {} /\ toVisit = <<>> /\ ordered = {}
          /\ switched = {} /\ executed = {} /\ iter = 0 /\ trace = <<>> /\ actions = <<>>
    /\ phase = "walk" => \A i \in DOMAIN jdm.edges :
          jdm.edges[i].source \in jdm.nodes /\ jdm.edges[i].target \in jdm.nodes

\* The walker's fields speak of that graph.
WalkInv ==
    /\ nodes \subseteq jdm.nodes /\ edges \subseteq DOMAIN jdm.edges
    /\ toVisit \in Seq(jdm.nodes) /\ trace \in Seq(jdm.nodes)
    /\ ordered \subseteq jdm.nodes /\ executed \subseteq jdm.nodes
    /\ switched \subseteq {n \in jdm.nodes : n[2] = "switch"}

\* A reset is paid for by a switch, and after the last one that is allowed the
\* input node ends the walk.
ResetInv ==
    /\ iter \in 0..IterMax
    /\ IsFiniteSet(switched) /\ iter <= Cardinality(switched)
    /\ phase = "walk" /\ iter = IterMax => toVisit \in {<<>>, <<Input>>}

\* A node is traced when it is first returned, a switch when it prunes.
TraceInv ==
    /\ Range(trace) = executed \union switched
    /\ IsInjective(trace)
    /\ \A n \in executed : n[2] = "switch" => n \in switched
    /\ Range(actions) \subseteq Ids(canvas)
    /\ IsInjective(actions)

\* A node is visited after the nodes that lead to it.
DependenciesFirst == \A n \in ordered : \A i \in Into(n, edges) : jdm.edges[i].source \in ordered

\* What is left of a switch that has been visited is the branch it took.
TakenBranchesOnly == \A n \in switched : Untaken(n) = {}

\* The verdict names every rule a configuration breaks, and cycles exactly
\* when there are any.
VerdictInv ==
    IF phase = "submit" THEN canvas \in Submitted
    ELSE /\ ConfigViolations(canvas, Outcomes) \subseteq verdict
         /\ "no_cycles" \in verdict <=> \E id \in Ids(canvas) : ReachesItself(canvas, id)

IndInv ==
    /\ GraphInv
    /\ WalkInv
    /\ ResetInv
    /\ TraceInv
    /\ DependenciesFirst
    /\ TakenBranchesOnly
    /\ VerdictInv

-----------------------------------------------------------------------------
(* The walker's helpers *)

LEMMA EdgePlaces ==
    ASSUME GraphInv, WalkInv
    PROVE  /\ Len(jdm.edges) \in Nat /\ edges \subseteq 1..Len(jdm.edges)
           /\ IsFiniteSet(edges) /\ Cardinality(edges) \in Nat
<1>1. Len(jdm.edges) \in Nat /\ DOMAIN jdm.edges = 1..Len(jdm.edges)
  BY LenProperties DEF GraphInv
<1>2. edges \subseteq 1..Len(jdm.edges)
  BY <1>1 DEF WalkInv
<1>3. IsFiniteSet(1..Len(jdm.edges))
  BY <1>1, FS_Interval
<1>4. IsFiniteSet(edges)
  BY <1>2, <1>3, FS_Subset
<1>5. QED
  BY <1>1, <1>2, <1>4, FS_CardinalityType

\* The ends of some edges, from the last edge to the first.
LEMMA EndsOfEdges ==
    ASSUME GraphInv, WalkInv, phase = "walk", NEW E, E \subseteq edges
    PROVE  /\ Sources(E) \in Seq(jdm.nodes)
           /\ Targets(E) \in Seq(jdm.nodes)
           /\ Sources(E) = <<>> <=> E = {}
           /\ Len(Sources(E)) = Cardinality(E) /\ Len(Targets(E)) = Cardinality(E)
           /\ Cardinality(E) \in Nat
           /\ \A k \in 1..Cardinality(E) : \E i \in E : Sources(E)[k] = jdm.edges[i].source
<1> DEFINE at == LatestFirst(E)
<1>1. /\ at \in Seq(E) /\ DOMAIN at = 1..Cardinality(E) /\ Cardinality(E) \in Nat
      /\ \A i \in E : \E k \in DOMAIN at : at[k] = i
  BY EdgePlaces, LatestFirstLists
<1>2. /\ Sources(E) = [k \in DOMAIN at |-> jdm.edges[at[k]].source]
      /\ Targets(E) = [k \in DOMAIN at |-> jdm.edges[at[k]].target]
  BY DEF Sources, Targets
<1> HIDE DEF at
<1>3. \A k \in DOMAIN at : at[k] \in E
  BY <1>1, LenProperties
<1>4. \A i \in E : jdm.edges[i].source \in jdm.nodes /\ jdm.edges[i].target \in jdm.nodes
  BY DEF GraphInv, WalkInv
<1>5. /\ Sources(E) \in [1..Cardinality(E) -> jdm.nodes]
      /\ Targets(E) \in [1..Cardinality(E) -> jdm.nodes]
  BY <1>1, <1>2, <1>3, <1>4
<1>6. Sources(E) \in Seq(jdm.nodes) /\ Targets(E) \in Seq(jdm.nodes)
  <2> DEFINE m == Cardinality(E)
  <2> HIDE DEF m
  <2>1. \A s \in [1..m -> jdm.nodes] : m \in Nat => s \in Seq(jdm.nodes)
    OBVIOUS
  <2>2. QED
    BY <1>1, <1>5, <2>1, Zenon DEF m
<1>7. E = {} <=> Cardinality(E) = 0
  BY <1>1, <1>3, FS_EmptySet
<1>8. Len(Sources(E)) = Cardinality(E) /\ Len(Targets(E)) = Cardinality(E)
  BY <1>1, <1>5, <1>6, LenProperties
<1>9. Sources(E) = <<>> <=> Len(Sources(E)) = 0
  BY <1>6, EmptySeq, LenProperties
<1>10. \A k \in 1..Cardinality(E) : \E i \in E : Sources(E)[k] = jdm.edges[i].source
  BY <1>1, <1>2, <1>3
<1>11. QED
  BY <1>1, <1>6, <1>7, <1>8, <1>9, <1>10

LEMMA OneInSeq ==
    ASSUME NEW S, NEW e \in S
    PROVE  <<e>> \in Seq(S)
  OBVIOUS

\* What is left of a stack without its top.
LEMMA FrontShorter ==
    ASSUME NEW S, NEW stack \in Seq(S), stack # <<>>
    PROVE  /\ Front(stack) \in Seq(S) /\ Len(stack) \in Nat \ {0}
           /\ Len(Front(stack)) = Len(stack) - 1
           /\ Last(stack) \in S
<1>1. Len(stack) \in Nat \ {0} /\ Len(stack) \in 1..Len(stack) /\ Len(stack) - 1 \in Nat
  BY EmptySeq
<1>2. \A i \in 1..Len(stack) - 1 : stack[i] \in S
  BY <1>1, ElementOfSeq
<1>3. /\ SubSeq(stack, 1, Len(stack) - 1) \in Seq(S)
      /\ Len(SubSeq(stack, 1, Len(stack) - 1)) = Len(stack) - 1
  <2>1. Len(stack) - 1 \in Int /\ 1 <= (Len(stack) - 1) + 1 /\ (Len(stack) - 1) - 1 + 1 = Len(stack) - 1
    BY <1>1
  <2>2. QED
    BY <1>2, <2>1, SubSeqProperties
<1>4. Last(stack) \in S
  BY <1>1, ElementOfSeq DEF Last
<1>5. QED
  BY <1>1, <1>3, <1>4 DEF Front

LEMMA TopOfStack ==
    ASSUME NEW S, toVisit \in Seq(S), toVisit # <<>>
    PROVE  Top \in S /\ Front(toVisit) \in Seq(S) /\ Len(toVisit) \in Nat \ {0}
  BY FrontShorter DEF Top

\* Whatever else goes, the edges of the branches not taken go.
LEMMA RemovedGo ==
    ASSUME GraphInv, WalkInv, NEW removed
    PROVE  removed \subseteq RemoveRecursively(removed)
<1> DEFINE n == Cardinality(edges)
           more(gone) == UNION {Into(m, edges) \union OutOf(m, edges) : m \in Emptied(gone)}
           D == SUBSET (removed \union edges)
           F == [gone \in D |-> gone \union more(gone)]
           Is(g) == g = [k \in 0..n |->
                           IF k = 0 THEN removed ELSE g[k - 1] \union more(g[k - 1])]
           grown == CHOOSE g : Is(g)
           T == {k \in 0..n : removed \subseteq grown[k]}
<1>1. n \in Nat /\ n \in 0..n /\ 0 \in 0..n /\ \A k \in 1..n : k \in 0..n /\ k - 1 \in 0..n /\ k # 0
  BY EdgePlaces
<1>2. \A gone : more(gone) \subseteq edges
  BY DEF Into, OutOf
<1> HIDE DEF more, n
<1>3. removed \in D /\ F \in [D -> D]
  BY <1>2
<1>4. PICK g : Iteration(g, n, D, removed, F)
  <2> HIDE DEF D, F
  <2>1. QED
    BY <1>1, <1>3, Iterates
<1>5. /\ g \in [0..n -> D] /\ g[0] = removed
      /\ \A k \in 1..n : g[k] = g[k - 1] \union more(g[k - 1])
  BY <1>1, <1>4 DEF Iteration
<1>6. Is(g)
  <2>1. \A k \in 0..n : k # 0 => k \in 1..n
    BY <1>1
  <2>2. \A k \in 0..n : g[k] = IF k = 0 THEN removed ELSE g[k - 1] \union more(g[k - 1])
    BY <1>5, <2>1
  <2>3. QED
    BY <1>5, <2>2
<1>7. Is(grown)
  <2> HIDE DEF Is
  <2>1. QED
    BY <1>6
<1>8. 0 \in T /\ \A k \in 1..n : k - 1 \in T => k \in T
  <2> HIDE DEF grown
  <2>1. QED
    BY <1>1, <1>7
<1>9. n \in T
  <2> HIDE DEF T
  <2>1. 0..n \subseteq T
    BY <1>1, <1>8, SetInduction
  <2>2. QED
    BY <1>1, <2>1
<1>10. RemoveRecursively(removed) = grown[n]
  BY DEF RemoveRecursively, Closure, more, n
<1>11. QED
  BY <1>9, <1>10

\* The matched actions of a trace without repetitions: expression nodes of the
\* canvas, each once.
LEMMA MatchedOnce ==
    ASSUME IsCanvas(canvas), jdm.nodes \subseteq JdmNodes(canvas),
           NEW t \in Seq(jdm.nodes), IsInjective(t)
    PROVE  Range(Matched(t)) \subseteq Ids(canvas) /\ IsInjective(Matched(t))
<1> DEFINE E == {i \in DOMAIN t : t[i][2] = "expr"}
           at == Ascending(E)
<1>1. Len(t) \in Nat /\ DOMAIN t = 1..Len(t) /\ E \subseteq 1..Len(t)
  BY LenProperties
<1>2. \A i \in DOMAIN t : t[i] \in JdmNodes(canvas)
  BY <1>1, ElementOfSeq
<1>3. \A i \in E : t[i] \in Ids(canvas) \X {"expr"}
  BY <1>2, JdmNodesShape DEF Input
<1>4. \A i, j \in E : t[i][1] = t[j][1] => i = j
  BY <1>3 DEF IsInjective
<1>5. Matched(t) = [k \in DOMAIN at |-> t[at[k]][1]]
  BY DEF Matched
<1> HIDE DEF E
<1>6. /\ at \in Seq(E) /\ DOMAIN at = 1..Cardinality(E)
      /\ \A k, l \in 1..Cardinality(E) : at[k] = at[l] => k = l
  BY <1>1, AscendingLists, LenProperties
<1>7. \A k \in DOMAIN at : at[k] \in E
  BY <1>6, LenProperties
<1> HIDE DEF at
<1>8. Range(Matched(t)) \subseteq Ids(canvas)
  BY <1>3, <1>5, <1>7 DEF Range
<1>9. IsInjective(Matched(t))
  BY <1>4, <1>5, <1>6, <1>7 DEF IsInjective
<1>10. QED
  BY <1>8, <1>9

-----------------------------------------------------------------------------
(* The steps *)

LEMMA InitIndInv == ASSUME Init PROVE IndInv
<1>1. /\ IsCanvas(canvas)
      /\ <<>> \in Seq({}) /\ Range(<<>>) = {} /\ DOMAIN <<>> = {}
  <2>1. <<>> \in Seq({}) /\ Len(<<>>) = 0
    BY EmptySeq
  <2>2. DOMAIN <<>> = 1..0 /\ 1..0 = {}
    BY <2>1, LenProperties
  <2>3. QED
    BY <2>1, <2>2, SubmittedAssumption DEF Init, Range
<1>2. GraphInv
  BY <1>1 DEF Init, GraphInv
<1>3. WalkInv
  BY <1>1 DEF Init, WalkInv
<1>4. IsFiniteSet({}) /\ Cardinality({}) = 0
  BY FS_EmptySet
<1>5. ResetInv
  BY <1>4, IterAssumption DEF Init, ResetInv
<1>6. TraceInv
  BY <1>1 DEF Init, TraceInv, IsInjective
<1>7. DependenciesFirst /\ TakenBranchesOnly /\ VerdictInv
  BY DEF Init, DependenciesFirst, TakenBranchesOnly, VerdictInv
<1>8. QED
  BY <1>2, <1>3, <1>5, <1>6, <1>7 DEF IndInv

LEMMA NormalIsCanvas ==
    ASSUME NEW c, IsCanvas(c)
    PROVE  IsCanvas(Normalize(c))
<1>1. CASE Normalize(c) = c
  BY <1>1
<1>2. CASE Normalize(c) = Default
  <2> DEFINE ns == <<Node("start", "start", NoConfig), Node("end", "end", NoConfig)>>
             es == <<Edge("start", "end", "yes")>>
  <2>1. /\ Range(ns) = {Node("start", "start", NoConfig), Node("end", "end", NoConfig)}
        /\ Range(es) = {Edge("start", "end", "yes")}
    BY DEF Range
  <2>2. ns \in Seq(Range(ns)) /\ es \in Seq(Range(es))
    BY <2>1
  <2>3. \A n \in Range(ns) : n.kind \in NodeKinds /\ n.config = NoConfig
    BY <2>1 DEF Node, NodeKinds
  <2>4. DOMAIN NoConfig.fields = {}
    <3>1. NoConfig.fields = <<>>
      BY DEF NoConfig
    <3>2. <<>> \in Seq({}) /\ Len(<<>>) = 0
      BY EmptySeq
    <3>3. DOMAIN <<>> = 1..0 /\ 1..0 = {}
      BY <3>2, LenProperties
    <3>4. QED
      BY <3>1, <3>3
  <2>5. Default.nodes = ns /\ Default.edges = es
    BY DEF Default
  <2> HIDE DEF ns, es
  <2>6. QED
    BY <1>2, <2>2, <2>3, <2>4, <2>5 DEF IsCanvas
<1>3. QED
  BY <1>1, <1>2 DEF Normalize

\* No other rule reports no_cycles.
LEMMA CyclesReported ==
    ASSUME NEW c, NEW outcomes, NEW order
    PROVE  "no_cycles" \in ValidateCanvas(c, outcomes, order) <=> HasCycle(c, order)
<1>1. "no_cycles" \notin NodeViolations(c)
  BY DEF NodeViolations, Rule
<1>2. "no_cycles" \notin ConfigViolations(c, outcomes)
  <2>1. \A config : "no_cycles" \notin ProcessorViolations(config)
    BY DEF Rule, ProcessorViolations
  <2>2. \A config : "no_cycles" \notin ApplyOutcomeViolations(config, outcomes)
    BY DEF Rule, ApplyOutcomeViolations
  <2>3. \A label : "no_cycles" \notin CustomLabelViolations(label)
    BY DEF Rule, CustomLabelViolations
  <2>4. QED
    BY <2>1, <2>2, <2>3 DEF ConfigViolations
<1>3. "no_cycles" \notin EdgeViolations(c)
  BY DEF Rule, EdgeViolations
<1>4. "no_cycles" \notin DegreeViolations(c)
  <2>1. \A kind \in DOMAIN SingleOut : SingleOut[kind] # "no_cycles"
    BY DEF SingleOut
  <2>2. QED
    BY <2>1, Zenon DEF DegreeViolations, Rule
<1>5. "no_cycles" \notin Rule("all_paths_reach_end", DeadEnd(c))
  BY DEF Rule
<1>6. "no_cycles" \in Rule("no_cycles", HasCycle(c, order)) <=> HasCycle(c, order)
  BY DEF Rule
<1>7. QED
  BY <1>1, <1>2, <1>3, <1>4, <1>5, <1>6 DEF ValidateCanvas

LEMMA SubmitStep == ASSUME IndInv, Submit PROVE IndInv'
<1>1. /\ phase = "submit" /\ phase' \in {"evaluate", "done"} /\ canvas' = Normalize(canvas)
      /\ jdm' = jdm /\ actions' = actions
      /\ \E order \in KeyOrders(Ids(Normalize(canvas))) :
            verdict' = ValidateCanvas(canvas', Outcomes, order)
  BY DEF Submit
<1>2. UNCHANGED <<nodes, edges, toVisit, ordered, switched, executed, iter, trace>>
  BY DEF Submit, walk
<1>3. /\ jdm.nodes = {} /\ nodes = {} /\ edges = {} /\ toVisit = <<>> /\ ordered = {}
      /\ switched = {} /\ executed = {} /\ iter = 0 /\ trace = <<>> /\ actions = <<>>
  BY <1>1 DEF IndInv, GraphInv
<1>4. GraphInv'
  <2>1. IsCanvas(canvas')
    BY <1>1, NormalIsCanvas DEF IndInv, GraphInv
  <2>2. QED
    BY <1>1, <1>2, <1>3, <2>1 DEF IndInv, GraphInv
<1>5. WalkInv'
  BY <1>1, <1>2 DEF IndInv, WalkInv
<1>6. ResetInv'
  BY <1>1, <1>2 DEF IndInv, ResetInv
<1>7. TraceInv'
  <2>1. Range(<<>>) = {}
    <3>1. <<>> \in Seq({}) /\ Len(<<>>) = 0
      BY EmptySeq
    <3>2. DOMAIN <<>> = 1..0 /\ 1..0 = {}
      BY <3>1, LenProperties
    <3>3. QED
      BY <3>2 DEF Range
  <2>2. QED
    BY <1>1, <1>2, <1>3, <2>1 DEF IndInv, TraceInv
<1>8. DependenciesFirst' /\ TakenBranchesOnly'
  BY <1>2, <1>3 DEF DependenciesFirst, TakenBranchesOnly
<1>9. VerdictInv'
  <2>1. canvas \in Submitted
    BY <1>1 DEF IndInv, VerdictInv
  <2>2. PICK order \in KeyOrders(Ids(Normalize(canvas))) :
            verdict' = ValidateCanvas(canvas', Outcomes, order)
    BY <1>1
  <2>3. order \in Seq(Ids(canvas')) /\ Range(order) = Ids(canvas')
    BY <1>1, <2>1, <2>2, KeyOrdersAssumption
  <2>4. IsCanvas(canvas')
    BY <1>4 DEF GraphInv
  <2>5. HasCycle(canvas', order) <=> \E id \in Ids(canvas') : ReachesItself(canvas', id)
    <3> DEFINE c == canvas'
    <3> HIDE DEF c
    <3>1. IsCanvas(c) /\ order \in Seq(Ids(c)) /\ Range(order) = Ids(c)
      BY <2>3, <2>4 DEF c
    <3>2. HasCycle(c, order) <=> \E id \in Ids(c) : ReachesItself(c, id)
      BY <3>1, HasCycleExact
    <3>3. QED
      BY <3>2 DEF c
  <2>6. "no_cycles" \in verdict' <=> HasCycle(canvas', order)
    BY <2>2, CyclesReported
  <2>7. ConfigViolations(canvas', Outcomes) \subseteq verdict'
    BY <2>2 DEF ValidateCanvas
  <2>8. QED
    BY <1>1, <2>5, <2>6, <2>7 DEF VerdictInv
<1>10. QED
  BY <1>4, <1>5, <1>6, <1>7, <1>8, <1>9 DEF IndInv

LEMMA EvaluateStep == ASSUME IndInv, Evaluate PROVE IndInv'
<1> DEFINE graph == Translate(canvas)
<1>1. /\ phase = "evaluate" /\ phase' \in {"walk", "done"} /\ canvas' = canvas /\ ctx' = ctx
      /\ jdm' = graph /\ (phase' = "walk" => ~MissingNode(graph))
      /\ nodes' = graph.nodes /\ edges' = DOMAIN graph.edges /\ toVisit' = <<Input>>
      /\ UNCHANGED <<verdict, ordered, switched, executed, iter, trace, actions>>
  BY DEF Evaluate, input
<1>2. /\ ordered = {} /\ switched = {} /\ executed = {} /\ iter = 0 /\ trace = <<>>
      /\ actions = <<>> /\ IsCanvas(canvas)
  BY <1>1 DEF IndInv, GraphInv
<1>3. graph.nodes = JdmNodes(canvas) /\ Input \in JdmNodes(canvas)
  BY DEF Translate, JdmNodes
<1>4. /\ graph.edges \in Seq(Range(graph.edges))
      /\ \A i \in DOMAIN graph.edges : graph.edges[i].target[2] # "input"
  BY <1>2, EdgesLeadOn
<1> HIDE DEF graph
<1>5. GraphInv'
  <2>1. phase' = "walk" => \A i \in DOMAIN graph.edges :
            graph.edges[i].source \in graph.nodes /\ graph.edges[i].target \in graph.nodes
    BY <1>1 DEF MissingNode, Range
  <2>2. QED
    BY <1>1, <1>2, <1>3, <1>4, <2>1 DEF GraphInv
<1>6. WalkInv'
  <2>1. <<Input>> \in Seq(graph.nodes) /\ <<>> \in Seq(graph.nodes)
    BY <1>3
  <2>2. QED
    BY <1>1, <1>2, <1>3, <2>1 DEF WalkInv
<1>7. ResetInv'
  BY <1>1, <1>2, IterAssumption DEF IndInv, ResetInv
<1>8. TraceInv'
  BY <1>1, <1>2 DEF IndInv, TraceInv
<1>9. DependenciesFirst' /\ TakenBranchesOnly'
  BY <1>1, <1>2 DEF DependenciesFirst, TakenBranchesOnly
<1>10. VerdictInv'
  BY <1>1 DEF IndInv, VerdictInv
<1>11. QED
  BY <1>5, <1>6, <1>7, <1>8, <1>9, <1>10 DEF IndInv

\* A turn keeps the graph it walks.
LEMMA WalkingKeepsGraph ==
    ASSUME IndInv, phase = "walk", phase' \in {"walk", "done"},
           UNCHANGED <<input, verdict, jdm>>
    PROVE  GraphInv' /\ VerdictInv'
<1>1. canvas' = canvas
  BY DEF input
<1>2. GraphInv'
  BY <1>1 DEF IndInv, GraphInv
<1>3. VerdictInv'
  BY <1>1 DEF IndInv, VerdictInv
<1>4. QED
  BY <1>2, <1>3

\* After the last reset only the input node is left to return.
LEMMA InputIsReady ==
    ASSUME IndInv, phase = "walk", toVisit = <<Input>>
    PROVE  Top = Input /\ Unresolved(Top) = <<>> /\ Front(toVisit) = <<>>
<1>1. Len(toVisit) = 1 /\ Top = Input
  BY DEF Top, Last
<1>2. Into(Input, edges) = {}
  BY DEF IndInv, GraphInv, WalkInv, Into, Input
<1>3. Unresolved(Top) = Sources({})
  BY <1>1, <1>2 DEF Unresolved
<1>4. Sources({}) = <<>>
  BY EndsOfEdges DEF IndInv
<1>5. Front(toVisit) = <<>>
  BY <1>1, SubSeqEmpty DEF Front
<1>6. QED
  BY <1>1, <1>3, <1>4, <1>5

LEMMA SkipStep == ASSUME IndInv, Skip PROVE IndInv'
<1>1. /\ phase = "walk" /\ phase' = "walk" /\ toVisit # <<>> /\ toVisit' = Front(toVisit)
      /\ UNCHANGED <<input, verdict, jdm, nodes, edges, ordered, switched, executed, iter,
                     trace, actions>>
  BY DEF Skip, Visiting
<1>2. GraphInv' /\ VerdictInv'
  BY <1>1, WalkingKeepsGraph
<1>3. canvas' = canvas /\ ctx' = ctx
  BY <1>1 DEF input
<1>4. WalkInv'
  BY <1>1, TopOfStack DEF IndInv, WalkInv
<1>5. ResetInv'
  BY <1>1, InputIsReady DEF IndInv, ResetInv
<1>6. TraceInv'
  BY <1>1, <1>3 DEF IndInv, TraceInv
<1>7. DependenciesFirst' /\ TakenBranchesOnly'
  BY <1>1, <1>3 DEF IndInv, DependenciesFirst, TakenBranchesOnly, Into, Untaken, OutOf, DecisionOf
<1>8. QED
  BY <1>2, <1>4, <1>5, <1>6, <1>7 DEF IndInv

LEMMA DeferStep == ASSUME IndInv, Defer PROVE IndInv'
<1>1. /\ phase = "walk" /\ phase' = "walk" /\ toVisit # <<>>
      /\ Unresolved(Top) # <<>> /\ toVisit' = toVisit \o Unresolved(Top)
      /\ UNCHANGED <<input, verdict, jdm, nodes, edges, ordered, switched, executed, iter,
                     trace, actions>>
  BY DEF Defer, Visiting
<1>2. GraphInv' /\ VerdictInv'
  BY <1>1, WalkingKeepsGraph
<1>3. canvas' = canvas /\ ctx' = ctx
  BY <1>1 DEF input
<1>4. WalkInv'
  <2>1. Unresolved(Top) \in Seq(jdm.nodes)
    <3> DEFINE E == {i \in Into(Top, edges) : jdm.edges[i].source \notin ordered}
    <3>1. E \subseteq edges
      BY DEF Into
    <3>2. Sources(E) \in Seq(jdm.nodes)
      BY <1>1, <3>1, EndsOfEdges DEF IndInv
    <3>3. QED
      BY <3>2 DEF Unresolved
  <2>2. toVisit' \in Seq(jdm.nodes)
    BY <1>1, <2>1, ConcatProperties DEF IndInv, WalkInv
  <2>3. QED
    BY <1>1, <2>2 DEF IndInv, WalkInv
<1>5. ResetInv'
  BY <1>1, InputIsReady DEF IndInv, ResetInv
<1>6. TraceInv'
  BY <1>1, <1>3 DEF IndInv, TraceInv
<1>7. DependenciesFirst' /\ TakenBranchesOnly'
  BY <1>1, <1>3 DEF IndInv, DependenciesFirst, TakenBranchesOnly, Into, Untaken, OutOf, DecisionOf
<1>8. QED
  BY <1>2, <1>4, <1>5, <1>6, <1>7 DEF IndInv

\* A trace to which a node that is not in it yet is added.
LEMMA TraceGrows ==
    ASSUME NEW S, NEW t \in Seq(S), IsInjective(t), NEW n \in S, n \notin Range(t)
    PROVE  /\ Append(t, n) \in Seq(S) /\ IsInjective(Append(t, n))
           /\ Range(Append(t, n)) = Range(t) \union {n}
<1> DEFINE m == Len(t)
           u == Append(t, n)
<1>1. m \in Nat /\ DOMAIN t = 1..m
  BY LenProperties
<1>2. /\ u \in Seq(S) /\ Len(u) = m + 1
      /\ \A i \in 1..m : u[i] = t[i] /\ u[m + 1] = n
  BY <1>1
<1>3. DOMAIN u = 1..m + 1 /\ u[m + 1] = n
  BY <1>2, LenProperties
<1> HIDE DEF u, m
<1>4. \A i \in 1..m + 1 : i \in 1..m \/ i = m + 1
  BY <1>1
<1>5. m + 1 \in 1..m + 1 /\ \A i \in 1..m : i \in 1..m + 1
  BY <1>1
<1>6. Range(u) = Range(t) \union {n}
  BY <1>1, <1>2, <1>3, <1>4, <1>5 DEF Range
<1>7. IsInjective(u)
  BY <1>1, <1>2, <1>3, <1>4 DEF IsInjective, Range
<1>8. QED
  BY <1>2, <1>6, <1>7 DEF u

LEMMA PruneStep == ASSUME IndInv, Prune PROVE IndInv'
<1> DEFINE gone == RemoveRecursively(Untaken(Top))
<1>1. /\ phase = "walk" /\ phase' = "walk" /\ toVisit # <<>> /\ Unresolved(Top) = <<>>
      /\ Top[2] = "switch" /\ Top \notin switched
      /\ edges' = edges \ gone /\ nodes' \subseteq nodes
      /\ switched' = switched \union {Top} /\ trace' = Append(trace, Top)
      /\ toVisit' = (IF Input \in nodes' THEN <<Input>> ELSE <<>>)
      /\ ordered' = {} /\ iter' = iter + 1
      /\ UNCHANGED <<input, verdict, jdm, executed, actions>>
  BY DEF Prune, Ready, Visiting
<1>2. GraphInv' /\ VerdictInv'
  BY <1>1, WalkingKeepsGraph
<1>3. canvas' = canvas /\ ctx' = ctx
  BY <1>1 DEF input
<1>4. Top \in jdm.nodes
  BY <1>1, TopOfStack DEF IndInv, WalkInv
<1>5. Top \notin Range(trace) /\ trace \in Seq(jdm.nodes) /\ IsInjective(trace)
  BY <1>1 DEF IndInv, TraceInv, WalkInv
<1>6. WalkInv'
  <2>1. toVisit' \in Seq(jdm.nodes)
    <3>1. <<>> \in Seq(jdm.nodes)
      BY EmptySeq
    <3>2. CASE Input \in nodes'
      <4>1. Input \in jdm.nodes /\ toVisit' = <<Input>>
        BY <1>1, <3>2 DEF IndInv, WalkInv
      <4>2. <<Input>> \in Seq(jdm.nodes)
        BY <4>1, OneInSeq
      <4>3. QED
        BY <4>1, <4>2, Zenon
    <3>3. CASE Input \notin nodes'
      BY <1>1, <3>1, <3>3
    <3>4. QED
      BY <3>2, <3>3
  <2>2. trace' \in Seq(jdm.nodes)
    BY <1>1, <1>4, <1>5
  <2>3. QED
    BY <1>1, <1>4, <2>1, <2>2 DEF IndInv, WalkInv
<1>7. ResetInv'
  <2>1. iter # IterMax
    <3>1. SUFFICES ASSUME iter = IterMax PROVE FALSE
      OBVIOUS
    <3>2. toVisit = <<Input>>
      BY <1>1, <3>1 DEF IndInv, ResetInv
    <3>3. QED
      BY <1>1, <3>2, InputIsReady DEF Input
  <2>2. /\ IsFiniteSet(switched') /\ Cardinality(switched') = Cardinality(switched) + 1
        /\ Cardinality(switched) \in Nat
    BY <1>1, FS_AddElement, FS_CardinalityType DEF IndInv, ResetInv
  <2>3. QED
    BY <1>1, <2>1, <2>2, IterAssumption DEF IndInv, ResetInv
<1>8. TraceInv'
  BY <1>1, <1>3, <1>4, <1>5, TraceGrows DEF IndInv, TraceInv
<1>9. DependenciesFirst'
  BY <1>1 DEF DependenciesFirst
<1>10. TakenBranchesOnly'
  <2>1. Untaken(Top) \subseteq gone
    BY RemovedGo DEF IndInv
  <2> HIDE DEF gone
  <2>2. \A n \in switched' : Untaken(n)' \subseteq Untaken(n) \ gone
    BY <1>1, <1>3 DEF Untaken, OutOf, DecisionOf
  <2>3. \A n \in switched : Untaken(n) = {}
    BY DEF IndInv, TakenBranchesOnly
  <2>4. QED
    BY <1>1, <2>1, <2>2, <2>3 DEF TakenBranchesOnly
<1>11. QED
  BY <1>2, <1>6, <1>7, <1>8, <1>9, <1>10 DEF IndInv

LEMMA ReturnStep == ASSUME IndInv, Return PROVE IndInv'
<1>1. /\ phase = "walk" /\ toVisit # <<>> /\ Top \notin ordered /\ Unresolved(Top) = <<>>
      /\ Top[2] = "switch" => Top \in switched \/ Untaken(Top) = {}
      /\ toVisit' = Front(toVisit) \o Targets(OutOf(Top, edges))
      /\ ordered' = ordered \union {Top}
      /\ switched' = (IF Top[2] = "switch" THEN switched \union {Top} ELSE switched)
      /\ Execute(Top)
      /\ UNCHANGED <<input, verdict, jdm, nodes, edges, iter>>
  BY DEF Return, Ready, Visiting
<1>2. /\ executed' = executed \union {Top}
      /\ trace' = (IF Top \in executed \union switched THEN trace ELSE Append(trace, Top))
      /\ phase' \in {"walk", "done"}
      /\ phase' = "walk" => ~(iter >= IterMax)
      /\ \/ actions' = <<>>
         \/ actions' = Matched(trace')
         \/ actions' = actions
  BY <1>1 DEF Execute
<1>3. GraphInv' /\ VerdictInv'
  BY <1>1, <1>2, WalkingKeepsGraph
<1>4. canvas' = canvas /\ ctx' = ctx
  BY <1>1 DEF input
<1>5. Top \in jdm.nodes /\ Front(toVisit) \in Seq(jdm.nodes)
  BY <1>1, TopOfStack DEF IndInv, WalkInv
<1>6. /\ trace' \in Seq(jdm.nodes) /\ IsInjective(trace')
      /\ Range(trace') = executed' \union switched'
  <2>1. trace \in Seq(jdm.nodes) /\ IsInjective(trace) /\ Range(trace) = executed \union switched
    BY DEF IndInv, TraceInv, WalkInv
  <2>2. CASE Top \in executed \union switched
    BY <1>1, <1>2, <2>1, <2>2 DEF IndInv, TraceInv
  <2>3. CASE Top \notin executed \union switched
    BY <1>1, <1>2, <1>5, <2>1, <2>3, TraceGrows
  <2>4. QED
    BY <2>2, <2>3
<1>7. WalkInv'
  <2>1. OutOf(Top, edges) \subseteq edges
    BY DEF OutOf
  <2>2. Targets(OutOf(Top, edges)) \in Seq(jdm.nodes)
    BY <1>1, <2>1, EndsOfEdges DEF IndInv
  <2>3. toVisit' \in Seq(jdm.nodes)
    BY <1>1, <1>5, <2>2, ConcatProperties
  <2>4. QED
    BY <1>1, <1>2, <1>5, <1>6, <2>3 DEF IndInv, WalkInv
<1>8. ResetInv'
  <2>1. /\ IsFiniteSet(switched') /\ Cardinality(switched') \in Nat
        /\ Cardinality(switched) <= Cardinality(switched') /\ Cardinality(switched) \in Nat
    <3>1. IsFiniteSet(switched) /\ Cardinality(switched) \in Nat
      BY FS_CardinalityType DEF IndInv, ResetInv
    <3>2. switched' = switched \/ switched' = switched \union {Top}
      BY <1>1
    <3>3. \/ Cardinality(switched \union {Top}) = Cardinality(switched)
          \/ Cardinality(switched \union {Top}) = Cardinality(switched) + 1
      BY <3>1, FS_AddElement
    <3>4. IsFiniteSet(switched \union {Top})
      BY <3>1, FS_AddElement
    <3>5. QED
      BY <3>1, <3>2, <3>3, <3>4
  <2>2. QED
    BY <1>1, <1>2, <2>1, IterAssumption DEF IndInv, ResetInv
<1>9. TraceInv'
  <2>1. Range(actions') \subseteq Ids(canvas) /\ IsInjective(actions')
    <3>1. Range(<<>>) = {} /\ IsInjective(<<>>)
      <4>1. <<>> \in Seq({}) /\ Len(<<>>) = 0
        BY EmptySeq
      <4>2. DOMAIN <<>> = 1..0 /\ 1..0 = {}
        BY <4>1, LenProperties
      <4>3. QED
        BY <4>2 DEF Range, IsInjective
    <3>2. Range(Matched(trace')) \subseteq Ids(canvas) /\ IsInjective(Matched(trace'))
      BY <1>6, MatchedOnce DEF IndInv, GraphInv
    <3>3. QED
      BY <1>2, <3>1, <3>2 DEF IndInv, TraceInv
  <2>2. \A n \in executed' : n[2] = "switch" => n \in switched'
    BY <1>1, <1>2 DEF IndInv, TraceInv
  <2>3. QED
    BY <1>4, <1>6, <2>1, <2>2 DEF TraceInv
<1>10. DependenciesFirst'
  <2>1. \A i \in Into(Top, edges) : jdm.edges[i].source \in ordered
    <3> DEFINE E == {i \in Into(Top, edges) : jdm.edges[i].source \notin ordered}
    <3>1. E \subseteq edges /\ Sources(E) = <<>>
      BY <1>1 DEF Into, Unresolved
    <3>2. E = {}
      BY <1>1, <3>1, EndsOfEdges DEF IndInv
    <3>3. QED
      BY <3>2
  <2>2. QED
    BY <1>1, <2>1 DEF IndInv, DependenciesFirst, Into
<1>11. TakenBranchesOnly'
  <2>1. \A n : Untaken(n)' = Untaken(n)
    BY <1>1, <1>4 DEF Untaken, OutOf, DecisionOf
  <2>2. QED
    BY <1>1, <2>1 DEF IndInv, TakenBranchesOnly
<1>12. QED
  BY <1>3, <1>7, <1>8, <1>9, <1>10, <1>11 DEF IndInv

LEMMA ExhaustedStep == ASSUME IndInv, Exhausted PROVE IndInv'
<1>1. /\ phase = "walk" /\ phase' = "done" /\ actions' = Matched(trace)
      /\ UNCHANGED <<input, verdict, jdm, walk>>
  BY DEF Exhausted
<1>2. GraphInv' /\ VerdictInv'
  BY <1>1, WalkingKeepsGraph
<1>3. /\ canvas' = canvas /\ ctx' = ctx
      /\ UNCHANGED <<nodes, edges, toVisit, ordered, switched, executed, iter, trace>>
  BY <1>1 DEF input, walk
<1>4. WalkInv' /\ ResetInv'
  BY <1>1, <1>3 DEF IndInv, WalkInv, ResetInv
<1>5. TraceInv'
  <2>1. Range(Matched(trace)) \subseteq Ids(canvas) /\ IsInjective(Matched(trace))
    BY MatchedOnce DEF IndInv, GraphInv, WalkInv, TraceInv
  <2>2. QED
    BY <1>1, <1>3, <2>1 DEF IndInv, TraceInv
<1>6. DependenciesFirst' /\ TakenBranchesOnly'
  BY <1>1, <1>3 DEF IndInv, DependenciesFirst, TakenBranchesOnly, Into, Untaken, OutOf, DecisionOf
<1>7. QED
  BY <1>2, <1>4, <1>5, <1>6 DEF IndInv

LEMMA StutterStep == ASSUME IndInv, UNCHANGED vars PROVE IndInv'
<1>1. /\ UNCHANGED <<canvas, ctx, phase, verdict, jdm, actions>>
      /\ UNCHANGED <<nodes, edges, toVisit, ordered, switched, executed, iter, trace>>
  BY DEF vars, input, walk
<1>2. GraphInv' /\ WalkInv' /\ ResetInv' /\ TraceInv'
  BY <1>1 DEF IndInv, GraphInv, WalkInv, ResetInv, TraceInv
<1>3. DependenciesFirst' /\ TakenBranchesOnly' /\ VerdictInv'
  BY <1>1 DEF IndInv, DependenciesFirst, TakenBranchesOnly, VerdictInv, Into, Untaken, OutOf,
              DecisionOf
<1>4. QED
  BY <1>2, <1>3 DEF IndInv

\* The invariant is inductive: a turn of the walker keeps to the graph that is
\* left, resets it for a new switch only, and traces what is new.
THEOREM Inductive == Spec => []IndInv
<1>1. Init => IndInv
  BY InitIndInv
<1>2. IndInv /\ [Next]_vars => IndInv'
  BY SubmitStep, EvaluateStep, SkipStep, DeferStep, PruneStep, ReturnStep, ExhaustedStep,
     StutterStep DEF Next, Finished
<1>3. QED
  BY <1>1, <1>2, PTL DEF Spec

-----------------------------------------------------------------------------
(* How long a walk lasts *)

\* An edge of a graph from a to b.
Joined(graph, a, b) ==
    \E i \in DOMAIN graph.edges : graph.edges[i].source = a /\ graph.edges[i].target = b

\* What a node leads to is closed under the edges: the closure has as many
\* rounds as the graph has nodes, and each adds one unless none is missing.
LEMMA DescendantsClosed ==
    ASSUME NEW graph, IsFiniteSet(graph.nodes), NEW n
    PROVE  /\ Descendants(graph, n) \subseteq graph.nodes
           /\ \A m \in graph.nodes : Joined(graph, n, m) => m \in Descendants(graph, n)
           /\ \A l \in Descendants(graph, n), m \in graph.nodes :
                 Joined(graph, l, m) => m \in Descendants(graph, n)
           /\ \A B : /\ \A m \in graph.nodes : Joined(graph, n, m) => m \in B
                     /\ \A l \in B, m \in graph.nodes : Joined(graph, l, m) => m \in B
                     => Descendants(graph, n) \subseteq B
<1> DEFINE N == Cardinality(graph.nodes)
           links == {<<e.source, e.target>> : e \in Range(graph.edges)}
           first == {m \in graph.nodes : <<n, m>> \in links}
           More(S) == {m \in graph.nodes : \E l \in S : <<l, m>> \in links}
           D == SUBSET graph.nodes
           F == [S \in D |-> S \union More(S)]
           P == [S \in D |-> N - Cardinality(S)]
           Done == {S \in D : More(S) \subseteq S}
           Is(g) == g = [k \in 0..N |-> IF k = 0 THEN first ELSE g[k - 1] \union More(g[k - 1])]
           grown == CHOOSE g : Is(g)
<1>1. N \in Nat /\ N \in 0..N /\ 0 \in 0..N /\ \A k \in 1..N : k \in 0..N /\ k - 1 \in 0..N /\ k # 0
  BY FS_CardinalityType
<1>2. \A S : More(S) \subseteq graph.nodes
  OBVIOUS
<1>3. first \in D /\ F \in [D -> D]
  BY <1>2
<1>4. \A a, m : Joined(graph, a, m) => <<a, m>> \in links
  BY DEF Joined, Range
<1> HIDE DEF More, first, links, N
<1>5. PICK g : Iteration(g, N, D, first, F)
  <2> HIDE DEF D, F
  <2>1. QED
    BY <1>1, <1>3, Iterates
<1>6. /\ g \in [0..N -> D] /\ g[0] = first
      /\ \A k \in 1..N : g[k] = g[k - 1] \union More(g[k - 1])
  BY <1>1, <1>5 DEF Iteration
<1>7. Is(g)
  <2>1. \A k \in 0..N : k # 0 => k \in 1..N
    BY <1>1
  <2>2. \A k \in 0..N : g[k] = IF k = 0 THEN first ELSE g[k - 1] \union More(g[k - 1])
    BY <1>6, <2>1
  <2>3. QED
    BY <1>6, <2>2
<1>8. Is(grown)
  <2> HIDE DEF Is
  <2>1. QED
    BY <1>7
<1>9. Descendants(graph, n) = grown[N]
  BY DEF Descendants, Closure, More, first, links, N
<1> HIDE DEF grown
<1>10. Iteration(grown, N, D, first, F)
  <2> DEFINE T == {k \in 0..N : grown[k] = g[k]}
  <2>1. grown = [k \in 0..N |-> grown[k]] /\ grown[0] = first
        /\ \A k \in 1..N : grown[k] = grown[k - 1] \union More(grown[k - 1])
    BY <1>1, <1>8
  <2>2. 0 \in T /\ \A k \in 1..N : k - 1 \in T => k \in T
    BY <1>1, <1>6, <2>1
  <2>3. 0..N \subseteq T
    <3> HIDE DEF T
    <3>1. QED
      BY <1>1, <2>2, SetInduction
  <2>4. grown = g
    BY <1>6, <2>1, <2>3
  <2>5. QED
    BY <1>5, <2>4
<1>11. /\ grown \in [0..N -> D] /\ grown[0] = first
       /\ \A k \in 1..N : grown[k] = grown[k - 1] \union More(grown[k - 1])
  BY <1>1, <1>10 DEF Iteration
<1>12. \A S \in D : Cardinality(S) \in Nat /\ Cardinality(S) <= N /\ P[S] \in Nat /\ P[S] <= N
  <2>1. ASSUME NEW S \in D PROVE Cardinality(S) \in Nat /\ Cardinality(S) <= N
    BY SmallerSet DEF N
  <2>2. QED
    BY <1>1, <2>1
<1>13. \A S \in D : S \in Done \/ P[F[S]] < P[S]
  <2>1. SUFFICES ASSUME NEW S \in D, S \notin Done PROVE P[F[S]] < P[S]
    OBVIOUS
  <2>2. S \subseteq F[S] /\ S # F[S] /\ F[S] \in D
    BY <1>3, <2>1 DEF Done
  <2>3. IsFiniteSet(F[S])
    BY <2>2, FS_Subset
  <2>4. Cardinality(S) < Cardinality(F[S])
    BY <2>2, <2>3, SmallerSet
  <2>5. \A R \in D : P[R] = N - Cardinality(R)
    OBVIOUS
  <2> HIDE DEF D, F, P, Done
  <2>6. P[S] = N - Cardinality(S) /\ P[F[S]] = N - Cardinality(F[S])
    BY <2>2, <2>5
  <2>7. Cardinality(S) \in Nat /\ Cardinality(F[S]) \in Nat
    BY <1>12, <2>2
  <2>8. QED
    BY <1>1, <2>4, <2>6, <2>7
<1>14. grown[N] \in Done
  <2>1. P \in [D -> Nat] /\ P[first] <= N
    BY <1>3, <1>12
  <2>2. \A S \in D : S \in Done => F[S] = S
    OBVIOUS
  <2> HIDE DEF D, F, P, Done
  <2>3. QED
    BY <1>1, <1>3, <1>10, <1>13, <2>1, <2>2, Settles
<1>15. first \subseteq grown[N]
  <2> DEFINE T == {k \in 0..N : first \subseteq grown[k]}
  <2>1. 0 \in T /\ \A k \in 1..N : k - 1 \in T => k \in T
    BY <1>1, <1>11
  <2>2. 0..N \subseteq T
    <3> HIDE DEF T
    <3>1. QED
      BY <1>1, <2>1, SetInduction
  <2>3. QED
    BY <1>1, <2>2
<1>16. \A m \in graph.nodes : Joined(graph, n, m) => m \in first
  BY <1>4 DEF first
<1>17. \A l \in grown[N], m \in graph.nodes : Joined(graph, l, m) => m \in More(grown[N])
  BY <1>4 DEF More
<1>18. ASSUME NEW B, \A m \in graph.nodes : Joined(graph, n, m) => m \in B,
             \A l \in B, m \in graph.nodes : Joined(graph, l, m) => m \in B
       PROVE  grown[N] \subseteq B
  <2> DEFINE T == {k \in 0..N : grown[k] \subseteq B}
  <2>1. \A a, m : <<a, m>> \in links => Joined(graph, a, m)
    BY DEF Joined, Range, links
  <2>2. first \subseteq B
    BY <1>18, <2>1 DEF first
  <2>3. \A S \in D : S \subseteq B => More(S) \subseteq B
    BY <1>18, <2>1 DEF More
  <2>4. 0 \in T /\ \A k \in 1..N : k - 1 \in T => k \in T
    BY <1>1, <1>11, <2>2, <2>3
  <2>5. 0..N \subseteq T
    <3> HIDE DEF T
    <3>1. QED
      BY <1>1, <2>4, SetInduction
  <2>6. QED
    BY <1>1, <2>5
<1>19. QED
  BY <1>9, <1>14, <1>15, <1>16, <1>17, <1>18

\* A graph that is walked.
IsWalkable(graph) ==
    /\ IsFiniteSet(graph.nodes)
    /\ graph.edges \in Seq(Range(graph.edges))
    /\ \A i \in DOMAIN graph.edges :
          graph.edges[i].source \in graph.nodes /\ graph.edges[i].target \in graph.nodes
    /\ ~Cyclic(graph)

\* A node and the nodes that lead to it, and the edges into these.
Behind(graph, n) == {m \in graph.nodes : m = n \/ n \in Descendants(graph, m)}
Feeding(graph, n) == {i \in DOMAIN graph.edges : graph.edges[i].target \in Behind(graph, n)}
Up(graph, n) == Cardinality(Behind(graph, n)) + Cardinality(Feeding(graph, n))

Size(graph) == Cardinality(graph.nodes) + Len(graph.edges)

LEMMA UpBounded ==
    ASSUME NEW graph, IsWalkable(graph), NEW n
    PROVE  /\ Up(graph, n) \in Nat /\ Size(graph) \in Nat /\ Up(graph, n) <= Size(graph)
           /\ Cardinality(graph.nodes) \in Nat /\ Len(graph.edges) \in Nat
           /\ IsFiniteSet(DOMAIN graph.edges)
           /\ Cardinality(DOMAIN graph.edges) = Len(graph.edges)
<1>1. /\ Len(graph.edges) \in Nat /\ DOMAIN graph.edges = 1..Len(graph.edges)
      /\ IsFiniteSet(graph.nodes)
  BY LenProperties DEF IsWalkable
<1>2. IsFiniteSet(DOMAIN graph.edges) /\ Cardinality(DOMAIN graph.edges) = Len(graph.edges)
  BY <1>1, FS_Interval
<1>3. Behind(graph, n) \subseteq graph.nodes /\ Feeding(graph, n) \subseteq DOMAIN graph.edges
  BY DEF Behind, Feeding
<1>4. /\ Cardinality(Behind(graph, n)) \in Nat /\ Cardinality(graph.nodes) \in Nat
      /\ Cardinality(Behind(graph, n)) <= Cardinality(graph.nodes)
  BY <1>1, <1>3, SmallerSet
<1>5. /\ Cardinality(Feeding(graph, n)) \in Nat
      /\ Cardinality(Feeding(graph, n)) <= Cardinality(DOMAIN graph.edges)
  BY <1>2, <1>3, SmallerSet
<1>6. QED
  BY <1>1, <1>2, <1>4, <1>5 DEF Up, Size

\* The edges into a node.
Entering(graph, n) == {i \in DOMAIN graph.edges : graph.edges[i].target = n}

\* A node that leads to another has less behind it, by the other and the edges
\* into it.
LEMMA UpFalls ==
    ASSUME NEW graph, IsWalkable(graph), NEW m, NEW n, Joined(graph, m, n)
    PROVE  /\ Up(graph, m) + Cardinality(Entering(graph, n)) < Up(graph, n)
           /\ Cardinality(Entering(graph, n)) \in Nat
<1> DEFINE nodesUp == Behind(graph, n)
           edgesUp == Feeding(graph, n)
           into == Entering(graph, n)
<1>1. m \in graph.nodes /\ n \in graph.nodes /\ IsFiniteSet(graph.nodes)
  BY DEF Joined, IsWalkable
<1>2. \A a \in graph.nodes : a \notin Descendants(graph, a)
  BY DEF IsWalkable, Cyclic
<1>3. n \in Descendants(graph, m)
  BY <1>1, DescendantsClosed
<1>4. \A a \in graph.nodes : m \in Descendants(graph, a) => n \in Descendants(graph, a)
  BY <1>1, DescendantsClosed
<1>5. m # n /\ m \notin Descendants(graph, n)
  <2>1. m # n
    BY <1>1, <1>2, <1>3
  <2>2. m \in Descendants(graph, n) => n \in Descendants(graph, n)
    BY <1>1, <1>4
  <2>3. QED
    BY <1>1, <1>2, <2>1, <2>2
<1>6. Behind(graph, m) \subseteq nodesUp \ {n} /\ n \in nodesUp
  BY <1>1, <1>3, <1>4, <1>5 DEF Behind
<1>7. Feeding(graph, m) \subseteq edgesUp \ into /\ into \subseteq edgesUp
  BY <1>6 DEF Feeding, Entering
<1>8. IsFiniteSet(nodesUp) /\ IsFiniteSet(edgesUp)
  <2>1. nodesUp \in SUBSET graph.nodes /\ edgesUp \in SUBSET (DOMAIN graph.edges)
    BY DEF Behind, Feeding
  <2>2. QED
    BY <1>1, <2>1, UpBounded, FS_Subset
<1> HIDE DEF nodesUp, edgesUp, into
<1>9. Cardinality(Behind(graph, m)) + 1 <= Cardinality(nodesUp)
  <2>1. IsFiniteSet(nodesUp \ {n}) /\ Cardinality(nodesUp \ {n}) = Cardinality(nodesUp) - 1
    BY <1>6, <1>8, FS_RemoveElement
  <2>2. /\ Cardinality(Behind(graph, m)) <= Cardinality(nodesUp \ {n})
        /\ Cardinality(Behind(graph, m)) \in Nat /\ Cardinality(nodesUp \ {n}) \in Nat
    BY <1>6, <2>1, SmallerSet
  <2>3. Cardinality(nodesUp) \in Nat
    BY <1>8, FS_CardinalityType
  <2>4. QED
    BY <2>1, <2>2, <2>3
<1>10. /\ Cardinality(Feeding(graph, m)) + Cardinality(into) <= Cardinality(edgesUp)
       /\ Cardinality(into) \in Nat
  <2>1. edgesUp \intersect into = into
    BY <1>7
  <2>2. /\ IsFiniteSet(edgesUp \ into)
        /\ Cardinality(edgesUp \ into) = Cardinality(edgesUp) - Cardinality(into)
    BY <1>8, <2>1, FS_Difference
  <2>3. /\ Cardinality(Feeding(graph, m)) <= Cardinality(edgesUp \ into)
        /\ Cardinality(Feeding(graph, m)) \in Nat /\ Cardinality(edgesUp \ into) \in Nat
    BY <1>7, <2>2, SmallerSet
  <2>4. Cardinality(into) \in Nat /\ Cardinality(edgesUp) \in Nat
    BY <1>7, <1>8, SmallerSet
  <2>5. QED
    BY <2>2, <2>3, <2>4
<1>11. /\ Cardinality(Behind(graph, m)) \in Nat /\ Cardinality(Feeding(graph, m)) \in Nat
       /\ Cardinality(nodesUp) \in Nat /\ Cardinality(edgesUp) \in Nat
  <2>1. IsFiniteSet(Behind(graph, m)) /\ IsFiniteSet(Feeding(graph, m))
    BY <1>6, <1>7, <1>8, FS_Subset
  <2>2. QED
    BY <1>8, <2>1, FS_CardinalityType
<1>12. QED
  BY <1>9, <1>10, <1>11 DEF Up, nodesUp, edgesUp, into

\* The turns the way up from the top of the stack may take.
Ascent(graph, stack, past) ==
    IF stack = <<>> THEN 0
    ELSE IF Last(stack) \in past THEN Size(graph)
    ELSE Up(graph, Last(stack))

Leaves(graph, n) == {i \in DOMAIN graph.edges : graph.edges[i].source = n}
Unused(graph, past) == {i \in DOMAIN graph.edges : graph.edges[i].source \notin past}

\* The turns that may still be taken without a reset: each pops the stack or
\* goes up; a node that is returned pushes what its edges lead to, and the way
\* up may then start anywhere.
Budget(graph, stack, past) ==
    Len(stack) + Ascent(graph, stack, past) + Cardinality(Unused(graph, past))
    + (Cardinality(graph.nodes) - Cardinality(past)) * Size(graph)

Allowance(graph) == (Cardinality(graph.nodes) + 2) * Size(graph)

LEMMA BudgetTyped ==
    ASSUME NEW graph, IsWalkable(graph), NEW stack \in Seq(graph.nodes),
           NEW past, past \subseteq graph.nodes
    PROVE  /\ Ascent(graph, stack, past) \in Nat /\ Ascent(graph, stack, past) <= Size(graph)
           /\ IsFiniteSet(Unused(graph, past)) /\ Cardinality(Unused(graph, past)) \in Nat
           /\ Cardinality(Unused(graph, past)) <= Len(graph.edges)
           /\ IsFiniteSet(past) /\ Cardinality(past) \in Nat
           /\ Cardinality(past) <= Cardinality(graph.nodes)
           /\ Budget(graph, stack, past) \in Nat /\ Budget(graph, stack, past) >= Len(stack)
<1>1. \A n : Up(graph, n) \in Nat /\ Size(graph) \in Nat /\ Up(graph, n) <= Size(graph)
  BY UpBounded
<1>2. Ascent(graph, stack, past) \in Nat /\ Ascent(graph, stack, past) <= Size(graph)
  BY <1>1 DEF Ascent
<1>3. /\ IsFiniteSet(DOMAIN graph.edges) /\ Cardinality(DOMAIN graph.edges) = Len(graph.edges)
      /\ Unused(graph, past) \subseteq DOMAIN graph.edges /\ IsFiniteSet(graph.nodes)
  BY UpBounded DEF Unused, IsWalkable
<1>4. IsFiniteSet(Unused(graph, past)) /\ IsFiniteSet(past)
  BY <1>3, FS_Subset
<1>5. /\ Cardinality(Unused(graph, past)) \in Nat
      /\ Cardinality(Unused(graph, past)) <= Len(graph.edges)
  BY <1>3, SmallerSet
<1>6. /\ Cardinality(past) \in Nat /\ Cardinality(graph.nodes) \in Nat
      /\ Cardinality(past) <= Cardinality(graph.nodes)
  BY <1>3, SmallerSet
<1>7. \A a, b, c \in Nat : b <= a => (a - b) * c \in Nat
  OBVIOUS
<1>8. (Cardinality(graph.nodes) - Cardinality(past)) * Size(graph) \in Nat
  BY <1>1, <1>6, <1>7
<1>9. Len(stack) \in Nat
  BY LenProperties
<1>10. Budget(graph, stack, past) \in Nat /\ Budget(graph, stack, past) >= Len(stack)
  BY <1>2, <1>5, <1>8, <1>9 DEF Budget
<1>11. QED
  BY <1>2, <1>4, <1>5, <1>6, <1>10

\* A graph allows for the turns of a walk that starts at one node.
LEMMA BudgetStarts ==
    ASSUME NEW graph, IsWalkable(graph), NEW stack \in Seq(graph.nodes), Len(stack) <= 1
    PROVE  Budget(graph, stack, {}) <= Allowance(graph)
<1>1. /\ Ascent(graph, stack, {}) \in Nat /\ Ascent(graph, stack, {}) <= Size(graph)
      /\ Cardinality(Unused(graph, {})) \in Nat
      /\ Cardinality(Unused(graph, {})) <= Len(graph.edges)
  BY BudgetTyped
<1>2. /\ Cardinality(graph.nodes) \in Nat /\ Len(graph.edges) \in Nat
      /\ Size(graph) = Cardinality(graph.nodes) + Len(graph.edges)
  BY UpBounded DEF Size
<1>3. Cardinality({}) = 0 /\ Len(stack) \in Nat
  BY FS_EmptySet, LenProperties
<1>4. Len(stack) = 1 => Cardinality(graph.nodes) # 0
  <2>1. ASSUME Len(stack) = 1 PROVE graph.nodes # {}
    BY <2>1, ElementOfSeq
  <2>2. QED
    BY <2>1, FS_EmptySet DEF IsWalkable
<1>5. \A n, x \in Nat : (n + 2) * x = n * x + x + x
  OBVIOUS
<1>6. Allowance(graph) = Cardinality(graph.nodes) * Size(graph) + Size(graph) + Size(graph)
  <2>1. Cardinality(graph.nodes) \in Nat /\ Size(graph) \in Nat
    BY <1>2
  <2>2. QED
    BY <1>5, <2>1 DEF Allowance
<1>7. \A n, x \in Nat : (n - 0) * x = n * x /\ n * x \in Nat
  OBVIOUS
<1>8. Budget(graph, stack, {}) = Len(stack) + Ascent(graph, stack, {})
         + Cardinality(Unused(graph, {})) + Cardinality(graph.nodes) * Size(graph)
  BY <1>2, <1>3, <1>7 DEF Budget
<1>9. Len(stack) + Cardinality(Unused(graph, {})) <= Size(graph)
  <2>1. \A l, u, n, e \in Nat : l <= 1 /\ (l = 1 => n # 0) /\ u <= e => l + u <= n + e
    OBVIOUS
  <2>2. QED
    BY <1>1, <1>2, <1>3, <1>4, <2>1
<1>10. \A l, a, u, x, nx \in Nat : a <= x /\ l + u <= x => l + a + u + nx <= nx + x + x
  OBVIOUS
<1>11. Cardinality(graph.nodes) * Size(graph) \in Nat /\ Size(graph) \in Nat
  BY <1>2, <1>7
<1>12. QED
  BY <1>1, <1>3, <1>6, <1>8, <1>9, <1>10, <1>11

\* A node that has been returned is dropped from the stack.
LEMMA SkipPays ==
    ASSUME NEW graph, IsWalkable(graph), NEW stack \in Seq(graph.nodes), stack # <<>>,
           NEW past, past \subseteq graph.nodes, Last(stack) \in past
    PROVE  Budget(graph, Front(stack), past) < Budget(graph, stack, past)
<1>1. Front(stack) \in Seq(graph.nodes) /\ Len(Front(stack)) = Len(stack) - 1 /\ Len(stack) \in Nat
  BY FrontShorter
<1>2. /\ Ascent(graph, Front(stack), past) \in Nat
      /\ Ascent(graph, Front(stack), past) <= Ascent(graph, stack, past)
      /\ Ascent(graph, stack, past) \in Nat /\ Cardinality(Unused(graph, past)) \in Nat
  <2>1. Ascent(graph, stack, past) = Size(graph)
    BY DEF Ascent
  <2>2. QED
    BY <1>1, <2>1, BudgetTyped
<1> DEFINE rest == (Cardinality(graph.nodes) - Cardinality(past)) * Size(graph)
<1>3. rest \in Int
  <2>1. Cardinality(graph.nodes) \in Nat /\ Cardinality(past) \in Nat /\ Size(graph) \in Nat
    BY BudgetTyped, UpBounded
  <2>2. \A a, b, c \in Nat : (a - b) * c \in Int
    OBVIOUS
  <2>3. QED
    BY <2>1, <2>2
<1>4. /\ Budget(graph, stack, past)
            = Len(stack) + Ascent(graph, stack, past) + Cardinality(Unused(graph, past)) + rest
      /\ Budget(graph, Front(stack), past)
            = Len(Front(stack)) + Ascent(graph, Front(stack), past)
              + Cardinality(Unused(graph, past)) + rest
  BY DEF Budget
<1> HIDE DEF rest
<1>5. QED
  BY <1>1, <1>2, <1>3, <1>4

\* A sum of the parts of a budget.
LEMMA BudgetSum ==
    ASSUME NEW graph, IsWalkable(graph), NEW stack \in Seq(graph.nodes),
           NEW past, past \subseteq graph.nodes
    PROVE  LET rest == (Cardinality(graph.nodes) - Cardinality(past)) * Size(graph)
           IN  /\ rest \in Nat /\ Len(stack) \in Nat /\ Size(graph) \in Nat
               /\ Budget(graph, stack, past)
                     = Len(stack) + Ascent(graph, stack, past) + Cardinality(Unused(graph, past))
                       + rest
<1>1. /\ Cardinality(graph.nodes) \in Nat /\ Cardinality(past) \in Nat /\ Size(graph) \in Nat
      /\ Cardinality(past) <= Cardinality(graph.nodes)
  BY BudgetTyped, UpBounded
<1>2. \A a, b, c \in Nat : b <= a => (a - b) * c \in Nat
  OBVIOUS
<1>3. Len(stack) \in Nat
  BY LenProperties
<1>4. QED
  BY <1>1, <1>2, <1>3 DEF Budget

\* Nodes the top waits for are pushed on it: what is behind the last of them is
\* less.
LEMMA DeferPays ==
    ASSUME NEW graph, IsWalkable(graph), NEW stack \in Seq(graph.nodes), stack # <<>>,
           NEW past, past \subseteq graph.nodes, Last(stack) \notin past,
           NEW more \in Seq(graph.nodes), more # <<>>, Last(more) \notin past,
           Joined(graph, Last(more), Last(stack)),
           Len(more) <= Cardinality(Entering(graph, Last(stack)))
    PROVE  Budget(graph, stack \o more, past) < Budget(graph, stack, past)
<1> DEFINE both == stack \o more
           rest == (Cardinality(graph.nodes) - Cardinality(past)) * Size(graph)
<1>1. Len(stack) \in Nat \ {0} /\ Len(more) \in Nat \ {0}
  BY FrontShorter
<1>2. both \in Seq(graph.nodes) /\ Len(both) = Len(stack) + Len(more) /\ Last(both) = Last(more)
  <2>1. /\ both \in Seq(graph.nodes) /\ Len(both) = Len(stack) + Len(more)
        /\ \A i \in 1..Len(stack) + Len(more) :
              both[i] = IF i <= Len(stack) THEN stack[i] ELSE more[i - Len(stack)]
    BY ConcatProperties
  <2>2. /\ Len(stack) + Len(more) \in 1..Len(stack) + Len(more)
        /\ ~(Len(stack) + Len(more) <= Len(stack))
        /\ Len(stack) + Len(more) - Len(stack) = Len(more)
    BY <1>1
  <2> HIDE DEF both
  <2>3. both[Len(both)] = more[Len(more)]
    BY <2>1, <2>2
  <2>4. QED
    BY <2>1, <2>3 DEF Last
<1>3. both # <<>>
  BY <1>1, <1>2, EmptySeq
<1> HIDE DEF both
<1>4. /\ Ascent(graph, stack, past) = Up(graph, Last(stack))
      /\ Ascent(graph, both, past) = Up(graph, Last(more))
  BY <1>2, <1>3 DEF Ascent
<1>5. /\ Up(graph, Last(more)) + Cardinality(Entering(graph, Last(stack))) < Up(graph, Last(stack))
      /\ Cardinality(Entering(graph, Last(stack))) \in Nat
  BY UpFalls
<1>6. Up(graph, Last(more)) \in Nat /\ Up(graph, Last(stack)) \in Nat
  BY UpBounded
<1>7. /\ rest \in Nat
      /\ Budget(graph, stack, past)
            = Len(stack) + Ascent(graph, stack, past) + Cardinality(Unused(graph, past)) + rest
      /\ Budget(graph, both, past)
            = Len(both) + Ascent(graph, both, past) + Cardinality(Unused(graph, past)) + rest
  BY <1>2, BudgetSum
<1>8. Cardinality(Unused(graph, past)) \in Nat
  BY BudgetTyped
<1> HIDE DEF rest
<1>9. Len(both) + Up(graph, Last(more)) < Len(stack) + Up(graph, Last(stack))
  BY <1>1, <1>2, <1>5, <1>6
<1>10. QED
  BY <1>1, <1>2, <1>4, <1>6, <1>7, <1>8, <1>9 DEF both

\* A node is returned for the first time: what it leads to is pushed, and its
\* edges are used.
LEMMA ReturnPays ==
    ASSUME NEW graph, IsWalkable(graph), NEW stack \in Seq(graph.nodes), stack # <<>>,
           NEW past, past \subseteq graph.nodes, Last(stack) \notin past,
           NEW more \in Seq(graph.nodes),
           Len(more) <= Cardinality(Leaves(graph, Last(stack)))
    PROVE  Budget(graph, Front(stack) \o more, past \union {Last(stack)})
              < Budget(graph, stack, past)
<1> DEFINE n == Last(stack)
           after == Front(stack) \o more
           N == Cardinality(graph.nodes)
           k == Cardinality(past)
           x == Size(graph)
<1>1. /\ Front(stack) \in Seq(graph.nodes) /\ Len(stack) \in Nat \ {0}
      /\ Len(Front(stack)) = Len(stack) - 1 /\ n \in graph.nodes /\ Len(more) \in Nat
  BY FrontShorter, LenProperties
<1>2. after \in Seq(graph.nodes) /\ Len(after) = Len(stack) - 1 + Len(more)
  BY <1>1, ConcatProperties
<1>3. past \union {n} \subseteq graph.nodes
  BY <1>1
<1>4. /\ N \in Nat /\ k \in Nat /\ x \in Nat
      /\ Cardinality(past \union {n}) = k + 1 /\ k + 1 <= N
  <2>1. N \in Nat /\ k \in Nat /\ x \in Nat /\ IsFiniteSet(past)
    BY BudgetTyped, UpBounded
  <2>2. Cardinality(past \union {n}) = k + 1
    BY <2>1, FS_AddElement
  <2>3. Cardinality(past \union {n}) <= N
    <3> HIDE DEF n
    <3>1. QED
      BY <1>3, BudgetTyped
  <2>4. QED
    BY <2>1, <2>2, <2>3
<1>5. /\ Unused(graph, past \union {n}) = Unused(graph, past) \ Leaves(graph, n)
      /\ Unused(graph, past) \intersect Leaves(graph, n) = Leaves(graph, n)
  BY DEF Unused, Leaves
<1>6. /\ Cardinality(Unused(graph, past \union {n}))
            = Cardinality(Unused(graph, past)) - Cardinality(Leaves(graph, n))
      /\ Cardinality(Unused(graph, past)) \in Nat
      /\ Cardinality(Leaves(graph, n)) \in Nat
  <2>1. IsFiniteSet(Unused(graph, past)) /\ Cardinality(Unused(graph, past)) \in Nat
    BY BudgetTyped
  <2>2. Leaves(graph, n) \subseteq Unused(graph, past)
    BY <1>5
  <2>3. Cardinality(Leaves(graph, n)) \in Nat
    BY <2>1, <2>2, SmallerSet
  <2>4. QED
    BY <1>5, <2>1, <2>3, FS_Difference
<1> HIDE DEF after, n
<1>7. /\ Ascent(graph, stack, past) \in Nat
      /\ Ascent(graph, after, past \union {n}) \in Nat
      /\ Ascent(graph, after, past \union {n}) <= x
  BY <1>2, <1>3, BudgetTyped
<1>8. \A a, b, c \in Nat : (a - b) * c = (a - (b + 1)) * c + c
  OBVIOUS
<1>9. /\ (N - k) * x \in Nat /\ (N - (k + 1)) * x \in Nat
      /\ Budget(graph, stack, past)
            = Len(stack) + Ascent(graph, stack, past) + Cardinality(Unused(graph, past))
              + (N - k) * x
      /\ Budget(graph, after, past \union {n})
            = Len(after) + Ascent(graph, after, past \union {n})
              + Cardinality(Unused(graph, past \union {n})) + (N - (k + 1)) * x
  BY <1>2, <1>3, <1>4, BudgetSum
<1>10. (N - k) * x = (N - (k + 1)) * x + x
  BY <1>4, <1>8
<1> DEFINE l == Len(stack)
           m == Len(more)
           a == Ascent(graph, stack, past)
           b == Ascent(graph, after, past \union {n})
           u == Cardinality(Unused(graph, past))
           out == Cardinality(Leaves(graph, n))
           r == (N - (k + 1)) * x
<1>11. /\ l \in Nat \ {0} /\ m \in Nat /\ a \in Nat /\ b \in Nat /\ u \in Nat /\ out \in Nat
       /\ r \in Nat /\ x \in Nat /\ m <= out /\ b <= x
  BY <1>1, <1>4, <1>6, <1>7, <1>9 DEF n
<1>12. /\ Budget(graph, stack, past) = l + a + u + (r + x)
       /\ Budget(graph, after, past \union {n}) = (l - 1 + m) + b + (u - out) + r
  BY <1>2, <1>6, <1>9, <1>10
<1> HIDE DEF l, m, a, b, u, out, r, N, k, x
<1>13. Budget(graph, after, past \union {n}) < Budget(graph, stack, past)
  BY <1>11, <1>12
<1>14. QED
  BY <1>13 DEF after, n

\* What turns have been taken and may be is allowed by as many graphs as the
\* walk has been started; a graph without cycles is walked.
TurnsInv ==
    /\ turns \in Nat
    /\ phase \in {"submit", "evaluate"} => turns = 0
    /\ phase = "walk" =>
          /\ ~Cyclic(jdm)
          /\ turns + Budget(jdm, toVisit, ordered) <= (iter + 1) * Allowance(jdm)
    /\ turns <= (iter + 1) * Allowance(jdm)

\* A part of the translated graph is finite.
LEMMA JdmFinite ==
    ASSUME NEW c, IsCanvas(c), NEW S, S \subseteq JdmNodes(c)
    PROVE  IsFiniteSet(S)
<1> DEFINE kinds == {"proc", "switch", "expr", "out", "start"}
<1>1. IsFiniteSet(Ids(c))
  BY CanvasFinite
<1>2. IsFiniteSet(kinds)
  <2>1. IsFiniteSet({"proc"})
    BY FS_Singleton
  <2>2. IsFiniteSet({"proc"} \union {"switch"})
    BY <2>1, FS_AddElement
  <2>3. IsFiniteSet({"proc"} \union {"switch"} \union {"expr"})
    BY <2>2, FS_AddElement
  <2>4. IsFiniteSet({"proc"} \union {"switch"} \union {"expr"} \union {"out"})
    BY <2>3, FS_AddElement
  <2>5. IsFiniteSet({"proc"} \union {"switch"} \union {"expr"} \union {"out"} \union {"start"})
    BY <2>4, FS_AddElement
  <2>6. kinds = {"proc"} \union {"switch"} \union {"expr"} \union {"out"} \union {"start"}
    OBVIOUS
  <2>7. QED
    BY <2>5, <2>6
<1>3. IsFiniteSet(Ids(c) \X kinds)
  <2> HIDE DEF kinds
  <2>1. QED
    BY <1>1, <1>2, FS_Product
<1>4. IsFiniteSet((Ids(c) \X kinds) \union {Input})
  BY <1>3, FS_AddElement
<1>5. S \subseteq (Ids(c) \X kinds) \union {Input}
  BY JdmNodesShape
<1>6. QED
  BY <1>4, <1>5, FS_Subset

LEMMA AllowanceTyped ==
    ASSUME NEW graph, IsFiniteSet(graph.nodes), graph.edges \in Seq(Range(graph.edges))
    PROVE  Allowance(graph) \in Nat
<1>1. Cardinality(graph.nodes) \in Nat /\ Len(graph.edges) \in Nat
  BY FS_CardinalityType, LenProperties
<1>2. \A n, e \in Nat : (n + 2) * (n + e) \in Nat
  OBVIOUS
<1>3. QED
  BY <1>1, <1>2 DEF Allowance, Size

LEMMA WalkedGraph ==
    ASSUME IndInv
    PROVE  /\ Allowance(jdm) \in Nat
           /\ phase = "walk" /\ ~Cyclic(jdm) => IsWalkable(jdm)
<1>1. IsFiniteSet(jdm.nodes) /\ jdm.edges \in Seq(Range(jdm.edges))
  BY JdmFinite DEF IndInv, GraphInv
<1>2. QED
  BY <1>1, AllowanceTyped DEF IndInv, GraphInv, IsWalkable

\* A turn that costs no reset.
LEMMA TurnPays ==
    ASSUME NEW t \in Nat, NEW b \in Nat, NEW d \in Nat, NEW m \in Nat, t + b <= m, d < b
    PROVE  t + 1 + d <= m /\ t + 1 <= m
  OBVIOUS

LEMMA WalkPays ==
    ASSUME IndInv, IndInv', TurnsInv, Skip \/ Defer \/ Return
    PROVE  TurnsInv'
<1>1. /\ phase = "walk" /\ toVisit # <<>> /\ turns' = turns + 1 /\ jdm' = jdm /\ iter' = iter
      /\ phase' \in {"walk", "done"} /\ edges' = edges
  BY DEF Skip, Defer, Return, Ready, Visiting, Execute
<1>2. IsWalkable(jdm) /\ Allowance(jdm) \in Nat /\ ~Cyclic(jdm)
  BY <1>1, WalkedGraph DEF TurnsInv
<1>3. /\ toVisit \in Seq(jdm.nodes) /\ ordered \subseteq jdm.nodes
      /\ toVisit' \in Seq(jdm.nodes) /\ ordered' \subseteq jdm.nodes
      /\ iter \in Nat
  BY <1>1, IterAssumption DEF IndInv, WalkInv, ResetInv
<1>4. Top = Last(toVisit)
  BY DEF Top
<1>5. Budget(jdm, toVisit', ordered') < Budget(jdm, toVisit, ordered)
  <2>1. CASE Skip
    <3>1. Last(toVisit) \in ordered /\ toVisit' = Front(toVisit) /\ ordered' = ordered
      BY <1>4, <2>1 DEF Skip
    <3>2. QED
      BY <1>1, <1>2, <1>3, <3>1, SkipPays
  <2>2. CASE Defer
    <3> DEFINE E == {i \in Into(Top, edges) : jdm.edges[i].source \notin ordered}
               more == Sources(E)
    <3>1. /\ Last(toVisit) \notin ordered /\ more # <<>> /\ toVisit' = toVisit \o more
          /\ ordered' = ordered
      BY <1>4, <2>2 DEF Defer, Unresolved
    <3>2. E \subseteq edges /\ E \subseteq Entering(jdm, Last(toVisit))
          /\ \A i \in E : /\ jdm.edges[i].source \notin ordered
                         /\ Joined(jdm, jdm.edges[i].source, Last(toVisit))
      BY <1>4 DEF Into, Entering, Joined, IndInv, WalkInv
    <3>3. /\ more \in Seq(jdm.nodes) /\ Len(more) = Cardinality(E) /\ Cardinality(E) \in Nat
          /\ \A k \in 1..Cardinality(E) : \E i \in E : more[k] = jdm.edges[i].source
      BY <1>1, <3>2, EndsOfEdges DEF IndInv
    <3>4. IsFiniteSet(Entering(jdm, Last(toVisit)))
      <4>1. Entering(jdm, Last(toVisit)) \subseteq DOMAIN jdm.edges
        BY DEF Entering
      <4>2. QED
        BY <1>2, <4>1, UpBounded, FS_Subset
    <3> HIDE DEF E, more
    <3>5. Len(more) <= Cardinality(Entering(jdm, Last(toVisit)))
      BY <3>2, <3>3, <3>4, SmallerSet
    <3>6. Len(more) \in 1..Cardinality(E)
      BY <3>1, <3>3, EmptySeq
    <3>7. Last(more) \notin ordered /\ Joined(jdm, Last(more), Last(toVisit))
      BY <3>2, <3>3, <3>6 DEF Last
    <3>8. QED
      BY <1>1, <1>2, <1>3, <3>1, <3>3, <3>5, <3>7, DeferPays
  <2>3. CASE Return
    <3> DEFINE E == OutOf(Top, edges)
               more == Targets(E)
    <3>1. /\ Last(toVisit) \notin ordered /\ toVisit' = Front(toVisit) \o more
          /\ ordered' = ordered \union {Last(toVisit)}
      BY <1>4, <2>3 DEF Return, Ready
    <3>2. E \subseteq edges /\ E \subseteq Leaves(jdm, Last(toVisit))
      BY <1>4 DEF OutOf, Leaves, IndInv, WalkInv
    <3>3. more \in Seq(jdm.nodes) /\ Len(more) = Cardinality(E)
      BY <1>1, <3>2, EndsOfEdges DEF IndInv
    <3>4. IsFiniteSet(Leaves(jdm, Last(toVisit)))
      <4>1. Leaves(jdm, Last(toVisit)) \subseteq DOMAIN jdm.edges
        BY DEF Leaves
      <4>2. QED
        BY <1>2, <4>1, UpBounded, FS_Subset
    <3> HIDE DEF E, more
    <3>5. Len(more) <= Cardinality(Leaves(jdm, Last(toVisit)))
      BY <3>2, <3>3, <3>4, SmallerSet
    <3>6. QED
      BY <1>1, <1>2, <1>3, <3>1, <3>3, <3>5, ReturnPays
  <2>4. QED
    BY <2>1, <2>2, <2>3
<1>6. /\ Budget(jdm, toVisit, ordered) \in Nat /\ Budget(jdm, toVisit', ordered') \in Nat
      /\ turns \in Nat /\ (iter + 1) * Allowance(jdm) \in Nat
      /\ turns + Budget(jdm, toVisit, ordered) <= (iter + 1) * Allowance(jdm)
  <2>1. Budget(jdm, toVisit, ordered) \in Nat /\ Budget(jdm, toVisit', ordered') \in Nat
    BY <1>2, <1>3, BudgetTyped
  <2>2. \A a, b \in Nat : (a + 1) * b \in Nat
    OBVIOUS
  <2>3. QED
    BY <1>1, <1>2, <1>3, <2>1, <2>2 DEF TurnsInv
<1>7. /\ turns + 1 + Budget(jdm, toVisit', ordered') <= (iter + 1) * Allowance(jdm)
      /\ turns + 1 <= (iter + 1) * Allowance(jdm)
  BY <1>5, <1>6, TurnPays
<1>8. QED
  BY <1>1, <1>2, <1>6, <1>7 DEF TurnsInv

LEMMA PrunePays == ASSUME IndInv, IndInv', TurnsInv, Prune PROVE TurnsInv'
<1>1. /\ phase = "walk" /\ phase' = "walk" /\ toVisit # <<>> /\ turns' = turns + 1 /\ jdm' = jdm
      /\ iter' = iter + 1 /\ ordered' = {} /\ toVisit' \in {<<>>, <<Input>>}
  BY DEF Prune, Ready, Visiting
<1>2. IsWalkable(jdm) /\ Allowance(jdm) \in Nat /\ ~Cyclic(jdm)
  BY <1>1, WalkedGraph DEF TurnsInv
<1>3. /\ toVisit \in Seq(jdm.nodes) /\ ordered \subseteq jdm.nodes /\ toVisit' \in Seq(jdm.nodes)
      /\ iter \in Nat
  BY <1>1, IterAssumption DEF IndInv, WalkInv, ResetInv
<1>4. Budget(jdm, toVisit, ordered) \in Nat /\ Budget(jdm, toVisit, ordered) >= 1
  <2>1. Len(toVisit) \in Nat \ {0}
    BY <1>1, <1>3, FrontShorter
  <2>2. Budget(jdm, toVisit, ordered) \in Nat /\ Budget(jdm, toVisit, ordered) >= Len(toVisit)
    BY <1>2, <1>3, BudgetTyped
  <2>3. QED
    BY <2>1, <2>2
<1>5. Budget(jdm, toVisit', {}) \in Nat /\ Budget(jdm, toVisit', {}) <= Allowance(jdm)
  <2>1. Len(<<>>) = 0 /\ Len(<<Input>>) = 1
    OBVIOUS
  <2>2. Len(toVisit') \in {0, 1}
    BY <1>1, <2>1, Zenon
  <2>3. Len(toVisit') <= 1
    BY <2>2
  <2>4. QED
    BY <1>2, <1>3, <2>3, BudgetTyped, BudgetStarts
<1>6. \A a, b \in Nat : (a + 1) * b \in Nat /\ (a + 1 + 1) * b = (a + 1) * b + b
  OBVIOUS
<1>7. /\ turns \in Nat /\ turns + Budget(jdm, toVisit, ordered) <= (iter + 1) * Allowance(jdm)
      /\ (iter + 1) * Allowance(jdm) \in Nat
      /\ (iter' + 1) * Allowance(jdm) = (iter + 1) * Allowance(jdm) + Allowance(jdm)
  BY <1>1, <1>2, <1>3, <1>6 DEF TurnsInv
<1> DEFINE allowed == (iter + 1) * Allowance(jdm)
<1>8. /\ turns' + Budget(jdm, toVisit', {}) <= (iter' + 1) * Allowance(jdm)
      /\ turns' <= (iter' + 1) * Allowance(jdm)
  <2> HIDE DEF allowed
  <2>1. turns + 1 <= allowed /\ allowed \in Nat
    BY <1>4, <1>7 DEF allowed
  <2>2. (iter' + 1) * Allowance(jdm) = allowed + Allowance(jdm)
    BY <1>7 DEF allowed
  <2>3. QED
    BY <1>1, <1>2, <1>5, <1>7, <2>1, <2>2
<1>9. QED
  BY <1>1, <1>2, <1>7, <1>8 DEF TurnsInv

LEMMA EvaluatePays == ASSUME IndInv, IndInv', TurnsInv, Evaluate PROVE TurnsInv'
<1>1. /\ phase = "evaluate" /\ phase' \in {"walk", "done"} /\ turns' = turns /\ iter' = iter
      /\ ordered' = ordered /\ toVisit' = <<Input>>
      /\ phase' = "walk" => ~Cyclic(jdm')
  BY DEF Evaluate
<1>2. turns = 0 /\ iter = 0 /\ ordered = {}
  BY <1>1 DEF TurnsInv, IndInv, GraphInv
<1>3. IsFiniteSet(jdm'.nodes) /\ jdm'.edges \in Seq(Range(jdm'.edges))
  BY JdmFinite DEF IndInv, GraphInv
<1>4. Allowance(jdm') \in Nat
  BY <1>3, AllowanceTyped
<1>5. ASSUME phase' = "walk" PROVE Budget(jdm', toVisit', {}) <= Allowance(jdm')
                                    /\ Budget(jdm', toVisit', {}) \in Nat
  <2>1. IsWalkable(jdm')
    BY <1>1, <1>3, <1>5 DEF IndInv, GraphInv, IsWalkable
  <2>2. toVisit' \in Seq(jdm'.nodes)
    BY DEF IndInv, WalkInv
  <2>3. Len(toVisit') <= 1
    <3>1. Len(<<Input>>) = 1
      OBVIOUS
    <3>2. Len(toVisit') = 1
      BY <1>1, <3>1, Zenon
    <3>3. QED
      BY <3>2
  <2>4. QED
    BY <2>1, <2>2, <2>3, BudgetTyped, BudgetStarts
<1>6. (0 + 1) * Allowance(jdm') = Allowance(jdm')
  BY <1>4
<1>7. QED
  BY <1>1, <1>2, <1>4, <1>5, <1>6 DEF TurnsInv

\* Turns are paid for: every step of the walk costs budget, or is a reset.
THEOREM TurnsPaid == Spec => []TurnsInv
<1>1. Init => TurnsInv
  <2>1. ASSUME Init PROVE TurnsInv
    <3>1. turns = 0 /\ iter = 0 /\ phase = "submit" /\ jdm = [nodes |-> {}, edges |-> <<>>]
      BY <2>1 DEF Init
    <3>2. Allowance(jdm) \in Nat
      <4>1. <<>> \in Seq(Range(<<>>)) /\ IsFiniteSet({})
        BY FS_EmptySet
      <4>2. QED
        BY <3>1, <4>1, AllowanceTyped
    <3>3. QED
      BY <3>1, <3>2 DEF TurnsInv
  <2>2. QED
    BY <2>1
<1>2. IndInv /\ IndInv' /\ TurnsInv /\ [Next]_vars => TurnsInv'
  <2> SUFFICES ASSUME IndInv, IndInv', TurnsInv, [Next]_vars PROVE TurnsInv'
    OBVIOUS
  <2>1. CASE Submit
    <3>1. /\ phase = "submit" /\ phase' \in {"evaluate", "done"} /\ turns' = turns
          /\ iter' = iter /\ jdm' = jdm
      BY <2>1 DEF Submit, walk
    <3>2. QED
      BY <3>1 DEF TurnsInv
  <2>2. CASE Exhausted
    <3>1. phase = "walk" /\ phase' = "done" /\ turns' = turns /\ iter' = iter /\ jdm' = jdm
      BY <2>2 DEF Exhausted, walk
    <3>2. QED
      BY <3>1 DEF TurnsInv
  <2>3. CASE UNCHANGED vars
    BY <2>3 DEF TurnsInv, vars, walk
  <2>4. QED
    BY <2>1, <2>2, <2>3, EvaluatePays, WalkPays, PrunePays DEF Next, Finished
<1>3. QED
  BY <1>1, <1>2, Inductive, PTL DEF Spec

-----------------------------------------------------------------------------
(* The theorems *)

\* The walker never leaves the translated graph, whatever canvas it is given,
\* and the actions it yields are nodes of the canvas; it stays within ITER_MAX.
\* (walker.rs, next; decision_graph/graph.rs, evaluate)
THEOREM TypeCorrect == Spec => []TypeOK
<1>1. ASSUME IndInv PROVE TypeOK
  <2>1. jdm.nodes \subseteq JdmIds
    BY <1>1, JdmNodesShape DEF IndInv, GraphInv, JdmIds
  <2>2. ASSUME NEW s \in Seq(jdm.nodes) PROVE Range(s) \subseteq jdm.nodes
    BY LenProperties DEF Range
  <2>3. Range(toVisit) \subseteq jdm.nodes /\ Range(trace) \subseteq jdm.nodes
    BY <1>1, <2>2 DEF IndInv, WalkInv
  <2>4. QED
    BY <1>1, <2>1, <2>3 DEF IndInv, GraphInv, WalkInv, ResetInv, TraceInv, TypeOK
<1>2. QED
  BY <1>1, Inductive, PTL

\* Whatever canvas is sent and in whatever order the hash map yields its keys,
\* the three-colour search reports no_cycles exactly when a node reaches
\* itself; it ends within the steps its bound allows.
\* (rule_graph_service.rs, has_cycle)
THEOREM SearchAlwaysExact == Spec => []SearchIsExact
<1>1. ASSUME IndInv PROVE SearchIsExact
  <2>1. \A id : OnCycle(id) <=> ReachesItself(canvas, id)
    BY DEF OnCycle, ReachesItself, Reached
  <2>2. QED
    BY <1>1, <2>1 DEF IndInv, VerdictInv, SearchIsExact
<1>2. QED
  BY <1>1, Inductive, PTL

\* config/node_types.json and the processors agree on every configuration but
\* the unforeseen ones: a decision node the backend accepts is an error in the
\* proxy if it has an action's type or a text no rule reads, and only then.
THEOREM AcceptedErrorsAlways == Spec => []AcceptedErrors
<1>1. ASSUME IndInv PROVE AcceptedErrors
  <2>1. ASSUME Evaluated, NEW node \in Decisions
        PROVE  Decide(node.config, ctx) = "error" <=> Unforeseen(node.config, ctx)
    <3>1. node \in Nodes(canvas) /\ node.kind = "decision"
      BY DEF Decisions
    <3>2. ConfigViolations(canvas, Outcomes) = {}
      BY <1>1, <2>1 DEF IndInv, VerdictInv, Evaluated
    <3>3. ProcessorViolations(node.config) = {}
      BY <3>1, <3>2 DEF ConfigViolations
    <3>4. QED
      BY <3>3, AcceptedDecides
  <2>2. QED
    BY <2>1 DEF AcceptedErrors
<1>2. QED
  BY <1>1, Inductive, PTL

\* Every reset of the walk is for a decision that had not been visited, so a
\* canvas of n decisions is reset n times at most; the walks of rejected
\* canvases too.  (walker.rs, visited_switch_nodes)
THEOREM ResetsAlwaysBounded == Spec => []ResetsBounded
<1>1. ASSUME IndInv PROVE ResetsBounded
  <2>1. Decisions \subseteq Nodes(canvas) /\ IsFiniteSet(Nodes(canvas))
    BY <1>1, FiniteNodes DEF IndInv, GraphInv, Decisions
  <2>2. IsFiniteSet(Decisions) /\ Cardinality(Decisions) \in Nat
    BY <2>1, FS_Subset, FS_CardinalityType
  <2>3. \A n \in switched : \E d \in Decisions : n = Exit(d)
    BY <1>1, JdmNodesShape DEF IndInv, GraphInv, WalkInv, Decisions
  <2> DEFINE of == [n \in switched |-> CHOOSE d \in Decisions : n = Exit(d)]
  <2>4. \A n \in switched : of[n] \in Decisions /\ n = Exit(of[n])
    BY <2>3
  <2>5. of \in Injection(switched, Decisions)
    BY <2>4 DEF Injection, IsInjective
  <2>6. Cardinality(switched) <= Cardinality(Decisions)
    BY <2>2, <2>5, FS_Injection
  <2>7. iter \in Nat /\ iter <= Cardinality(switched) /\ Cardinality(switched) \in Nat
    BY <1>1, FS_CardinalityType DEF IndInv, ResetInv
  <2>8. QED
    BY <2>2, <2>6, <2>7 DEF ResetsBounded
<1>2. QED
  BY <1>1, Inductive, PTL

\* Whatever canvas is sent, its walk ends: the turns are bounded by the decisions
\* of the canvas and the size of its graph, also for a canvas validation refuses.
\* (walker.rs, next and get_unresolved_dependencies)
THEOREM WalkAlwaysEnds == Spec => []WalkEnds
<1>1. ASSUME IndInv, TurnsInv PROVE turns <= (iter + 1) * (Cardinality(jdm.nodes) + 2)
                                            * (Cardinality(jdm.nodes) + Len(jdm.edges))
  <2>1. Cardinality(jdm.nodes) \in Nat /\ Len(jdm.edges) \in Nat /\ iter \in Nat
    BY <1>1, JdmFinite, FS_CardinalityType, LenProperties, IterAssumption
       DEF IndInv, GraphInv, ResetInv
  <2>2. \A a, b, c \in Nat : a * (b * c) = a * b * c
    OBVIOUS
  <2>3. /\ iter + 1 \in Nat /\ Cardinality(jdm.nodes) + 2 \in Nat
        /\ Cardinality(jdm.nodes) + Len(jdm.edges) \in Nat
    BY <2>1
  <2>4. QED
    BY <1>1, <2>2, <2>3 DEF TurnsInv, Allowance, Size
<1>2. ASSUME IndInv, TurnsInv, ResetsBounded PROVE WalkEnds
  BY <1>1, <1>2 DEF WalkEnds
<1>3. QED
  BY <1>2, Inductive, TurnsPaid, ResetsAlwaysBounded, PTL

\* Though resets make the walk return nodes again, no action of a canvas is
\* applied twice to a response.  (graph.rs, evaluate; evaluator.rs,
\* ordered_actions)
THEOREM ActionsOnce == Spec => []IsInjective(actions)
<1>1. IndInv => IsInjective(actions)
  BY DEF IndInv, TraceInv
<1>2. QED
  BY <1>1, Inductive, PTL

\* A node is returned after every node that still leads to it, so its input is
\* complete and actions come in the order of the canvas.
\* (walker.rs, all_dependencies_resolved)
THEOREM DependenciesAlwaysFirst == Spec => []DependenciesFirst
<1>1. IndInv => DependenciesFirst
  BY DEF IndInv
<1>2. QED
  BY <1>1, Inductive, PTL

\* Once a decision has answered, nothing is left of the branches it did not
\* take, also after later decisions have reset the walk.
\* (walker.rs, next and remove_edge_recursive)
THEOREM TakenBranchesAlwaysOnly == Spec => []TakenBranchesOnly
<1>1. IndInv => TakenBranchesOnly
  BY DEF IndInv
<1>2. QED
  BY <1>1, Inductive, PTL

=============================================================================
