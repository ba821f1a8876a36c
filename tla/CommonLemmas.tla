----------------------------- MODULE CommonLemmas -----------------------------
(***************************************************************************)
(* Facts the proofs of several modules rest on: Max and Min of bounded sets *)
(* of integers, which FiniteSetsExt defines by choice, induction over a     *)
(* counter without an operator parameter, what repeating a function        *)
(* computes, which a recursive definition names by choice too, and Lists.  *)
(***************************************************************************)
EXTENDS Lists, Functions, FiniteSetsExt, FiniteSetTheorems, SequenceTheorems,
        WellFoundedInduction, TLAPS

\* A set of natural numbers that is not empty has a smallest one.
LEMMA HasSmallest ==
    ASSUME NEW T, T \subseteq Nat, T # {}
    PROVE  \E x \in T : \A y \in T : x <= y
<1>1. \E x \in T : \A y \in T : ~(<<y, x>> \in OpToRel(<, Nat))
  BY WFMin, NatLessThanWellFounded
<1>2. PICK m \in T : \A y \in T : ~(y < m)
  BY <1>1 DEF OpToRel
<1>3. \A y \in T : m \in Nat /\ y \in Nat /\ ~(y < m)
  BY <1>2
<1>4. \A y \in T : m <= y
  BY <1>3
<1>5. QED
  BY <1>4

\* The maximum of a bounded set is one of its elements, and none is above it.
LEMMA BoundedMax ==
    ASSUME NEW a \in Int, NEW b \in Int, NEW S, S \subseteq a..b, S # {}
    PROVE  Max(S) \in S /\ \A n \in S : n <= Max(S)
<1> DEFINE T == {b - n : n \in S}
<1>1. \A n \in S : n \in Int /\ b - n \in Nat
  OBVIOUS
<1>2. T \subseteq Nat /\ T # {}
  BY <1>1
<1>3. \E x \in T : \A y \in T : x <= y
  <2> HIDE DEF T
  <2>1. QED
    BY <1>2, HasSmallest
<1>4. PICK m \in S : \A y \in T : b - m <= y
  BY <1>3
<1>5. ASSUME NEW n \in S PROVE m >= n
  <2>1. b - m <= b - n
    BY <1>4
  <2>2. QED
    BY <1>1, <2>1
<1>6. Max(S) \in S /\ \A n \in S : Max(S) >= n
  BY <1>5 DEF Max
<1>7. QED
  BY <1>1, <1>6

\* The minimum of a bounded set is one of its elements, and none is below it.
LEMMA BoundedMin ==
    ASSUME NEW a \in Int, NEW b \in Int, NEW S, S \subseteq a..b, S # {}
    PROVE  Min(S) \in S /\ \A n \in S : Min(S) <= n
<1> DEFINE T == {n - a : n \in S}
<1>1. \A n \in S : n \in Int /\ n - a \in Nat
  OBVIOUS
<1>2. T \subseteq Nat /\ T # {}
  BY <1>1
<1>3. \E x \in T : \A y \in T : x <= y
  <2> HIDE DEF T
  <2>1. QED
    BY <1>2, HasSmallest
<1>4. PICK m \in S : \A y \in T : m - a <= y
  BY <1>3
<1>5. ASSUME NEW n \in S PROVE m <= n
  <2>1. m - a <= n - a
    BY <1>4
  <2>2. QED
    BY <1>1, <2>1
<1>6. QED
  BY <1>5 DEF Min

\* A part of a finite set that leaves something out has fewer elements.
LEMMA SmallerSet ==
    ASSUME NEW S, IsFiniteSet(S), NEW T, T \subseteq S
    PROVE  /\ Cardinality(T) \in Nat /\ Cardinality(S) \in Nat
           /\ Cardinality(T) <= Cardinality(S)
           /\ T # S => Cardinality(T) < Cardinality(S)
<1>1. /\ IsFiniteSet(T) /\ Cardinality(T) <= Cardinality(S)
      /\ Cardinality(S) = Cardinality(T) => S = T
  BY FS_Subset
<1>2. Cardinality(T) \in Nat /\ Cardinality(S) \in Nat
  BY <1>1, FS_CardinalityType
<1>3. QED
  BY <1>1, <1>2

-----------------------------------------------------------------------------
(* Repetition *)

\* g lists what a, F[a], F[F[a]] and so on are, all in D.
Iteration(g, n, D, a, F) ==
    /\ g \in [0..n -> D] /\ g[0] = a
    /\ \A k \in 1..n : g[k] = F[g[k - 1]]

\* However often a function is repeated on its domain, there is such a list.
LEMMA Iterates ==
    ASSUME NEW n \in Nat, NEW D, NEW a \in D, NEW F \in [D -> D]
    PROVE  \E g : Iteration(g, n, D, a, F)
<1> DEFINE Is(g, j) == Iteration(g, j, D, a, F)
           stuck == {j \in 0..n : ~\E g : Is(g, j)}
<1>1. SUFFICES ASSUME stuck # {} PROVE FALSE
  <2>1. stuck = {} => n \notin stuck
    OBVIOUS
  <2>2. QED
    BY <2>1
<1>2. \A l : l \in stuck <=> l \in 0..n /\ ~\E g : Is(g, l)
  OBVIOUS
<1>3. PICK j \in stuck : \A l \in stuck : j <= l
  <2> HIDE DEF stuck, Is
  <2>1. stuck \subseteq Nat
    BY <1>2
  <2>2. QED
    BY <1>1, <2>1, HasSmallest
<1>4. j # 0
  <2> DEFINE g == [k \in 0..0 |-> a]
  <2>1. Is(g, 0)
    BY DEF Iteration
  <2>2. QED
    BY <1>2, <1>3, <2>1
<1>5. j \in 1..n /\ j - 1 \in 0..n /\ ~(j <= j - 1)
  BY <1>2, <1>3, <1>4
<1>6. PICK g : Is(g, j - 1)
  <2> HIDE DEF Is, stuck
  <2>1. \E g : Is(g, j - 1)
    BY <1>2, <1>3, <1>5
  <2>2. QED
    BY <2>1
<1> USE DEF Iteration
<1> DEFINE h == [k \in 0..j |-> IF k = j THEN F[g[j - 1]] ELSE g[k]]
<1>7. Is(h, j)
  <2>1. \A k \in 0..j : k # j => k \in 0..j - 1
    BY <1>5
  <2>2. j - 1 \in 0..j - 1 /\ j - 1 \in 0..j /\ 0 \in 0..j
    BY <1>5
  <2>3. h \in [0..j -> D]
    BY <1>6, <2>1, <2>2
  <2>4. h[0] = a
    BY <1>4, <1>6, <2>2
  <2>5. ASSUME NEW k \in 1..j PROVE h[k] = F[h[k - 1]]
    <3>1. k \in 0..j /\ k - 1 \in 0..j /\ k - 1 # j
      BY <1>5
    <3>2. h[k - 1] = g[k - 1]
      BY <3>1
    <3>3. CASE k = j
      BY <3>1, <3>2, <3>3
    <3>4. CASE k # j
      <4>1. k \in 1..j - 1
        BY <1>5, <3>4
      <4>2. g[k] = F[g[k - 1]] /\ h[k] = g[k]
        BY <1>6, <3>1, <3>4, <4>1
      <4>3. QED
        BY <3>2, <4>2
    <3>5. QED
      BY <3>3, <3>4
  <2>6. QED
    BY <2>3, <2>4, <2>5
<1>8. QED
  BY <1>2, <1>3, <1>7

\* A property of the states that repeating F never leaves.
LEMMA SetInduction ==
    ASSUME NEW n \in Nat, NEW T, 0 \in T, \A k \in 1..n : k - 1 \in T => k \in T
    PROVE  0..n \subseteq T
<1> DEFINE out == {k \in 0..n : k \notin T}
<1>1. SUFFICES ASSUME out # {} PROVE FALSE
  OBVIOUS
<1>2. PICK k \in out : \A l \in out : k <= l
  <2>1. out \subseteq Nat
    OBVIOUS
  <2> HIDE DEF out
  <2>2. QED
    BY <1>1, <2>1, HasSmallest
<1>3. k \in 1..n /\ k - 1 \in 0..n /\ ~(k <= k - 1)
  BY <1>2
<1>4. QED
  BY <1>2, <1>3

\* When every step either ends in Done or lowers a number, enough steps end.
LEMMA Settles ==
    ASSUME NEW n \in Nat, NEW D, NEW a \in D, NEW F \in [D -> D], NEW P \in [D -> Nat],
           NEW Done, \A s \in D : s \in Done \/ P[F[s]] < P[s],
           \A s \in D : s \in Done => F[s] = s, P[a] <= n,
           NEW g, Iteration(g, n, D, a, F)
    PROVE  g[n] \in Done
<1> USE DEF Iteration
<1> DEFINE T == {k \in 0..n : g[k] \in Done \/ P[g[k]] + k <= n}
<1>1. 0 \in T
  BY DEF T
<1>2. ASSUME NEW k \in 1..n, k - 1 \in T PROVE k \in T
  <2>1. k \in 0..n /\ k - 1 \in 0..n /\ g[k - 1] \in D /\ g[k] = F[g[k - 1]] /\ g[k] \in D
    OBVIOUS
  <2>2. CASE g[k - 1] \in Done
    BY <2>1, <2>2
  <2>3. CASE g[k - 1] \notin Done
    <3>1. P[g[k]] < P[g[k - 1]] /\ P[g[k - 1]] + (k - 1) <= n
      BY <1>2, <2>1, <2>3
    <3>2. P[g[k]] \in Nat /\ P[g[k - 1]] \in Nat
      BY <2>1
    <3>3. P[g[k]] + k <= n
      BY <3>1, <3>2
    <3>4. QED
      BY <2>1, <3>3
  <2>4. QED
    BY <2>2, <2>3
<1>3. n \in T
  <2> HIDE DEF T
  <2>1. 0..n \subseteq T
    BY <1>1, <1>2, SetInduction
  <2>2. QED
    BY <2>1
<1>4. CASE g[n] \notin Done
  <2>1. P[g[n]] <= 0 /\ P[g[n]] \in Nat /\ g[n] \in D
    BY <1>3, <1>4
  <2>2. P[F[g[n]]] \in Nat /\ P[F[g[n]]] < P[g[n]]
    BY <1>4, <2>1
  <2>3. QED
    BY <2>1, <2>2
<1>5. QED
  BY <1>4

-----------------------------------------------------------------------------
(* Places in order *)

\* Ascending lists every place of a finite set of them once, in order.
LEMMA AscendingLists ==
    ASSUME NEW n \in Nat, NEW E, E \subseteq 1..n
    PROVE  /\ Ascending(E) \in Seq(E)
           /\ Len(Ascending(E)) = Cardinality(E)
           /\ Cardinality(E) \in Nat
           /\ \A k, l \in 1..Cardinality(E) : Ascending(E)[k] = Ascending(E)[l] => k = l
           /\ \A k, l \in 1..Cardinality(E) : k < l => Ascending(E)[k] < Ascending(E)[l]
           /\ \A i \in E : \E k \in 1..Cardinality(E) : Ascending(E)[k] = i
<1> DEFINE upTo(i) == {j \in E : j <= i}
           rank == [i \in E |-> Cardinality(upTo(i))]
           m == Cardinality(E)
<1>1. IsFiniteSet(E) /\ m \in Nat /\ IsFiniteSet(1..m) /\ Cardinality(1..m) = m
  <2>1. IsFiniteSet(1..n)
    BY FS_Interval
  <2>2. IsFiniteSet(E)
    BY <2>1, FS_Subset
  <2>3. m \in Nat
    BY <2>2, FS_CardinalityType
  <2>4. IsFiniteSet(1..m) /\ Cardinality(1..m) = m
    BY <2>3, FS_Interval
  <2>5. QED
    BY <2>2, <2>3, <2>4
<1>2. ASSUME NEW i \in E PROVE Cardinality(upTo(i)) \in 1..m
  <2>1. upTo(i) \in SUBSET E /\ i \in upTo(i)
    OBVIOUS
  <2>2. /\ IsFiniteSet(upTo(i)) /\ Cardinality(upTo(i)) \in Nat
        /\ Cardinality(upTo(i)) <= m /\ Cardinality(upTo(i)) # 0
    BY <1>1, <2>1, FS_Subset, FS_CardinalityType, FS_EmptySet
  <2>3. QED
    BY <1>1, <2>2
<1>3. ASSUME NEW i \in E, NEW j \in E, i < j
      PROVE  Cardinality(upTo(i)) < Cardinality(upTo(j))
  <2>1. upTo(i) \in SUBSET upTo(j) /\ j \in upTo(j) /\ j \notin upTo(i)
    <3>1. \A k \in E : k \in Int
      OBVIOUS
    <3>2. \A k \in upTo(i) : k \in E /\ k <= j
      BY <1>3, <3>1
    <3>3. \A k \in upTo(i) : k <= i
      OBVIOUS
    <3>4. j \in upTo(j)
      BY <3>1
    <3>5. j \notin upTo(i)
      BY <1>3, <3>1, <3>3
    <3>6. \A k \in upTo(i) : k \in upTo(j)
      BY <3>2
    <3> HIDE DEF upTo
    <3>7. QED
      BY <3>4, <3>5, <3>6
  <2>2. IsFiniteSet(upTo(j))
    BY <1>1, FS_Subset
  <2>3. upTo(i) # upTo(j) /\ upTo(i) \subseteq upTo(j)
    BY <2>1
  <2> HIDE DEF upTo
  <2>4. QED
    BY <2>2, <2>3, SmallerSet
<1>4. \A i, j \in E : i = j \/ i < j \/ j < i
  OBVIOUS
<1>5. rank \in Injection(E, 1..m)
  <2>1. ASSUME NEW i \in E, NEW j \in E, rank[i] = rank[j] PROVE i = j
    <3>1. Cardinality(upTo(i)) = Cardinality(upTo(j)) /\ Cardinality(upTo(i)) \in Nat
      BY <1>2, <2>1
    <3> HIDE DEF upTo
    <3>2. QED
      BY <1>3, <1>4, <3>1
  <2>2. rank \in [E -> 1..m]
    BY <1>2
  <2>3. QED
    BY <2>1, <2>2 DEF Injection, IsInjective
<1>6. rank \in Surjection(E, 1..m)
  BY <1>1, <1>5, FS_Injection
<1>7. \A k \in 1..m : \E i \in E : Cardinality(upTo(i)) = k
  BY <1>6 DEF Surjection
<1> DEFINE nth(k) == CHOOSE i \in E : Cardinality(upTo(i)) = k
<1>8. ASSUME NEW k \in 1..m PROVE nth(k) \in E /\ Cardinality(upTo(nth(k))) = k
  BY <1>7
<1>9. Ascending(E) = [k \in 1..m |-> nth(k)]
  BY DEF Ascending
<1>10. Ascending(E) \in Seq(E) /\ Len(Ascending(E)) = m
  <2>1. Ascending(E) \in [1..m -> E]
    <3> HIDE DEF nth
    <3>1. QED
      BY <1>8, <1>9
  <2>2. QED
    BY <1>1, <2>1
<1> HIDE DEF upTo, nth
<1>11. \A i \in E : nth(Cardinality(upTo(i))) = i
  <2>1. ASSUME NEW i \in E PROVE nth(Cardinality(upTo(i))) = i
    <3> DEFINE j == nth(Cardinality(upTo(i)))
    <3>1. j \in E /\ Cardinality(upTo(j)) = Cardinality(upTo(i)) /\ Cardinality(upTo(i)) \in Nat
      BY <1>2, <1>8
    <3> HIDE DEF j
    <3>2. j = i
      BY <1>3, <1>4, <3>1
    <3>3. QED
      BY <3>2 DEF j
  <2>2. QED
    BY <2>1
<1>12. ASSUME NEW k \in 1..m, NEW l \in 1..m, k < l PROVE nth(k) < nth(l)
  <2>1. nth(k) \in E /\ nth(l) \in E
    BY <1>8
  <2>2. ~(nth(l) < nth(k)) /\ nth(k) # nth(l)
    <3>1. Cardinality(upTo(nth(k))) = k /\ Cardinality(upTo(nth(l))) = l
      BY <1>8
    <3>2. ~(l < k) /\ k # l
      BY <1>1, <1>12
    <3>3. QED
      BY <1>3, <2>1, <3>1, <3>2
  <2>3. QED
    BY <1>4, <2>1, <2>2
<1>13. QED
  BY <1>1, <1>2, <1>8, <1>9, <1>10, <1>11, <1>12

\* The elements of s that are in S come in the order f gives them.
RisingIn(s, S, f) ==
    \A i, j \in DOMAIN s : i < j /\ s[i] \in S /\ s[j] \in S => f[s[i]] < f[s[j]]

\* The elements of a list at some places, in order.
LEMMA PlacesInOrder ==
    ASSUME NEW A, NEW s \in Seq(A), NEW E, E \subseteq DOMAIN s
    PROVE  /\ DOMAIN Ascending(E) = 1..Cardinality(E) /\ Cardinality(E) \in Nat
           /\ \A k \in DOMAIN Ascending(E) : Ascending(E)[k] \in E
           /\ \A i \in E : \E k \in DOMAIN Ascending(E) : Ascending(E)[k] = i
           /\ \A k, l \in DOMAIN Ascending(E) : k < l => Ascending(E)[k] < Ascending(E)[l]
<1>1. Len(s) \in Nat /\ E \subseteq 1..Len(s)
  BY LenProperties
<1>2. /\ Ascending(E) \in Seq(E) /\ Len(Ascending(E)) = Cardinality(E)
      /\ Cardinality(E) \in Nat
      /\ \A k, l \in 1..Cardinality(E) : k < l => Ascending(E)[k] < Ascending(E)[l]
      /\ \A i \in E : \E k \in 1..Cardinality(E) : Ascending(E)[k] = i
  BY <1>1, AscendingLists
<1>3. DOMAIN Ascending(E) = 1..Cardinality(E) /\ \A k \in 1..Cardinality(E) : Ascending(E)[k] \in E
  BY <1>2, LenProperties
<1>4. QED
  BY <1>2, <1>3

\* What is kept of a list is kept in its order.
LEMMA KeepingLists ==
    ASSUME NEW A, NEW s \in Seq(A), NEW S
    PROVE  /\ Keeping(s, S) \in Seq(S)
           /\ Range(Keeping(s, S)) = Range(s) \intersect S
           /\ \A f : RisingIn(s, S, f) => RisingIn(Keeping(s, S), S, f)
<1> DEFINE E == {i \in DOMAIN s : s[i] \in S}
           at == Ascending(E)
           kept == Keeping(s, S)
<1>1. E \subseteq DOMAIN s /\ \A i : i \in E <=> i \in DOMAIN s /\ s[i] \in S
  OBVIOUS
<1>2. kept = [k \in DOMAIN at |-> s[at[k]]]
  BY DEF Keeping
<1> HIDE DEF E
<1>3. /\ DOMAIN at = 1..Cardinality(E) /\ Cardinality(E) \in Nat
      /\ \A k \in DOMAIN at : at[k] \in E
      /\ \A i \in E : \E k \in DOMAIN at : at[k] = i
      /\ \A k, l \in DOMAIN at : k < l => at[k] < at[l]
  BY <1>1, PlacesInOrder
<1> HIDE DEF at, kept
<1>4. kept \in [1..Cardinality(E) -> S] /\ DOMAIN kept = 1..Cardinality(E)
  BY <1>1, <1>2, <1>3
<1>5. kept \in Seq(S)
  <2> DEFINE m == Cardinality(E)
  <2> HIDE DEF m
  <2>1. \A g \in [1..m -> S] : m \in Nat => g \in Seq(S)
    OBVIOUS
  <2>2. QED
    BY <1>3, <1>4, <2>1 DEF m
<1>6. Range(kept) = Range(s) \intersect S
  BY <1>1, <1>2, <1>3, <1>4 DEF Range
<1>7. ASSUME NEW f, RisingIn(s, S, f) PROVE RisingIn(kept, S, f)
  <2>1. ASSUME NEW i \in DOMAIN kept, NEW j \in DOMAIN kept, i < j
        PROVE  f[kept[i]] < f[kept[j]]
    <3>1. at[i] < at[j] /\ at[i] \in E /\ at[j] \in E /\ kept[i] = s[at[i]] /\ kept[j] = s[at[j]]
      BY <1>2, <1>3, <1>4, <2>1
    <3>2. QED
      BY <1>1, <1>7, <3>1 DEF RisingIn
  <2>2. QED
    BY <2>1 DEF RisingIn
<1>8. QED
  BY <1>5, <1>6, <1>7 DEF kept

=============================================================================
