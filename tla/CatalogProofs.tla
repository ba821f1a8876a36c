---------------------------- MODULE CatalogProofs ----------------------------
(***************************************************************************)
(* Proofs about Catalog for every set of clients, readers and values of    *)
(* the columns, and for every bound.                                       *)
(*                                                                         *)
(* IndInv adds to TypeOK that the table of features is finite - its rows   *)
(* were inserted one by one - and which arguments the drafts, the cache,   *)
(* the requests and their answers have.                                    *)
(***************************************************************************)
EXTENDS Catalog, CommonLemmas, FiniteSetTheorems, SequenceTheorems, TLAPS

List == {"features", "sites"}

FeaturesTyped ==
    /\ features \subseteq FeatureRow
    /\ IsFiniteSet(features)
    /\ \A f, g \in features :
          f = g \/ (f.id # g.id /\ <<f.kind, f.order>> # <<g.kind, g.order>>)

SitesTyped ==
    /\ sites \in Seq(ValidSites)
    /\ IsInjective([i \in DOMAIN sites |-> sites[i].slug])

PresetsTyped ==
    /\ presets \in Seq(ValidPresets)
    /\ IsInjective([i \in DOMAIN presets |-> presets[i].name])

DraftsTyped == draft \in [Client -> SUBSET FeatureRow]

ProxyTyped ==
    /\ cache = [list \in List |-> cache[list]]
    /\ got = [r \in Reader |-> got[r]]
    /\ stage \in [Reader -> {"idle"} \union List]

CountsTyped == focus \in Table /\ changes \in 0..MaxChanges

IndInv ==
    /\ FeaturesTyped /\ SitesTyped /\ PresetsTyped
    /\ DraftsTyped /\ ProxyTyped /\ CountsTyped

USE BoundsAssumption DEF BoundsAssumption

-----------------------------------------------------------------------------
(* The next free order *)

\* The next order of a type is positive and free: the orders of the type are
\* below it.
LEMMA NextOrderFree ==
    ASSUME FeaturesTyped, NEW kind
    PROVE  /\ NextExecutionOrder(kind) \in Nat \ {0}
           /\ \A f \in features : f.kind = kind => f.order < NextExecutionOrder(kind)
<1>1. Orders(kind) \subseteq 1..MaxOrder
  BY DEF Orders, FeaturesTyped, FeatureRow
<1>2. ASSUME NEW f \in features, f.kind = kind PROVE f.order \in Orders(kind)
  BY <1>2 DEF Orders
<1>3. CASE Orders(kind) = {}
  BY <1>2, <1>3 DEF NextExecutionOrder
<1>4. CASE Orders(kind) # {}
  <2>1. /\ Max(Orders(kind)) \in 1..MaxOrder
        /\ \A n \in Orders(kind) : n \in 1..MaxOrder /\ n <= Max(Orders(kind))
    BY <1>1, <1>4, BoundedMax
  <2>2. NextExecutionOrder(kind) = Max(Orders(kind)) + 1
    BY <1>4 DEF NextExecutionOrder
  <2>3. QED
    BY <1>2, <2>1, <2>2
<1>5. QED
  BY <1>3, <1>4

-----------------------------------------------------------------------------
(* The invariant, one table at a time *)

LEMMA InitIndInv == Init => IndInv
<1> SUFFICES ASSUME Init PROVE IndInv
  OBVIOUS
<1>1. FeaturesTyped
  BY FS_EmptySet DEF Init, FeaturesTyped
<1>2. <<>> \in Seq(ValidSites) /\ <<>> \in Seq(ValidPresets) /\ DOMAIN <<>> = {}
  OBVIOUS
<1>3. SitesTyped /\ PresetsTyped
  BY <1>2 DEF Init, SitesTyped, PresetsTyped, IsInjective
<1>4. DraftsTyped /\ ProxyTyped /\ CountsTyped
  BY DEF Init, DraftsTyped, ProxyTyped, CountsTyped, List
<1>5. QED
  BY <1>1, <1>3, <1>4 DEF IndInv

\* The parts of the invariant that a write of one table leaves alone.
LEMMA ChangeCounts ==
    ASSUME IndInv, NEW table, Change(table)
    PROVE  ProxyTyped' /\ CountsTyped'
<1>1. ProxyTyped'
  BY DEF Change, IndInv, ProxyTyped, proxy
<1>2. CountsTyped'
  BY DEF Change, IndInv, CountsTyped
<1>3. QED
  BY <1>1, <1>2

\* A row that clashes with no other one may be added to the table.
LEMMA RowFits ==
    ASSUME NEW S, S \subseteq FeatureRow, IsFiniteSet(S), NEW row \in FeatureRow,
           \A f, g \in S : f = g \/ (f.id # g.id /\ <<f.kind, f.order>> # <<g.kind, g.order>>),
           \A other \in S : ~FeaturesClash(row, other)
    PROVE  LET new == S \union {row} IN
           /\ new \subseteq FeatureRow
           /\ IsFiniteSet(new)
           /\ \A f, g \in new :
                 f = g \/ (f.id # g.id /\ <<f.kind, f.order>> # <<g.kind, g.order>>)
<1>1. IsFiniteSet(S \union {row})
  BY FS_AddElement
<1>2. \A other \in S : row.id # other.id /\ <<row.kind, row.order>> # <<other.kind, other.order>>
  BY DEF FeaturesClash
<1>3. QED
  BY <1>1, <1>2

LEMMA CreateSteps ==
    ASSUME IndInv, NEW c \in Client,
           BeginCreate(c) \/ InsertFeature(c) \/ InsertFeatureConflict(c)
    PROVE  IndInv'
<1> USE DEF IndInv
<1>1. CASE BeginCreate(c)
  <2>1. PICK id \in FeatureId, kind \in Kind :
            \E order \in {NextExecutionOrder(kind)} \union 1..MaxOrder :
                /\ order <= MaxOrder
                /\ draft' = [draft EXCEPT ![c] = {[id |-> id, kind |-> kind, order |-> order]}]
    BY <1>1 DEF BeginCreate
  <2>2. PICK order \in {NextExecutionOrder(kind)} \union 1..MaxOrder :
                /\ order <= MaxOrder
                /\ draft' = [draft EXCEPT ![c] = {[id |-> id, kind |-> kind, order |-> order]}]
    BY <2>1
  <2>3. order \in 1..MaxOrder
    BY <2>2, NextOrderFree
  <2>4. DraftsTyped'
    BY <2>2, <2>3 DEF DraftsTyped, FeatureRow
  <2>5. QED
    BY <1>1, <2>4 DEF BeginCreate, FeaturesTyped, SitesTyped, PresetsTyped, ProxyTyped,
                      CountsTyped, tables, proxy
<1>2. CASE InsertFeature(c)
  <2>1. PICK row \in draft[c] :
            /\ \A other \in features : ~FeaturesClash(row, other)
            /\ features' = features \union {row}
            /\ draft' = [draft EXCEPT ![c] = {}]
            /\ UNCHANGED <<sites, presets>>
            /\ Change("features")
    BY <1>2 DEF InsertFeature
  <2>2. row \in FeatureRow
    BY DEF DraftsTyped
  <2>3. FeaturesTyped'
    BY <2>1, <2>2, RowFits DEF FeaturesTyped
  <2>4. DraftsTyped' /\ SitesTyped' /\ PresetsTyped'
    BY <2>1 DEF DraftsTyped, SitesTyped, PresetsTyped
  <2>5. QED
    BY <2>1, <2>3, <2>4, ChangeCounts
<1>3. CASE InsertFeatureConflict(c)
  <2>1. DraftsTyped'
    BY <1>3 DEF InsertFeatureConflict, DraftsTyped
  <2>2. QED
    BY <1>3, <2>1 DEF InsertFeatureConflict, FeaturesTyped, SitesTyped, PresetsTyped,
                      ProxyTyped, CountsTyped, tables, proxy
<1>4. QED
  BY <1>1, <1>2, <1>3

LEMMA FeatureSteps == ASSUME IndInv, UpdateFeature \/ DeleteFeature PROVE IndInv'
<1> USE DEF IndInv
<1>1. CASE UpdateFeature
  <2>1. PICK row \in features, order \in 1..MaxOrder :
            /\ UpdateFields(row, [row EXCEPT !.order = order])
            /\ UNCHANGED <<sites, presets, draft>>
            /\ Change("features")
    BY <1>1 DEF UpdateFeature
  <2> DEFINE new == [row EXCEPT !.order = order]
             others == features \ {row}
  <2>2. new \in FeatureRow
    BY DEF FeaturesTyped, FeatureRow
  <2>3. others \subseteq FeatureRow /\ IsFiniteSet(others)
    BY FS_RemoveElement DEF FeaturesTyped
  <2>4. /\ \A other \in others : ~FeaturesClash(new, other)
        /\ features' = others \union {new}
    BY <2>1 DEF UpdateFields
  <2>5. FeaturesTyped'
    <3>1. \A f, g \in others :
              f = g \/ (f.id # g.id /\ <<f.kind, f.order>> # <<g.kind, g.order>>)
      BY DEF FeaturesTyped
    <3> HIDE DEF new, others
    <3>2. \A other \in others : ~FeaturesClash(new, other)
      BY <2>4
    <3>3. /\ others \union {new} \subseteq FeatureRow
          /\ IsFiniteSet(others \union {new})
          /\ \A f, g \in others \union {new} :
                f = g \/ (f.id # g.id /\ <<f.kind, f.order>> # <<g.kind, g.order>>)
      BY <2>2, <2>3, <3>1, <3>2, RowFits
    <3>4. QED
      BY <2>4, <3>3 DEF FeaturesTyped
  <2>6. DraftsTyped' /\ SitesTyped' /\ PresetsTyped'
    BY <2>1 DEF DraftsTyped, SitesTyped, PresetsTyped
  <2>7. QED
    BY <2>1, <2>5, <2>6, ChangeCounts
<1>2. CASE DeleteFeature
  <2>1. PICK row \in features :
            /\ features' = features \ {row}
            /\ UNCHANGED <<sites, presets, draft>>
            /\ Change("features")
    BY <1>2 DEF DeleteFeature
  <2>2. FeaturesTyped'
    BY <2>1, FS_RemoveElement DEF FeaturesTyped
  <2>3. DraftsTyped' /\ SitesTyped' /\ PresetsTyped'
    BY <2>1 DEF DraftsTyped, SitesTyped, PresetsTyped
  <2>4. QED
    BY <2>1, <2>2, <2>3, ChangeCounts
<1>3. QED
  BY <1>1, <1>2

-----------------------------------------------------------------------------
(* Tables kept in the order in which rows were inserted *)

\* No two rows have the same value in a column.
Unique(rows, column) == \A i, j \in DOMAIN rows : rows[i][column] = rows[j][column] => i = j

LEMMA UniqueTyped ==
    /\ SitesTyped <=> sites \in Seq(ValidSites) /\ Unique(sites, "slug")
    /\ PresetsTyped <=> presets \in Seq(ValidPresets) /\ Unique(presets, "name")
BY DEF SitesTyped, PresetsTyped, Unique, IsInjective

LEMMA AppendUnique ==
    ASSUME NEW S, NEW rows \in Seq(S), NEW row \in S, NEW column, Unique(rows, column),
           \A i \in DOMAIN rows : row[column] # rows[i][column]
    PROVE  Append(rows, row) \in Seq(S) /\ Unique(Append(rows, row), column)
<1> DEFINE new == Append(rows, row)
<1>1. /\ new \in Seq(S) /\ Len(new) = Len(rows) + 1
      /\ \A i \in 1..Len(rows) : new[i] = rows[i]
      /\ new[Len(rows) + 1] = row
  BY AppendProperties
<1>2. DOMAIN new = 1..Len(rows) + 1 /\ DOMAIN rows = 1..Len(rows) /\ Len(rows) \in Nat
  BY <1>1, LenProperties
<1>3. ASSUME NEW i \in DOMAIN new, NEW j \in DOMAIN new, new[i][column] = new[j][column]
      PROVE  i = j
  <2>1. CASE i \in DOMAIN rows /\ j \in DOMAIN rows
    BY <1>1, <1>2, <1>3, <2>1 DEF Unique
  <2>2. CASE i = Len(rows) + 1 /\ j \in DOMAIN rows
    BY <1>1, <1>2, <1>3, <2>2
  <2>3. CASE j = Len(rows) + 1 /\ i \in DOMAIN rows
    BY <1>1, <1>2, <1>3, <2>3
  <2>4. QED
    BY <1>2, <2>1, <2>2, <2>3
<1>4. QED
  BY <1>1, <1>3 DEF Unique

LEMMA WriteUnique ==
    ASSUME NEW S, NEW rows \in Seq(S), NEW at \in DOMAIN rows, NEW row \in S, NEW column,
           Unique(rows, column), \A i \in DOMAIN rows \ {at} : row[column] # rows[i][column]
    PROVE  [rows EXCEPT ![at] = row] \in Seq(S) /\ Unique([rows EXCEPT ![at] = row], column)
<1> DEFINE new == [rows EXCEPT ![at] = row]
<1>1. new \in Seq(S)
  BY ExceptSeq, LenProperties
<1>2. /\ DOMAIN new = DOMAIN rows /\ new[at] = row
      /\ \A i \in DOMAIN rows \ {at} : new[i] = rows[i]
  OBVIOUS
<1> HIDE DEF new
<1>3. ASSUME NEW i \in DOMAIN new, NEW j \in DOMAIN new, new[i][column] = new[j][column]
      PROVE  i = j
  <2>1. CASE i # at /\ j # at
    BY <1>2, <1>3, <2>1 DEF Unique
  <2>2. CASE i = at /\ j # at
    BY <1>2, <1>3, <2>2
  <2>3. CASE i # at /\ j = at
    BY <1>2, <1>3, <2>3
  <2>4. QED
    BY <2>1, <2>2, <2>3
<1>4. Unique(new, column)
  BY <1>3 DEF Unique
<1>5. QED
  BY <1>1, <1>4 DEF new

\* The rows behind the deleted one move up.
LEMMA RemoveUnique ==
    ASSUME NEW S, NEW rows \in Seq(S), NEW at \in DOMAIN rows, NEW column, Unique(rows, column)
    PROVE  RemoveAt(rows, at) \in Seq(S) /\ Unique(RemoveAt(rows, at), column)
<1> DEFINE n == Len(rows)
           front == SubSeq(rows, 1, at - 1)
           back == SubSeq(rows, at + 1, n)
           from(i) == IF i < at THEN i ELSE i + 1
<1>1. n \in Nat /\ DOMAIN rows = 1..n /\ at \in 1..n /\ \A i \in 1..n : rows[i] \in S
  BY LenProperties, ElementOfSeq
<1>2. /\ front \in Seq(S) /\ Len(front) = at - 1
      /\ \A i \in 1..at - 1 : front[i] = rows[i]
  <2>1. /\ at - 1 \in Int /\ \A i \in 1..at - 1 : rows[i] \in S
        /\ (at - 1) - 1 + 1 = at - 1 /\ (~(1 <= at - 1) => at - 1 = 0)
        /\ \A i \in 1..at - 1 : 1 + i - 1 = i
    BY <1>1
  <2>2. /\ SubSeq(rows, 1, at - 1) \in Seq(S)
        /\ Len(SubSeq(rows, 1, at - 1)) = IF 1 <= at - 1 THEN (at - 1) - 1 + 1 ELSE 0
        /\ \A i \in 1..(at - 1) - 1 + 1 : SubSeq(rows, 1, at - 1)[i] = rows[1 + i - 1]
    BY <2>1, SubSeqProperties
  <2>3. QED
    BY <2>1, <2>2
<1>3. /\ back \in Seq(S) /\ Len(back) = n - at
      /\ \A i \in 1..n - at : back[i] = rows[at + i]
  <2>1. /\ at + 1 \in Int /\ n \in Int /\ \A i \in at + 1..n : rows[i] \in S
        /\ n - (at + 1) + 1 = n - at /\ (~(at + 1 <= n) => n - at = 0)
        /\ \A i \in 1..n - at : at + 1 + i - 1 = at + i
    BY <1>1
  <2>2. /\ SubSeq(rows, at + 1, n) \in Seq(S)
        /\ Len(SubSeq(rows, at + 1, n)) = IF at + 1 <= n THEN n - (at + 1) + 1 ELSE 0
        /\ \A i \in 1..n - (at + 1) + 1 : SubSeq(rows, at + 1, n)[i] = rows[at + 1 + i - 1]
    BY <2>1, SubSeqProperties
  <2>3. QED
    BY <2>1, <2>2
<1> HIDE DEF front, back
<1> DEFINE new == front \o back
<1>4. /\ new \in Seq(S) /\ Len(new) = n - 1
      /\ \A i \in 1..n - 1 : new[i] = IF i <= at - 1 THEN front[i] ELSE back[i - (at - 1)]
  <2>1. at - 1 + (n - at) = n - 1
    BY <1>1
  <2>2. /\ new \in Seq(S) /\ Len(new) = Len(front) + Len(back)
        /\ \A i \in 1..Len(front) + Len(back) :
              new[i] = IF i <= Len(front) THEN front[i] ELSE back[i - Len(front)]
    BY <1>2, <1>3, ConcatProperties
  <2>3. QED
    BY <1>2, <1>3, <2>1, <2>2
<1>5. DOMAIN new = 1..n - 1
  BY <1>4, LenProperties
<1> HIDE DEF new
<1>6. ASSUME NEW i \in 1..n - 1 PROVE from(i) \in 1..n /\ new[i] = rows[from(i)]
  <2>1. CASE i < at
    BY <1>1, <1>2, <1>4, <2>1
  <2>2. CASE ~(i < at)
    <3>1. i - (at - 1) \in 1..n - at /\ at + (i - (at - 1)) = i + 1 /\ ~(i <= at - 1)
      BY <1>1, <2>2
    <3>2. new[i] = back[i - (at - 1)] /\ back[i - (at - 1)] = rows[i + 1]
      BY <1>3, <1>4, <3>1
    <3>3. from(i) = i + 1 /\ i + 1 \in 1..n
      BY <1>1, <2>2
    <3>4. QED
      BY <3>2, <3>3
  <2>3. QED
    BY <2>1, <2>2
<1>7. Unique(new, column)
  <2>1. ASSUME NEW i \in 1..n - 1, NEW j \in 1..n - 1, new[i][column] = new[j][column]
        PROVE  i = j
    <3>1. from(i) = from(j)
      BY <1>1, <1>6, <2>1 DEF Unique
    <3>2. QED
      BY <1>1, <3>1
  <2>2. QED
    BY <1>5, <2>1 DEF Unique
<1>8. RemoveAt(rows, at) = new
  BY DEF RemoveAt, new, front, back
<1>9. QED
  BY <1>4, <1>7, <1>8

LEMMA SiteSteps == ASSUME IndInv, CreateSite \/ UpdateSite \/ DeleteSite PROVE IndInv'
<1> USE DEF IndInv
<1>1. sites \in Seq(ValidSites) /\ Unique(sites, "slug")
  BY UniqueTyped
<1>2. ASSUME UNCHANGED <<features, presets, draft>>, Change("sites"),
             sites' \in Seq(ValidSites) /\ Unique(sites, "slug")'
      PROVE  IndInv'
  <2>1. SitesTyped'
    BY <1>2 DEF SitesTyped, Unique, IsInjective
  <2>2. FeaturesTyped' /\ PresetsTyped' /\ DraftsTyped'
    BY <1>2 DEF FeaturesTyped, PresetsTyped, DraftsTyped
  <2>3. QED
    BY <1>2, <2>1, <2>2, ChangeCounts
<1>3. CASE CreateSite
  <2>1. PICK row \in ValidSites :
            InsertSite(row) /\ UNCHANGED <<features, presets, draft>> /\ Change("sites")
    BY <1>3 DEF CreateSite
  <2>2. sites' \in Seq(ValidSites) /\ Unique(sites', "slug")
    <3>1. \A i \in DOMAIN sites : row["slug"] # sites[i]["slug"]
      BY <2>1 DEF InsertSite, SitesClash
    <3>2. QED
      BY <1>1, <2>1, <3>1, AppendUnique DEF InsertSite
  <2>3. QED
    BY <1>2, <2>1, <2>2 DEF Unique
<1>4. CASE UpdateSite
  <2>1. PICK i \in DOMAIN sites, row \in ValidSites :
            WriteSite(i, row) /\ UNCHANGED <<features, presets, draft>> /\ Change("sites")
    BY <1>4 DEF UpdateSite
  <2>2. sites' \in Seq(ValidSites) /\ Unique(sites', "slug")
    <3>1. \A j \in DOMAIN sites \ {i} : row["slug"] # sites[j]["slug"]
      BY <2>1 DEF WriteSite, SitesClash
    <3>2. QED
      BY <1>1, <2>1, <3>1, WriteUnique DEF WriteSite
  <2>3. QED
    BY <1>2, <2>1, <2>2 DEF Unique
<1>5. CASE DeleteSite
  <2>1. PICK i \in DOMAIN sites :
            /\ sites' = RemoveAt(sites, i)
            /\ UNCHANGED <<features, presets, draft>> /\ Change("sites")
    BY <1>5 DEF DeleteSite
  <2>2. sites' \in Seq(ValidSites) /\ Unique(sites', "slug")
    BY <1>1, <2>1, RemoveUnique
  <2>3. QED
    BY <1>2, <2>1, <2>2 DEF Unique
<1>6. QED
  BY <1>3, <1>4, <1>5

LEMMA PresetSteps == ASSUME IndInv, CreatePreset \/ UpdatePreset \/ DeletePreset PROVE IndInv'
<1> USE DEF IndInv
<1>1. presets \in Seq(ValidPresets) /\ Unique(presets, "name")
  BY UniqueTyped
<1>2. ASSUME UNCHANGED <<features, sites, draft>>, Change("presets"),
             presets' \in Seq(ValidPresets) /\ Unique(presets, "name")'
      PROVE  IndInv'
  <2>1. PresetsTyped'
    BY <1>2 DEF PresetsTyped, Unique, IsInjective
  <2>2. FeaturesTyped' /\ SitesTyped' /\ DraftsTyped'
    BY <1>2 DEF FeaturesTyped, SitesTyped, DraftsTyped
  <2>3. QED
    BY <1>2, <2>1, <2>2, ChangeCounts
<1>3. CASE CreatePreset
  <2>1. PICK row \in ValidPresets :
            InsertPreset(row) /\ UNCHANGED <<features, sites, draft>> /\ Change("presets")
    BY <1>3 DEF CreatePreset
  <2>2. presets' \in Seq(ValidPresets) /\ Unique(presets', "name")
    <3>1. \A i \in DOMAIN presets : row["name"] # presets[i]["name"]
      BY <2>1 DEF InsertPreset, PresetsClash
    <3>2. QED
      BY <1>1, <2>1, <3>1, AppendUnique DEF InsertPreset
  <2>3. QED
    BY <1>2, <2>1, <2>2 DEF Unique
<1>4. CASE UpdatePreset
  <2>1. PICK i \in DOMAIN presets, row \in ValidPresets :
            WritePreset(i, row) /\ UNCHANGED <<features, sites, draft>> /\ Change("presets")
    BY <1>4 DEF UpdatePreset
  <2>2. presets' \in Seq(ValidPresets) /\ Unique(presets', "name")
    <3>1. \A j \in DOMAIN presets \ {i} : row["name"] # presets[j]["name"]
      BY <2>1 DEF WritePreset, PresetsClash
    <3>2. QED
      BY <1>1, <2>1, <3>1, WriteUnique DEF WritePreset
  <2>3. QED
    BY <1>2, <2>1, <2>2 DEF Unique
<1>5. CASE DeletePreset
  <2>1. PICK i \in DOMAIN presets :
            /\ presets' = RemoveAt(presets, i)
            /\ UNCHANGED <<features, sites, draft>> /\ Change("presets")
    BY <1>5 DEF DeletePreset
  <2>2. presets' \in Seq(ValidPresets) /\ Unique(presets', "name")
    BY <1>1, <2>1, RemoveUnique
  <2>3. QED
    BY <1>2, <2>1, <2>2 DEF Unique
<1>6. QED
  BY <1>3, <1>4, <1>5

-----------------------------------------------------------------------------
(* The proxy *)

LEMMA ReaderSteps ==
    ASSUME IndInv, NEW r \in Reader, Miss(r) \/ Fetch(r) \/ FetchError(r) \/ Store(r)
    PROVE  IndInv'
<1>1. UNCHANGED <<features, sites, presets, draft, focus, changes>>
  BY DEF Miss, Fetch, FetchError, Store, tables
<1>2. ProxyTyped'
  <2>1. ProxyTyped
    BY DEF IndInv
  <2>2. CASE Miss(r)
    BY <2>1, <2>2 DEF Miss, ProxyTyped, List
  <2>3. CASE Fetch(r)
    BY <2>1, <2>3 DEF Fetch, ProxyTyped
  <2>4. CASE FetchError(r)
    BY <2>1, <2>4 DEF FetchError, ProxyTyped
  <2>5. CASE Store(r)
    BY <2>1, <2>5 DEF Store, ProxyTyped
  <2>6. QED
    BY <2>2, <2>3, <2>4, <2>5
<1>3. QED
  BY <1>1, <1>2 DEF IndInv, FeaturesTyped, SitesTyped, PresetsTyped, DraftsTyped, CountsTyped

LEMMA ExpireSteps == ASSUME IndInv, NEW list \in List, Expire(list) PROVE IndInv'
<1>1. UNCHANGED <<features, sites, presets, draft, focus, changes>>
  BY DEF Expire, tables
<1>2. ProxyTyped'
  BY DEF IndInv, ProxyTyped, Expire
<1>3. QED
  BY <1>1, <1>2 DEF IndInv, FeaturesTyped, SitesTyped, PresetsTyped, DraftsTyped, CountsTyped

LEMMA NextIndInv == IndInv /\ [Next]_vars => IndInv'
<1> SUFFICES ASSUME IndInv, [Next]_vars PROVE IndInv'
  OBVIOUS
<1>1. CASE UNCHANGED vars
  BY <1>1 DEF vars, tables, proxy, IndInv, FeaturesTyped, SitesTyped, PresetsTyped,
              DraftsTyped, ProxyTyped, CountsTyped
<1>2. CASE \E c \in Client : BeginCreate(c) \/ InsertFeature(c) \/ InsertFeatureConflict(c)
  BY <1>2, CreateSteps
<1>3. CASE UpdateFeature \/ DeleteFeature
  BY <1>3, FeatureSteps
<1>4. CASE CreateSite \/ UpdateSite \/ DeleteSite
  BY <1>4, SiteSteps
<1>5. CASE CreatePreset \/ UpdatePreset \/ DeletePreset
  BY <1>5, PresetSteps
<1>6. CASE \E r \in Reader : Miss(r) \/ Fetch(r) \/ FetchError(r) \/ Store(r)
  BY <1>6, ReaderSteps
<1>7. CASE \E list \in {"features", "sites"} : Expire(list)
  BY <1>7, ExpireSteps DEF List
<1>8. QED
  BY <1>1, <1>2, <1>3, <1>4, <1>5, <1>6, <1>7 DEF Next

\* The invariant the other proofs use: the tables, the drafts, the proxy's
\* requests and the counters as IndInv describes them, in every reachable state.
THEOREM Inductive == Spec => []IndInv
<1>1. IndInv /\ [Next]_vars => IndInv'
  BY NextIndInv
<1>2. QED
  BY <1>1, InitIndInv, PTL DEF Spec

\* feature_service, site_service and test_preset_service with the constraints of
\* their tables, and the proxy's lists: two requests that read the same next
\* order cannot both insert it, and rows stay valid and distinct.
THEOREM TypeCorrect == Spec => []TypeOK
<1>1. IndInv => TypeOK
  BY DEF IndInv, TypeOK, FeaturesTyped, SitesTyped, PresetsTyped, DraftsTyped, ProxyTyped,
         CountsTyped, List
<1>2. QED
  BY <1>1, Inductive, PTL

-----------------------------------------------------------------------------
(* The list of features *)

\* Features listed before a feature are listed before those behind it.
LEMMA PlaceGrows ==
    ASSUME FeaturesTyped, NEW f \in features, NEW g \in features, ListedBefore(f, g)
    PROVE  /\ Place(f) \in 1..Cardinality(features) /\ Place(g) \in 1..Cardinality(features)
           /\ Place(f) < Place(g)
<1> DEFINE before(h) == {k \in features : ListedBefore(k, h)}
<1>1. \A h \in features : h.kind \in Kind /\ h.order \in Nat
  BY DEF FeaturesTyped, FeatureRow
<1>2. Cardinality(features) \in Nat /\ IsFiniteSet(features)
  BY FS_CardinalityType DEF FeaturesTyped
<1>3. ASSUME NEW h \in features
      PROVE  /\ IsFiniteSet(before(h)) /\ Cardinality(before(h)) \in Nat
             /\ Cardinality(before(h)) < Cardinality(features)
  <2>1. h \notin before(h)
    BY <1>1 DEF ListedBefore
  <2>2. before(h) \in SUBSET features /\ before(h) # features
    BY <2>1
  <2>3. QED
    BY <1>2, <2>2, FS_Subset, FS_CardinalityType
<1>4. Cardinality(before(f)) < Cardinality(before(g))
  <2>1. \A k \in before(f) : k \in before(g)
    BY <1>1 DEF ListedBefore, Kind
  <2>2. f \in before(g) /\ f \notin before(f)
    BY <1>1 DEF ListedBefore
  <2>3. before(f) \in SUBSET before(g) /\ before(f) # before(g)
    BY <2>1, <2>2
  <2>4. /\ Cardinality(before(f)) <= Cardinality(before(g))
        /\ Cardinality(before(f)) # Cardinality(before(g))
    BY <1>3, <2>3, FS_Subset
  <2>5. QED
    BY <1>3, <2>4
<1>5. Place(f) = 1 + Cardinality(before(f)) /\ Place(g) = 1 + Cardinality(before(g))
  BY DEF Place
<1> HIDE DEF before
<1>6. QED
  BY <1>2, <1>3, <1>4, <1>5

LEMMA PlaceRange ==
    ASSUME FeaturesTyped, NEW f \in features
    PROVE  Place(f) \in 1..Cardinality(features)
<1> DEFINE before == {k \in features : ListedBefore(k, f)}
<1>1. Cardinality(features) \in Nat /\ IsFiniteSet(features)
  BY FS_CardinalityType DEF FeaturesTyped
<1>2. f \notin before
  BY DEF ListedBefore, FeaturesTyped, FeatureRow, Kind
<1>3. before \in SUBSET features /\ before # features
  BY <1>2
<1>4. Cardinality(before) \in Nat /\ Cardinality(before) < Cardinality(features)
  BY <1>1, <1>3, FS_Subset, FS_CardinalityType
<1>5. Place(f) = 1 + Cardinality(before)
  BY DEF Place
<1> HIDE DEF before
<1>6. QED
  BY <1>1, <1>4, <1>5

\* One feature at each place, because no two of a type share an order.
LEMMA PlacesDistinct ==
    ASSUME FeaturesTyped, NEW f \in features, NEW g \in features, Place(f) = Place(g)
    PROVE  f = g
<1>1. \A h \in features : h.kind \in Kind /\ h.order \in Nat
  BY DEF FeaturesTyped, FeatureRow
<1>2. ~ListedBefore(f, g) /\ ~ListedBefore(g, f)
  BY PlaceGrows
<1>3. f.kind = g.kind /\ f.order = g.order
  BY <1>1, <1>2 DEF ListedBefore, Kind
<1>4. QED
  BY <1>3 DEF FeaturesTyped

LEMMA PlacesTaken ==
    ASSUME FeaturesTyped, NEW i \in 1..Cardinality(features)
    PROVE  \E f \in features : Place(f) = i
<1> DEFINE n == Cardinality(features)
           place == [f \in features |-> Place(f)]
<1>1. n \in Nat /\ IsFiniteSet(1..n) /\ Cardinality(1..n) = n
  BY FS_CardinalityType, FS_Interval DEF FeaturesTyped
<1>2. place \in Injection(features, 1..n)
  BY PlaceRange, PlacesDistinct DEF Injection, IsInjective
<1>3. place \in Surjection(features, 1..n)
  BY <1>1, <1>2, FS_Injection
<1>4. QED
  BY <1>3 DEF Surjection

\* The page: the features of the first places, each at its place.
LEMMA PageByPlace ==
    ASSUME FeaturesTyped
    PROVE  /\ \A i \in DOMAIN ListFeatures :
                 i \in Nat \ {0} /\ ListFeatures[i] \in features /\ Place(ListFeatures[i]) = i
           /\ \A f \in features, i \in DOMAIN ListFeatures :
                 Place(f) < i => ListFeatures[Place(f)] = f
<1> DEFINE n == Cardinality(features)
           at(i) == CHOOSE f \in features : Place(f) = i
           all == [i \in 1..n |-> at(i)]
           m == IF n < PageSize THEN n ELSE PageSize
<1>1. n \in Nat /\ m \in Nat /\ 0..m \subseteq 0..n
  BY FS_CardinalityType DEF FeaturesTyped
<1>2. ASSUME NEW i \in 1..n PROVE at(i) \in features /\ Place(at(i)) = i
  BY PlacesTaken
<1>3. \A f \in features : at(Place(f)) = f
  BY PlaceRange, PlacesDistinct, <1>2
<1> HIDE DEF at
<1>4. /\ Len(all) = n
      /\ \A i \in 1..n : all[i] = at(i)
  BY <1>1
<1> HIDE DEF all, n
<1>5. ListFeatures = SubSeq(all, 1, m)
  BY <1>4 DEF ListFeatures, FirstPage, all, at, n
<1>6. /\ ListFeatures \in Seq(features) /\ Len(ListFeatures) = m
      /\ \A i \in 1..m : ListFeatures[i] = at(i)
  <2>1. \A i \in 1..m : all[i] \in features
    BY <1>1, <1>2, <1>4
  <2>2. /\ SubSeq(all, 1, m) \in Seq(features)
        /\ Len(SubSeq(all, 1, m)) = IF 1 <= m THEN m - 1 + 1 ELSE 0
        /\ \A i \in 1..m - 1 + 1 : SubSeq(all, 1, m)[i] = all[1 + i - 1]
    BY <1>1, <2>1, SubSeqProperties
  <2>3. QED
    BY <1>1, <1>4, <1>5, <2>2
<1>7. DOMAIN ListFeatures = 1..m
  BY <1>6, LenProperties
<1>8. ASSUME NEW i \in DOMAIN ListFeatures
      PROVE  i \in Nat \ {0} /\ ListFeatures[i] \in features /\ Place(ListFeatures[i]) = i
  BY <1>1, <1>2, <1>6, <1>7
<1>9. ASSUME NEW f \in features, NEW i \in DOMAIN ListFeatures, Place(f) < i
      PROVE  ListFeatures[Place(f)] = f
  <2>1. Place(f) \in 1..m
    BY <1>1, <1>7, <1>9, PlaceRange DEF n
  <2>2. QED
    BY <1>3, <1>6, <2>1
<1>10. QED
  BY <1>8, <1>9

\* feature_repository's page of the ordered features as feature_list_cached asks
\* for it: wherever it is cut off, what it lists of a type is a beginning of the
\* type's chain, for every size of the page.
THEOREM ChainsAreListedAlways == Spec => []ChainsAreListed
<1>1. ASSUME IndInv PROVE ChainsAreListed
  <2>1. FeaturesTyped
    BY <1>1 DEF IndInv
  <2>2. ASSUME NEW i \in DOMAIN ListFeatures, NEW f \in features,
               f.kind = ListFeatures[i].kind, f.order < ListFeatures[i].order
        PROVE  \E j \in 1..i-1 : ListFeatures[j] = f
    <3>1. i \in Nat \ {0} /\ ListFeatures[i] \in features /\ Place(ListFeatures[i]) = i
      BY <2>1, PageByPlace
    <3>2. ListedBefore(f, ListFeatures[i])
      BY <2>2 DEF ListedBefore
    <3>3. Place(f) < i /\ Place(f) \in Nat \ {0}
      BY <2>1, <3>1, <3>2, PlaceGrows
    <3>4. ListFeatures[Place(f)] = f
      BY <2>1, <3>3, PageByPlace
    <3>5. QED
      BY <3>1, <3>3, <3>4
  <2>3. QED
    BY <2>2 DEF ChainsAreListed
<1>2. QED
  BY <1>1, Inductive, PTL

=============================================================================
