------------------------ MODULE RuleDeliveryProofs ------------------------
(***************************************************************************)
(* Proofs about RuleDelivery for every set of versions, graphs, classes,   *)
(* requests and refreshers, and for every bound and hazard.                *)
(***************************************************************************)
EXTENDS RuleDelivery, TLAPS

\* The live pointer names a LIVE row, and history ends with what it names.
PointerNow ==
    /\ history # <<>>
    /\ live # NoVersion => /\ status[live] = "live"
                           /\ history[Len(history)] = content[live]

\* Only an identifier without a row has no content.
RowsHaveContent == \A v \in VersionId : Exists(v) => content[v] \in Content

\* A task between two reads: its row, while it exists, is what the pointer
\* named; once read it is a payload but for the outcomes.
AfterPointer == {"row", "outcomes", "components"}
AfterRow == {"outcomes", "components"}

Follows(t) ==
    /\ pc[t] \in AfterPointer => /\ got[t].version \in VersionId
                                 /\ got[t].epoch \in DOMAIN history
    /\ pc[t] = "row" /\ Exists(got[t].version)
           => history[got[t].epoch] = content[got[t].version]
    /\ pc[t] \in AfterRow
           => /\ got[t].number # 0 /\ got[t].graph # NoGraph
              /\ history[got[t].epoch] = [number |-> got[t].number, graph |-> got[t].graph]

\* A finished fetch is a payload; a graph is looked up for a payload only.
Answered(t) ==
    /\ got[t].kind = "ok" => got[t] \in Payload
    /\ pc[t] \in {"lookup", "compile"} => got[t].kind = "ok"

\* What ServedWasLive says of one answer.
WasLive(a) ==
    a.kind = "ok" => /\ a.epoch \in DOMAIN history
                     /\ history[a.epoch] = [number |-> a.number, graph |-> a.graph]

TaskInv(t) == Follows(t) /\ Answered(t) /\ WasLive(got[t])

IndInv ==
    /\ TypeOK
    /\ PointerNow
    /\ RowsHaveContent
    /\ WasLive(cache)
    /\ \A t \in Task : TaskInv(t)

-----------------------------------------------------------------------------
(* Answers *)

\* Nothing, a 404 and a failure are answers without a payload.
LEMMA Refusals ==
    /\ Nothing \in Answer /\ Nothing.kind = "none"
    /\ NotFound \in Answer /\ NotFound.kind = "not_found"
    /\ Failed \in Answer /\ Failed.kind = "error"
  BY BoundAssumption DEF Nothing, NotFound, Failed, Gathered, NoContent, Answer

\* Following a pointer gives an answer without a row.
LEMMA ReadingAnswer ==
    ASSUME NEW v \in VersionId, NEW e \in Nat
    PROVE  /\ Reading(v, e) \in Answer
           /\ Reading(v, e).kind = "none"
           /\ Reading(v, e).version = v
           /\ Reading(v, e).epoch = e
  BY BoundAssumption DEF Reading, Gathered, NoContent, Answer

\* Reading the row adds its content to what the pointer gave.
LEMMA WithRowAnswer ==
    ASSUME NEW a \in Answer, NEW c \in Content
    PROVE  /\ WithRow(a, c) \in Answer
           /\ WithRow(a, c).kind = "none"
           /\ WithRow(a, c).version = a.version
           /\ WithRow(a, c).epoch = a.epoch
           /\ WithRow(a, c).number = c.number
           /\ WithRow(a, c).graph = c.graph
  BY BoundAssumption DEF WithRow, Gathered, Answer, Content

\* A complete answer keeps what was read of pointer and row.
LEMMA CompleteAnswer ==
    ASSUME NEW a \in Answer, NEW w \in BOOLEAN
    PROVE  /\ Complete(a, w) \in Answer
           /\ Complete(a, w).kind = "ok"
           /\ Complete(a, w).version = NoVersion
           /\ Complete(a, w).epoch = a.epoch
           /\ Complete(a, w).number = a.number
           /\ Complete(a, w).graph = a.graph
  BY DEF Complete, Gathered, Answer

\* The content of a row is the record of its number and graph.
LEMMA ContentRecord ==
    ASSUME NEW c \in Content
    PROVE  /\ c = [number |-> c.number, graph |-> c.graph]
           /\ c.number # 0 /\ c.graph # NoGraph
  BY SentinelAssumption, BoundAssumption DEF Content

-----------------------------------------------------------------------------
(* The invariant at the start *)

\* No version exists, no cache holds an entry and no task runs.
LEMMA InitIndInv == Init => IndInv
<1> SUFFICES ASSUME Init PROVE IndInv
  OBVIOUS
<1> USE DEF Init
<1>1. TypeOK
  <2>1. <<NoContent>> \in Seq(Content \union {NoContent})
    OBVIOUS
  <2>2. QED
    BY <2>1, Refusals DEF TypeOK, RequestPC
<1>2. PointerNow /\ RowsHaveContent
  <2>1. <<NoContent>> # << >>
    OBVIOUS
  <2>2. QED
    BY <2>1 DEF PointerNow, RowsHaveContent, Exists
<1>3. WasLive(cache)
  BY Refusals DEF WasLive
<1>4. ASSUME NEW t \in Task PROVE TaskInv(t)
  BY Refusals DEF TaskInv, Follows, Answered, WasLive, AfterPointer, AfterRow
<1>5. QED
  BY <1>1, <1>2, <1>3, <1>4 DEF IndInv

-----------------------------------------------------------------------------
(* Steps of tasks leave the backend alone *)

\* Only the tasks that moved, and the entry, need another look.
LEMMA MoversSuffice ==
    ASSUME IndInv, UNCHANGED backend, TypeOK', WasLive(cache)',
           \A t \in Task : TaskInv(t)' \/ (pc'[t] = pc[t] /\ got'[t] = got[t])
    PROVE  IndInv'
<1>1. PointerNow' /\ RowsHaveContent'
  BY DEF IndInv, backend, PointerNow, RowsHaveContent, Exists
<1>2. ASSUME NEW t \in Task, pc'[t] = pc[t], got'[t] = got[t]
      PROVE  TaskInv(t)'
  <2>1. TaskInv(t)
    BY DEF IndInv
  <2>2. QED
    BY <1>2, <2>1 DEF backend, TaskInv, Follows, Answered, WasLive, Exists
<1>3. QED
  BY <1>1, <1>2 DEF IndInv

\* A read of a fetch gives an answer that follows the pointer it has read.
LEMMA FetchStep ==
    ASSUME IndInv, NEW t \in Task, Fetch(t)
    PROVE  IndInv'
<1> USE DEF Goto
<1>1. TypeOK /\ TaskInv(t) /\ got[t] \in Answer /\ WasLive(cache)
  BY DEF IndInv, TypeOK
<1>2. UNCHANGED <<backend, caches, class, used>>
  BY DEF Fetch, ReadPointer, ReadRow, ReadOutcomes, ReadComponents, FetchFails
<1>3. WasLive(cache)'
  BY <1>1, <1>2 DEF WasLive, backend, caches
<1>4. ASSUME NEW label \in RequestPC \intersect RefresherPC, NEW a \in Answer, Goto(t, label, a)
      PROVE  TypeOK' /\ \A u \in Task \ {t} : pc'[u] = pc[u] /\ got'[u] = got[u]
  BY <1>1, <1>2, <1>4 DEF TypeOK, backend, caches
<1>5. ASSUME NEW label \in RequestPC \intersect RefresherPC, NEW a \in Answer, Goto(t, label, a),
             TaskInv(t)'
      PROVE  IndInv'
  BY <1>2, <1>3, <1>4, <1>5, MoversSuffice
<1>6. {"row", "outcomes", "components", "fetched"} \subseteq RequestPC \intersect RefresherPC
  BY DEF RequestPC, RefresherPC, Fetching
<1>7. ASSUME NEW a \in Answer, a.kind # "ok", Goto(t, "fetched", a)
      PROVE  IndInv'
  <2>1. pc'[t] = "fetched" /\ got'[t] = a
    BY <1>1, <1>7 DEF TypeOK
  <2>2. TaskInv(t)'
    BY <1>7, <2>1 DEF TaskInv, Follows, Answered, WasLive, AfterPointer, AfterRow
  <2>3. QED
    BY <1>5, <1>6, <1>7, <2>2
<1>8. CASE ReadPointer(t)
  <2>1. CASE Goto(t, "fetched", NotFound)
    BY <1>7, <2>1, Refusals
  <2>2. CASE live # NoVersion /\ Goto(t, "row", Reading(live, Len(history)))
    <3>1. live \in VersionId /\ Len(history) \in Nat
      BY <1>1, <2>2 DEF TypeOK
    <3> DEFINE a == Reading(live, Len(history))
    <3>2. a \in Answer /\ a.kind = "none" /\ a.version = live /\ a.epoch = Len(history)
      BY <3>1, ReadingAnswer
    <3> HIDE DEF a
    <3>3. pc'[t] = "row" /\ got'[t] = a
      BY <1>1, <2>2 DEF TypeOK, a
    <3>4. Len(history) \in DOMAIN history /\ history[Len(history)] = content[live]
      BY <1>1, <2>2 DEF IndInv, PointerNow, TypeOK
    <3>5. TaskInv(t)'
      BY <1>2, <3>1, <3>2, <3>3, <3>4
         DEF backend, TaskInv, Follows, Answered, WasLive, AfterPointer, AfterRow
    <3>6. QED
      BY <1>5, <1>6, <2>2, <3>2, <3>5 DEF a
  <2>3. QED
    BY <1>8, <2>1, <2>2 DEF ReadPointer, Active
<1>9. CASE ReadRow(t)
  <2> DEFINE v == got[t].version
             a == WithRow(got[t], content[v])
  <2>1. pc[t] = "row" /\ v \in VersionId /\ got[t].epoch \in DOMAIN history
    BY <1>1, <1>9 DEF ReadRow, TaskInv, Follows, AfterPointer
  <2>2. CASE Exists(v) /\ Goto(t, "outcomes", a)
    <3>1. content[v] \in Content /\ history[got[t].epoch] = content[v]
      BY <1>1, <2>1, <2>2 DEF IndInv, RowsHaveContent, TaskInv, Follows
    <3>2. /\ a \in Answer
          /\ a.kind = "none" /\ a.version = v /\ a.epoch = got[t].epoch
          /\ a.number = content[v].number /\ a.graph = content[v].graph
      BY <1>1, <3>1, WithRowAnswer
    <3>3. pc'[t] = "outcomes" /\ got'[t] = a
      BY <1>1, <2>2 DEF TypeOK
    <3> HIDE DEF a, v
    <3>4. /\ a.number # 0 /\ a.graph # NoGraph
          /\ content[v] = [number |-> a.number, graph |-> a.graph]
      BY <3>1, <3>2, ContentRecord
    <3>5. TaskInv(t)'
      BY <1>2, <2>1, <3>1, <3>2, <3>3, <3>4
         DEF backend, TaskInv, Follows, Answered, WasLive, AfterPointer, AfterRow
    <3>6. QED
      BY <1>5, <1>6, <2>2, <3>2, <3>5
  <2>3. CASE Goto(t, "fetched", NotFound)
    BY <1>7, <2>3, Refusals
  <2>4. QED
    BY <1>9, <2>2, <2>3 DEF ReadRow
<1>10. ASSUME NEW w \in BOOLEAN, pc[t] \in AfterRow, Goto(t, "fetched", Complete(got[t], w))
       PROVE  IndInv'
  <2> DEFINE a == Complete(got[t], w)
  <2>1. /\ got[t].epoch \in DOMAIN history
        /\ got[t].number # 0 /\ got[t].graph # NoGraph
        /\ history[got[t].epoch] = [number |-> got[t].number, graph |-> got[t].graph]
    BY <1>1, <1>10 DEF TaskInv, Follows, AfterPointer, AfterRow
  <2>2. /\ a \in Answer
        /\ a.kind = "ok" /\ a.version = NoVersion /\ a.epoch = got[t].epoch
        /\ a.number = got[t].number /\ a.graph = got[t].graph
    BY <1>1, CompleteAnswer
  <2>3. pc'[t] = "fetched" /\ got'[t] = a
    BY <1>1, <1>10 DEF TypeOK
  <2> HIDE DEF a
  <2>4. a \in Payload
    BY <2>1, <2>2 DEF Payload
  <2>5. TaskInv(t)'
    BY <1>2, <2>1, <2>2, <2>3, <2>4
       DEF backend, TaskInv, Follows, Answered, WasLive, AfterPointer, AfterRow
  <2>6. QED
    BY <1>5, <1>6, <1>10, <2>2, <2>5 DEF a
<1>11. CASE ReadOutcomes(t)
  <2>1. CASE Exists(got[t].version) /\ Goto(t, "components", got[t])
    <3>1. pc[t] = "outcomes" /\ pc'[t] = "components" /\ got'[t] = got[t]
      BY <1>1, <1>11, <2>1 DEF ReadOutcomes, TypeOK
    <3>2. TaskInv(t)'
      BY <1>1, <1>2, <3>1
         DEF backend, TaskInv, Follows, Answered, WasLive, AfterPointer, AfterRow
    <3>3. QED
      BY <1>1, <1>5, <1>6, <2>1, <3>2
  <2>2. CASE Goto(t, "fetched", Complete(got[t], FALSE))
    BY <1>10, <1>11, <2>2 DEF ReadOutcomes, AfterRow
  <2>3. QED
    BY <1>11, <2>1, <2>2 DEF ReadOutcomes
<1>12. CASE ReadComponents(t)
  <2>1. Exists(got[t].version) \in BOOLEAN
    BY DEF Exists
  <2>2. QED
    BY <1>10, <1>12, <2>1 DEF ReadComponents, AfterRow
<1>13. CASE FetchFails(t)
  BY <1>7, <1>13, Refusals DEF FetchFails
<1>14. QED
  BY <1>8, <1>9, <1>11, <1>12, <1>13 DEF Fetch

\* An entry that is there is a payload.
LEMMA HitIsPayload ==
    ASSUME IndInv, Hit
    PROVE  cache \in Payload /\ cache \in Answer /\ cache.kind = "ok"
  BY DEF IndInv, TypeOK, Hit, Payload

\* The first action of a request gives it the entry or nothing.
LEMMA BeginStep ==
    ASSUME IndInv, NEW r \in Request, NEW k \in Class,
           FreshHit(r, k) \/ StaleHit(r, k) \/ Miss(r, k)
    PROVE  IndInv'
<1> USE DEF Goto, Arrive
<1>1. TypeOK /\ WasLive(cache) /\ r \in Task /\ Refresher \subseteq Task
  BY DEF IndInv, Task
<1>2. UNCHANGED <<backend, caches, used>>
  BY DEF FreshHit, StaleHit, Miss
<1>3. WasLive(cache)'
  BY <1>1, <1>2 DEF WasLive, backend, caches
<1>4. {"lookup", "pointer", "guard"} \subseteq RequestPC \union RefresherPC
  BY DEF RequestPC, RefresherPC, Fetching
<1>5. ASSUME Hit, pc'[r] = "lookup", got'[r] = cache
      PROVE  TaskInv(r)'
  BY <1>2, <1>3, <1>5, HitIsPayload
     DEF backend, caches, TaskInv, Follows, Answered, WasLive, AfterPointer, AfterRow
<1>6. CASE FreshHit(r, k)
  <2>1. TypeOK'
    BY <1>1, <1>2, <1>4, <1>6, HitIsPayload DEF FreshHit, TypeOK, backend, caches
  <2>2. TaskInv(r)'
    BY <1>1, <1>5, <1>6 DEF FreshHit, TypeOK
  <2>3. \A t \in Task \ {r} : pc'[t] = pc[t] /\ got'[t] = got[t]
    BY <1>1, <1>6 DEF FreshHit, TypeOK
  <2>4. QED
    BY <1>2, <1>3, <2>1, <2>2, <2>3, MoversSuffice
<1>7. CASE StaleHit(r, k)
  <2>1. PICK f \in Refresher :
            pc[f] = "idle" /\ pc' = [pc EXCEPT ![r] = "lookup", ![f] = "guard"]
    BY <1>7 DEF StaleHit
  <2>2. f \in Task /\ f # r
    BY <1>1, TaskAssumption
  <2>3. got' = [got EXCEPT ![r] = cache] /\ class' = [class EXCEPT ![r] = k] /\ Hit
    BY <1>7 DEF StaleHit
  <2>4. /\ pc' \in [Task -> RequestPC \union RefresherPC]
        /\ pc'[r] = "lookup" /\ pc'[f] = "guard"
        /\ \A t \in Task \ {r, f} : pc'[t] = pc[t]
    BY <1>1, <1>4, <2>1, <2>2 DEF TypeOK
  <2>5. TypeOK'
    BY <1>1, <1>2, <2>3, <2>4, HitIsPayload DEF TypeOK, backend, caches
  <2>6. TaskInv(r)'
    BY <1>1, <1>5, <2>3, <2>4 DEF TypeOK
  <2>7. TaskInv(f)'
    <3>1. got'[f] = got[f]
      BY <1>1, <2>2, <2>3 DEF TypeOK
    <3>2. TaskInv(f)
      BY <2>2 DEF IndInv
    <3>3. QED
      BY <1>2, <2>4, <3>1, <3>2
         DEF backend, TaskInv, Follows, Answered, WasLive, AfterPointer, AfterRow
  <2>8. \A t \in Task \ {r, f} : got'[t] = got[t]
    BY <1>1, <2>3 DEF TypeOK
  <2>9. QED
    BY <1>2, <1>3, <2>4, <2>5, <2>6, <2>7, <2>8, MoversSuffice
<1>8. CASE Miss(r, k)
  <2>1. TypeOK'
    BY <1>1, <1>2, <1>4, <1>8, Refusals DEF Miss, TypeOK, backend, caches
  <2>2. pc'[r] = "pointer" /\ got'[r] = Nothing
    BY <1>1, <1>8 DEF Miss, TypeOK
  <2>3. TaskInv(r)'
    BY <2>2, Refusals DEF TaskInv, Follows, Answered, WasLive, AfterPointer, AfterRow
  <2>4. \A t \in Task \ {r} : pc'[t] = pc[t] /\ got'[t] = got[t]
    BY <1>1, <1>8 DEF Miss, TypeOK
  <2>5. QED
    BY <1>2, <1>3, <2>1, <2>3, <2>4, MoversSuffice
<1>9. QED
  BY <1>6, <1>7, <1>8

\* A task that ends its fetch stores the payload it holds, drops the entry or
\* leaves it; then it keeps its payload, or holds nothing.
LEMMA EndStep ==
    ASSUME IndInv, NEW t \in Task,
           \/ got[t].kind = "ok" /\ Store(got[t], TRUE)
           \/ Store(Nothing, FALSE)
           \/ UNCHANGED <<cache, fresh>>,
           inflight' \in BOOLEAN,
           NEW label \in RequestPC \union RefresherPC, label \notin AfterPointer,
           NEW a \in {got[t], Nothing}, Goto(t, label, a),
           label \in {"lookup", "compile"} => a.kind = "ok",
           UNCHANGED <<backend, compiled, class, used>>
    PROVE  IndInv'
<1>1. TypeOK /\ WasLive(cache) /\ TaskInv(t)
  BY DEF IndInv
<1>2. a \in Answer
  BY <1>1, Refusals DEF TypeOK
<1>3. /\ pc'[t] = label /\ got'[t] = a
      /\ \A u \in Task \ {t} : pc'[u] = pc[u] /\ got'[u] = got[u]
      /\ pc' \in [Task -> RequestPC \union RefresherPC]
      /\ got' \in [Task -> Answer]
  BY <1>1, <1>2 DEF Goto, TypeOK
<1>4. cache' \in {got[t], Nothing, cache} /\ fresh' \in BOOLEAN
  BY <1>1 DEF Store, TypeOK
<1>5. cache' \in Payload \union {Nothing}
  BY <1>1 DEF Store, TypeOK, TaskInv, Answered
<1>6. TypeOK'
  BY <1>1, <1>3, <1>4, <1>5 DEF TypeOK, backend
<1>7. WasLive(cache)'
  BY <1>1, <1>4, Refusals DEF WasLive, TaskInv, backend
<1>8. TaskInv(t)'
  BY <1>1, <1>3, Refusals
     DEF backend, TaskInv, Follows, Answered, WasLive, AfterPointer, AfterRow
<1>9. QED
  BY <1>3, <1>6, <1>7, <1>8, MoversSuffice

\* The end of a miss, the compiled cache and the response.
LEMMA RequestIndInv ==
    ASSUME IndInv, NEW r \in Request, RequestStep(r)
    PROVE  IndInv'
<1>1. TypeOK /\ r \in Task /\ TaskInv(r) /\ WasLive(cache) /\ inflight \in BOOLEAN
  BY DEF IndInv, Task, TypeOK
<1>2. {"lookup", "compile", "evaluated", "idle"} \subseteq RequestPC
  BY DEF RequestPC
<1>3. CASE EndMiss(r)
  <2>1. got[r] \in {got[r], Nothing} /\ Nothing \in {got[r], Nothing}
    OBVIOUS
  <2>2. CASE got[r].kind = "ok" /\ Store(got[r], TRUE) /\ Goto(r, "lookup", got[r])
    BY <1>1, <1>2, <1>3, <2>1, <2>2, EndStep DEF EndMiss, AfterPointer
  <2>3. CASE Goto(r, "idle", Nothing) /\ UNCHANGED <<cache, fresh>>
    BY <1>1, <1>2, <1>3, <2>1, <2>3, EndStep DEF EndMiss, AfterPointer
  <2>4. QED
    BY <1>3, <2>2, <2>3 DEF EndMiss
<1>4. ASSUME pc[r] \in {"lookup", "compile"}
      PROVE  KeyOf(r) \in Key /\ CanvasOf(r) \in Canvas
  <2>1. got[r] \in Answer /\ got[r] \in Payload /\ class[r] \in Class
    BY <1>1, <1>4 DEF TaskInv, Answered, TypeOK
  <2>2. got[r].number \in 1..MaxNumber /\ got[r].graph \in Graph
    BY <2>1, BoundAssumption DEF Payload, Answer
  <2>3. QED
    BY <2>1, <2>2 DEF KeyOf, CanvasOf, Key, Canvas
<1>5. ASSUME NEW label \in {"compile", "evaluated"}, pc' = [pc EXCEPT ![r] = label],
             pc[r] \in {"lookup", "compile"}, UNCHANGED <<backend, cache, got>>, TypeOK'
      PROVE  IndInv'
  <2>1. /\ pc'[r] = label /\ got'[r] = got[r]
        /\ \A t \in Task \ {r} : pc'[t] = pc[t] /\ got'[t] = got[t]
    BY <1>1, <1>5 DEF TypeOK
  <2>2. TaskInv(r)'
    BY <1>1, <1>5, <2>1
       DEF backend, TaskInv, Follows, Answered, WasLive, AfterPointer, AfterRow
  <2>3. WasLive(cache)'
    BY <1>1, <1>5 DEF WasLive, backend
  <2>4. QED
    BY <1>5, <2>1, <2>2, <2>3, MoversSuffice
<1>6. CASE Lookup(r)
  <2>1. compiled[KeyOf(r)] \in Canvas \union {NoCanvas}
    BY <1>1, <1>4, <1>6 DEF Lookup, TypeOK
  <2>2. CASE compiled[KeyOf(r)] # NoCanvas /\ Evaluate(r, compiled[KeyOf(r)])
    <3>1. TypeOK'
      BY <1>1, <1>2, <1>6, <2>1, <2>2 DEF Lookup, Evaluate, TypeOK, backend, caches
    <3>2. QED
      BY <1>5, <1>6, <2>2, <3>1 DEF Lookup, Evaluate, caches
  <2>3. CASE pc' = [pc EXCEPT ![r] = "compile"] /\ UNCHANGED used
    <3>1. TypeOK'
      BY <1>1, <1>2, <1>6, <2>3 DEF Lookup, TypeOK, backend, caches
    <3>2. QED
      BY <1>5, <1>6, <2>3, <3>1 DEF Lookup, caches
  <2>4. QED
    BY <1>6, <2>2, <2>3 DEF Lookup
<1>7. CASE Compile(r)
  <2>1. CanvasOf(r) \in Canvas
    BY <1>4, <1>7 DEF Compile
  <2>2. TypeOK'
    BY <1>1, <1>2, <1>7, <2>1 DEF Compile, Evaluate, TypeOK, backend
  <2>3. QED
    BY <1>5, <1>7, <2>2 DEF Compile, Evaluate
<1>8. CASE Respond(r)
  <2>1. pc'[r] = "idle" /\ got'[r] = Nothing
    BY <1>1, <1>8 DEF Respond, Goto, TypeOK
  <2>2. TypeOK'
    BY <1>1, <1>2, <1>8, Refusals DEF Respond, Goto, TypeOK, backend, caches
  <2>3. TaskInv(r)'
    BY <2>1, Refusals DEF TaskInv, Follows, Answered, WasLive, AfterPointer, AfterRow
  <2>4. \A t \in Task \ {r} : pc'[t] = pc[t] /\ got'[t] = got[t]
    BY <1>1, <1>8 DEF Respond, Goto, TypeOK
  <2>5. WasLive(cache)'
    BY <1>1, <1>8 DEF Respond, WasLive, backend, caches
  <2>6. QED
    BY <1>8, <2>2, <2>3, <2>4, <2>5, MoversSuffice DEF Respond
<1>9. QED
  BY <1>1, <1>3, <1>6, <1>7, <1>8, FetchStep DEF RequestStep

\* The guard, the marker and the end of a refresh.
LEMMA RefreshIndInv ==
    ASSUME IndInv, NEW f \in Refresher, RefreshStep(f)
    PROVE  IndInv'
<1>1. TypeOK /\ f \in Task /\ inflight \in BOOLEAN
  BY DEF IndInv, Task, TypeOK
<1>2. {"idle", "mark", "pointer", "unmark"} \subseteq RefresherPC
  BY DEF RefresherPC, Fetching
<1>3. Nothing \in {got[f], Nothing}
  OBVIOUS
<1>4. CASE Guard(f)
  BY <1>1, <1>2, <1>3, <1>4, EndStep DEF Guard, AfterPointer, caches
<1>5. CASE Mark(f)
  BY <1>1, <1>2, <1>3, <1>5, EndStep DEF Mark, AfterPointer
<1>6. CASE EndRefresh(f)
  BY <1>1, <1>2, <1>3, <1>6, EndStep DEF EndRefresh, AfterPointer
<1>7. CASE Unmark(f)
  BY <1>1, <1>2, <1>3, <1>7, EndStep DEF Unmark, AfterPointer
<1>8. QED
  BY <1>1, <1>4, <1>5, <1>6, <1>7, FetchStep DEF RefreshStep

\* Entries of every cache age and go without any task's doing.
LEMMA MemoryIndInv ==
    ASSUME IndInv, Age \/ Evict \/ ExpireMarker \/ \E k \in Key : EvictCompiled(k)
    PROVE  IndInv'
<1>1. TypeOK /\ WasLive(cache)
  BY DEF IndInv
<1>2. UNCHANGED <<backend, tasks>> /\ cache' \in {cache, Nothing}
  BY DEF Age, Evict, ExpireMarker, EvictCompiled, Store
<1>3. fresh' \in BOOLEAN /\ inflight' \in BOOLEAN
  BY <1>1 DEF Age, Evict, ExpireMarker, EvictCompiled, Store, TypeOK
<1>4. compiled' \in [Key -> Canvas \union {NoCanvas}]
  BY <1>1 DEF Age, Evict, ExpireMarker, EvictCompiled, TypeOK
<1>5. TypeOK'
  BY <1>1, <1>2, <1>3, <1>4 DEF TypeOK, backend, tasks
<1>6. WasLive(cache)'
  BY <1>1, <1>2, Refusals DEF WasLive, backend
<1>7. QED
  BY <1>2, <1>5, <1>6, MoversSuffice DEF tasks

-----------------------------------------------------------------------------
(* Steps of the backend leave tasks and caches alone *)

\* What a task has read stays true while history only grows and the rows that
\* tasks read keep their content.
LEMMA ManageSuffices ==
    ASSUME IndInv, TypeOK', PointerNow', RowsHaveContent',
           UNCHANGED <<caches, tasks>>,
           \A i \in DOMAIN history : i \in DOMAIN history' /\ history'[i] = history[i],
           \A t \in Task : pc[t] = "row" /\ Exists(got[t].version)'
               => Exists(got[t].version) /\ content'[got[t].version] = content[got[t].version]
    PROVE  IndInv'
<1>1. TypeOK /\ WasLive(cache)
  BY DEF IndInv
<1>2. WasLive(cache)'
  BY <1>1 DEF WasLive, caches
<1>3. ASSUME NEW t \in Task PROVE TaskInv(t)'
  <2>1. TaskInv(t) /\ pc'[t] = pc[t] /\ got'[t] = got[t]
    BY DEF IndInv, tasks
  <2>2. Answered(t)' /\ WasLive(got[t])'
    BY <2>1 DEF TaskInv, Answered, WasLive
  <2>3. Follows(t)'
    BY <2>1 DEF TaskInv, Follows, Exists, AfterPointer, AfterRow
  <2>4. QED
    BY <2>2, <2>3 DEF TaskInv
<1>4. QED
  BY <1>2, <1>3 DEF IndInv

\* A new version's identifier is in no task's hands; a published version's
\* content becomes the end of history; a deleted version is not the live one.
LEMMA ManageIndInv ==
    ASSUME IndInv, Manage
    PROVE  IndInv'
<1>1. TypeOK /\ PointerNow /\ RowsHaveContent
  BY DEF IndInv
<1>2. PICK v \in VersionId :
          \/ \E g \in Graph : CreateVersion(v, g)
          \/ PublishLive(v) \/ UnpublishLive(v) \/ DeleteVersion(v)
  BY DEF Manage
<1>3. ASSUME NEW c \in Content \union {NoContent}, history' = Append(history, c)
      PROVE  /\ history' \in Seq(Content \union {NoContent}) /\ history' # <<>>
             /\ history'[Len(history')] = c
             /\ \A i \in DOMAIN history : i \in DOMAIN history' /\ history'[i] = history[i]
  BY <1>1, <1>3 DEF TypeOK
<1>4. ASSUME NEW t \in Task, pc[t] = "row"
      PROVE  got[t].version \in VersionId
  BY <1>4 DEF IndInv, TaskInv, Follows, AfterPointer
<1>5. ASSUME NEW g \in Graph, CreateVersion(v, g)
      PROVE  IndInv'
  <2>1. PICK n \in 1..MaxNumber : content' = [content EXCEPT ![v] = [number |-> n, graph |-> g]]
    BY <1>5 DEF CreateVersion
  <2>2. [number |-> n, graph |-> g] \in Content
    BY DEF Content
  <2>3. /\ content' \in [VersionId -> Content \union {NoContent}]
        /\ content'[v] \in Content
        /\ \A w \in VersionId \ {v} : content'[w] = content[w]
    BY <1>1, <2>1, <2>2 DEF TypeOK
  <2>4. /\ status' \in [VersionId -> {"absent", "draft", "live", "prev"}]
        /\ status[v] = "absent" /\ status'[v] = "draft"
        /\ \A w \in VersionId \ {v} : status'[w] = status[w]
    BY <1>1, <1>5 DEF CreateVersion, TypeOK
  <2>5. UNCHANGED <<live, history, caches, tasks>> /\ \A t \in Task : got[t].version # v
    BY <1>5 DEF CreateVersion
  <2>6. TypeOK'
    BY <1>1, <2>3, <2>4, <2>5 DEF TypeOK, caches, tasks
  <2>7. PointerNow'
    BY <1>1, <2>3, <2>4, <2>5 DEF PointerNow, TypeOK
  <2>8. RowsHaveContent'
    BY <1>1, <2>3, <2>4 DEF RowsHaveContent, Exists
  <2>9. \A t \in Task : pc[t] = "row" /\ Exists(got[t].version)'
            => Exists(got[t].version) /\ content'[got[t].version] = content[got[t].version]
    BY <1>4, <2>3, <2>4, <2>5 DEF Exists, tasks
  <2>10. QED
    BY <2>5, <2>6, <2>7, <2>8, <2>9, ManageSuffices
<1>6. ASSUME NEW s \in [VersionId -> {"absent", "draft", "live", "prev"}],
             status' = s, \A w \in VersionId : status[w] = "absent" <=> s[w] = "absent",
             NEW l \in VersionId \union {NoVersion}, live' = l,
             NEW c \in Content \union {NoContent}, history' = Append(history, c),
             l # NoVersion => s[l] = "live" /\ content[l] = c,
             UNCHANGED <<content, caches, tasks>>
      PROVE  IndInv'
  <2>1. TypeOK'
    BY <1>1, <1>3, <1>6 DEF TypeOK, caches, tasks
  <2>2. PointerNow'
    BY <1>3, <1>6 DEF PointerNow
  <2>3. RowsHaveContent'
    BY <1>1, <1>6 DEF RowsHaveContent, Exists
  <2>4. \A t \in Task : pc[t] = "row" /\ Exists(got[t].version)'
            => Exists(got[t].version) /\ content'[got[t].version] = content[got[t].version]
    BY <1>4, <1>6 DEF Exists, tasks
  <2>5. QED
    BY <1>3, <1>6, <2>1, <2>2, <2>3, <2>4, ManageSuffices
<1>7. CASE PublishLive(v)
  <2> DEFINE s == [w \in VersionId |-> IF w = v THEN "live"
                                       ELSE IF status[w] = "live" THEN "prev" ELSE status[w]]
  <2>1. status' = s /\ live' = v /\ history' = Append(history, content[v])
    BY <1>7 DEF PublishLive, Board!TakeOver
  <2>2. /\ s \in [VersionId -> {"absent", "draft", "live", "prev"}]
        /\ \A w \in VersionId : status[w] = "absent" <=> s[w] = "absent"
        /\ s[v] = "live" /\ content[v] \in Content \union {NoContent}
    BY <1>1, <1>7 DEF PublishLive, TypeOK
  <2>3. UNCHANGED <<content, caches, tasks>>
    BY <1>7 DEF PublishLive
  <2>4. QED
    BY <1>6, <2>1, <2>2, <2>3
<1>8. CASE UnpublishLive(v)
  <2> DEFINE s == [status EXCEPT ![v] = "prev"]
  <2>1. status' = s /\ live' = NoVersion /\ history' = Append(history, NoContent)
    BY <1>8 DEF UnpublishLive, Board!StepDown
  <2>2. /\ s \in [VersionId -> {"absent", "draft", "live", "prev"}]
        /\ \A w \in VersionId : status[w] = "absent" <=> s[w] = "absent"
    BY <1>1, <1>8 DEF UnpublishLive, TypeOK
  <2>3. UNCHANGED <<content, caches, tasks>>
    BY <1>8 DEF UnpublishLive
  <2>4. QED
    BY <1>6, <2>1, <2>2, <2>3
<1>9. CASE DeleteVersion(v)
  <2>1. UNCHANGED <<live, history, caches, tasks>> /\ status[v] \in {"draft", "prev"}
    BY <1>9 DEF DeleteVersion
  <2>2. /\ status' \in [VersionId -> {"absent", "draft", "live", "prev"}]
        /\ status'[v] = "absent"
        /\ \A w \in VersionId \ {v} : status'[w] = status[w] /\ content'[w] = content[w]
        /\ content' \in [VersionId -> Content \union {NoContent}]
    BY <1>1, <1>9 DEF DeleteVersion, TypeOK
  <2>3. TypeOK'
    BY <1>1, <2>1, <2>2 DEF TypeOK, caches, tasks
  <2>4. PointerNow'
    BY <1>1, <2>1, <2>2 DEF PointerNow, TypeOK
  <2>5. RowsHaveContent'
    BY <1>1, <2>2 DEF RowsHaveContent, Exists
  <2>6. \A t \in Task : pc[t] = "row" /\ Exists(got[t].version)'
            => Exists(got[t].version) /\ content'[got[t].version] = content[got[t].version]
    BY <1>4, <2>1, <2>2 DEF Exists, tasks
  <2>7. QED
    BY <2>1, <2>3, <2>4, <2>5, <2>6, ManageSuffices
<1>10. QED
  BY <1>2, <1>5, <1>7, <1>8, <1>9

-----------------------------------------------------------------------------
(* Theorems *)

\* Every step keeps the invariant.
LEMMA NextIndInv == IndInv /\ [Next]_vars => IndInv'
<1>1. ASSUME IndInv, UNCHANGED vars PROVE IndInv'
  <2>1. UNCHANGED <<backend, caches, tasks>>
    BY <1>1 DEF vars
  <2>2. TypeOK' /\ WasLive(cache)'
    BY <1>1, <2>1 DEF IndInv, TypeOK, WasLive, backend, caches, tasks
  <2>3. QED
    BY <1>1, <2>1, <2>2, MoversSuffice DEF tasks
<1>2. QED
  BY <1>1, BeginStep, RequestIndInv, RefreshIndInv, MemoryIndInv, ManageIndInv
     DEF Next, Begin

\* The strengthening is inductive: between two reads of a fetch the row read
\* next, while it exists, is the one the pointer named.
THEOREM Inductive == Spec => []IndInv
  BY InitIndInv, NextIndInv, PTL DEF Spec

\* Every variable keeps its type; only complete payloads are cached, and the
\* compiled cache and the evaluations hold canvases of real graphs.
THEOREM PayloadsCorrect == Spec => []TypeOK
<1>1. IndInv => TypeOK
  BY DEF IndInv
<1>2. QED
  BY <1>1, Inductive, PTL

\* Whatever is cached or applied was the live version when its pointer was read.
THEOREM OnlyLiveServed == Spec => []ServedWasLive
<1>1. IndInv => ServedWasLive
  BY DEF IndInv, TaskInv, WasLive, ServedWasLive, Served
<1>2. QED
  BY <1>1, Inductive, PTL

\* No refresh leaves its in-flight marker behind.
THEOREM MarkersOwned == Spec => []MarkerOwned
<1>1. Init => MarkerOwned
  BY DEF Init, MarkerOwned
<1>2. ASSUME IndInv, MarkerOwned, [Next]_vars
      PROVE  MarkerOwned'
  <2> DEFINE Marking(f) == pc[f] \in Fetching \union {"fetched", "unmark"}
  <2>1. TypeOK /\ Request \subseteq Task /\ Refresher \subseteq Task
    BY <1>2 DEF IndInv, Task
  <2>2. ASSUME inflight' => inflight, \A f \in Refresher : Marking(f) => Marking(f)'
        PROVE  MarkerOwned'
    BY <1>2, <2>2 DEF MarkerOwned
  <2>3. ASSUME pc' = pc, inflight' => inflight
        PROVE  MarkerOwned'
    BY <2>2, <2>3
  <2>4. ASSUME NEW t \in Task, Fetch(t)
        PROVE  MarkerOwned'
    <3>1. inflight' = inflight
      BY <2>4 DEF Fetch, ReadPointer, ReadRow, ReadOutcomes, ReadComponents, FetchFails, caches
    <3>2. PICK label \in {"row", "outcomes", "components", "fetched"} :
              pc' = [pc EXCEPT ![t] = label]
      BY <2>4 DEF Fetch, ReadPointer, ReadRow, ReadOutcomes, ReadComponents, FetchFails, Goto
    <3>3. \A f \in Refresher : Marking(f) => Marking(f)'
      BY <2>1, <3>2 DEF TypeOK, Fetching
    <3>4. QED
      BY <2>2, <3>1, <3>3
  <2>5. ASSUME NEW r \in Request, Begin(r) \/ RequestStep(r)
        PROVE  MarkerOwned'
    <3>1. CASE Fetch(r)
      BY <2>1, <2>4, <3>1
    <3>2. CASE Begin(r) \/ EndMiss(r) \/ Lookup(r) \/ Compile(r) \/ Respond(r)
      <4>1. inflight' = inflight
        BY <3>2 DEF Begin, FreshHit, StaleHit, Miss, EndMiss, Lookup, Compile, Respond, caches
      <4>2. ASSUME NEW label, pc' = [pc EXCEPT ![r] = label]
            PROVE  MarkerOwned'
        <5>1. \A f \in Refresher : pc'[f] = pc[f]
          BY <2>1, <4>2, TaskAssumption DEF TypeOK
        <5>2. QED
          BY <2>2, <4>1, <5>1
      <4>3. ASSUME NEW k \in Class, StaleHit(r, k)
            PROVE  MarkerOwned'
        <5>1. PICK f \in Refresher :
                  pc[f] = "idle" /\ pc' = [pc EXCEPT ![r] = "lookup", ![f] = "guard"]
          BY <4>3 DEF StaleHit
        <5>2. ~Marking(f) /\ \A g \in Refresher \ {f} : pc'[g] = pc[g]
          BY <2>1, <5>1, TaskAssumption DEF TypeOK, Fetching
        <5>3. QED
          BY <2>2, <4>1, <5>2
      <4>4. ASSUME NEW k \in Class, FreshHit(r, k) \/ Miss(r, k)
            PROVE  MarkerOwned'
        BY <4>2, <4>4 DEF FreshHit, Miss, Goto
      <4>5. CASE EndMiss(r) \/ Lookup(r) \/ Compile(r) \/ Respond(r)
        BY <4>2, <4>5 DEF EndMiss, Lookup, Compile, Respond, Evaluate, Goto
      <4>6. QED
        BY <3>2, <4>3, <4>4, <4>5 DEF Begin
    <3>3. QED
      BY <2>5, <3>1, <3>2 DEF RequestStep
  <2>6. ASSUME NEW f \in Refresher, RefreshStep(f)
        PROVE  MarkerOwned'
    <3>1. CASE Fetch(f)
      BY <2>1, <2>4, <3>1
    <3>2. CASE Guard(f)
      <4>1. ~Marking(f) /\ \A g \in Refresher \ {f} : pc'[g] = pc[g]
        BY <2>1, <3>2 DEF Guard, Goto, TypeOK, Fetching
      <4>2. QED
        BY <2>2, <3>2, <4>1 DEF Guard, caches
    <3>3. CASE Mark(f)
      <4>1. Marking(f)'
        BY <2>1, <3>3 DEF Mark, Goto, TypeOK, Fetching
      <4>2. QED
        BY <4>1 DEF MarkerOwned
    <3>4. CASE EndRefresh(f)
      <4>1. Marking(f)' /\ \A g \in Refresher \ {f} : pc'[g] = pc[g]
        BY <2>1, <3>4 DEF EndRefresh, Goto, TypeOK
      <4>2. QED
        BY <2>2, <3>4, <4>1 DEF EndRefresh
    <3>5. CASE Unmark(f)
      BY <3>5 DEF Unmark, MarkerOwned
    <3>6. QED
      BY <2>6, <3>1, <3>2, <3>3, <3>4, <3>5 DEF RefreshStep
  <2>7. CASE Manage \/ Age \/ Evict \/ (\E k \in Key : EvictCompiled(k)) \/ UNCHANGED vars
    <3>1. pc' = pc /\ inflight' = inflight
      BY <2>7 DEF Manage, CreateVersion, PublishLive, UnpublishLive, DeleteVersion,
                  Age, Evict, EvictCompiled, vars, caches, tasks
    <3>2. QED
      BY <2>3, <3>1
  <2>8. CASE ExpireMarker
    BY <2>8 DEF ExpireMarker, MarkerOwned
  <2>9. QED
    BY <1>2, <2>5, <2>6, <2>7, <2>8 DEF Next
<1>3. QED
  BY <1>1, <1>2, Inductive, PTL DEF Spec

-----------------------------------------------------------------------------
(* Without deletions a number names one graph for ever *)

Names(n, g) == \E v \in VersionId : Exists(v) /\ content[v] = [number |-> n, graph |-> g]

UniqueNumbers ==
    \A v, w \in VersionId :
        Exists(v) /\ Exists(w) /\ content[v].number = content[w].number => v = w

\* Whatever was live is still there, and so is whatever was compiled.
HistoryKept ==
    \A i \in DOMAIN history :
        history[i].number # 0 => Names(history[i].number, history[i].graph)

CompiledKept ==
    \A n \in 1..MaxNumber, k \in Class :
        compiled[<<n, k>>] # NoCanvas
            => \E g \in Graph : compiled[<<n, k>>] = <<g, k>> /\ Names(n, g)

CanvasInv == UniqueNumbers /\ HistoryKept /\ CompiledKept /\ EvaluatesItsCanvas

\* A number that names two graphs would belong to two versions.
LEMMA NamesOne ==
    ASSUME UniqueNumbers, NEW n, NEW g, NEW h, Names(n, g), Names(n, h)
    PROVE  g = h
<1>1. PICK v \in VersionId : Exists(v) /\ content[v] = [number |-> n, graph |-> g]
  BY DEF Names
<1>2. PICK w \in VersionId : Exists(w) /\ content[w] = [number |-> n, graph |-> h]
  BY DEF Names
<1>3. content[v].number = content[w].number
  BY <1>1, <1>2
<1>4. v = w
  BY <1>1, <1>2, <1>3 DEF UniqueNumbers
<1>5. QED
  BY <1>1, <1>2, <1>4

\* The graph of a payload in a task's hands is the one its number names.
LEMMA PayloadNamed ==
    ASSUME IndInv, HistoryKept, NEW t \in Task, got[t].kind = "ok"
    PROVE  /\ got[t].number \in 1..MaxNumber /\ got[t].graph \in Graph
           /\ Names(got[t].number, got[t].graph)
<1>1. got[t] \in Payload /\ WasLive(got[t])
  BY DEF IndInv, TaskInv, Answered
<1>2. got[t].number \in 1..MaxNumber /\ got[t].graph \in Graph
  BY <1>1, BoundAssumption DEF Payload, Answer
<1>3. PICK i \in DOMAIN history :
          history[i] = [number |-> got[t].number, graph |-> got[t].graph]
  BY <1>1 DEF WasLive
<1>4. history[i].number = got[t].number /\ history[i].graph = got[t].graph
  BY <1>3
<1>5. QED
  BY <1>2, <1>4, BoundAssumption DEF HistoryKept

\* Rows come with a new number and never go.
LEMMA RowsStay ==
    ASSUME "delete" \notin Hazards, IndInv, UniqueNumbers, HistoryKept, [Next]_vars
    PROVE  /\ \A v \in VersionId : Exists(v) => Exists(v)' /\ content'[v] = content[v]
           /\ UniqueNumbers' /\ HistoryKept'
<1>1. TypeOK /\ RowsHaveContent
  BY DEF IndInv
<1> DEFINE Stays == \A v \in VersionId : Exists(v) => Exists(v)' /\ content'[v] = content[v]
<1>2. ASSUME Stays, NEW n, NEW g, Names(n, g)
      PROVE  Names(n, g)'
  BY <1>2 DEF Names
<1>3. ASSUME Stays, history' = history
      PROVE  HistoryKept'
  BY <1>2, <1>3 DEF HistoryKept
<1>4. CASE UNCHANGED backend
  <2>1. Stays
    BY <1>4 DEF backend, Exists
  <2>2. UniqueNumbers'
    BY <1>4 DEF backend, Exists, UniqueNumbers
  <2>3. QED
    BY <1>3, <1>4, <2>1, <2>2 DEF backend
<1>5. ASSUME NEW v \in VersionId, NEW g \in Graph, CreateVersion(v, g)
      PROVE  Stays /\ UniqueNumbers' /\ HistoryKept'
  <2>1. PICK n \in 1..MaxNumber :
            /\ IsNextNumber(n)
            /\ content' = [content EXCEPT ![v] = [number |-> n, graph |-> g]]
    BY <1>5 DEF CreateVersion
  <2>2. /\ status[v] = "absent" /\ history' = history
        /\ \A w \in VersionId \ {v} : status'[w] = status[w] /\ content'[w] = content[w]
        /\ content'[v].number = n
    BY <1>1, <1>5, <2>1 DEF CreateVersion, TypeOK
  <2>3. Stays
    BY <2>2 DEF Exists
  <2>4. \A w \in VersionId \ {v} : content'[w].number # n
    <3>1. \A w \in VersionId : content[w].number < n /\ content[w].number \in Nat
      BY <1>1, <2>1, BoundAssumption DEF IsNextNumber, TypeOK, Content, NoContent
    <3>2. QED
      BY <2>2, <3>1
  <2>5. UniqueNumbers'
    BY <2>2, <2>4 DEF UniqueNumbers, Exists
  <2>6. QED
    BY <1>3, <2>2, <2>3, <2>5
<1>6. ASSUME NEW c, history' = Append(history, c), content' = content,
             c.number # 0 => Names(c.number, c.graph),
             \A w \in VersionId : status[w] = "absent" <=> status'[w] = "absent"
      PROVE  Stays /\ UniqueNumbers' /\ HistoryKept'
  <2>1. Stays /\ UniqueNumbers'
    BY <1>6 DEF Exists, UniqueNumbers
  <2>2. ASSUME NEW i \in DOMAIN history'
        PROVE  (i \in DOMAIN history /\ history'[i] = history[i]) \/ history'[i] = c
    BY <1>1, <1>6, <2>2 DEF TypeOK
  <2>3. HistoryKept'
    BY <1>2, <1>6, <2>1, <2>2 DEF HistoryKept
  <2>4. QED
    BY <2>1, <2>3
<1>7. ASSUME NEW v \in VersionId, PublishLive(v)
      PROVE  Stays /\ UniqueNumbers' /\ HistoryKept'
  <2>1. Exists(v) /\ content[v] \in Content
    BY <1>1, <1>7 DEF PublishLive, Exists, RowsHaveContent
  <2>2. Names(content[v].number, content[v].graph)
    BY <2>1, ContentRecord DEF Names
  <2>3. \A w \in VersionId : status[w] = "absent" <=> status'[w] = "absent"
    BY <1>1, <1>7 DEF PublishLive, Board!TakeOver, TypeOK
  <2>4. QED
    BY <1>6, <1>7, <2>2, <2>3 DEF PublishLive
<1>8. ASSUME NEW v \in VersionId, UnpublishLive(v)
      PROVE  Stays /\ UniqueNumbers' /\ HistoryKept'
  <2>1. NoContent.number = 0
    BY DEF NoContent
  <2>2. \A w \in VersionId : status[w] = "absent" <=> status'[w] = "absent"
    BY <1>1, <1>8 DEF UnpublishLive, Board!StepDown, TypeOK
  <2>3. QED
    BY <1>6, <1>8, <2>1, <2>2 DEF UnpublishLive
<1>9. CASE Manage
  BY <1>5, <1>7, <1>8, <1>9 DEF Manage, DeleteVersion
<1>10. CASE \E r \in Request : Begin(r) \/ RequestStep(r)
  BY <1>4, <1>10 DEF Begin, FreshHit, StaleHit, Miss, RequestStep, EndMiss, Lookup, Compile,
     Respond, Fetch, ReadPointer, ReadRow, ReadOutcomes, ReadComponents, FetchFails
<1>11. CASE \E f \in Refresher : RefreshStep(f)
  BY <1>4, <1>11 DEF RefreshStep, Guard, Mark, EndRefresh, Unmark,
     Fetch, ReadPointer, ReadRow, ReadOutcomes, ReadComponents, FetchFails
<1>12. CASE Age \/ Evict \/ ExpireMarker \/ (\E k \in Key : EvictCompiled(k)) \/ UNCHANGED vars
  BY <1>4, <1>12 DEF Age, Evict, ExpireMarker, EvictCompiled, vars
<1>13. QED
  BY <1>9, <1>10, <1>11, <1>12 DEF Next

\* A compilation adds the graph its number names; a lookup finds it.
LEMMA CanvasStep ==
    ASSUME "delete" \notin Hazards, IndInv, CanvasInv, [Next]_vars
    PROVE  CanvasInv'
<1>1. TypeOK /\ Request \subseteq Task
  BY DEF IndInv, Task
<1>2. /\ \A v \in VersionId : Exists(v) => Exists(v)' /\ content'[v] = content[v]
      /\ UniqueNumbers' /\ HistoryKept'
  BY RowsStay DEF CanvasInv
<1>3. ASSUME NEW n, NEW g, Names(n, g)
      PROVE  Names(n, g)'
  BY <1>2, <1>3 DEF Names
<1>4. ASSUME \A key \in Key : compiled'[key] \in {compiled[key], NoCanvas}
      PROVE  CompiledKept'
  <2>1. ASSUME NEW n \in 1..MaxNumber, NEW k \in Class, compiled'[<<n, k>>] # NoCanvas
        PROVE  \E g \in Graph : compiled'[<<n, k>>] = <<g, k>> /\ Names(n, g)'
    <3>1. compiled'[<<n, k>>] = compiled[<<n, k>>]
      BY <1>4, <2>1 DEF Key
    <3>2. PICK g \in Graph : compiled[<<n, k>>] = <<g, k>> /\ Names(n, g)
      BY <2>1, <3>1 DEF CanvasInv, CompiledKept
    <3>3. QED
      BY <1>3, <3>1, <3>2
  <2>2. QED
    BY <2>1 DEF CompiledKept
<1>5. ASSUME \A r \in Request :
                pc'[r] # "evaluated" \/ UNCHANGED <<pc[r], got[r], class[r], used[r]>>
      PROVE  EvaluatesItsCanvas'
  BY <1>5 DEF CanvasInv, EvaluatesItsCanvas, CanvasOf
<1>6. ASSUME NEW r \in Request, pc[r] \in {"lookup", "compile"}
      PROVE  /\ got[r].number \in 1..MaxNumber /\ got[r].graph \in Graph /\ class[r] \in Class
             /\ KeyOf(r) = <<got[r].number, class[r]>> /\ KeyOf(r) \in Key
             /\ Names(got[r].number, got[r].graph)
  <2>1. got[r].kind = "ok" /\ class[r] \in Class
    BY <1>1, <1>6 DEF IndInv, TaskInv, Answered, TypeOK
  <2>2. got[r].number \in 1..MaxNumber /\ got[r].graph \in Graph
        /\ Names(got[r].number, got[r].graph)
    BY <1>1, <2>1, PayloadNamed DEF CanvasInv
  <2>3. QED
    BY <2>1, <2>2 DEF KeyOf, Key
<1>7. ASSUME NEW r \in Request, pc[r] \in {"lookup", "compile"},
             Evaluate(r, CanvasOf(r)), UNCHANGED <<got, class>>
      PROVE  EvaluatesItsCanvas'
  <2>1. used'[r] = CanvasOf(r) /\ CanvasOf(r)' = CanvasOf(r)
    BY <1>1, <1>7 DEF Evaluate, TypeOK, CanvasOf
  <2>2. \A q \in Request \ {r} : pc'[q] = pc[q] /\ used'[q] = used[q]
    BY <1>1, <1>7 DEF Evaluate, TypeOK
  <2>3. QED
    BY <1>7, <2>1, <2>2 DEF CanvasInv, EvaluatesItsCanvas, CanvasOf
<1>8. ASSUME NEW r \in Request, Lookup(r)
      PROVE  CanvasInv'
  <2>1. CompiledKept'
    BY <1>4, <1>8 DEF Lookup, caches
  <2>2. CASE compiled[KeyOf(r)] # NoCanvas /\ Evaluate(r, compiled[KeyOf(r)])
    <3>1. PICK g \in Graph : compiled[KeyOf(r)] = <<g, class[r]>> /\ Names(got[r].number, g)
      BY <1>6, <1>8, <2>2 DEF Lookup, CanvasInv, CompiledKept
    <3>2. g = got[r].graph
      BY <1>6, <1>8, <3>1, NamesOne DEF Lookup, CanvasInv
    <3>3. compiled[KeyOf(r)] = CanvasOf(r)
      BY <3>1, <3>2 DEF CanvasOf
    <3>4. QED
      BY <1>2, <1>7, <1>8, <2>1, <2>2, <3>3 DEF Lookup, CanvasInv
  <2>3. CASE pc' = [pc EXCEPT ![r] = "compile"] /\ UNCHANGED used
    <3>1. \A q \in Request : pc'[q] # "evaluated" \/ pc'[q] = pc[q]
      BY <1>1, <2>3 DEF TypeOK
    <3>2. EvaluatesItsCanvas'
      BY <1>5, <1>8, <2>3, <3>1 DEF Lookup
    <3>3. QED
      BY <1>2, <2>1, <3>2 DEF CanvasInv
  <2>4. QED
    BY <1>8, <2>2, <2>3 DEF Lookup
<1>9. ASSUME NEW r \in Request, Compile(r)
      PROVE  CanvasInv'
  <2>1. /\ pc[r] = "compile" /\ KeyOf(r) = <<got[r].number, class[r]>>
        /\ compiled' = [compiled EXCEPT ![KeyOf(r)] = <<got[r].graph, class[r]>>]
    BY <1>6, <1>9 DEF Compile, CanvasOf
  <2>2. ASSUME NEW n \in 1..MaxNumber, NEW k \in Class, compiled'[<<n, k>>] # NoCanvas
        PROVE  \E g \in Graph : compiled'[<<n, k>>] = <<g, k>> /\ Names(n, g)'
    <3>1. <<n, k>> \in Key
      BY DEF Key
    <3>2. CASE <<n, k>> = KeyOf(r)
      <4>1. n = got[r].number /\ k = class[r]
        BY <2>1, <3>2
      <4>2. compiled'[<<n, k>>] = <<got[r].graph, k>>
        BY <1>1, <2>1, <3>1, <3>2, <4>1 DEF TypeOK
      <4>3. got[r].graph \in Graph /\ Names(n, got[r].graph)
        BY <1>6, <2>1, <4>1
      <4>4. Names(n, got[r].graph)'
        <5> DEFINE g == got[r].graph
        <5>1. Names(n, g)
          BY <4>3
        <5>2. PICK v \in VersionId : Exists(v) /\ content[v] = [number |-> n, graph |-> g]
          BY <5>1 DEF Names
        <5>3. Exists(v)' /\ content'[v] = [number |-> n, graph |-> g]
          BY <1>2, <5>2
        <5>4. got' = got
          BY <1>9 DEF Compile
        <5>5. QED
          BY <5>3, <5>4 DEF Names
      <4>5. QED
        BY <1>9, <4>2, <4>3, <4>4 DEF Compile
    <3>3. CASE <<n, k>> # KeyOf(r)
      <4>1. compiled'[<<n, k>>] = compiled[<<n, k>>]
        BY <1>1, <2>1, <3>1, <3>3 DEF TypeOK
      <4>2. PICK g \in Graph : compiled[<<n, k>>] = <<g, k>> /\ Names(n, g)
        BY <2>2, <4>1 DEF CanvasInv, CompiledKept
      <4>3. QED
        BY <1>3, <4>1, <4>2
    <3>4. QED
      BY <3>2, <3>3
  <2>3. CompiledKept'
    BY <2>2 DEF CompiledKept
  <2>4. EvaluatesItsCanvas'
    BY <1>7, <1>9 DEF Compile
  <2>5. QED
    BY <1>2, <2>3, <2>4 DEF CanvasInv
<1>10. ASSUME compiled' = compiled,
              \A r \in Request :
                 pc'[r] # "evaluated" \/ UNCHANGED <<pc[r], got[r], class[r], used[r]>>
       PROVE  CanvasInv'
  BY <1>2, <1>4, <1>5, <1>10 DEF CanvasInv
<1>11. ASSUME NEW t \in Task, Fetch(t)
       PROVE  CanvasInv'
  <2>1. UNCHANGED <<caches, class, used>>
    BY <1>11 DEF Fetch, ReadPointer, ReadRow, ReadOutcomes, ReadComponents, FetchFails
  <2>2. PICK label \in {"row", "outcomes", "components", "fetched"} :
            pc' = [pc EXCEPT ![t] = label] /\ got' = [got EXCEPT ![t] = got'[t]]
    BY <1>1, <1>11
       DEF Fetch, ReadPointer, ReadRow, ReadOutcomes, ReadComponents, FetchFails, Goto, TypeOK
  <2>3. \A r \in Request : pc'[r] # "evaluated" \/ (pc'[r] = pc[r] /\ got'[r] = got[r])
    BY <1>1, <2>2 DEF TypeOK
  <2>4. QED
    BY <1>10, <2>1, <2>3 DEF caches
<1>12. ASSUME NEW r \in Request, Begin(r)
       PROVE  CanvasInv'
  <2>1. PICK k \in Class : FreshHit(r, k) \/ StaleHit(r, k) \/ Miss(r, k)
    BY <1>12 DEF Begin
  <2>2. UNCHANGED <<caches, used>> /\ class' = [class EXCEPT ![r] = k]
    BY <2>1 DEF FreshHit, StaleHit, Miss, Arrive
  <2>3. /\ pc'[r] # "evaluated"
        /\ \A q \in Request \ {r} : pc'[q] = pc[q] /\ got'[q] = got[q]
    <3>1. CASE FreshHit(r, k) \/ Miss(r, k)
      BY <1>1, <3>1 DEF FreshHit, Miss, Goto, TypeOK
    <3>2. CASE StaleHit(r, k)
      <4>1. PICK f \in Refresher : pc' = [pc EXCEPT ![r] = "lookup", ![f] = "guard"]
        BY <3>2 DEF StaleHit
      <4>2. f \notin Request
        BY TaskAssumption
      <4>3. QED
        BY <1>1, <3>2, <4>1, <4>2 DEF StaleHit, TypeOK
    <3>3. QED
      BY <2>1, <3>1, <3>2
  <2>4. \A q \in Request \ {r} : class'[q] = class[q]
    BY <1>1, <2>2 DEF TypeOK
  <2>5. QED
    BY <1>10, <2>2, <2>3, <2>4 DEF caches
<1>13. ASSUME NEW r \in Request, EndMiss(r)
       PROVE  CanvasInv'
  <2>1. /\ pc'[r] # "evaluated"
        /\ \A q \in Request \ {r} : pc'[q] = pc[q] /\ got'[q] = got[q]
    BY <1>1, <1>13 DEF EndMiss, Goto, TypeOK
  <2>2. QED
    BY <1>10, <1>13, <2>1 DEF EndMiss
<1>14. ASSUME NEW r \in Request, Respond(r)
       PROVE  CanvasInv'
  <2>1. /\ pc'[r] # "evaluated"
        /\ \A q \in Request \ {r} : pc'[q] = pc[q] /\ got'[q] = got[q] /\ used'[q] = used[q]
    BY <1>1, <1>14 DEF Respond, Goto, TypeOK
  <2>2. QED
    BY <1>10, <1>14, <2>1 DEF Respond, caches
<1>15. ASSUME NEW f \in Refresher, RefreshStep(f)
       PROVE  CanvasInv'
  <2>1. CASE Fetch(f)
    BY <1>11, <2>1 DEF Task
  <2>2. CASE Guard(f) \/ Mark(f) \/ EndRefresh(f) \/ Unmark(f)
    <3>1. UNCHANGED <<compiled, class, used>>
      BY <2>2 DEF Guard, Mark, EndRefresh, Unmark, caches
    <3>2. \A r \in Request : pc'[r] = pc[r] /\ got'[r] = got[r]
      BY <1>1, <2>2, TaskAssumption DEF Guard, Mark, EndRefresh, Unmark, Goto, TypeOK
    <3>3. QED
      BY <1>10, <3>1, <3>2
  <2>3. QED
    BY <1>15, <2>1, <2>2 DEF RefreshStep
<1>16. ASSUME UNCHANGED tasks, \A key \in Key : compiled'[key] \in {compiled[key], NoCanvas}
       PROVE  CanvasInv'
  BY <1>2, <1>4, <1>5, <1>16 DEF CanvasInv, tasks
<1>17. CASE Manage \/ Age \/ Evict \/ ExpireMarker \/ UNCHANGED vars
  <2>1. UNCHANGED tasks /\ compiled' = compiled
    BY <1>17 DEF Manage, CreateVersion, PublishLive, UnpublishLive, DeleteVersion,
                 Age, Evict, ExpireMarker, vars, caches
  <2>2. QED
    BY <1>16, <2>1
<1>18. ASSUME NEW key \in Key, EvictCompiled(key)
       PROVE  CanvasInv'
  BY <1>1, <1>16, <1>18 DEF EvictCompiled, TypeOK
<1>19. ASSUME NEW r \in Request, RequestStep(r)
       PROVE  CanvasInv'
  BY <1>1, <1>8, <1>9, <1>11, <1>13, <1>14, <1>19 DEF RequestStep
<1>20. QED
  BY <1>12, <1>15, <1>17, <1>18, <1>19 DEF Next

\* While no version is deleted, a request evaluates the canvas of the graph it
\* was served, whatever was compiled, evicted or compiled twice before.
THEOREM CanvasesEvaluated ==
    ASSUME "delete" \notin Hazards
    PROVE  Spec => []EvaluatesItsCanvas
<1>1. Init => CanvasInv
  <2> SUFFICES ASSUME Init PROVE CanvasInv
    OBVIOUS
  <2>1. UniqueNumbers
    BY DEF Init, UniqueNumbers, Exists
  <2>2. HistoryKept
    <3>1. \A i \in DOMAIN history : history[i] = NoContent
      BY DEF Init
    <3>2. NoContent.number = 0
      BY DEF NoContent
    <3>3. QED
      BY <3>1, <3>2 DEF HistoryKept
  <2>3. CompiledKept
    BY DEF Init, CompiledKept, Key
  <2>4. EvaluatesItsCanvas
    BY DEF Init, EvaluatesItsCanvas, Task
  <2>5. QED
    BY <2>1, <2>2, <2>3, <2>4 DEF CanvasInv
<1>2. IndInv /\ CanvasInv /\ [Next]_vars => CanvasInv'
  BY CanvasStep
<1>3. CanvasInv => EvaluatesItsCanvas
  BY DEF CanvasInv
<1>4. QED
  BY <1>1, <1>2, <1>3, Inductive, PTL DEF Spec

=============================================================================
