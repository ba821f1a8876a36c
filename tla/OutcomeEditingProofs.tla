------------------------ MODULE OutcomeEditingProofs ------------------------
(***************************************************************************)
(* Proofs about OutcomeEditing for every set of clients and requests.      *)
(* IndInv adds to TypeOK what the rows are, that there are finitely many   *)
(* components, and what a client that waits for the version's lock has     *)
(* read; it is inductive on its own.                                       *)
(***************************************************************************)
EXTENDS OutcomeEditing, CommonLemmas, FiniteSetTheorems, TLAPS

\* The configs clients send for components.
Configs == UNION {req.config : req \in {r \in Requests : r.op \in {"add_component", "update_component"}}}

OutcomeRows == [id : 1..next, title : 1..MaxTitle, builtin : BOOLEAN, order : OrderIndex,
                created : Nat]
ComponentRows == [id : 1..next, outcome : 1..next, type : Types, config : Configs,
                  order : OrderIndex, created : Nat]

Counters ==
    /\ status \in {"DRAFT", "LIVE", "deleted"}
    /\ next \in Nat \ {0}
    /\ clock \in Nat

RowsTyped ==
    /\ outcomes \subseteq OutcomeRows
    /\ components \subseteq ComponentRows
    /\ IsFiniteSet(components)

\* A foreign key of a component, and the primary keys.
Owned == \A row \in components : With(outcomes, row.outcome) # {}
Distinct == \A a, b \in outcomes \union components : a.id = b.id => a = b

\* A client that waits: the request it has sent, when its transaction began and
\* the row it read.
Waits(c) ==
    pc[c] # Idle =>
        /\ pc[c].req \in Requests
        /\ pc[c].at \in 1..clock
        /\ pc[c].req.op = "clone" => pc[c].seen.title \in 1..MaxTitle
        /\ pc[c].req.op = "add_component" =>
              ~ConfigError(Given(pc[c].req.type), Given(pc[c].req.config))

Handlers ==
    /\ pc = [c \in Clients |-> pc[c]]
    /\ answer = [c \in Clients |-> answer[c]]
    /\ \A c \in Clients : Waits(c)

IndInv == Counters /\ RowsTyped /\ Owned /\ Distinct /\ Handlers

USE BoundsAssumption DEF BoundsAssumption

-----------------------------------------------------------------------------
(* What the operators of the model return *)

\* A version starts with its builtin outcome and nobody waiting.
LEMMA InitIndInv == Init => IndInv
<1> SUFFICES ASSUME Init PROVE IndInv
  OBVIOUS
<1>1. IsFiniteSet(components)
  BY FS_EmptySet DEF Init
<1>2. OutcomeRow(1, 1, TRUE, 0, 0) \in OutcomeRows
  BY DEF Init, OutcomeRow, OutcomeRows, OrderIndex
<1>3. Handlers
  BY DEF Init, Handlers, Waits
<1>4. QED
  BY <1>1, <1>2, <1>3 DEF Init, IndInv, Counters, RowsTyped, Owned, Distinct, OutcomeRow

\* An optional value that is given replaces the old one.
LEMMA CoalesceIn ==
    ASSUME NEW S, NEW new \in SUBSET S, NEW old \in S
    PROVE  Coalesce(new, old) \in S
BY DEF Coalesce

\* A patched row is a row, under its id.
LEMMA PatchedOutcome ==
    ASSUME NEW o \in OutcomeRows, NEW req,
           req.title \in SUBSET (1..MaxTitle), req.order \in SUBSET OrderIndex
    PROVE  /\ Patched(o, req, {"title", "order"}) \in OutcomeRows
           /\ Patched(o, req, {"title", "order"}).id = o.id
<1> DEFINE p == Patched(o, req, {"title", "order"})
<1>1. DOMAIN o = {"id", "title", "builtin", "order", "created"}
  BY DEF OutcomeRows
<1>2. p = [id |-> o.id, title |-> Coalesce(req.title, o.title), builtin |-> o.builtin,
           order |-> Coalesce(req.order, o.order), created |-> o.created]
  BY <1>1 DEF Patched
<1>3. Coalesce(req.title, o.title) \in 1..MaxTitle /\ Coalesce(req.order, o.order) \in OrderIndex
  BY CoalesceIn DEF OutcomeRows
<1>4. QED
  BY <1>2, <1>3 DEF OutcomeRows

LEMMA PatchedComponent ==
    ASSUME NEW row \in ComponentRows, NEW req \in Requests, req.op = "update_component",
           req.type \in SUBSET Types, req.order \in SUBSET OrderIndex
    PROVE  LET p == Patched(row, req, {"type", "config", "order"}) IN
           p \in ComponentRows /\ p.id = row.id /\ p.outcome = row.outcome
<1> DEFINE p == Patched(row, req, {"type", "config", "order"})
<1>1. DOMAIN row = {"id", "outcome", "type", "config", "order", "created"}
  BY DEF ComponentRows
<1>2. p = [id |-> row.id, outcome |-> row.outcome, type |-> Coalesce(req.type, row.type),
           config |-> Coalesce(req.config, row.config),
           order |-> Coalesce(req.order, row.order), created |-> row.created]
  BY <1>1 DEF Patched
<1>3. req.config \in SUBSET Configs
  BY DEF Configs
<1>4. /\ Coalesce(req.type, row.type) \in Types
      /\ Coalesce(req.config, row.config) \in Configs
      /\ Coalesce(req.order, row.order) \in OrderIndex
  BY <1>3, CoalesceIn DEF ComponentRows
<1>5. QED
  BY <1>2, <1>4 DEF ComponentRows

\* Below the limit the next order is behind all the others.
LEMMA NextOrderType ==
    ASSUME NEW S, \A row \in S : row.order \in OrderIndex
    PROVE  /\ NextOrder(S) \in OrderIndex
           /\ (\A row \in S : row.order < MaxInt) => \A row \in S : row.order < NextOrder(S)
<1> DEFINE orders == {row.order : row \in S}
<1>1. CASE S = {}
  BY <1>1 DEF NextOrder, OrderIndex
<1>2. CASE S # {}
  <2>1. Max(orders) \in orders /\ \A n \in orders : n <= Max(orders)
    <3>1. -MaxInt - 1 \in Int /\ MaxInt \in Int /\ orders \subseteq -MaxInt - 1..MaxInt
      BY DEF OrderIndex
    <3> HIDE DEF orders
    <3>2. orders # {} => Max(orders) \in orders /\ \A n \in orders : n <= Max(orders)
      BY <3>1, BoundedMax
    <3>3. orders # {}
      BY <1>2 DEF orders
    <3>4. QED
      BY <3>2, <3>3
  <2>2. NextOrder(S) = Succ(Max(orders))
    BY <1>2 DEF NextOrder
  <2>3. PICK last \in S : Max(orders) = last.order
    BY <2>1
  <2>4. /\ last.order \in Int /\ last.order >= -MaxInt - 1 /\ last.order <= MaxInt
        /\ \A row \in S : row.order \in Int /\ row.order <= last.order
    BY <2>1, <2>3 DEF OrderIndex
  <2>5. QED
    BY <2>2, <2>3, <2>4 DEF Succ, OrderIndex
<1>3. QED
  BY <1>1, <1>2

-----------------------------------------------------------------------------
(* Each step preserves the invariant *)

\* The answer of a request leaves the others waiting as they were.
LEMMA ReplyHandlers ==
    ASSUME Handlers, NEW c \in Clients, NEW code, NEW id, Reply(c, code, id), clock' = clock
    PROVE  Handlers'
<1>1. /\ pc' = [d \in Clients |-> IF d = c THEN Idle ELSE pc[d]]
      /\ answer' = [d \in Clients |-> IF d = c THEN [code |-> code, id |-> id] ELSE answer[d]]
  BY DEF Handlers, Reply
<1>2. QED
  BY <1>1 DEF Handlers, Waits

\* A component whose config is not valid never waits for the lock.
LEMMA AnsweredEarly ==
    ASSUME NEW req, req.op = "add_component", EarlyAnswer(req) = 0
    PROVE  ~ConfigError(Given(req.type), Given(req.config))
BY DEF EarlyAnswer

\* A request that is answered at once, or waits for the lock from here on.
LEMMA BeginStep ==
    ASSUME IndInv, NEW c \in Clients, Begin(c)
    PROVE  IndInv'
<1> DEFINE waiting(req, seen) == [req |-> req, seen |-> seen, at |-> clock + 1, status |-> status]
           answered(req) == pc' = pc /\ answer' = [answer EXCEPT ![c] = Answer(EarlyAnswer(req))]
           waits(req, seen) == /\ pc' = [pc EXCEPT ![c] = waiting(req, seen)]
                               /\ answer' = [answer EXCEPT ![c] = NoAnswer]
<1>1. PICK req \in Requests :
          answered(req) \/ (EarlyAnswer(req) = 0 /\ \E seen \in Named(req) : waits(req, seen))
  BY DEF Begin
<1>2. UNCHANGED <<status, rows, next>> /\ clock' = clock + 1
  BY DEF Begin
<1>3. Counters' /\ RowsTyped' /\ Owned' /\ Distinct'
  BY <1>2 DEF IndInv, Counters, RowsTyped, Owned, Distinct, OutcomeRows, ComponentRows, rows, With
<1>4. CASE answered(req)
  <2>1. answer' = [d \in Clients |-> IF d = c THEN Answer(EarlyAnswer(req)) ELSE answer[d]]
    BY <1>4 DEF IndInv, Handlers
  <2>2. ASSUME NEW d \in Clients PROVE Waits(d)'
    BY <1>2, <1>4 DEF Waits, IndInv, Counters, Handlers
  <2>3. Handlers'
    BY <1>4, <2>1, <2>2 DEF IndInv, Handlers
  <2>4. QED
    BY <1>3, <2>3 DEF IndInv
<1>5. ASSUME EarlyAnswer(req) = 0, NEW seen \in Named(req), waits(req, seen)
      PROVE  IndInv'
  <2>1. pc' = [d \in Clients |-> IF d = c THEN waiting(req, seen) ELSE pc[d]]
        /\ answer' = [d \in Clients |-> IF d = c THEN NoAnswer ELSE answer[d]]
    BY <1>5 DEF IndInv, Handlers
  <2>2. req.op = "clone" => seen.title \in 1..MaxTitle
    BY <1>5 DEF Named, IsComponentOp, With, IndInv, RowsTyped, OutcomeRows
  <2>3. req.op = "add_component" => ~ConfigError(Given(req.type), Given(req.config))
    BY <1>5, AnsweredEarly
  <2>4. Waits(c)'
    BY <1>2, <2>1, <2>2, <2>3 DEF Waits, IndInv, Counters
  <2>5. ASSUME NEW d \in Clients \ {c} PROVE Waits(d)'
    BY <1>2, <2>1 DEF Waits, IndInv, Counters, Handlers
  <2>6. Handlers'
    BY <2>1, <2>4, <2>5 DEF Handlers
  <2>7. QED
    BY <1>3, <2>6 DEF IndInv
<1>6. QED
  BY <1>1, <1>4, <1>5

\* A step that writes no row.
LEMMA NoWrite ==
    ASSUME IndInv, NEW c \in Clients, NEW code, NEW id, Reply(c, code, id),
           UNCHANGED <<status, rows, next, clock>>
    PROVE  IndInv'
<1>1. Handlers'
  BY ReplyHandlers DEF IndInv
<1>2. QED
  BY <1>1 DEF IndInv, Counters, RowsTyped, Owned, Distinct, OutcomeRows, ComponentRows, rows, With

\* What a waiting client has sent.
LEMMA LockedRequest ==
    ASSUME IndInv, NEW c \in Clients, NEW op, Locked(c, op)
    PROVE  /\ pc[c].req \in Requests
           /\ op = "add_component" => ~ConfigError(Given(pc[c].req.type), Given(pc[c].req.config))
           /\ pc[c].req.op = op
           /\ pc[c].at \in Nat
           /\ op = "clone" => pc[c].seen.title \in 1..MaxTitle
BY DEF IndInv, Handlers, Waits, Locked, Counters

\* Rows are rows when more ids are in use.
LEMMA RowsGrow ==
    ASSUME IndInv, 1..next \subseteq 1..next'
    PROVE  outcomes \subseteq OutcomeRows' /\ components \subseteq ComponentRows'
BY DEF IndInv, RowsTyped, OutcomeRows, ComponentRows

\* A new outcome is appended under an id nobody uses.
LEMMA NewOutcome ==
    ASSUME IndInv, NEW title \in 1..MaxTitle, NEW at \in Nat, next' \in Nat, next' > next,
           NEW new, new = OutcomeRow(next + 1, title, FALSE, NextOrder(outcomes), at)
    PROVE  /\ outcomes \union {new} \subseteq OutcomeRows'
           /\ new.id = next + 1
           /\ new \notin outcomes
           /\ \A row \in outcomes \union components : row.id \in 1..next
<1>1. NextOrder(outcomes) \in OrderIndex
  BY NextOrderType DEF IndInv, RowsTyped, OutcomeRows
<1>2. next \in Nat \ {0} /\ next + 1 \in 1..next' /\ 1..next \subseteq 1..next'
  BY DEF IndInv, Counters
<1>3. new \in OutcomeRows' /\ new.id = next + 1
  BY <1>1, <1>2 DEF OutcomeRows, OutcomeRow
<1>4. outcomes \subseteq OutcomeRows' /\ components \subseteq ComponentRows'
  BY <1>2, RowsGrow
<1>5. \A row \in outcomes \union components : row.id \in 1..next
  BY DEF IndInv, RowsTyped, OutcomeRows, ComponentRows
<1>6. next + 1 \notin 1..next
  BY <1>2
<1>7. QED
  BY <1>3, <1>4, <1>5, <1>6

LEMMA CreateStep ==
    ASSUME IndInv, NEW c \in Clients, Create(c)
    PROVE  IndInv'
<1> DEFINE new == OutcomeRow(next + 1, 1, FALSE, NextOrder(outcomes), pc[c].at)
<1>1. /\ outcomes' = outcomes \union {new} /\ components' = components
      /\ next' = next + 1 /\ UNCHANGED <<status, clock>>
      /\ Reply(c, 201, next + 1)
  BY DEF Create
<1>2. pc[c].at \in Nat
  BY LockedRequest DEF Create
<1>3. next \in Nat \ {0} /\ next' \in Nat \ {0} /\ next' > next /\ 1..next \subseteq 1..next'
      /\ 1 \in 1..MaxTitle
  BY <1>1 DEF IndInv, Counters
<1> HIDE DEF new
<1>4. /\ outcomes \union {new} \subseteq OutcomeRows'
      /\ new.id = next + 1
      /\ \A row \in outcomes \union components : row.id \in 1..next
  BY <1>2, <1>3, NewOutcome DEF new
<1>5. Counters'
  BY <1>1, <1>3 DEF IndInv, Counters
<1>6. RowsTyped'
  BY <1>1, <1>3, <1>4, RowsGrow DEF IndInv, RowsTyped
<1>7. Owned'
  BY <1>1 DEF IndInv, Owned, With
<1>8. Distinct'
  BY <1>1, <1>3, <1>4 DEF IndInv, Distinct
<1>9. Handlers'
  BY <1>1, ReplyHandlers DEF IndInv
<1>10. QED
  BY <1>5, <1>6, <1>7, <1>8, <1>9 DEF IndInv

\* A request on a row that is gone is answered and writes nothing.
LEMMA UpdateStep ==
    ASSUME IndInv, NEW c \in Clients, Update(c)
    PROVE  IndInv'
<1> DEFINE req == pc[c].req
           found == With(outcomes, req.id)
           patched(o) == Patched(o, req, {"title", "order"})
<1>1. req \in Requests /\ req.op = "update"
  BY LockedRequest DEF Update
<1>2. req.title \in SUBSET (1..MaxTitle) /\ req.order \in SUBSET OrderIndex
  BY <1>1, RequestAssumption DEF RequestAssumption
<1>3. CASE Fail(c, 404)
  BY <1>3, NoWrite DEF Fail
<1>4. ASSUME outcomes' = (outcomes \ found) \union {patched(o) : o \in found},
             Reply(c, 200, req.id), UNCHANGED <<status, components, next, clock>>
      PROVE  IndInv'
  <2>1. ASSUME NEW o \in outcomes PROVE patched(o) \in OutcomeRows /\ patched(o).id = o.id
    BY <1>2, PatchedOutcome DEF IndInv, RowsTyped
  <2> HIDE DEF patched
  <2>2. Counters'
    BY <1>4 DEF IndInv, Counters
  <2>3. RowsTyped'
    BY <1>4, <2>1 DEF IndInv, RowsTyped, With, OutcomeRows, ComponentRows
  <2>4. ASSUME NEW row \in components' PROVE With(outcomes', row.outcome) # {}
    <3>1. PICK o \in outcomes : o.id = row.outcome
      BY <1>4 DEF IndInv, Owned, With
    <3>2. o \in outcomes' \/ patched(o) \in outcomes'
      BY <1>4
    <3>3. QED
      BY <2>1, <3>1, <3>2 DEF With
  <2>5. Distinct'
    <3>1. \A a \in outcomes' : \E o \in outcomes :
              o.id = a.id /\ a = (IF o \in found THEN patched(o) ELSE o)
      BY <1>4, <2>1 DEF With
    <3>2. \A o \in outcomes, row \in components : o.id # row.id
      BY DEF IndInv, Distinct, RowsTyped, OutcomeRows, ComponentRows
    <3>3. \A a, b \in outcomes : a.id = b.id => a = b
      BY DEF IndInv, Distinct
    <3>4. \A a, b \in components : a.id = b.id => a = b
      BY DEF IndInv, Distinct
    <3>5. QED
      BY <1>4, <3>1, <3>2, <3>3, <3>4 DEF Distinct
  <2>6. Handlers'
    BY <1>4, ReplyHandlers DEF IndInv
  <2>7. QED
    BY <2>2, <2>3, <2>4, <2>5, <2>6 DEF IndInv, Owned
<1>5. QED
  BY <1>3, <1>4 DEF Update

\* Deleting an outcome takes its components along.
LEMMA DeleteStep ==
    ASSUME IndInv, NEW c \in Clients, Delete(c)
    PROVE  IndInv'
<1> DEFINE id == pc[c].req.id
<1>1. CASE Fail(c, 404)
  BY <1>1, NoWrite DEF Fail
<1>2. ASSUME outcomes' = outcomes \ With(outcomes, id), components' = components \ Cascaded(id),
             Reply(c, 204, id), UNCHANGED <<status, next, clock>>
      PROVE  IndInv'
  <2>1. Counters' /\ Distinct'
    BY <1>2 DEF IndInv, Counters, Distinct
  <2>2. IsFiniteSet(components')
    BY <1>2, FS_Difference DEF IndInv, RowsTyped
  <2>3. RowsTyped'
    BY <1>2, <2>2 DEF IndInv, RowsTyped, OutcomeRows, ComponentRows
  <2>4. Owned'
    BY <1>2 DEF IndInv, Owned, With, Cascaded, ComponentsOf
  <2>5. Handlers'
    BY <1>2, ReplyHandlers DEF IndInv
  <2>6. QED
    BY <2>1, <2>3, <2>4, <2>5 DEF IndInv
<1>3. QED
  BY <1>1, <1>2 DEF Delete

\* The ranks of rows with different ids differ, and none is past their number.
LEMMA RankProperties ==
    ASSUME NEW S, IsFiniteSet(S), \A row \in S : row.id \in Nat,
           \A a, b \in S : a.id = b.id => a = b
    PROVE  /\ \A row \in S : Rank(S, row) \in 1..Cardinality(S)
           /\ \A a, b \in S : Rank(S, a) = Rank(S, b) => a = b
<1> DEFINE upto(row) == {r \in S : r.id <= row.id}
<1>1. Cardinality(S) \in Nat
  BY FS_CardinalityType
<1>2. ASSUME NEW row \in S
      PROVE  /\ IsFiniteSet(upto(row)) /\ Cardinality(upto(row)) \in 1..Cardinality(S)
  <2>1. upto(row) \in SUBSET S /\ row \in upto(row)
    OBVIOUS
  <2>2. IsFiniteSet(upto(row)) /\ Cardinality(upto(row)) <= Cardinality(S)
    BY <2>1, FS_Subset
  <2>3. Cardinality(upto(row)) \in Nat /\ Cardinality(upto(row)) # 0
    BY <2>1, <2>2, FS_CardinalityType, FS_EmptySet
  <2>4. QED
    BY <1>1, <2>2, <2>3
<1>3. ASSUME NEW a \in S, NEW b \in S, a.id < b.id
      PROVE  Cardinality(upto(a)) # Cardinality(upto(b))
  <2>1. upto(a) \in SUBSET upto(b) /\ b \in upto(b) /\ b \notin upto(a)
    BY <1>3
  <2>2. QED
    BY <1>2, <2>1, FS_Subset
<1>4. ASSUME NEW a \in S, NEW b \in S, Rank(S, a) = Rank(S, b) PROVE a = b
  <2>1. ~(a.id < b.id) /\ ~(b.id < a.id)
    BY <1>3, <1>4 DEF Rank
  <2>2. QED
    BY <2>1
<1>5. QED
  BY <1>2, <1>4 DEF Rank

\* The components of an outcome are finitely many rows with ids of their own.
LEMMA SourcesFinite ==
    ASSUME IndInv, NEW id
    PROVE  /\ IsFiniteSet(ComponentsOf(id)) /\ Cardinality(ComponentsOf(id)) \in Nat
           /\ ComponentsOf(id) \subseteq ComponentRows
           /\ \A row \in ComponentsOf(id) : row.id \in Nat
           /\ \A a, b \in ComponentsOf(id) : a.id = b.id => a = b
<1>1. ComponentsOf(id) \in SUBSET components
  BY DEF ComponentsOf
<1>2. IsFiniteSet(ComponentsOf(id)) /\ Cardinality(ComponentsOf(id)) \in Nat
  BY <1>1, FS_Subset, FS_CardinalityType DEF IndInv, RowsTyped
<1>3. QED
  BY <1>1, <1>2 DEF IndInv, RowsTyped, Distinct, ComponentRows, Counters

\* A copy is its source under the id next + 1 + rank and the new outcome.
CopyOf(row, id, c) == Copy(row, next + 1 + Rank(ComponentsOf(id), row), next + 1, pc[c].at)

LEMMA CopyRow ==
    ASSUME NEW row \in ComponentRows, NEW id, NEW outcome, NEW at
    PROVE  Copy(row, id, outcome, at) = [id |-> id, outcome |-> outcome, type |-> row.type,
                                         config |-> row.config, order |-> row.order, created |-> at]
<1>1. DOMAIN row = {"id", "outcome", "type", "config", "order", "created"}
  BY DEF ComponentRows
<1>2. Copy(row, id, outcome, at) =
          [f \in DOMAIN row |-> CASE f = "id" -> id [] f = "outcome" -> outcome [] f = "created" -> at
                                 [] OTHER -> row[f]]
  BY <1>1, Zenon DEF Copy
<1>3. QED
  BY <1>1, <1>2

LEMMA CopiesAreRows ==
    ASSUME IndInv, NEW c \in Clients, NEW id, pc[c].at \in Nat,
           next' = next + 1 + Cardinality(ComponentsOf(id))
    PROVE  /\ Copied(ComponentsOf(id), c) = {CopyOf(row, id, c) : row \in ComponentsOf(id)}
           /\ \A row \in ComponentsOf(id) :
                 /\ CopyOf(row, id, c) \in ComponentRows'
                 /\ CopyOf(row, id, c).id \notin 1..next + 1
                 /\ CopyOf(row, id, c).outcome = next + 1
                 /\ CopyOf(row, id, c).type = row.type
                 /\ CopyOf(row, id, c).config = row.config
                 /\ CopyOf(row, id, c).order = row.order
           /\ \A a, b \in ComponentsOf(id) : CopyOf(a, id, c).id = CopyOf(b, id, c).id => a = b
           /\ IsFiniteSet(Copied(ComponentsOf(id), c))
<1> DEFINE S == ComponentsOf(id)
           copy == [row \in S |-> CopyOf(row, id, c)]
<1>1. next \in Nat \ {0} /\ Cardinality(S) \in Nat /\ IsFiniteSet(S) /\ S \subseteq ComponentRows
      /\ \A row \in S : Rank(S, row) \in 1..Cardinality(S)
      /\ \A a, b \in S : Rank(S, a) = Rank(S, b) => a = b
  BY SourcesFinite, RankProperties DEF IndInv, Counters
<1>2. Copied(S, c) = {CopyOf(row, id, c) : row \in S}
  BY DEF Copied, CopyOf
<1>3. ASSUME NEW row \in S
      PROVE  CopyOf(row, id, c) = [id |-> next + 1 + Rank(S, row), outcome |-> next + 1,
                                   type |-> row.type, config |-> row.config,
                                   order |-> row.order, created |-> pc[c].at]
  BY <1>1, CopyRow DEF CopyOf
<1>4. ASSUME NEW row \in S
      PROVE  /\ next + 1 + Rank(S, row) \in 1..next' /\ next + 1 \in 1..next'
             /\ next + 1 + Rank(S, row) \notin 1..next + 1
  BY <1>1
<1>5. ASSUME NEW row \in S PROVE CopyOf(row, id, c) \in ComponentRows'
  BY <1>1, <1>3, <1>4 DEF ComponentRows
<1>6. ASSUME NEW a \in S, NEW b \in S, CopyOf(a, id, c).id = CopyOf(b, id, c).id
      PROVE  a = b
  <2>1. next + 1 + Rank(S, a) = next + 1 + Rank(S, b)
    BY <1>3, <1>6
  <2>2. Rank(S, a) = Rank(S, b)
    BY <1>1, <2>1
  <2>3. QED
    BY <1>1, <2>2
<1>7. copy \in Surjection(S, Copied(S, c))
  BY <1>2 DEF Surjection
<1>8. IsFiniteSet(Copied(S, c))
  BY <1>1, <1>7, FS_Surjection
<1>9. QED
  BY <1>2, <1>3, <1>4, <1>5, <1>6, <1>8

LEMMA CloneStep ==
    ASSUME IndInv, NEW c \in Clients, CloneOutcome(c)
    PROVE  IndInv'
<1> DEFINE id == pc[c].req.id
           sources == ComponentsOf(id)
           new == OutcomeRow(next + 1, pc[c].seen.title + 1, FALSE, NextOrder(outcomes), pc[c].at)
<1>1. CASE Fail(c, 500)
  BY <1>1, NoWrite DEF Fail
<1>2. ASSUME pc[c].seen.title + 1 <= MaxTitle, outcomes' = outcomes \union {new},
             components' = components \union Copied(sources, c),
             next' = next + 1 + Cardinality(sources),
             Reply(c, 201, next + 1), UNCHANGED <<status, clock>>
      PROVE  IndInv'
  <2>1. pc[c].at \in Nat /\ pc[c].seen.title + 1 \in 1..MaxTitle
    BY <1>2, LockedRequest DEF CloneOutcome
  <2>2. next \in Nat \ {0} /\ next' \in Nat \ {0} /\ next' > next /\ 1..next \subseteq 1..next'
        /\ 1..next \subseteq 1..next + 1 /\ next + 1 \in 1..next + 1 /\ next + 1 \notin 1..next
    BY <1>2, SourcesFinite DEF IndInv, Counters
  <2> HIDE DEF new, sources
  <2>3. /\ outcomes \union {new} \subseteq OutcomeRows' /\ new.id = next + 1
        /\ \A row \in outcomes \union components : row.id \in 1..next
    BY <2>1, <2>2, NewOutcome DEF new
  <2>4. /\ IsFiniteSet(Copied(sources, c))
        /\ Copied(sources, c) = {CopyOf(row, id, c) : row \in sources}
        /\ \A row \in sources :
                 /\ CopyOf(row, id, c) \in ComponentRows'
                 /\ CopyOf(row, id, c).id \notin 1..next + 1
                 /\ CopyOf(row, id, c).outcome = next + 1
        /\ \A a, b \in sources : CopyOf(a, id, c).id = CopyOf(b, id, c).id => a = b
    BY <1>2, <2>1, CopiesAreRows DEF sources
  <2>5. Counters'
    BY <1>2, <2>2 DEF IndInv, Counters
  <2>6. IsFiniteSet(components')
    BY <1>2, <2>4, FS_Union DEF IndInv, RowsTyped
  <2>7. RowsTyped'
    BY <1>2, <2>2, <2>3, <2>4, <2>6, RowsGrow DEF RowsTyped
  <2>8. Owned'
    BY <1>2, <2>3, <2>4 DEF IndInv, Owned, With
  <2>9. ASSUME NEW a \in outcomes' \union components', NEW b \in outcomes' \union components',
               a.id = b.id
        PROVE  a = b
    <3>1. \A row \in outcomes' \union components' :
              \/ row \in outcomes \union components
              \/ row = new
              \/ \E source \in sources : row = CopyOf(source, id, c)
      BY <1>2, <2>4
    <3>2. QED
      BY <2>2, <2>3, <2>4, <2>9, <3>1 DEF IndInv, Distinct
  <2>10. Handlers'
    BY <1>2, ReplyHandlers DEF IndInv
  <2>11. QED
    BY <2>5, <2>7, <2>8, <2>9, <2>10 DEF IndInv, Distinct
<1>3. pc[c].seen.title + 1 > MaxTitle \/ pc[c].seen.title + 1 <= MaxTitle
  BY LockedRequest DEF CloneOutcome
<1>4. CASE pc[c].seen.title + 1 > MaxTitle
  BY <1>1, <1>4 DEF CloneOutcome
<1>5. CASE ~(pc[c].seen.title + 1 > MaxTitle)
  BY <1>2, <1>3, <1>5 DEF CloneOutcome
<1>6. QED
  BY <1>4, <1>5

\* The config of a component that is added is valid, and so of a known type.
LEMMA AddedConfig ==
    ASSUME IndInv, NEW c \in Clients, AddComponent(c)
    PROVE  Given(pc[c].req.type) \in Types /\ Given(pc[c].req.config) \in Configs
<1> DEFINE req == pc[c].req
<1>1. /\ req \in Requests /\ req.op = "add_component"
      /\ ~ConfigError(Given(req.type), Given(req.config))
  BY LockedRequest DEF AddComponent
<1>2. /\ req.type # {} /\ req.config # {}
      /\ \A config \in req.config : config.valid => config.type \in Types
  BY <1>1, RequestAssumption DEF RequestAssumption
<1>3. Given(req.config) \in req.config
  BY <1>2 DEF Given
<1>4. Given(req.config).valid /\ Given(req.config).type = Given(req.type)
  BY <1>1 DEF ConfigError
<1>5. QED
  BY <1>1, <1>2, <1>3, <1>4 DEF Configs

LEMMA AddStep ==
    ASSUME IndInv, NEW c \in Clients, AddComponent(c)
    PROVE  IndInv'
<1> DEFINE req == pc[c].req
           type == Given(req.type)
           config == Given(req.config)
           order == Coalesce(req.order, NextOrder(ComponentsOf(req.id)))
           new == ComponentRow(next + 1, req.id, type, config, order, pc[c].at)
<1>1. CASE Fail(c, 500)
  BY <1>1, NoWrite DEF Fail
<1>2. ASSUME With(outcomes, req.id) # {}, components' = components \union {new}, next' = next + 1,
             Reply(c, 201, next + 1), UNCHANGED <<status, outcomes, clock>>
      PROVE  IndInv'
  <2>1. req \in Requests /\ req.op = "add_component" /\ pc[c].at \in Nat
    BY LockedRequest DEF AddComponent
  <2>2. next \in Nat \ {0} /\ next' \in Nat \ {0} /\ 1..next \subseteq 1..next'
        /\ next + 1 \in 1..next' /\ next + 1 \notin 1..next
    BY <1>2 DEF IndInv, Counters
  <2>3. order \in OrderIndex
    <3>1. req.order \in SUBSET OrderIndex
      BY <2>1, RequestAssumption DEF RequestAssumption
    <3>2. NextOrder(ComponentsOf(req.id)) \in OrderIndex
      BY SourcesFinite, NextOrderType DEF ComponentRows
    <3>3. QED
      BY <3>1, <3>2, CoalesceIn
  <2>4. type \in Types /\ config \in Configs
    BY <2>1, AddedConfig
  <2>5. req.id \in 1..next
    BY <1>2 DEF With, IndInv, RowsTyped, OutcomeRows
  <2> HIDE DEF type, config, order
  <2>6. new \in ComponentRows' /\ new.id = next + 1 /\ new.outcome = req.id
    BY <2>1, <2>2, <2>3, <2>4, <2>5 DEF ComponentRows, ComponentRow
  <2> HIDE DEF new
  <2>7. Counters'
    BY <1>2, <2>2 DEF IndInv, Counters
  <2>8. IsFiniteSet(components')
    BY <1>2, FS_AddElement DEF IndInv, RowsTyped
  <2>9. RowsTyped'
    BY <1>2, <2>2, <2>6, <2>8, RowsGrow DEF RowsTyped
  <2>10. Owned'
    BY <1>2, <2>6 DEF IndInv, Owned, With
  <2>11. \A row \in outcomes \union components : row.id \in 1..next
    BY DEF IndInv, RowsTyped, OutcomeRows, ComponentRows
  <2>12. Distinct'
    BY <1>2, <2>2, <2>6, <2>11 DEF IndInv, Distinct
  <2>13. Handlers'
    BY <1>2, ReplyHandlers DEF IndInv
  <2>14. QED
    BY <2>7, <2>9, <2>10, <2>12, <2>13 DEF IndInv
<1>3. QED
  BY <1>1, <1>2 DEF AddComponent

\* Replacing components by rows with their ids and outcomes.
LEMMA ReplacedComponents ==
    ASSUME IndInv, NEW c \in Clients, NEW id, Reply(c, 200, id),
           UNCHANGED <<status, outcomes, next, clock>>,
           NEW new, new = [row \in components |-> new[row]],
           \A row \in components : /\ new[row] \in ComponentRows
                                   /\ new[row].id = row.id
                                   /\ new[row].outcome = row.outcome,
           components' = {new[row] : row \in components}
    PROVE  IndInv'
<1>1. new \in Surjection(components, components')
  BY DEF Surjection
<1>2. IsFiniteSet(components')
  BY <1>1, FS_Surjection DEF IndInv, RowsTyped
<1>3. Counters' /\ RowsTyped'
  BY <1>2 DEF IndInv, Counters, RowsTyped, OutcomeRows, ComponentRows
<1>4. Owned'
  BY DEF IndInv, Owned, With
<1>5. Distinct'
  <2>1. \A o \in outcomes, row \in components : o.id # row.id
    BY DEF IndInv, Distinct, RowsTyped, OutcomeRows, ComponentRows
  <2>2. \A a, b \in outcomes : a.id = b.id => a = b
    BY DEF IndInv, Distinct
  <2>3. \A a, b \in components : a.id = b.id => a = b
    BY DEF IndInv, Distinct
  <2>4. \A b \in components' : \E row \in components : b = new[row] /\ b.id = row.id
    OBVIOUS
  <2>5. QED
    BY <2>1, <2>2, <2>3, <2>4 DEF Distinct
<1>6. Handlers'
  BY ReplyHandlers DEF IndInv
<1>7. QED
  BY <1>3, <1>4, <1>5, <1>6 DEF IndInv

LEMMA UpdateComponentStep ==
    ASSUME IndInv, NEW c \in Clients, UpdateComponent(c)
    PROVE  IndInv'
<1> DEFINE req == pc[c].req
           found == With(components, req.id)
           patched(row) == Patched(row, req, {"type", "config", "order"})
           new == [row \in components |-> IF row \in found THEN patched(row) ELSE row]
<1>1. req \in Requests /\ req.op = "update_component"
  BY LockedRequest DEF UpdateComponent
<1>2. CASE Fail(c, 422) \/ Fail(c, 404) \/ Fail(c, 500)
  BY <1>2, NoWrite DEF Fail
<1>3. ASSUME req.type \subseteq Types, Reply(c, 200, req.id),
             components' = (components \ found) \union {patched(row) : row \in found},
             UNCHANGED <<status, outcomes, next, clock>>
      PROVE  IndInv'
  <2>1. req.order \in SUBSET OrderIndex
    BY <1>1, RequestAssumption DEF RequestAssumption
  <2>2. ASSUME NEW row \in components
        PROVE  patched(row) \in ComponentRows /\ patched(row).id = row.id
               /\ patched(row).outcome = row.outcome
    BY <1>1, <1>3, <2>1, PatchedComponent DEF IndInv, RowsTyped
  <2> HIDE DEF patched
  <2>3. \A row \in components : /\ new[row] \in ComponentRows
                                /\ new[row].id = row.id
                                /\ new[row].outcome = row.outcome
    BY <2>2 DEF IndInv, RowsTyped
  <2>4. components' = {new[row] : row \in components}
    BY <1>3 DEF With
  <2>5. new = [row \in components |-> new[row]]
    OBVIOUS
  <2> HIDE DEF new
  <2>6. QED
    BY <1>3, <2>3, <2>4, <2>5, ReplacedComponents
<1>4. QED
  BY <1>2, <1>3 DEF UpdateComponent

LEMMA ReorderStep ==
    ASSUME IndInv, NEW c \in Clients, Reorder(c)
    PROVE  IndInv'
<1> DEFINE req == pc[c].req
           own == ComponentsOf(req.id)
<1>1. req \in Requests /\ req.op = "reorder"
  BY LockedRequest DEF Reorder
<1>2. CASE Fail(c, 422)
  BY <1>2, NoWrite DEF Fail
<1>3. ASSUME NEW wins, Reply(c, 200, req.id), UNCHANGED <<status, outcomes, next, clock>>,
             \A id \in DOMAIN wins : [id |-> id, order |-> wins[id]] \in req.items,
             components' = Reordered(own, wins)
      PROVE  IndInv'
  <2> DEFINE moved(row) == row \in own /\ row.id \in DOMAIN wins
             new == [row \in components |-> IF moved(row) THEN Placed(row, wins[row.id])
                                           ELSE row]
  <2>1. ASSUME NEW id \in DOMAIN wins PROVE wins[id] \in OrderIndex
    <3> DEFINE item == [id |-> id, order |-> wins[id]]
    <3>1. item \in req.items /\ item.order = wins[id]
      BY <1>3
    <3>2. QED
      BY <1>1, <3>1, RequestAssumption DEF RequestAssumption
  <2>2. \A row \in components : /\ new[row] \in ComponentRows
                                /\ new[row].id = row.id
                                /\ new[row].outcome = row.outcome
    BY <2>1 DEF IndInv, RowsTyped, ComponentRows, Placed
  <2>3. components' = {new[row] : row \in components}
    BY <1>3 DEF Reordered
  <2>4. new = [row \in components |-> new[row]]
    OBVIOUS
  <2> HIDE DEF new
  <2>5. QED
    BY <1>3, <2>2, <2>3, <2>4, ReplacedComponents
<1>4. CASE \E item \in req.items : With(own, item.id) = {}
  BY <1>2, <1>4 DEF Reorder
<1>5. CASE ~\E item \in req.items : With(own, item.id) = {}
  <2>1. PICK wins \in [{item.id : item \in req.items} -> {item.order : item \in req.items}] :
            /\ \A id \in DOMAIN wins : [id |-> id, order |-> wins[id]] \in req.items
            /\ components' = Reordered(own, wins)
            /\ Reply(c, 200, req.id) /\ UNCHANGED <<status, outcomes, next, clock>>
    BY <1>5 DEF Reorder
  <2>2. QED
    BY <1>3, <2>1
<1>6. QED
  BY <1>4, <1>5

LEMMA DeleteComponentStep ==
    ASSUME IndInv, NEW c \in Clients, DeleteComponent(c)
    PROVE  IndInv'
<1> DEFINE id == pc[c].req.id
<1>1. CASE Fail(c, 404)
  BY <1>1, NoWrite DEF Fail
<1>2. ASSUME components' = components \ With(components, id), Reply(c, 204, id),
             UNCHANGED <<status, outcomes, next, clock>>
      PROVE  IndInv'
  <2>1. IsFiniteSet(components')
    BY <1>2, FS_Difference DEF IndInv, RowsTyped
  <2>2. RowsTyped'
    BY <1>2, <2>1 DEF IndInv, RowsTyped, OutcomeRows, ComponentRows
  <2>3. Counters' /\ Owned' /\ Distinct'
    BY <1>2 DEF IndInv, Counters, Owned, With, Distinct
  <2>4. Handlers'
    BY <1>2, ReplyHandlers DEF IndInv
  <2>5. QED
    BY <2>2, <2>3, <2>4 DEF IndInv
<1>3. QED
  BY <1>1, <1>2 DEF DeleteComponent

\* The version's own life.
LEMMA VersionStep ==
    ASSUME IndInv, Publish \/ DeleteVersion
    PROVE  IndInv'
<1>1. UNCHANGED <<next, clock, pc, answer>>
      /\ (UNCHANGED rows \/ (outcomes' = {} /\ components' = {})) /\ status' \in {"LIVE", "deleted"}
  BY DEF Publish, DeleteVersion
<1>2. Counters' /\ Handlers'
  BY <1>1 DEF IndInv, Counters, Handlers, Waits
<1>3. CASE UNCHANGED rows
  BY <1>1, <1>2, <1>3 DEF IndInv, RowsTyped, Owned, Distinct, OutcomeRows, ComponentRows, With, rows
<1>4. CASE outcomes' = {} /\ components' = {}
  BY <1>2, <1>4, FS_EmptySet DEF IndInv, RowsTyped, Owned, Distinct
<1>5. QED
  BY <1>1, <1>3, <1>4

LEMMA NextIndInv == IndInv /\ [Next]_vars => IndInv'
<1> SUFFICES ASSUME IndInv, [Next]_vars PROVE IndInv'
  OBVIOUS
<1>1. ASSUME NEW c \in Clients, Refuse(c) PROVE IndInv'
  BY <1>1, NoWrite DEF Refuse
<1>2. CASE UNCHANGED vars
  BY <1>2 DEF vars, rows, IndInv, Counters, RowsTyped, Owned, Distinct, Handlers, Waits, With,
              OutcomeRows, ComponentRows
<1>3. QED
  BY <1>1, <1>2, BeginStep, CreateStep, UpdateStep, DeleteStep, CloneStep, AddStep,
     UpdateComponentStep, DeleteComponentStep, ReorderStep, VersionStep DEF Next

-----------------------------------------------------------------------------
(* Theorems *)

\* The invariant that is inductive on its own.
THEOREM Inductive == Spec => []IndInv
<1>1. QED
  BY InitIndInv, NextIndInv, PTL DEF Spec

\* Every row refers to rows that are there, under an id of its own, and fits
\* its columns, however the edits of a version interleave with its publication
\* and deletion.  (outcome_service.rs; migrations 0004 and 0005)
THEOREM TypeCorrect == Spec => []TypeOK
<1>1. IndInv => TypeOK
  <2> SUFFICES ASSUME IndInv PROVE TypeOK
    OBVIOUS
  <2>1. \A row \in components : row.type \in Types /\ row.order \in OrderIndex
    BY DEF IndInv, RowsTyped, ComponentRows
  <2>2. \A o \in outcomes : o.id \in 1..next /\ o.title \in 1..MaxTitle /\ o.order \in OrderIndex
    BY DEF IndInv, RowsTyped, OutcomeRows
  <2>3. QED
    BY <2>1, <2>2 DEF IndInv, Counters, Owned, Distinct, Handlers, Waits, TypeOK
<1>2. QED
  BY <1>1, Inductive, PTL

\* No edit that a draft was still open for when it began is written after the
\* draft's end: outcomes and components change under the lock of a DRAFT row,
\* or go with their version.  (outcome_service.rs, require_draft)
THEOREM DraftOnlyAlways == Spec => DraftOnly
<1> DEFINE Only == rows' # rows => status = "DRAFT" \/ status' = "deleted"
<1>1. ASSUME [Next]_vars PROVE Only
  <2> SUFFICES ASSUME status # "DRAFT", status' # "deleted" PROVE rows' = rows
    OBVIOUS
  <2>1. ASSUME NEW c \in Clients, NEW op PROVE ~Locked(c, op)
    BY DEF Locked, StatusForUpdate
  <2>2. ASSUME NEW c \in Clients, Begin(c) PROVE rows' = rows
    BY <2>2 DEF Begin
  <2>3. ASSUME NEW c \in Clients, Refuse(c) PROVE rows' = rows
    BY <2>3 DEF Refuse
  <2>4. CASE Publish \/ DeleteVersion
    BY <2>4 DEF Publish, DeleteVersion
  <2>5. CASE UNCHANGED vars
    BY <2>5 DEF vars
  <2>6. QED
    BY <1>1, <2>1, <2>2, <2>3, <2>4, <2>5, ZenonT(60)
       DEF Next, Create, Update, Delete, CloneOutcome, AddComponent, UpdateComponent,
           DeleteComponent, Reorder
<1>2. QED
  BY <1>1, PTL DEF Spec, DraftOnly

-----------------------------------------------------------------------------

\* A step that answers a client with a 201 is the step of the operation it asked
\* for, or a refusal.
LEMMA EachReplies ==
    ASSUME NEW c \in Clients,
           \/ Refuse(c) \/ Create(c) \/ Update(c) \/ Delete(c) \/ CloneOutcome(c) \/ AddComponent(c)
           \/ UpdateComponent(c) \/ DeleteComponent(c) \/ Reorder(c)
    PROVE  \E code, id : Reply(c, code, id)
<1>1. CASE Refuse(c)
  BY <1>1 DEF Refuse
<1>2. CASE Create(c)
  BY <1>2 DEF Create
<1>3. CASE Update(c)
  BY <1>3 DEF Update, Fail
<1>4. CASE Delete(c)
  BY <1>4 DEF Delete, Fail
<1>5. CASE CloneOutcome(c)
  BY <1>5 DEF CloneOutcome, Fail
<1>6. CASE AddComponent(c)
  BY <1>6 DEF AddComponent, Fail
<1>7. CASE UpdateComponent(c)
  BY <1>7 DEF UpdateComponent, Fail
<1>8. CASE DeleteComponent(c)
  BY <1>8 DEF DeleteComponent, Fail
<1>9. CASE Reorder(c)
  BY <1>9, ZenonT(60) DEF Reorder, Fail
<1>10. QED
  BY <1>1, <1>2, <1>3, <1>4, <1>5, <1>6, <1>7, <1>8, <1>9

LEMMA WhoAnswered ==
    ASSUME IndInv, [Next]_vars, NEW c \in Clients, NEW op, Answered(c, op, 201),
           op \in {"create", "clone", "add_component"}
    PROVE  /\ op = "create" => Create(c)
           /\ op = "clone" => CloneOutcome(c)
           /\ op = "add_component" => AddComponent(c)
<1>1. /\ pc[c] # Idle /\ pc'[c] = Idle /\ pc[c].req.op = op
      /\ answer'[c].code = 201
  BY DEF Answered
<1>2. ~UNCHANGED vars /\ ~Publish /\ ~DeleteVersion
  BY <1>1 DEF vars, Publish, DeleteVersion
<1>3. ASSUME NEW d \in Clients, Begin(d) PROVE FALSE
  <2>1. \/ pc' = pc
        \/ d # c /\ \E new : pc' = [pc EXCEPT ![d] = new]
    BY <1>1, <1>3 DEF Begin
  <2>2. pc'[c] = pc[c]
    BY <2>1 DEF IndInv, Handlers
  <2>3. QED
    BY <1>1, <2>2
<1>4. ASSUME NEW d \in Clients, NEW code, NEW id, Reply(d, code, id) PROVE d = c /\ code = 201
  <2>1. d = c
    <3>1. ASSUME d # c PROVE pc'[c] = pc[c]
      BY <1>4, <3>1 DEF Reply, IndInv, Handlers
    <3>2. QED
      BY <1>1, <3>1
  <2>2. answer'[c] = [code |-> code, id |-> id]
    BY <1>4, <2>1 DEF Reply, IndInv, Handlers
  <2>3. QED
    BY <1>1, <2>1, <2>2
<1>5. ~Refuse(c)
  <2>1. ASSUME Refuse(c) PROVE \E code : code # 201 /\ Reply(c, code, 0)
    BY <2>1 DEF Refuse
  <2>2. QED
    BY <1>4, <2>1
<1>6. \/ Create(c) \/ Update(c) \/ Delete(c) \/ CloneOutcome(c) \/ AddComponent(c)
      \/ UpdateComponent(c) \/ DeleteComponent(c) \/ Reorder(c)
  BY <1>2, <1>3, <1>4, <1>5, EachReplies DEF Next
<1>7. ASSUME NEW other, Locked(c, other) PROVE other = op
  BY <1>1, <1>7 DEF Locked
<1>8. /\ Update(c) => Locked(c, "update")
      /\ Delete(c) => Locked(c, "delete")
      /\ UpdateComponent(c) => Locked(c, "update_component")
      /\ DeleteComponent(c) => Locked(c, "delete_component")
      /\ Reorder(c) => Locked(c, "reorder")
      /\ Create(c) => Locked(c, "create")
      /\ CloneOutcome(c) => Locked(c, "clone")
      /\ AddComponent(c) => Locked(c, "add_component")
  BY DEF Update, Delete, UpdateComponent, DeleteComponent, Reorder, Create, CloneOutcome, AddComponent
<1>9. QED
  BY <1>6, <1>7, <1>8

\* What a client is told that its request made.
LEMMA Told ==
    ASSUME IndInv, NEW c \in Clients, NEW code, NEW id, Reply(c, code, id)
    PROVE  answer'[c].id = id /\ answer'[c].code = code
BY DEF Reply, IndInv, Handlers

\* A row whose order is the next one, and that alone has the new id, comes last.
LEMMA NextGoesLast ==
    ASSUME NEW S, NEW S2, NEW id, NEW new, {row \in S2 : row.id = id} \subseteq {new},
           \A row \in S : row.order \in OrderIndex, new.order = NextOrder(S)
    PROVE  GoesLast(S, S2, id)
BY NextOrderType DEF GoesLast, Before

LEMMA CreateGoesLast ==
    ASSUME IndInv, NEW c \in Clients, Create(c)
    PROVE  GoesLast(outcomes, outcomes', answer'[c].id)
<1> DEFINE new == OutcomeRow(next + 1, 1, FALSE, NextOrder(outcomes), pc[c].at)
<1>1. outcomes' = outcomes \union {new} /\ answer'[c].id = next + 1
  BY Told DEF Create
<1>2. \A row \in outcomes : row.id \in 1..next /\ row.order \in OrderIndex
  BY DEF IndInv, RowsTyped, OutcomeRows
<1>3. next \in Nat
  BY DEF IndInv, Counters
<1>4. new.order = NextOrder(outcomes)
  BY DEF OutcomeRow
<1> HIDE DEF new
<1>5. {row \in outcomes' : row.id = next + 1} \subseteq {new}
  BY <1>1, <1>2, <1>3
<1>6. QED
  BY <1>1, <1>2, <1>4, <1>5, NextGoesLast

\* A clone that is answered with a 201 was written.
LEMMA CloneWritten ==
    ASSUME IndInv, NEW c \in Clients, CloneOutcome(c), answer'[c].code = 201
    PROVE  /\ outcomes' = outcomes \union {OutcomeRow(next + 1, pc[c].seen.title + 1, FALSE,
                                                      NextOrder(outcomes), pc[c].at)}
           /\ components' = components \union Copied(ComponentsOf(pc[c].req.id), c)
           /\ next' = next + 1 + Cardinality(ComponentsOf(pc[c].req.id))
           /\ answer'[c].id = next + 1
<1>1. ~Fail(c, 500)
  BY Told DEF Fail
<1>2. /\ outcomes' = outcomes \union {OutcomeRow(next + 1, pc[c].seen.title + 1, FALSE,
                                                NextOrder(outcomes), pc[c].at)}
      /\ components' = components \union Copied(ComponentsOf(pc[c].req.id), c)
      /\ next' = next + 1 + Cardinality(ComponentsOf(pc[c].req.id))
      /\ Reply(c, 201, next + 1)
  BY <1>1 DEF CloneOutcome
<1>3. QED
  BY <1>2, Told

LEMMA CloneGoesLast ==
    ASSUME IndInv, NEW c \in Clients, CloneOutcome(c), answer'[c].code = 201
    PROVE  GoesLast(outcomes, outcomes', answer'[c].id)
<1> DEFINE new == OutcomeRow(next + 1, pc[c].seen.title + 1, FALSE, NextOrder(outcomes), pc[c].at)
<1>1. outcomes' = outcomes \union {new} /\ answer'[c].id = next + 1
  BY CloneWritten
<1>2. \A row \in outcomes : row.id \in 1..next /\ row.order \in OrderIndex
  BY DEF IndInv, RowsTyped, OutcomeRows
<1>3. next \in Nat
  BY DEF IndInv, Counters
<1>4. new.order = NextOrder(outcomes)
  BY DEF OutcomeRow
<1> HIDE DEF new
<1>5. {row \in outcomes' : row.id = next + 1} \subseteq {new}
  BY <1>1, <1>2, <1>3
<1>6. QED
  BY <1>1, <1>2, <1>4, <1>5, NextGoesLast

LEMMA AddGoesLast ==
    ASSUME IndInv, NEW c \in Clients, AddComponent(c), answer'[c].code = 201, pc[c].req.order = {}
    PROVE  GoesLast(ComponentsOf(pc[c].req.id), components', answer'[c].id)
<1> DEFINE req == pc[c].req
           new == ComponentRow(next + 1, req.id, Given(req.type), Given(req.config),
                               Coalesce(req.order, NextOrder(ComponentsOf(req.id))), pc[c].at)
<1>1. components' = components \union {new} /\ answer'[c].id = next + 1
  <2>1. ~Fail(c, 500)
    BY Told DEF Fail
  <2>2. components' = components \union {new} /\ Reply(c, 201, next + 1)
    BY <2>1 DEF AddComponent
  <2>3. QED
    BY <2>2, Told
<1>2. \A row \in components : row.id \in 1..next /\ row.order \in OrderIndex
  BY DEF IndInv, RowsTyped, ComponentRows
<1>3. next \in Nat
  BY DEF IndInv, Counters
<1>4. new.order = NextOrder(ComponentsOf(req.id))
  BY DEF ComponentRow, Coalesce
<1> HIDE DEF new
<1>5. {row \in components' : row.id = next + 1} \subseteq {new}
  BY <1>1, <1>2, <1>3
<1>6. \A row \in ComponentsOf(req.id) : row.order \in OrderIndex
  BY <1>2 DEF ComponentsOf
<1>7. QED
  BY <1>1, <1>4, <1>5, <1>6, NextGoesLast

\* A created or cloned outcome, and a component added without an order, comes
\* last in its list, whoever appended between the start of the request and its
\* turn, until the largest order is taken.  (outcome_service.rs, create,
\* clone_outcome and add_component)
THEOREM AppendGoesLastAlways == Spec => AppendGoesLast
<1>1. IndInv /\ [Next]_vars =>
        [\A c \in Clients :
           /\ Answered(c, "create", 201) \/ Answered(c, "clone", 201) =>
                  GoesLast(outcomes, outcomes', answer'[c].id)
           /\ Answered(c, "add_component", 201) /\ pc[c].req.order = {} =>
                  GoesLast(ComponentsOf(pc[c].req.id), components', answer'[c].id)]_vars
  <2> SUFFICES ASSUME IndInv, [Next]_vars, NEW c \in Clients
               PROVE  /\ Answered(c, "create", 201) \/ Answered(c, "clone", 201) =>
                             GoesLast(outcomes, outcomes', answer'[c].id)
                      /\ Answered(c, "add_component", 201) /\ pc[c].req.order = {} =>
                             GoesLast(ComponentsOf(pc[c].req.id), components', answer'[c].id)
    OBVIOUS
  <2>1. ASSUME Answered(c, "create", 201) PROVE GoesLast(outcomes, outcomes', answer'[c].id)
    BY <2>1, WhoAnswered, CreateGoesLast
  <2>2. ASSUME Answered(c, "clone", 201) PROVE GoesLast(outcomes, outcomes', answer'[c].id)
    BY <2>2, WhoAnswered, CloneGoesLast DEF Answered
  <2>3. ASSUME Answered(c, "add_component", 201), pc[c].req.order = {}
        PROVE  GoesLast(ComponentsOf(pc[c].req.id), components', answer'[c].id)
    BY <2>3, WhoAnswered, AddGoesLast DEF Answered
  <2>4. QED
    BY <2>1, <2>2, <2>3
<1>2. QED
  BY <1>1, Inductive, PTL DEF Spec, AppendGoesLast

-----------------------------------------------------------------------------
(* A clone copies *)

\* What a component shows: everything but its id, its outcome and its time.
Shown(row) == [type |-> row.type, config |-> row.config, order |-> row.order]
Showing(S, k) == {r \in S : r.type = k.type /\ r.config = k.config /\ r.order = k.order}

LEMMA ContentsShown == ASSUME NEW S
                       PROVE  Contents(S) = [k \in {Shown(r) : r \in S} |-> Cardinality(Showing(S, k))]
BY DEF Contents, Shown, Showing

\* A bijection between finite sets of components that keeps what they show
\* keeps how many show the same.
LEMMA SameContents ==
    ASSUME NEW S, NEW T, IsFiniteSet(S), NEW f \in Bijection(S, T),
           \A r \in S : /\ f[r].type = r.type /\ f[r].config = r.config /\ f[r].order = r.order
    PROVE  Contents(T) = Contents(S)
<1>1. /\ \A r \in S : f[r] \in T
      /\ \A t \in T : \E r \in S : f[r] = t
      /\ \A a, b \in S : f[a] = f[b] => a = b
  BY DEF Bijection, Injection, IsInjective, Surjection
<1>2. \A r \in S : Shown(f[r]) = Shown(r)
  BY DEF Shown
<1>3. {Shown(t) : t \in T} = {Shown(r) : r \in S}
  BY <1>1, <1>2
<1>4. ASSUME NEW k PROVE Cardinality(Showing(T, k)) = Cardinality(Showing(S, k))
  <2> DEFINE A == Showing(S, k)
             B == Showing(T, k)
             g == [r \in A |-> f[r]]
  <2>1. IsFiniteSet(A)
    BY FS_Subset DEF Showing
  <2>2. \A r \in A : r \in S /\ f[r] \in B
    BY <1>1 DEF Showing
  <2>3. \A t \in B : \E r \in A : f[r] = t
    BY <1>1 DEF Showing
  <2> HIDE DEF A, B
  <2>4. g \in Bijection(A, B)
    BY <1>1, <2>2, <2>3 DEF Bijection, Injection, IsInjective, Surjection
  <2>5. ExistsBijection(A, B)
    BY <2>4 DEF ExistsBijection
  <2>6. Cardinality(A) = Cardinality(B)
    BY <2>1, <2>5, FS_Bijection
  <2>7. QED
    BY <2>6 DEF A, B
<1>5. QED
  BY <1>3, <1>4, ContentsShown

\* A clone shows, component by component, what its source shows when the clone
\* is made, also when the source was edited since the request began.
\* (outcome_service.rs, clone_outcome)
THEOREM CloneCopiesAlways == Spec => CloneCopies
<1>1. IndInv /\ [Next]_vars =>
        [\A c \in Clients :
           Answered(c, "clone", 201) =>
               Contents({row \in components' : row.outcome = answer'[c].id}) =
               Contents(ComponentsOf(pc[c].req.id))]_vars
  <2> SUFFICES ASSUME IndInv, [Next]_vars, NEW c \in Clients, Answered(c, "clone", 201)
               PROVE  Contents({row \in components' : row.outcome = answer'[c].id}) =
                      Contents(ComponentsOf(pc[c].req.id))
    OBVIOUS
  <2> DEFINE id == pc[c].req.id
             S == ComponentsOf(id)
             f == [row \in S |-> CopyOf(row, id, c)]
  <2>1. CloneOutcome(c)
    BY WhoAnswered
  <2>2. /\ components' = components \union Copied(S, c)
        /\ next' = next + 1 + Cardinality(S)
        /\ answer'[c].id = next + 1
    BY <2>1, CloneWritten DEF Answered
  <2>3. pc[c].at \in Nat
    BY <2>1, LockedRequest DEF CloneOutcome
  <2>4. /\ Copied(S, c) = {CopyOf(row, id, c) : row \in S}
        /\ \A row \in S : /\ CopyOf(row, id, c).outcome = next + 1
                          /\ CopyOf(row, id, c).type = row.type
                          /\ CopyOf(row, id, c).config = row.config
                          /\ CopyOf(row, id, c).order = row.order
        /\ \A a, b \in S : CopyOf(a, id, c).id = CopyOf(b, id, c).id => a = b
    BY <2>2, <2>3, CopiesAreRows
  <2>5. IsFiniteSet(S)
    BY SourcesFinite
  <2>6. \A row \in components : row.outcome # next + 1
    <3>1. \A row \in components : row.outcome \in 1..next
      BY DEF IndInv, RowsTyped, ComponentRows
    <3>2. next \in Nat
      BY DEF IndInv, Counters
    <3>3. QED
      BY <3>1, <3>2
  <2>7. {row \in components' : row.outcome = next + 1} = {CopyOf(row, id, c) : row \in S}
    BY <2>2, <2>4, <2>6
  <2> HIDE DEF S
  <2>8. f \in Bijection(S, {CopyOf(row, id, c) : row \in S})
    BY <2>4 DEF Bijection, Injection, IsInjective, Surjection
  <2>9. \A row \in S : f[row].type = row.type /\ f[row].config = row.config /\ f[row].order = row.order
    BY <2>4
  <2> HIDE DEF f
  <2>10. Contents({CopyOf(row, id, c) : row \in S}) = Contents(S)
    BY <2>5, <2>8, <2>9, SameContents
  <2>11. QED
    BY <2>2, <2>7, <2>10 DEF S
<1>2. QED
  BY <1>1, Inductive, PTL DEF Spec, CloneCopies

=============================================================================
