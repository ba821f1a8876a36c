--------------------------- MODULE OutcomeEditing ---------------------------
(***************************************************************************)
(* Editing the outcomes and components of one version:                     *)
(* outcome_service.rs over outcome_repository.rs and                       *)
(* component_repository.rs.                                                *)
(*                                                                         *)
(* Every mutation locks the version's row and holds it until it commits,   *)
(* so what follows the lock is one step; what is read before the lock, and *)
(* which rows the locking statement joins, is what was committed when it   *)
(* began.  VersionLifecycle has the version's own life; here its status    *)
(* changes freely.                                                         *)
(***************************************************************************)
EXTENDS Integers, FiniteSets, FiniteSetsExt

CONSTANTS
    Clients,
    Requests,   \* what clients ask for
    Types,      \* component types, as the CHECK constraint lists them
    MaxInt,     \* the largest order_index; the next one is the smallest
    MaxTitle,   \* length of the title column
    MaxRequests \* bound on the requests sent

None == "none"

ASSUME BoundsAssumption == MaxInt \in Nat /\ MaxTitle \in Nat \ {0} /\ MaxRequests \in Nat

OrderIndex == (-MaxInt - 1)..MaxInt

\* What the bodies hold once they are deserialized and validated, an optional
\* field being a set of at most one value; a config that is valid is of a known type.
ASSUME RequestAssumption ==
    \A req \in Requests :
        /\ req.op = "update" => req.title \subseteq 1..MaxTitle
        /\ req.op \in {"update", "add_component", "update_component"} => req.order \subseteq OrderIndex
        /\ req.op = "add_component" =>
              /\ req.type # {} /\ req.config # {}
              /\ \A config \in req.config : config.valid => config.type \in Types
        /\ req.op = "reorder" => \A item \in req.items : item.order \in OrderIndex

VARIABLES
    status,      \* of the version: "DRAFT", another status, or "deleted"
    outcomes,    \* rows of rre.outcomes; a title is its length
    components,  \* rows of rre.components; a config is its type and validity
    next,        \* ids used
    clock,       \* transactions begun
    pc,          \* per client: what it has begun
    answer       \* per client: the last answer

rows == <<outcomes, components>>
vars == <<status, rows, next, clock, pc, answer>>

Idle == [req |-> None]
NoAnswer == [code |-> 0, id |-> 0]
Answer(code) == [code |-> code, id |-> 0]

OutcomeRow(id, title, builtin, order, created) ==
    [id |-> id, title |-> title, builtin |-> builtin, order |-> order, created |-> created]
ComponentRow(id, outcome, type, config, order, created) ==
    [id |-> id, outcome |-> outcome, type |-> type, config |-> config, order |-> order,
     created |-> created]

\* The version as create_version leaves it: seed_builtin.
Init ==
    /\ status = "DRAFT"
    /\ outcomes = {OutcomeRow(1, 1, TRUE, 0, 0)}
    /\ components = {}
    /\ next = 1
    /\ clock = 0
    /\ pc = [c \in Clients |-> Idle]
    /\ answer = [c \in Clients |-> NoAnswer]

-----------------------------------------------------------------------------
(* Rows *)

With(S, id) == {row \in S : row.id = id}
ComponentsOf(id) == {row \in components : row.outcome = id}

\* ORDER BY order_index ASC, created_at ASC
Before(a, b) == a.order < b.order \/ (a.order = b.order /\ a.created < b.created)

\* i32 arithmetic of a release build.
Succ(n) == IF n = MaxInt THEN -MaxInt - 1 ELSE n + 1

\* Fault: the rows are counted.
CountOrder(S) == Cardinality(S)

\* max_order_index, and the place behind it.
NextOrder(S) == IF S = {} THEN 0 ELSE Succ(Max({row.order : row \in S}))

Coalesce(new, old) == IF new = {} THEN old ELSE CHOOSE v \in new : TRUE
Given(new) == CHOOSE v \in new : TRUE

\* UPDATE ... SET f = COALESCE($n, f): the row as it is now, fields given changed.
Patched(row, req, fields) ==
    [f \in DOMAIN row |-> IF f \in fields THEN Coalesce(req[f], row[f]) ELSE row[f]]

-----------------------------------------------------------------------------
(* A request begins *)

IsComponentOp(op) == op \in {"update_component", "delete_component"}

\* The row a request names, as a set of at most one; create names the version.
Named(req) ==
    IF req.op = "create" THEN IF status = "deleted" THEN {} ELSE {Idle}
    ELSE IF IsComponentOp(req.op) THEN With(components, req.id) ELSE With(outcomes, req.id)

ConfigError(type, config) == config.type # type \/ ~config.valid

\* What is answered before a lock is taken.
EarlyAnswer(req) ==
    IF req.op = "add_component" /\ ConfigError(Given(req.type), Given(req.config)) THEN 422
    ELSE IF Named(req) = {} THEN 404
    ELSE IF req.op = "delete" /\ \E o \in Named(req) : o.builtin THEN 409
    ELSE 0

\* begin, the reads before the lock, and the snapshot of the locking statement.
Begin(c) ==
    /\ pc[c] = Idle
    /\ clock < MaxRequests
    /\ \E req \in Requests :
          \E early \in {EarlyAnswer(req)} :
          /\ req.op # "create" => req.id \in 1..next
          /\ IF early # 0
             THEN pc' = pc /\ answer' = [answer EXCEPT ![c] = Answer(early)]
             ELSE /\ \E seen \in Named(req) :
                        pc' = [pc EXCEPT ![c] = [req |-> req, seen |-> seen, at |-> clock + 1,
                                                 status |-> status]]
                  /\ answer' = [answer EXCEPT ![c] = NoAnswer]
    /\ clock' = clock + 1
    /\ UNCHANGED <<status, rows, next>>

-----------------------------------------------------------------------------
(* The version is locked, and the rest of the transaction *)

\* Fault: the status is the one of the snapshot, as without FOR UPDATE.
StatusAtSnapshot(c) == IF status = "deleted" THEN status ELSE pc[c].status

\* The status of the locked row.
StatusForUpdate(c) == status

Reply(c, code, id) ==
    /\ answer' = [answer EXCEPT ![c] = [code |-> code, id |-> id]]
    /\ pc' = [pc EXCEPT ![c] = Idle]

\* The version is there and a draft; else the transaction is rolled back.
Locked(c, op) ==
    /\ pc[c] # Idle
    /\ pc[c].req.op = op
    /\ StatusForUpdate(c) = "DRAFT"

Refuse(c) ==
    /\ pc[c] # Idle
    /\ StatusForUpdate(c) # "DRAFT"
    /\ Reply(c, IF StatusForUpdate(c) = "deleted" THEN 404 ELSE 409, 0)
    /\ UNCHANGED <<status, rows, next, clock>>

\* Nothing is written: the row is gone, or the request is not valid.
Fail(c, code) == Reply(c, code, 0) /\ UNCHANGED <<status, rows, next, clock>>

Create(c) ==
    /\ Locked(c, "create")
    /\ outcomes' = outcomes \union {OutcomeRow(next + 1, 1, FALSE, NextOrder(outcomes), pc[c].at)}
    /\ next' = next + 1
    /\ Reply(c, 201, next + 1)
    /\ UNCHANGED <<status, components, clock>>

Update(c) ==
    /\ Locked(c, "update")
    /\ \E req \in {pc[c].req} : \E found \in {With(outcomes, req.id)} :
          IF found = {} THEN Fail(c, 404)
          ELSE /\ outcomes' = (outcomes \ found)
                              \union {Patched(o, req, {"title", "order"}) : o \in found}
               /\ Reply(c, 200, req.id)
               /\ UNCHANGED <<status, components, next, clock>>

\* Fault: a foreign key that does not cascade.
KeptRows(id) == {}

\* REFERENCES ... ON DELETE CASCADE
Cascaded(id) == ComponentsOf(id)

Delete(c) ==
    /\ Locked(c, "delete")
    /\ \E req \in {pc[c].req} :
          IF With(outcomes, req.id) = {} THEN Fail(c, 404)
          ELSE /\ outcomes' = outcomes \ With(outcomes, req.id)
               /\ components' = components \ Cascaded(req.id)
               /\ Reply(c, 204, req.id)
               /\ UNCHANGED <<status, next, clock>>

Copy(row, id, outcome, at) == [row EXCEPT !.id = id, !.outcome = outcome, !.created = at]

\* Ids are new and tell nothing but which row is meant: those of copies follow
\* the ids of their sources.
Rank(S, row) == Cardinality({r \in S : r.id <= row.id})

\* Fault: the copies are appended one by one, each behind the last.
CopiedInOrder(sources, c) ==
    {[Copy(row, next + 1 + Rank(sources, row), next + 1, pc[c].at)
         EXCEPT !.order = Rank(sources, row)] : row \in sources}

\* Copies of components, with new ids and times.
Copied(sources, c) ==
    {Copy(row, next + 1 + Rank(sources, row), next + 1, pc[c].at) : row \in sources}

\* The title may be too long for its column once " (copy)" is added.
CloneOutcome(c) ==
    /\ Locked(c, "clone")
    /\ \E sources \in {ComponentsOf(pc[c].req.id)} :
          IF pc[c].seen.title + 1 > MaxTitle THEN Fail(c, 500)
          ELSE /\ outcomes' = outcomes \union {OutcomeRow(next + 1, pc[c].seen.title + 1, FALSE,
                                                          NextOrder(outcomes), pc[c].at)}
               /\ components' = components \union Copied(sources, c)
               /\ next' = next + 1 + Cardinality(sources)
               /\ Reply(c, 201, next + 1)
               /\ UNCHANGED <<status, clock>>

\* An outcome that was deleted during the wait for the lock: its foreign key
\* is refused.
AddComponent(c) ==
    /\ Locked(c, "add_component")
    /\ \E req \in {pc[c].req} :
          IF With(outcomes, req.id) = {} THEN Fail(c, 500)
          ELSE /\ components' = components \union
                      {ComponentRow(next + 1, req.id, Given(req.type), Given(req.config),
                                    Coalesce(req.order, NextOrder(ComponentsOf(req.id))), pc[c].at)}
               /\ next' = next + 1
               /\ Reply(c, 201, next + 1)
               /\ UNCHANGED <<status, outcomes, clock>>

\* The config is validated against the type given, or the one read before the
\* lock; a type the table does not allow is refused by it.
UpdateComponent(c) ==
    /\ Locked(c, "update_component")
    /\ \E req \in {pc[c].req} : \E found \in {With(components, req.id)} :
          IF \E config \in req.config : ConfigError(Coalesce(req.type, pc[c].seen.type), config)
          THEN Fail(c, 422)
          ELSE IF found = {} THEN Fail(c, 404)
          ELSE IF ~(req.type \subseteq Types) THEN Fail(c, 500)
          ELSE /\ components' = (components \ found) \union
                      {Patched(row, req, {"type", "config", "order"}) : row \in found}
               /\ Reply(c, 200, req.id)
               /\ UNCHANGED <<status, outcomes, next, clock>>

DeleteComponent(c) ==
    /\ Locked(c, "delete_component")
    /\ \E req \in {pc[c].req} :
          IF With(components, req.id) = {} THEN Fail(c, 404)
          ELSE /\ components' = components \ With(components, req.id)
               /\ Reply(c, 204, req.id)
               /\ UNCHANGED <<status, outcomes, next, clock>>

Placed(row, order) == [row EXCEPT !.order = order]

Reordered(own, wins) ==
    {IF row \in own /\ row.id \in DOMAIN wins THEN Placed(row, wins[row.id]) ELSE row :
        row \in components}

\* Each item gives a component an order; of two for one component either may win.
Reorder(c) ==
    /\ Locked(c, "reorder")
    /\ \E req \in {pc[c].req} : \E own \in {ComponentsOf(req.id)} :
          IF \E item \in req.items : With(own, item.id) = {} THEN Fail(c, 422)
          ELSE \E wins \in [{item.id : item \in req.items} -> {item.order : item \in req.items}] :
                  /\ \A id \in DOMAIN wins : [id |-> id, order |-> wins[id]] \in req.items
                  /\ components' = Reordered(own, wins)
                  /\ Reply(c, 200, req.id)
                  /\ UNCHANGED <<status, outcomes, next, clock>>

-----------------------------------------------------------------------------
(* The version's own life: once published it is never a draft again *)

Publish ==
    /\ status = "DRAFT"
    /\ status' = "LIVE"
    /\ UNCHANGED <<rows, next, clock, pc, answer>>

DeleteVersion ==
    /\ status # "deleted"
    /\ status' = "deleted"
    /\ outcomes' = {}
    /\ components' = {}
    /\ UNCHANGED <<next, clock, pc, answer>>

Next ==
    \/ \E c \in Clients :
          \/ Begin(c) \/ Refuse(c)
          \/ Create(c) \/ Update(c) \/ Delete(c) \/ CloneOutcome(c) \/ AddComponent(c)
          \/ UpdateComponent(c) \/ DeleteComponent(c) \/ Reorder(c)
    \/ Publish \/ DeleteVersion

Spec == Init /\ [][Next]_vars

-----------------------------------------------------------------------------
(* Properties *)

\* Rows refer to rows that are there, and fit their columns.
TypeOK ==
    /\ status \in {"DRAFT", "LIVE", "deleted"}
    /\ \A o \in outcomes : o.id \in 1..next /\ o.title \in 1..MaxTitle /\ o.order \in OrderIndex
    /\ \A row \in components :
          /\ With(outcomes, row.outcome) # {}
          /\ row.type \in Types
          /\ row.order \in OrderIndex
    /\ \A a, b \in outcomes \union components : a.id = b.id => a = b
    /\ \A c \in Clients : pc[c] # Idle => pc[c].at \in 1..clock

\* The outcomes and components of a version change while it is a draft, and
\* with the version itself, however an edit and a publish interleave.
\* (outcome_service.rs: "closing the draft-edit TOCTOU window")
DraftOnly == [][rows' # rows => status = "DRAFT" \/ status' = "deleted"]_vars

\* The request of c ends in this step.
Answered(c, op, code) ==
    pc[c] # Idle /\ pc[c].req.op = op /\ pc'[c] = Idle /\ answer'[c].code = code

GoesLast(S, S2, id) ==
    (\A row \in S : row.order < MaxInt) => \A row \in S, new \in {n \in S2 : n.id = id} : Before(row, new)

\* What is created without an order comes last in its list, whoever else
\* appended meanwhile, until the largest order is taken.
\* (outcome_service.rs, create and add_component: "Appends")
AppendGoesLast ==
    [][\A c \in Clients :
         /\ Answered(c, "create", 201) \/ Answered(c, "clone", 201) =>
                GoesLast(outcomes, outcomes', answer'[c].id)
         /\ Answered(c, "add_component", 201) /\ pc[c].req.order = {} =>
                GoesLast(ComponentsOf(pc[c].req.id), components', answer'[c].id)]_vars

Contents(S) == [k \in {[type |-> r.type, config |-> r.config, order |-> r.order] : r \in S} |->
                   Cardinality({r \in S : r.type = k.type /\ r.config = k.config /\ r.order = k.order})]

\* A clone has the components its source has when it is made, not those it had
\* when the request began.  (outcome_service.rs, clone_outcome: "Deep-clone")
CloneCopies ==
    [][\A c \in Clients :
         Answered(c, "clone", 201) =>
             Contents({row \in components' : row.outcome = answer'[c].id}) =
             Contents(ComponentsOf(pc[c].req.id))]_vars

=============================================================================
