------------------------- MODULE VersionLifecycle -------------------------
(***************************************************************************)
(* The version lifecycle of one feature: version_service.rs (create,       *)
(* update, publish, unpublish, delete), the outcome edits of               *)
(* outcome_service.rs that decide what a rule graph may refer to, and the  *)
(* PostgreSQL schema of migration 0003 they run on.                        *)
(*                                                                         *)
(* Requests of several clients interleave.  An action is one SQL statement *)
(* (READ COMMITTED: each statement sees the rows committed when it starts  *)
(* plus its own transaction's writes); statements that follow under row    *)
(* locks the transaction already holds, and the COMMIT, belong to the      *)
(* action before them.  A statement that needs a row another transaction   *)
(* has locked waits, so its action is disabled until the lock is free.     *)
(*                                                                         *)
(* Deleted rows leave their identifier free for a later INSERT: a version  *)
(* gets a fresh UUID, and an identifier nobody refers to is as good as     *)
(* fresh.                                                                  *)
(***************************************************************************)
EXTENDS Naturals

CONSTANTS
    Client,         \* concurrent HTTP requests against the backend
    VersionId,      \* versions.id
    Outcome,        \* outcome identities inside a version (see CarryForward)
    Builtin,        \* the protected ShowContent outcome
    Applicability,  \* contents of versions.applicability
    Default,        \* the empty applicability {}
    MaxNumber,      \* bound: no version_number above it is created
    Ops,            \* bound: the operations clients request ...
    Slots,          \* ... the environments they publish to
    Bodies,         \* ... and the request bodies they send
    NoVersion,      \* NULL pointer or Option::None of a version
    NoClient,       \* a row nobody has locked
    Absent          \* a field the request body leaves out

ASSUME BuiltinAssumption == Builtin \in Outcome
ASSUME DefaultAssumption == Default \in Applicability
ASSUME MaxNumberAssumption == MaxNumber \in Nat
ASSUME NullAssumption ==
    /\ NoVersion \notin VersionId
    /\ NoClient \notin Client
    /\ Absent \notin Applicability

VARIABLES
    versions,   \* committed rows of rre.versions with their outcomes
    pointer,    \* features.live_version_id and features.staging_version_id
    lock,       \* the transaction that holds each row's lock
    pc,         \* the statement each client executes next
    req         \* the local variables of each client's handler

vars == <<versions, pointer, lock, pc, req>>

-----------------------------------------------------------------------------
(* The data *)

Env == {"live", "staging"}
Status == {"draft", "staging", "live", "prev"}

\* A row of rre.versions.  graph is the set of outcomes its apply_outcome
\* nodes name; outcomes is the set of rre.outcomes rows it owns.
Row == [number : 0..MaxNumber,
        status : Status \union {"absent"},
        graph : SUBSET Outcome,
        outcomes : SUBSET Outcome,
        applicability : Applicability]

NoRow == [number |-> 0, status |-> "absent", graph |-> {}, outcomes |-> {},
          applicability |-> Default]

Exists(v) == versions[v].status # "absent"
Rows == {v \in VersionId : Exists(v)}
RowsWith(s) == {v \in VersionId : versions[v].status = s}
Numbers(S) == {versions[v].number : v \in S}

\* n is MAX(version_number) + 1 over S, and 1 when S is empty.
IsNextNumber(n, S) ==
    /\ \A m \in Numbers(S) : m < n
    /\ n = 1 \/ n - 1 \in Numbers(S)

ASSUME RequestAssumption ==
    /\ Slots \subseteq Env
    /\ \A body \in Bodies :
          /\ body.graph = Absent \/ body.graph \subseteq Outcome
          /\ body.applicability \in Applicability \union {Absent}

-----------------------------------------------------------------------------
(* Handlers and their transactions *)

\* A handler answers 2xx or 4xx and is "idle", or it answers 500.
Failure == {"unique_violation", "row_not_found", "deadlock_detected"}
Waiting == {"create_lock", "update_write", "publish_lock", "publish_demote",
            "unpublish_lock", "delete_write", "outcome_delete"}
Statement == Waiting \union Failure \union
             {"idle", "create_source", "create_insert", "update_validate",
              "publish_find", "publish_promote", "unpublish_write"}

Request == [target : VersionId \union {NoVersion},
            env : Env,
            seen : Status \union {"absent"},
            other : VersionId \union {NoVersion},
            todo : SUBSET VersionId,
            graph : (SUBSET Outcome) \union {Absent},
            applicability : Applicability \union {Absent},
            outcome : Outcome]

NoRequest == [target |-> NoVersion, env |-> "live", seen |-> "absent",
              other |-> NoVersion, todo |-> {}, graph |-> Absent,
              applicability |-> Absent, outcome |-> Builtin]

Sending(body) == [NoRequest EXCEPT !.graph = body.graph,
                                   !.applicability = body.applicability]

Init ==
    /\ versions = [v \in VersionId |-> NoRow]
    /\ pointer = [e \in Env |-> NoVersion]
    /\ lock = [v \in VersionId |-> NoClient]
    /\ pc = [c \in Client |-> "idle"]
    /\ req = [c \in Client |-> NoRequest]

Free(v) == lock[v] = NoClient
Held(c) == {v \in VersionId : lock[v] = c}

Goto(c, statement, r) ==
    /\ pc' = [pc EXCEPT ![c] = statement]
    /\ req' = [req EXCEPT ![c] = r]

\* COMMIT or ROLLBACK, which release the row locks, and the response.
Respond(c, answer) ==
    /\ Goto(c, answer, NoRequest)
    /\ lock' = [v \in VersionId |-> IF lock[v] = c THEN NoClient ELSE lock[v]]

\* Fault: an applicability left out overwrites the column with NULL.
CoalesceForgotten(new, old) ==
    IF new = Absent /\ old \notin Applicability THEN old ELSE new

\* COALESCE($n, column): a field the request leaves out keeps its value.
Coalesce(new, old) == IF new = Absent THEN old ELSE new

\* A first statement outside a transaction, or in one that locks nothing.
Start(c, op, statement, r) ==
    /\ op \in Ops
    /\ pc[c] = "idle"
    /\ Goto(c, statement, r)
    /\ UNCHANGED <<versions, pointer, lock>>

\* An identifier no row, lock or handler refers to.
Referenced == Rows \union UNION {{req[c].target, req[c].other} \union req[c].todo : c \in Client}
Fresh == VersionId \ Referenced

\* The rule of rule_graph_service::validate this module depends on: every
\* apply_outcome node names an outcome of the version.
Valid(graph, outcomes) == graph \subseteq outcomes

\* Fault: the status check is missing.
DraftNotRequired(v) == TRUE

RequireDraft(v) == versions[v].status = "draft"

UpdateStatus(row, status) == [row EXCEPT !.status = status]

-----------------------------------------------------------------------------
(* create_version *)

\* The lock the CTE waits for next, and the rows it has to lock after that.
NextRow(r, v, rows) == [r EXCEPT !.other = v, !.todo = rows \ {v}]

\* The handler begins and the CTE of max_version_number_for_update takes its
\* snapshot: these rows it locks, one after the other, in heap order.
BeginCreate(c, body) ==
    /\ \A n \in Numbers(Rows) : n < MaxNumber
    /\ \/ /\ Rows = {}
          /\ Start(c, "create", "create_source", Sending(body))
       \/ \E first \in Rows :
             Start(c, "create", "create_lock", NextRow(Sending(body), first, Rows))

\* The next row of the CTE; one deleted since the snapshot is skipped.
LockForCreate(c) ==
    LET r == req[c] IN
    /\ pc[c] = "create_lock"
    /\ Free(r.other)
    /\ lock' = [lock EXCEPT ![r.other] = IF Exists(r.other) THEN c ELSE NoClient]
    /\ \/ /\ r.todo = {}
          /\ Goto(c, "create_source", [r EXCEPT !.other = NoVersion])
       \/ \E next \in r.todo :
             Goto(c, "create_lock", NextRow(r, next, r.todo))
    /\ UNCHANGED <<versions, pointer>>

\* next_number, over the rows the CTE returned: those the transaction locked.
NextNumber(c, n) == IsNextNumber(n, Held(c))

\* The version to carry forward from: LIVE, else the one numbered below.
Sources(c) ==
    IF RowsWith("live") # {} THEN RowsWith("live")
    ELSE {v \in Rows : NextNumber(c, versions[v].number + 1)}

\* The graph and applicability of the body, else those of the source.
ReadSource(c) ==
    /\ pc[c] = "create_source"
    /\ \/ /\ Sources(c) = {}
          /\ Goto(c, "create_insert",
                  [req[c] EXCEPT !.graph = Coalesce(@, {}),
                                 !.applicability = Coalesce(@, Default)])
       \/ \E source \in Sources(c) :
             Goto(c, "create_insert",
                  [req[c] EXCEPT
                     !.other = source,
                     !.graph = Coalesce(@, versions[source].graph),
                     !.applicability = Coalesce(@, versions[source].applicability)])
    /\ UNCHANGED <<versions, pointer, lock>>

\* carry_forward_outcomes gives each source outcome a copy with a new UUID and
\* remap_outcome_refs renames the graph's references along, so a copy keeps
\* its name here; without a source, seed_builtin.  A reference to an outcome
\* the source does not own stays as it is and names nothing.
CarryForward(source) ==
    IF source = NoVersion THEN {Builtin} ELSE versions[source].outcomes

\* versions_feature_vnum_uniq: no two rows of the feature have one number.
Taken(n) == n \in Numbers(Rows)

\* INSERT fails on that constraint: another request has taken the number.
InsertConflict(c) ==
    /\ pc[c] = "create_insert"
    /\ \E n \in 1..MaxNumber : NextNumber(c, n) /\ Taken(n)
    /\ Respond(c, "unique_violation")
    /\ UNCHANGED <<versions, pointer>>

\* The graph fails validation: 422, and the INSERT is rolled back.
InsertInvalid(c) ==
    /\ pc[c] = "create_insert"
    /\ \E n \in 1..MaxNumber : NextNumber(c, n) /\ ~Taken(n)
    /\ ~Valid(req[c].graph, CarryForward(req[c].other))
    /\ Respond(c, "idle")
    /\ UNCHANGED <<versions, pointer>>

InsertVersion(c) ==
    LET outcomes == CarryForward(req[c].other) IN
    /\ pc[c] = "create_insert"
    /\ Valid(req[c].graph, outcomes)
    /\ \E v \in Fresh, n \in 1..MaxNumber :
          /\ NextNumber(c, n) /\ ~Taken(n)
          /\ versions' = [versions EXCEPT
                         ![v] = [number |-> n, status |-> "draft",
                                 graph |-> req[c].graph, outcomes |-> outcomes,
                                 applicability |-> req[c].applicability]]
    /\ Respond(c, "idle")
    /\ UNCHANGED pointer

-----------------------------------------------------------------------------
(* update *)

\* find_by_number on the pool, then the DRAFT check; a graph is validated next.
FindForUpdate(c, v, body) ==
    /\ Exists(v)
    /\ RequireDraft(v)
    /\ body.graph # Absent \/ body.applicability # Absent
    /\ Start(c, "update",
             IF body.graph = Absent THEN "update_write" ELSE "update_validate",
             [Sending(body) EXCEPT !.target = v])

\* Fault: the graph is stored as sent.
ValidateNothing(c) ==
    /\ pc[c] = "update_validate"
    /\ Goto(c, "update_write", req[c])
    /\ UNCHANGED <<versions, pointer, lock>>

\* The outcomes are read on the pool as well; a graph that names others is a 422.
ValidateUpdate(c) ==
    LET valid == Valid(req[c].graph, versions[req[c].target].outcomes) IN
    /\ pc[c] = "update_validate"
    /\ \/ /\ valid
          /\ Goto(c, "update_write", req[c])
       \/ /\ ~valid
          /\ Goto(c, "idle", NoRequest)
    /\ UNCHANGED <<versions, pointer, lock>>

\* update_fields: UPDATE ... WHERE id = $1, each field COALESCEd.
WriteUpdate(c) ==
    LET r == req[c] IN
    /\ pc[c] = "update_write"
    /\ Free(r.target)
    /\ \/ /\ Exists(r.target)
          /\ versions' = [versions EXCEPT
                ![r.target].graph = Coalesce(r.graph, @),
                ![r.target].applicability = Coalesce(r.applicability, @)]
          /\ Respond(c, "idle")
       \/ /\ ~Exists(r.target)
          /\ Respond(c, "row_not_found")
          /\ UNCHANGED versions
    /\ UNCHANGED pointer

-----------------------------------------------------------------------------
(* publish *)

FindForPublish(c, v, e) ==
    /\ Exists(v)
    /\ Start(c, "publish", "publish_lock",
             [NoRequest EXCEPT !.target = v, !.env = e])

\* Fault: find_by_id, without FOR UPDATE.
ReadForPublish(c) ==
    LET r == req[c]
        status == versions[r.target].status IN
    /\ pc[c] = "publish_lock"
    /\ Free(r.target)
    /\ \/ /\ status \in {"absent", r.env}
          /\ Respond(c, "idle")
       \/ /\ status \notin {"absent", r.env}
          /\ Goto(c, "publish_find", [r EXCEPT !.seen = status])
          /\ UNCHANGED lock
    /\ UNCHANGED <<versions, pointer>>

\* find_by_id_for_update on the target; gone is a 404, already there a 409.
LockForPublish(c) ==
    LET r == req[c]
        status == versions[r.target].status IN
    /\ pc[c] = "publish_lock"
    /\ Free(r.target)
    /\ \/ /\ status \in {"absent", r.env}
          /\ Respond(c, "idle")
       \/ /\ status \notin {"absent", r.env}
          /\ lock' = [lock EXCEPT ![r.target] = c]
          /\ Goto(c, "publish_find", [r EXCEPT !.seen = status])
    /\ UNCHANGED <<versions, pointer>>

\* find_by_status, which locks nothing: the row to demote, if there is one.
FindCurrent(c) ==
    LET current == RowsWith(req[c].env) \ {req[c].target} IN
    /\ pc[c] = "publish_find"
    /\ \/ /\ current = {}
          /\ Goto(c, "publish_promote", req[c])
       \/ \E r \in current :
             Goto(c, "publish_demote", [req[c] EXCEPT !.other = r])
    /\ UNCHANGED <<versions, pointer, lock>>

\* UPDATE of the row found to PREV, whatever its status has become.
Demote(c) ==
    LET current == req[c].other IN
    /\ pc[c] = "publish_demote"
    /\ Free(current)
    /\ \/ /\ Exists(current)
          /\ lock' = [lock EXCEPT ![current] = c]
          /\ Goto(c, "publish_promote", req[c])
       \/ /\ ~Exists(current)
          /\ Respond(c, "row_not_found")
    /\ UNCHANGED <<versions, pointer>>

\* Fault: publish_staging always sets the status.
NeverKeepsStatus(c) == FALSE

\* A LIVE target published to staging keeps its status and moves the pointer only.
KeepsStatus(c) == req[c].env = "staging" /\ req[c].seen = "live"

\* Faults: one of the partial unique indexes is missing.
RivalsWithoutLiveIndex(c) ==
    IF req[c].env = "live" \/ KeepsStatus(c) THEN {}
    ELSE RowsWith(req[c].env) \ {req[c].target, req[c].other}

RivalsWithoutStagingIndex(c) ==
    IF req[c].env = "staging" THEN {}
    ELSE RowsWith(req[c].env) \ {req[c].target, req[c].other}

\* Rows whose committed status collides with the target's new one in a partial
\* unique index (versions_one_{live,staging}_per_feature).
Rivals(c) ==
    IF KeepsStatus(c) THEN {}
    ELSE RowsWith(req[c].env) \ {req[c].target, req[c].other}

\* Another transaction has demoted the row and not committed yet: the index
\* check waits for it.
DemotionPending(v) == \E d \in Client : pc[d] = "publish_promote" /\ req[d].other = v

\* UPDATE of the target, UPDATE of the feature's pointer, COMMIT.
Promote(c) ==
    LET r == req[c] IN
    /\ pc[c] = "publish_promote"
    /\ Rivals(c) = {}
    /\ versions' = [v \in VersionId |->
          IF v = r.target /\ ~KeepsStatus(c) THEN UpdateStatus(versions[v], r.env)
          ELSE IF v = r.other THEN UpdateStatus(versions[v], "prev")
          ELSE versions[v]]
    /\ pointer' = [pointer EXCEPT ![r.env] = r.target]
    /\ Respond(c, "idle")

PromoteConflict(c) ==
    /\ pc[c] = "publish_promote"
    /\ \E v \in Rivals(c) : ~DemotionPending(v)
    /\ Respond(c, "unique_violation")
    /\ UNCHANGED <<versions, pointer>>

-----------------------------------------------------------------------------
(* unpublish *)

FindForUnpublish(c, v, e) ==
    /\ Exists(v)
    /\ Start(c, "unpublish", "unpublish_lock",
             [NoRequest EXCEPT !.target = v, !.env = e])

\* The row of the environment, or the LIVE row that also is the staging one.
Retractable(v, e) ==
    \/ versions[v].status = e
    \/ e = "staging" /\ versions[v].status = "live" /\ pointer["staging"] = v

\* Fault: what is not retractable is looked at again, not answered with a 409.
LockForUnpublishRetrying(c) ==
    LET r == req[c] IN
    /\ pc[c] = "unpublish_lock"
    /\ Free(r.target)
    /\ IF Retractable(r.target, r.env)
       THEN /\ lock' = [lock EXCEPT ![r.target] = c]
            /\ Goto(c, "unpublish_write", [r EXCEPT !.seen = versions[r.target].status])
       ELSE UNCHANGED <<lock, pc, req>>
    /\ UNCHANGED <<versions, pointer>>

\* find_by_id_for_update, the checks, and the read of the pointers.
LockForUnpublish(c) ==
    LET r == req[c] IN
    /\ pc[c] = "unpublish_lock"
    /\ Free(r.target)
    /\ \/ /\ Retractable(r.target, r.env)
          /\ lock' = [lock EXCEPT ![r.target] = c]
          /\ Goto(c, "unpublish_write",
                  [r EXCEPT !.seen = versions[r.target].status])
       \/ /\ ~Retractable(r.target, r.env)
          /\ Respond(c, "idle")
    /\ UNCHANGED <<versions, pointer>>

\* Fault: the pointer is not cleared.
UnpublishRowOnly(c) ==
    LET r == req[c] IN
    /\ pc[c] = "unpublish_write"
    /\ versions' = IF r.seen = r.env
                   THEN [versions EXCEPT ![r.target] = UpdateStatus(@, "prev")]
                   ELSE versions
    /\ Respond(c, "idle")
    /\ UNCHANGED pointer

\* UPDATE of the row to PREV, UPDATE of the pointer to NULL, COMMIT.
WriteUnpublish(c) ==
    LET r == req[c] IN
    /\ pc[c] = "unpublish_write"
    /\ versions' = IF r.seen = r.env
                   THEN [versions EXCEPT ![r.target] = UpdateStatus(@, "prev")]
                   ELSE versions
    /\ pointer' = [pointer EXCEPT ![r.env] = NoVersion]
    /\ Respond(c, "idle")

-----------------------------------------------------------------------------
(* delete *)

\* find_by_number on the pool and the check that the row is DRAFT or PREV.
FindForDelete(c, v) ==
    /\ versions[v].status \in {"draft", "prev"}
    /\ Start(c, "delete", "delete_write", [NoRequest EXCEPT !.target = v])

\* Fault: the pointers have no foreign keys.
SetNothing(v) == pointer

\* ON DELETE SET NULL of features_staging_version_fk and features_live_version_fk.
SetNull(v) == [e \in Env |-> IF pointer[e] = v THEN NoVersion ELSE pointer[e]]

\* DELETE ... WHERE id = $1, of which the outcomes cascade.
DeleteVersion(c) ==
    LET v == req[c].target IN
    /\ pc[c] = "delete_write"
    /\ Free(v)
    /\ versions' = [versions EXCEPT ![v] = NoRow]
    /\ pointer' = SetNull(v)
    /\ Respond(c, "idle")

-----------------------------------------------------------------------------
(* Outcomes of a version: outcome_service create and delete *)

\* An outcome's UUID is new: no graph, stored or sent, and no handler names it.
NewOutcome(v, o) ==
    /\ o \notin versions[v].outcomes \union versions[v].graph
    /\ \A c \in Client : /\ pc[c] # "idle" => req[c].outcome # o
                         /\ req[c].graph # Absent => o \notin req[c].graph

\* One transaction: lock the version row, require DRAFT, INSERT, COMMIT.
CreateOutcome(c, v, o) ==
    /\ "outcome" \in Ops
    /\ pc[c] = "idle"
    /\ Free(v)
    /\ Exists(v)
    /\ RequireDraft(v)
    /\ NewOutcome(v, o)
    /\ versions' = [versions EXCEPT ![v].outcomes = @ \union {o}]
    /\ UNCHANGED <<pointer, lock, pc, req>>

\* outcomes::find and the builtin check precede the lock.
FindOutcome(c, v, o) ==
    /\ o \in versions[v].outcomes \ {Builtin}
    /\ Start(c, "outcome", "outcome_delete",
             [NoRequest EXCEPT !.target = v, !.outcome = o])

\* Fault: the DRAFT check is missing after the lock.
DeleteOutcomeUnchecked(c) ==
    LET r == req[c] IN
    /\ pc[c] = "outcome_delete"
    /\ Free(r.target)
    /\ versions' = [versions EXCEPT ![r.target].outcomes = @ \ {r.outcome}]
    /\ Respond(c, "idle")
    /\ UNCHANGED pointer

\* Lock the version row, require DRAFT, DELETE, COMMIT.
DeleteOutcome(c) ==
    LET r == req[c] IN
    /\ pc[c] = "outcome_delete"
    /\ Free(r.target)
    /\ versions' = [versions EXCEPT
          ![r.target].outcomes =
              IF RequireDraft(r.target) THEN @ \ {r.outcome} ELSE @]
    /\ Respond(c, "idle")
    /\ UNCHANGED pointer

-----------------------------------------------------------------------------
(* PostgreSQL's deadlock detector, and the client that got its answer *)

Wanted(c) ==
    IF pc[c] \in {"create_lock", "publish_demote"} THEN {req[c].other}
    ELSE IF pc[c] \in Waiting THEN {req[c].target}
    ELSE IF pc[c] = "publish_promote" THEN Rivals(c)
    ELSE {}

WaitsFor(c) == {lock[v] : v \in Wanted(c)} \ {NoClient, c}

Deadlocked(c) ==
    \E cycle \in SUBSET Client :
        /\ c \in cycle
        /\ \A d \in cycle : /\ WaitsFor(d) \intersect cycle # {}
                            /\ \E b \in cycle : d \in WaitsFor(b)

AbortVictim(c) ==
    /\ Deadlocked(c)
    /\ Respond(c, "deadlock_detected")
    /\ UNCHANGED <<versions, pointer>>

\* The client takes the 500 and may send another request.
TakeFailure(c) ==
    /\ pc[c] \in Failure
    /\ Goto(c, "idle", NoRequest)
    /\ UNCHANGED <<versions, pointer, lock>>

-----------------------------------------------------------------------------
(* The specification *)

NewRequest(c) ==
    \/ \E body \in Bodies : BeginCreate(c, body)
    \/ \E v \in VersionId :
          \/ \E body \in Bodies : FindForUpdate(c, v, body)
          \/ \E e \in Slots : FindForPublish(c, v, e) \/ FindForUnpublish(c, v, e)
          \/ FindForDelete(c, v)
          \/ \E o \in Outcome : CreateOutcome(c, v, o) \/ FindOutcome(c, v, o)

\* The next statement of a handler that has begun.
Continue(c) ==
    \/ LockForCreate(c) \/ ReadSource(c)
    \/ InsertConflict(c) \/ InsertInvalid(c) \/ InsertVersion(c)
    \/ ValidateUpdate(c) \/ WriteUpdate(c)
    \/ LockForPublish(c) \/ FindCurrent(c) \/ Demote(c)
    \/ Promote(c) \/ PromoteConflict(c)
    \/ LockForUnpublish(c) \/ WriteUnpublish(c)
    \/ DeleteVersion(c)
    \/ DeleteOutcome(c)
    \/ AbortVictim(c)
    \/ TakeFailure(c)

Next == \E c \in Client : NewRequest(c) \/ Continue(c)

Spec == Init /\ [][Next]_vars

\* PostgreSQL queues the waiters of a row lock, so a lock that becomes free
\* again and again reaches each of them.
FairSpec == Spec /\ \A c \in Client : SF_vars(Continue(c))

-----------------------------------------------------------------------------
(* Properties that hold however requests interleave *)

\* Values of every variable: rows, pointers, locks and handler locals.
TypeOK ==
    /\ versions \in [VersionId -> Row]
    /\ pointer \in [Env -> VersionId \union {NoVersion}]
    /\ lock \in [VersionId -> Client \union {NoClient}]
    /\ pc \in [Client -> Statement]
    /\ req \in [Client -> Request]

\* A version whose status says LIVE is the one the feature's live pointer
\* serves, so there is at most one: publish_live's demotion, promotion and
\* pointer move commit together, and the unique index stops a rival.
LiveRowIsPointed ==
    \A v \in VersionId : versions[v].status = "live" => pointer["live"] = v

\* At most one version is STAGING, though publishes that missed each other's
\* demotion race on the unique index.
OneStagingRow ==
    \A v, w \in VersionId :
        versions[v].status = "staging" /\ versions[w].status = "staging" => v = w

\* A pointer never outlives its version: active_version finds the row.
PointersResolve ==
    \A e \in Env : pointer[e] # NoVersion => Exists(pointer[e])

\* Two versions never share a number, though create_version computes it from
\* rows that may change before it inserts.
NumbersUnique ==
    \A v, w \in Rows : versions[v].number = versions[w].number => v = w

\* The outcomes of a version that is no longer DRAFT never change: the row
\* lock closes the window between outcome_service's draft check and its write
\* in which a publish could slip through.
OutcomesFrozen ==
    [][\A v \in VersionId :
         versions[v].status \in {"staging", "live", "prev"} /\ Exists(v)'
            => versions'[v].outcomes = versions[v].outcomes]_vars

\* A version follows draft -> staging | live -> prev and from prev back to
\* staging or live; in particular a published version is never DRAFT, and
\* editable, again.
MayBecome(old, new) ==
    \/ old = new \/ new = "absent"
    \/ old = "absent" /\ new = "draft"
    \/ old \in {"draft", "prev"} /\ new \in {"staging", "live"}
    \/ old \in {"staging", "live"} /\ new = "prev"
    \/ old = "staging" /\ new = "live"

LifecycleSteps ==
    [][\A v \in VersionId : MayBecome(versions[v].status, versions'[v].status)]_vars

\* Every handler ends: a lock wait ends with the lock or with the deadlock
\* detector's verdict.
EveryRequestAnswered == \A c \in Client : pc[c] # "idle" ~> pc[c] = "idle"

-----------------------------------------------------------------------------
(* Properties the guards give one request at a time *)

\* Status LIVE and the live pointer say the same of every version.
LivePointerNamesLiveRow ==
    \A v \in VersionId : pointer["live"] = v => versions[v].status = "live"

\* Only DRAFT versions are edited: graph and applicability of any other stay.
PublishedContentFrozen ==
    [][\A v \in VersionId :
         versions[v].status \in {"staging", "live", "prev"} /\ Exists(v)'
            => /\ versions'[v].graph = versions[v].graph
               /\ versions'[v].applicability = versions[v].applicability]_vars

\* A graph that is stored names only outcomes the version has at that moment.
StoredGraphValid ==
    [][\A v \in VersionId :
         versions'[v].graph # versions[v].graph
            => Valid(versions'[v].graph, versions'[v].outcomes)]_vars

\* Requests take effect one at a time, each as its contract says.
Board == INSTANCE PublicationBoard WITH
            status <- [v \in VersionId |-> versions[v].status],
            live <- pointer["live"],
            staging <- pointer["staging"]

ImplementsBoard == Board!Spec

=============================================================================
