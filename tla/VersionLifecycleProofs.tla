----------------------- MODULE VersionLifecycleProofs -----------------------
(***************************************************************************)
(* Proofs about VersionLifecycle for every set of clients, versions and    *)
(* outcomes.  IndInv is inductive on its own: a handler's row stays locked *)
(* and unchanged between its statements.  The properties build on it.      *)
(***************************************************************************)
EXTENDS VersionLifecycle, TLAPS

\* Statements a transaction executes with its target row locked.
TargetLocked == {"publish_find", "publish_demote", "publish_promote", "unpublish_write"}
TargetNamed == {"update_validate", "update_write", "publish_lock", "unpublish_lock",
                "delete_write", "outcome_delete"} \union TargetLocked
Demoting == {"publish_demote", "publish_promote"}

\* What a handler relies on from one statement to the next.
NamesTarget(c) == pc[c] \in TargetNamed => req[c].target \in VersionId

HoldsTarget(c) ==
    pc[c] \in TargetLocked => /\ lock[req[c].target] = c
                              /\ req[c].seen = versions[req[c].target].status

WillChange(c) ==
    pc[c] \in {"publish_find"} \union Demoting => req[c].seen # req[c].env

WillRetract(c) ==
    pc[c] = "unpublish_write" => req[c].seen \in {req[c].env, "live"}

NamesOther(c) ==
    /\ pc[c] \in {"create_lock", "publish_demote"} => req[c].other \in VersionId
    /\ pc[c] \in {"publish_lock", "publish_find"} => req[c].other = NoVersion
    /\ pc[c] \in Demoting => req[c].other # req[c].target

HoldsOther(c) ==
    pc[c] = "publish_promote" /\ req[c].other # NoVersion => lock[req[c].other] = c

\* A row found LIVE or STAGING never is a DRAFT again, nor is its identifier
\* given to a new one while the handler remembers it.
OtherPublished(c) ==
    pc[c] \in Demoting /\ req[c].other # NoVersion
        => versions[req[c].other].status # "draft"

BodyComplete(c) ==
    pc[c] = "create_insert" => /\ req[c].graph \in SUBSET Outcome
                               /\ req[c].applicability \in Applicability

Handler(c) ==
    /\ NamesTarget(c) /\ HoldsTarget(c) /\ WillChange(c) /\ WillRetract(c)
    /\ NamesOther(c) /\ HoldsOther(c) /\ OtherPublished(c) /\ BodyComplete(c)

LockedRowsExist == \A v \in VersionId : lock[v] # NoClient => Exists(v)

IndInv == TypeOK /\ LockedRowsExist /\ \A c \in Client : Handler(c)

USE NullAssumption, BuiltinAssumption, DefaultAssumption, MaxNumberAssumption

-----------------------------------------------------------------------------

\* The initial state: no rows, no locks, idle clients.
LEMMA InitIndInv == Init => IndInv
<1> SUFFICES ASSUME Init PROVE IndInv
  OBVIOUS
<1>1. NoRequest \in Request /\ NoRow \in Row
  BY DEF NoRequest, Request, NoRow, Row, Env, Status
<1>2. TypeOK
  BY <1>1 DEF Init, TypeOK, Statement, Env
<1>3. LockedRowsExist
  BY DEF Init, LockedRowsExist
<1>4. ASSUME NEW c \in Client PROVE Handler(c)
  BY DEF Init, Handler, NamesTarget, HoldsTarget, WillChange, WillRetract, NamesOther,
         HoldsOther, OtherPublished, BodyComplete, TargetNamed, TargetLocked, Demoting
<1>5. QED
  BY <1>2, <1>3, <1>4 DEF IndInv

\* A row given a status is that row but for the status.
LEMMA UpdateStatusType ==
    ASSUME NEW row \in Row, NEW s \in Status
    PROVE /\ UpdateStatus(row, s) \in Row
          /\ UpdateStatus(row, s).status = s
          /\ UpdateStatus(row, s).number = row.number
          /\ UpdateStatus(row, s).outcomes = row.outcomes
          /\ UpdateStatus(row, s).graph = row.graph
          /\ UpdateStatus(row, s).applicability = row.applicability
BY DEF UpdateStatus, Row

\* Requests a body starts are well typed.
LEMMA SendingType ==
    ASSUME NEW body \in Bodies
    PROVE Sending(body) \in Request /\ Sending(body).target = NoVersion
          /\ Sending(body).graph = body.graph /\ Sending(body).other = NoVersion
<1>1. /\ body.graph = Absent \/ body.graph \subseteq Outcome
      /\ body.applicability \in Applicability \union {Absent}
  BY RequestAssumption
<1>2. QED
  BY <1>1 DEF Sending, NoRequest, Request, Env, Status

\* Naming the next row to lock, and those after it, keeps a request a request.
LEMMA NextRowType ==
    ASSUME NEW q \in Request, NEW v \in VersionId, NEW rows \in SUBSET VersionId
    PROVE NextRow(q, v, rows) \in Request /\ NextRow(q, v, rows).other = v
<1>1. rows \ {v} \in SUBSET VersionId
  OBVIOUS
<1>2. QED
  BY <1>1 DEF NextRow, Request

\* Respond leaves values of the right type and releases the client's locks.
LEMMA RespondType ==
    ASSUME TypeOK, NEW c \in Client, NEW answer \in Statement, Respond(c, answer)
    PROVE /\ pc' \in [Client -> Statement]
          /\ req' \in [Client -> Request]
          /\ lock' \in [VersionId -> Client \union {NoClient}]
<1>1. NoRequest \in Request
  BY DEF NoRequest, Request, Env, Status
<1>2. QED
  BY <1>1 DEF TypeOK, Respond, Goto

-----------------------------------------------------------------------------

\* What every step leaves alone.  A step of client d changes no other
\* handler's locals, no row another transaction has locked and no lock but its
\* own; it makes a version DRAFT only under an identifier nobody refers to.
Confined(d) ==
    /\ \A c \in Client \ {d} : pc'[c] = pc[c] /\ req'[c] = req[c]
    /\ \A v \in VersionId :
          /\ lock[v] \notin {d, NoClient} => lock'[v] = lock[v] /\ versions'[v] = versions[v]
          /\ versions[v].status # "draft" /\ v \notin Fresh => versions'[v].status # "draft"

\* A request's first statement.
LEMMA NewRequestStep ==
    ASSUME IndInv, NEW d \in Client, NewRequest(d)
    PROVE TypeOK' /\ LockedRowsExist' /\ Confined(d) /\ Handler(d)'
<1> USE DEF IndInv, TypeOK, LockedRowsExist, Confined, Handler, NamesTarget, HoldsTarget,
            WillChange, WillRetract, NamesOther, HoldsOther, OtherPublished, BodyComplete,
            TargetNamed, TargetLocked, Demoting, Exists
<1>1. NoRequest \in Request /\ NoRequest.target = NoVersion /\ NoRequest.other = NoVersion
  BY DEF NoRequest, Request, Env, Status
<1>2. ASSUME NEW body \in Bodies, BeginCreate(d, body)
      PROVE TypeOK' /\ LockedRowsExist' /\ Confined(d) /\ Handler(d)'
  <2>1. CASE Start(d, "create", "create_source", Sending(body))
    BY <2>1, SendingType DEF Start, Goto, Statement, Waiting
  <2>2. ASSUME NEW first \in Rows,
               Start(d, "create", "create_lock", NextRow(Sending(body), first, Rows))
        PROVE TypeOK' /\ LockedRowsExist' /\ Confined(d) /\ Handler(d)'
    <3>1. first \in VersionId /\ Rows \in SUBSET VersionId
      BY DEF Rows
    <3>2. QED
      BY <2>2, <3>1, SendingType, NextRowType DEF Start, Goto, Statement, Waiting
  <2>3. QED
    BY <1>2, <2>1, <2>2 DEF BeginCreate
<1>3. ASSUME NEW v \in VersionId, NEW body \in Bodies, FindForUpdate(d, v, body)
      PROVE TypeOK' /\ LockedRowsExist' /\ Confined(d) /\ Handler(d)'
  <2> DEFINE r == [Sending(body) EXCEPT !.target = v]
  <2>1. r \in Request /\ r.target = v /\ r.graph = body.graph
    BY SendingType DEF Request
  <2>2. Start(d, "update", IF body.graph = Absent THEN "update_write"
                           ELSE "update_validate", r)
    BY <1>3 DEF FindForUpdate
  <2> HIDE DEF r
  <2>3. QED
    BY <2>1, <2>2 DEF Start, Goto, Statement, Waiting
<1>4. ASSUME NEW v \in VersionId, NEW e \in Slots, NEW op, NEW s \in {"publish_lock", "unpublish_lock"},
             Start(d, op, s, [NoRequest EXCEPT !.target = v, !.env = e])
      PROVE TypeOK' /\ LockedRowsExist' /\ Confined(d) /\ Handler(d)'
  <2> DEFINE r == [NoRequest EXCEPT !.target = v, !.env = e]
  <2>1. r \in Request /\ r.target = v /\ r.other = NoVersion
    BY RequestAssumption DEF Request, NoRequest, Status, Env
  <2>2. Start(d, op, s, r)
    BY <1>4
  <2> HIDE DEF r
  <2>3. QED
    BY <2>1, <2>2 DEF Start, Goto, Statement, Waiting
<1>5. ASSUME NEW v \in VersionId, FindForDelete(d, v)
      PROVE TypeOK' /\ LockedRowsExist' /\ Confined(d) /\ Handler(d)'
  <2> DEFINE r == [NoRequest EXCEPT !.target = v]
  <2>1. r \in Request /\ r.target = v
    BY <1>1 DEF Request
  <2>2. Start(d, "delete", "delete_write", r)
    BY <1>5 DEF FindForDelete
  <2> HIDE DEF r
  <2>3. QED
    BY <2>1, <2>2 DEF Start, Goto, Statement, Waiting
<1>6. ASSUME NEW v \in VersionId, NEW o \in Outcome, FindOutcome(d, v, o)
      PROVE TypeOK' /\ LockedRowsExist' /\ Confined(d) /\ Handler(d)'
  <2> DEFINE r == [NoRequest EXCEPT !.target = v, !.outcome = o]
  <2>1. r \in Request /\ r.target = v
    BY <1>1 DEF Request
  <2>2. Start(d, "outcome", "outcome_delete", r)
    BY <1>6 DEF FindOutcome
  <2> HIDE DEF r
  <2>3. QED
    BY <2>1, <2>2 DEF Start, Goto, Statement, Waiting
<1>7. ASSUME NEW v \in VersionId, NEW o \in Outcome, CreateOutcome(d, v, o)
      PROVE TypeOK' /\ LockedRowsExist' /\ Confined(d) /\ Handler(d)'
  BY <1>7 DEF CreateOutcome, RequireDraft, Free, Row
<1>8. QED
  BY <1>2, <1>3, <1>4, <1>5, <1>6, <1>7
     DEF NewRequest, FindForPublish, FindForUnpublish

\* A step that ends the transaction having changed only rows it had locked, or
\* rows nobody had, in a way that keeps every locked row.
LEMMA RespondStep ==
    ASSUME IndInv, NEW d \in Client, NEW answer \in Failure \union {"idle"},
           Respond(d, answer),
           versions' \in [VersionId -> Row],
           pointer' \in [Env -> VersionId \union {NoVersion}],
           \A v \in VersionId :
              /\ lock[v] \notin {d, NoClient} => versions'[v] = versions[v]
              /\ versions[v].status # "draft" /\ v \notin Fresh => versions'[v].status # "draft"
    PROVE TypeOK' /\ LockedRowsExist' /\ Confined(d) /\ Handler(d)'
<1>1. answer \in Statement
  BY DEF Statement
<1>2. TypeOK'
  BY <1>1, RespondType DEF IndInv, TypeOK
<1>3. /\ pc'[d] = answer
      /\ \A c \in Client \ {d} : pc'[c] = pc[c] /\ req'[c] = req[c]
      /\ \A v \in VersionId : lock'[v] = IF lock[v] = d THEN NoClient ELSE lock[v]
  BY DEF Respond, Goto, IndInv, TypeOK
<1>4. LockedRowsExist'
  BY <1>3 DEF IndInv, LockedRowsExist, Exists
<1>5. Confined(d)
  BY <1>3 DEF Confined
<1>6. Handler(d)'
  BY <1>3 DEF Failure, Handler, NamesTarget, HoldsTarget, WillChange, WillRetract,
              NamesOther, HoldsOther, OtherPublished, BodyComplete, TargetNamed,
              TargetLocked, Demoting
<1>7. QED
  BY <1>2, <1>4, <1>5, <1>6

\* create_version's statements.
LEMMA CreateStep ==
    ASSUME IndInv, NEW d \in Client,
           LockForCreate(d) \/ ReadSource(d) \/ InsertConflict(d) \/ InsertInvalid(d)
           \/ InsertVersion(d)
    PROVE TypeOK' /\ LockedRowsExist' /\ Confined(d) /\ Handler(d)'
<1>1. CASE LockForCreate(d)
  <2> USE <1>1 DEF LockForCreate
  <2>1. req[d] \in Request /\ req[d].other \in VersionId /\ lock[req[d].other] = NoClient
        /\ req[d].todo \in SUBSET VersionId
    BY DEF IndInv, Handler, NamesOther, TypeOK, Free, Request
  <2>2. PICK q \in Request, s \in {"create_lock", "create_source"} :
          Goto(d, s, q) /\ (s = "create_lock" => q.other \in VersionId)
    <3>1. CASE Goto(d, "create_source", [req[d] EXCEPT !.other = NoVersion])
      <4>1. [req[d] EXCEPT !.other = NoVersion] \in Request
        BY <2>1 DEF Request
      <4>2. QED
        BY <3>1, <4>1
    <3>2. ASSUME NEW v \in req[d].todo, Goto(d, "create_lock", NextRow(req[d], v, req[d].todo))
          PROVE \E q \in Request, s \in {"create_lock", "create_source"} :
                    Goto(d, s, q) /\ (s = "create_lock" => q.other \in VersionId)
      BY <2>1, <3>2, NextRowType
    <3>3. QED
      BY <3>1, <3>2
  <2>3. TypeOK'
    BY <2>1, <2>2 DEF IndInv, TypeOK, Goto, Statement, Waiting
  <2>4. LockedRowsExist' /\ Confined(d)
    BY <2>1, <2>2 DEF IndInv, TypeOK, LockedRowsExist, Confined, Goto, Exists
  <2>5. Handler(d)'
    BY <2>2 DEF Handler, NamesTarget, HoldsTarget, WillChange, WillRetract,
              NamesOther, HoldsOther, OtherPublished, BodyComplete, TargetNamed,
              TargetLocked, Demoting, IndInv, TypeOK, Goto
  <2>6. QED
    BY <2>3, <2>4, <2>5
<1>2. CASE ReadSource(d)
  <2> USE <1>2 DEF ReadSource
  <2>1. PICK g \in SUBSET Outcome, a \in Applicability, o \in VersionId \union {NoVersion} :
          Goto(d, "create_insert",
               [req[d] EXCEPT !.other = o, !.graph = g, !.applicability = a])
    <3>1. req[d] \in Request
      BY DEF IndInv, TypeOK
    <3>2. CASE Goto(d, "create_insert",
                  [req[d] EXCEPT !.graph = Coalesce(@, {}),
                                 !.applicability = Coalesce(@, Default)])
      <4> DEFINE g == Coalesce(req[d].graph, {})
                 a == Coalesce(req[d].applicability, Default)
      <4>1. g \in SUBSET Outcome /\ a \in Applicability
        BY <3>1 DEF Request, Coalesce
      <4>2. [req[d] EXCEPT !.graph = g, !.applicability = a]
             = [req[d] EXCEPT !.other = req[d].other, !.graph = g, !.applicability = a]
        BY <3>1 DEF Request
      <4>3. QED
        BY <3>1, <3>2, <4>1, <4>2 DEF Request
    <3>3. ASSUME NEW source \in Sources(d),
                 Goto(d, "create_insert",
                  [req[d] EXCEPT
                     !.other = source,
                     !.graph = Coalesce(@, versions[source].graph),
                     !.applicability = Coalesce(@, versions[source].applicability)])
          PROVE \E g \in SUBSET Outcome, a \in Applicability, o \in VersionId \union {NoVersion} :
                  Goto(d, "create_insert",
                    [req[d] EXCEPT !.other = o, !.graph = g, !.applicability = a])
      <4>1. source \in VersionId
        BY DEF Sources, RowsWith, Rows
      <4>2. versions[source].graph \in SUBSET Outcome
            /\ versions[source].applicability \in Applicability
        BY <4>1 DEF IndInv, TypeOK, Row
      <4>3. /\ Coalesce(req[d].graph, versions[source].graph) \in SUBSET Outcome
            /\ Coalesce(req[d].applicability, versions[source].applicability) \in Applicability
        BY <3>1, <4>2 DEF Request, Coalesce
      <4>4. QED
        BY <3>3, <4>1, <4>3
    <3>4. QED
      BY <3>2, <3>3
  <2> DEFINE q == [req[d] EXCEPT !.other = o, !.graph = g, !.applicability = a]
  <2>2. q \in Request /\ q.graph = g /\ q.applicability = a
    BY ZenonT(60) DEF IndInv, TypeOK, Request
  <2>3. Goto(d, "create_insert", q)
    BY <2>1
  <2> HIDE DEF q
  <2>5. TypeOK'
    BY <2>2, <2>3 DEF IndInv, TypeOK, Goto, Statement, Waiting
  <2>6. LockedRowsExist' /\ Confined(d)
    BY <2>3 DEF IndInv, TypeOK, LockedRowsExist, Confined, Goto, Exists
  <2>7. Handler(d)'
    BY <2>2, <2>3, ZenonT(60) DEF Handler, NamesTarget, HoldsTarget, WillChange, WillRetract,
              NamesOther, HoldsOther, OtherPublished, BodyComplete, TargetNamed,
              TargetLocked, Demoting, IndInv, TypeOK, Goto
  <2>8. QED
    BY <2>5, <2>6, <2>7
<1>3. CASE InsertConflict(d)
  BY <1>3, RespondStep DEF InsertConflict, IndInv, TypeOK, Failure
<1>4. CASE InsertInvalid(d)
  BY <1>4, RespondStep DEF InsertInvalid, IndInv, TypeOK
<1>5. CASE InsertVersion(d)
  <2>1. PICK v \in Fresh, n \in 1..MaxNumber :
          versions' = [versions EXCEPT
                         ![v] = [number |-> n, status |-> "draft",
                                 graph |-> req[d].graph,
                                 outcomes |-> CarryForward(req[d].other),
                                 applicability |-> req[d].applicability]]
    BY <1>5 DEF InsertVersion
  <2>2. /\ req[d].graph \in SUBSET Outcome
        /\ req[d].applicability \in Applicability
        /\ CarryForward(req[d].other) \in SUBSET Outcome
    <3>1. /\ req[d] \in Request
          /\ req[d].graph \in SUBSET Outcome
          /\ req[d].applicability \in Applicability
      BY <1>5 DEF InsertVersion, IndInv, TypeOK, Handler, BodyComplete
    <3>2. CarryForward(req[d].other) \in SUBSET Outcome
      BY <3>1 DEF CarryForward, Request, IndInv, TypeOK, Row
    <3>3. QED
      BY <3>1, <3>2
  <2>3. v \in VersionId /\ lock[v] = NoClient
    BY DEF Fresh, Referenced, Rows, IndInv, LockedRowsExist
  <2>4. versions' \in [VersionId -> Row]
    BY <2>1, <2>2, <2>3 DEF IndInv, TypeOK, Row, Status
  <2>5. QED
    BY <1>5, <2>1, <2>3, <2>4, RespondStep DEF InsertVersion, IndInv, TypeOK
<1>6. QED
  BY <1>1, <1>2, <1>3, <1>4, <1>5

\* A step that moves a handler to its next statement and may lock one free row.
LEMMA GotoStep ==
    ASSUME IndInv, NEW d \in Client, NEW s \in Statement, NEW q \in Request, Goto(d, s, q),
           UNCHANGED <<versions, pointer>>,
           \/ UNCHANGED lock
           \/ \E v \in VersionId : Free(v) /\ Exists(v) /\ lock' = [lock EXCEPT ![v] = d]
    PROVE /\ TypeOK' /\ LockedRowsExist' /\ Confined(d)
          /\ pc'[d] = s /\ req'[d] = q
          /\ \A v \in VersionId : lock[v] = d => lock'[v] = d
<1>1. /\ pc' = [pc EXCEPT ![d] = s]
      /\ req' = [req EXCEPT ![d] = q]
  BY DEF Goto
<1>2. TypeOK' /\ pc'[d] = s /\ req'[d] = q
  BY <1>1 DEF IndInv, TypeOK
<1>3. LockedRowsExist'
  BY DEF IndInv, TypeOK, LockedRowsExist, Exists, Free
<1>4. \A v \in VersionId : lock[v] # NoClient => lock'[v] = lock[v]
  BY DEF IndInv, TypeOK, Free
<1>5. Confined(d)
  BY <1>1, <1>4 DEF Confined, IndInv, TypeOK
<1>6. QED
  BY <1>2, <1>3, <1>4, <1>5

\* update's statements, delete's and those of the outcome edits.
LEMMA EditStep ==
    ASSUME IndInv, NEW d \in Client,
           ValidateUpdate(d) \/ WriteUpdate(d) \/ DeleteVersion(d) \/ DeleteOutcome(d)
    PROVE TypeOK' /\ LockedRowsExist' /\ Confined(d) /\ Handler(d)'
<1>1. req[d] \in Request /\ NoRequest \in Request
  BY DEF IndInv, TypeOK, NoRequest, Request, Env, Status
<1>2. CASE ValidateUpdate(d)
  <2>1. PICK s \in {"idle", "update_write"}, q \in {NoRequest, req[d]} :
          /\ Goto(d, s, q)
          /\ s = "update_write" => q = req[d]
    BY <1>2 DEF ValidateUpdate
  <2>2. /\ TypeOK' /\ LockedRowsExist' /\ Confined(d)
        /\ pc'[d] = s /\ req'[d] = q
    BY <1>1, <1>2, <2>1, GotoStep DEF ValidateUpdate, Statement, Waiting
  <2>3. req[d].target \in VersionId
    BY <1>2 DEF ValidateUpdate, IndInv, Handler, NamesTarget, TargetNamed
  <2>4. Handler(d)'
    BY <2>1, <2>2, <2>3
       DEF Handler, NamesTarget, HoldsTarget, WillChange, WillRetract, NamesOther,
           HoldsOther, OtherPublished, BodyComplete, TargetNamed, TargetLocked, Demoting
  <2>5. QED
    BY <2>2, <2>4
<1>3. CASE WriteUpdate(d)
  <2> DEFINE v == req[d].target
  <2>1. v \in VersionId /\ lock[v] = NoClient
    BY <1>3 DEF WriteUpdate, Free, IndInv, Handler, NamesTarget, TargetNamed
  <2>2. CASE versions' = [versions EXCEPT
                ![v].graph = Coalesce(req[d].graph, @),
                ![v].applicability = Coalesce(req[d].applicability, @)]
    <3> DEFINE g == Coalesce(req[d].graph, versions[v].graph)
               a == Coalesce(req[d].applicability, versions[v].applicability)
    <3>1. versions[v] \in Row /\ g \in SUBSET Outcome /\ a \in Applicability
      BY <1>1, <2>1 DEF IndInv, TypeOK, Row, Request, Coalesce
    <3>2. [versions[v] EXCEPT !.graph = g, !.applicability = a] \in Row
          /\ [versions[v] EXCEPT !.graph = g, !.applicability = a].status = versions[v].status
      BY <3>1 DEF Row
    <3>3. versions' = [versions EXCEPT
                          ![v] = [versions[v] EXCEPT !.graph = g, !.applicability = a]]
      BY <2>1, <2>2, <3>1 DEF IndInv, TypeOK
    <3> HIDE DEF g, a, v
    <3>4. /\ versions' \in [VersionId -> Row]
          /\ \A w \in VersionId : versions'[w].status = versions[w].status
          /\ \A w \in VersionId \ {v} : versions'[w] = versions[w]
      BY <2>1, <3>2, <3>3 DEF IndInv, TypeOK
    <3>5. QED
      BY <1>3, <2>1, <3>4, RespondStep DEF WriteUpdate, Failure, IndInv, TypeOK, v
  <2>3. CASE UNCHANGED versions
    BY <1>3, <2>3, RespondStep DEF WriteUpdate, Failure, IndInv, TypeOK
  <2>4. QED
    BY <1>3, <2>2, <2>3 DEF WriteUpdate
<1>4. CASE DeleteVersion(d)
  <2> DEFINE v == req[d].target
  <2>1. v \in VersionId /\ lock[v] = NoClient
    BY <1>4 DEF DeleteVersion, Free, IndInv, Handler, NamesTarget, TargetNamed
  <2>2. NoRow \in Row /\ NoRow.status = "absent"
    BY DEF NoRow, Row, Status
  <2>3. versions' = [versions EXCEPT ![v] = NoRow] /\ Respond(d, "idle")
    BY <1>4 DEF DeleteVersion
  <2>4. pointer' \in [Env -> VersionId \union {NoVersion}]
    BY <1>4 DEF DeleteVersion, SetNull, IndInv, TypeOK
  <2>5. /\ versions' \in [VersionId -> Row]
        /\ \A w \in VersionId \ {v} : versions'[w] = versions[w]
        /\ versions'[v].status = "absent"
    BY <2>1, <2>2, <2>3 DEF IndInv, TypeOK
  <2>6. QED
    BY <2>1, <2>3, <2>4, <2>5, RespondStep
<1>5. CASE DeleteOutcome(d)
  <2> DEFINE v == req[d].target
  <2>1. v \in VersionId /\ lock[v] = NoClient
    BY <1>5 DEF DeleteOutcome, Free, IndInv, Handler, NamesTarget, TargetNamed
  <2>2. PICK S \in SUBSET Outcome : versions' = [versions EXCEPT ![v].outcomes = S]
    <3>1. versions[v].outcomes \in SUBSET Outcome
      BY <2>1 DEF IndInv, TypeOK, Row
    <3>2. QED
      BY <1>5, <2>1, <3>1 DEF DeleteOutcome, IndInv, TypeOK
  <2>3. /\ versions' \in [VersionId -> Row]
        /\ \A w \in VersionId \ {v} : versions'[w] = versions[w]
        /\ versions'[v].status = versions[v].status
    BY <2>1, <2>2 DEF IndInv, TypeOK, Row
  <2>4. QED
    BY <1>5, <2>1, <2>3, RespondStep DEF DeleteOutcome, IndInv, TypeOK
<1>6. QED
  BY <1>2, <1>3, <1>4, <1>5

\* publish's statements.
LEMMA PublishStep ==
    ASSUME IndInv, NEW d \in Client,
           LockForPublish(d) \/ FindCurrent(d) \/ Demote(d) \/ Promote(d) \/ PromoteConflict(d)
    PROVE TypeOK' /\ LockedRowsExist' /\ Confined(d) /\ Handler(d)'
<1>1. req[d] \in Request
  BY DEF IndInv, TypeOK
<1>2. CASE LockForPublish(d)
  <2> DEFINE v == req[d].target
  <2>1. v \in VersionId /\ Free(v) /\ req[d].other = NoVersion
    BY <1>2 DEF LockForPublish, IndInv, Handler, NamesTarget, NamesOther, TargetNamed
  <2>2. CASE versions[v].status \in {"absent", req[d].env}
    BY <1>2, <2>2, RespondStep DEF LockForPublish, IndInv, TypeOK
  <2>3. CASE versions[v].status \notin {"absent", req[d].env}
    <3>1. PICK q \in Request :
            /\ Goto(d, "publish_find", q)
            /\ q.target = v /\ q.env = req[d].env
            /\ q.seen = versions[v].status /\ q.other = NoVersion
      <4> DEFINE r == [req[d] EXCEPT !.seen = versions[v].status]
      <4>1. versions[v].status \in Status \union {"absent"}
        BY <2>1 DEF IndInv, TypeOK, Row
      <4>2. /\ r \in Request /\ r.target = v /\ r.env = req[d].env
            /\ r.seen = versions[v].status /\ r.other = NoVersion
        BY <1>1, <2>1, <4>1 DEF Request
      <4>3. Goto(d, "publish_find", r)
        BY <1>2, <2>3 DEF LockForPublish
      <4> HIDE DEF r
      <4>4. QED
        BY <4>2, <4>3
    <3>2. /\ lock' = [lock EXCEPT ![v] = d]
          /\ UNCHANGED <<versions, pointer>>
      BY <1>2, <2>3 DEF LockForPublish
    <3>3. "publish_find" \in Statement /\ Exists(v)
      BY <2>3 DEF Statement, Exists
    <3>4. /\ TypeOK' /\ LockedRowsExist' /\ Confined(d)
          /\ pc'[d] = "publish_find" /\ req'[d] = q
      <4>1. \E w \in VersionId : Free(w) /\ Exists(w) /\ lock' = [lock EXCEPT ![w] = d]
        BY <2>1, <3>2, <3>3
      <4>2. Goto(d, "publish_find", q)
        BY <3>1
      <4>3. QED
        BY <3>2, <3>3, <4>1, <4>2, GotoStep
    <3>5. lock'[v] = d /\ versions' = versions
      BY <2>1, <3>2 DEF IndInv, TypeOK
    <3>6. Handler(d)'
      BY <2>1, <2>3, <3>1, <3>4, <3>5
         DEF Handler, NamesTarget, HoldsTarget, WillChange, WillRetract, NamesOther,
             HoldsOther, OtherPublished, BodyComplete, TargetNamed, TargetLocked, Demoting
    <3>7. QED
      BY <3>4, <3>6
  <2>4. QED
    BY <2>2, <2>3
<1>3. CASE FindCurrent(d)
  <2>1. /\ pc[d] = "publish_find" /\ req[d].target \in VersionId
        /\ lock[req[d].target] = d /\ req[d].seen = versions[req[d].target].status
        /\ req[d].seen # req[d].env /\ req[d].other = NoVersion
        /\ UNCHANGED <<versions, pointer, lock>>
    BY <1>3 DEF FindCurrent, IndInv, Handler, NamesTarget, HoldsTarget, WillChange,
                NamesOther, TargetNamed, TargetLocked
  <2>2. PICK s \in {"publish_promote", "publish_demote"}, q \in Request :
          /\ Goto(d, s, q)
          /\ q.target = req[d].target /\ q.env = req[d].env /\ q.seen = req[d].seen
          /\ q.other # q.target
          /\ q.other # NoVersion => versions[q.other].status # "draft"
          /\ s = "publish_demote" => q.other \in VersionId
          /\ s = "publish_promote" => q.other = NoVersion
    <3>1. CASE Goto(d, "publish_promote", req[d])
      BY <1>1, <2>1, <3>1
    <3>2. ASSUME NEW r \in RowsWith(req[d].env) \ {req[d].target},
                 Goto(d, "publish_demote", [req[d] EXCEPT !.other = r])
          PROVE \E s \in {"publish_promote", "publish_demote"}, q \in Request :
                  /\ Goto(d, s, q)
                  /\ q.target = req[d].target /\ q.env = req[d].env /\ q.seen = req[d].seen
                  /\ q.other # q.target
                  /\ q.other # NoVersion => versions[q.other].status # "draft"
                  /\ s = "publish_demote" => q.other \in VersionId
                  /\ s = "publish_promote" => q.other = NoVersion
      <4> DEFINE q == [req[d] EXCEPT !.other = r]
      <4>1. /\ r \in VersionId /\ r # req[d].target
            /\ versions[r].status = req[d].env
        BY DEF RowsWith
      <4>2. /\ q \in Request /\ q.other = r /\ q.target = req[d].target
            /\ q.env = req[d].env /\ q.seen = req[d].seen
        BY <1>1, <4>1 DEF Request
      <4>3. req[d].env # "draft"
        BY <1>1 DEF Request, Env
      <4>4. Goto(d, "publish_demote", q)
        BY <3>2
      <4> HIDE DEF q
      <4>5. QED
        BY <4>1, <4>2, <4>3, <4>4
    <3>3. QED
      BY <1>3, <3>1, <3>2 DEF FindCurrent
  <2>3. s \in Statement
    BY DEF Statement, Waiting
  <2>4. /\ TypeOK' /\ LockedRowsExist' /\ Confined(d)
        /\ pc'[d] = s /\ req'[d] = q
    BY <2>1, <2>2, <2>3, GotoStep
  <2>5. Handler(d)'
    BY <2>1, <2>2, <2>4
       DEF Handler, NamesTarget, HoldsTarget, WillChange, WillRetract, NamesOther,
           HoldsOther, OtherPublished, BodyComplete, TargetNamed, TargetLocked, Demoting
  <2>6. QED
    BY <2>4, <2>5
<1>4. CASE Demote(d)
  <2> DEFINE v == req[d].other
  <2>1. /\ pc[d] = "publish_demote" /\ req[d].target \in VersionId
        /\ lock[req[d].target] = d /\ req[d].seen = versions[req[d].target].status
        /\ req[d].seen # req[d].env /\ v \in VersionId /\ v # req[d].target
        /\ versions[v].status # "draft" /\ Free(v)
        /\ UNCHANGED <<versions, pointer>>
    BY <1>4 DEF Demote, IndInv, Handler, NamesTarget, HoldsTarget, WillChange,
                NamesOther, OtherPublished, TargetNamed, TargetLocked, Demoting
  <2>2. CASE Exists(v) /\ lock' = [lock EXCEPT ![v] = d] /\ Goto(d, "publish_promote", req[d])
    <3>1. /\ TypeOK' /\ LockedRowsExist' /\ Confined(d)
          /\ pc'[d] = "publish_promote" /\ req'[d] = req[d]
          /\ \A w \in VersionId : lock[w] = d => lock'[w] = d
      BY <1>1, <2>1, <2>2, GotoStep DEF Statement
    <3>2. lock'[v] = d /\ lock'[req[d].target] = d
      BY <2>1, <2>2, <3>1 DEF IndInv, TypeOK
    <3>3. Handler(d)'
      BY <2>1, <3>1, <3>2
         DEF Handler, NamesTarget, HoldsTarget, WillChange, WillRetract, NamesOther,
             HoldsOther, OtherPublished, BodyComplete, TargetNamed, TargetLocked, Demoting
    <3>4. QED
      BY <3>1, <3>3
  <2>3. CASE Respond(d, "row_not_found") /\ UNCHANGED <<versions, pointer>>
    BY <2>3, RespondStep DEF Failure, IndInv, TypeOK
  <2>4. QED
    BY <1>4, <2>2, <2>3 DEF Demote
<1>5. CASE Promote(d)
  <2> DEFINE t == req[d].target
             o == req[d].other
  <2>1. /\ t \in VersionId /\ lock[t] = d
        /\ o # NoVersion => lock[o] = d /\ versions[o].status # "draft"
        /\ req[d].env \in Env /\ o \in VersionId \union {NoVersion}
    BY <1>1, <1>5 DEF Promote, IndInv, Handler, NamesTarget, HoldsTarget, HoldsOther,
              OtherPublished, TargetNamed, TargetLocked, Demoting, Request
  <2>2. req[d].env \in Status /\ req[d].env # "draft" /\ "prev" \in Status
    BY <2>1 DEF Env, Status
  <2>3. versions' \in [VersionId -> Row]
    BY <1>5, <2>2, UpdateStatusType DEF Promote, IndInv, TypeOK
  <2>4. \A v \in VersionId :
          /\ lock[v] \notin {d, NoClient} => versions'[v] = versions[v]
          /\ versions[v].status # "draft" => versions'[v].status # "draft"
    BY <1>5, <2>1, <2>2, UpdateStatusType DEF IndInv, TypeOK, Promote
  <2>5. pointer' \in [Env -> VersionId \union {NoVersion}]
    BY <1>5, <2>1 DEF Promote, IndInv, TypeOK
  <2>6. QED
    BY <1>5, <2>3, <2>4, <2>5, RespondStep DEF Promote
<1>6. CASE PromoteConflict(d)
  BY <1>6, RespondStep DEF PromoteConflict, Failure, IndInv, TypeOK
<1>7. QED
  BY <1>2, <1>3, <1>4, <1>5, <1>6

\* unpublish's statements, the deadlock detector and the client's next request.
LEMMA UnpublishStep ==
    ASSUME IndInv, NEW d \in Client,
           LockForUnpublish(d) \/ WriteUnpublish(d) \/ AbortVictim(d) \/ TakeFailure(d)
    PROVE TypeOK' /\ LockedRowsExist' /\ Confined(d) /\ Handler(d)'
<1>1. req[d] \in Request /\ NoRequest \in Request
  BY DEF IndInv, TypeOK, NoRequest, Request, Env, Status
<1>2. CASE LockForUnpublish(d)
  <2> DEFINE v == req[d].target
  <2>1. v \in VersionId /\ Free(v)
    BY <1>2 DEF LockForUnpublish, IndInv, Handler, NamesTarget, TargetNamed
  <2>2. CASE ~Retractable(v, req[d].env)
    BY <1>2, <2>2, RespondStep DEF LockForUnpublish, IndInv, TypeOK
  <2>3. CASE Retractable(v, req[d].env)
    <3>1. /\ versions[v].status \in Status
          /\ versions[v].status \in {req[d].env, "live"}
      BY <1>1, <2>3 DEF Retractable, Request, Env, Status
    <3>2. PICK q \in Request :
            /\ Goto(d, "unpublish_write", q)
            /\ q.target = v /\ q.env = req[d].env
            /\ q.seen = versions[v].status
      <4> DEFINE r == [req[d] EXCEPT !.seen = versions[v].status]
      <4>1. /\ r \in Request /\ r.target = v /\ r.env = req[d].env
            /\ r.seen = versions[v].status
        BY <1>1, <2>1, <3>1 DEF Request
      <4>2. Goto(d, "unpublish_write", r)
        BY <1>2, <2>3 DEF LockForUnpublish
      <4> HIDE DEF r
      <4>3. QED
        BY <4>1, <4>2
    <3>3. /\ lock' = [lock EXCEPT ![v] = d]
          /\ UNCHANGED <<versions, pointer>>
      BY <1>2, <2>3 DEF LockForUnpublish
    <3>4. "unpublish_write" \in Statement /\ Exists(v)
      BY <3>1 DEF Statement, Status, Exists
    <3>5. /\ TypeOK' /\ LockedRowsExist' /\ Confined(d)
          /\ pc'[d] = "unpublish_write" /\ req'[d] = q
      <4>1. \E w \in VersionId : Free(w) /\ Exists(w) /\ lock' = [lock EXCEPT ![w] = d]
        BY <2>1, <3>3, <3>4
      <4>2. Goto(d, "unpublish_write", q)
        BY <3>2
      <4>3. QED
        BY <3>3, <3>4, <4>1, <4>2, GotoStep
    <3>6. lock'[v] = d /\ versions' = versions
      BY <2>1, <3>3 DEF IndInv, TypeOK
    <3>7. Handler(d)'
      BY <2>1, <3>1, <3>2, <3>5, <3>6
         DEF Handler, NamesTarget, HoldsTarget, WillChange, WillRetract, NamesOther,
             HoldsOther, OtherPublished, BodyComplete, TargetNamed, TargetLocked, Demoting
    <3>8. QED
      BY <3>5, <3>7
  <2>4. QED
    BY <2>2, <2>3
<1>3. CASE WriteUnpublish(d)
  <2> DEFINE v == req[d].target
  <2>1. v \in VersionId /\ lock[v] = d /\ req[d].env \in Env
    BY <1>1, <1>3 DEF WriteUnpublish, IndInv, Handler, NamesTarget, HoldsTarget,
              TargetNamed, TargetLocked, Request
  <2>2. UpdateStatus(versions[v], "prev") \in Row
        /\ UpdateStatus(versions[v], "prev").status = "prev"
    BY <2>1, UpdateStatusType DEF IndInv, TypeOK, Status
  <2>3. \/ versions' = versions
        \/ versions' = [versions EXCEPT ![v] = UpdateStatus(versions[v], "prev")]
    BY <1>3 DEF WriteUnpublish
  <2>4. pointer' \in [Env -> VersionId \union {NoVersion}]
    BY <1>3, <2>1 DEF WriteUnpublish, IndInv, TypeOK
  <2> HIDE DEF v
  <2>5. versions' \in [VersionId -> Row]
    BY <2>1, <2>2, <2>3 DEF IndInv, TypeOK
  <2>6. \A w \in VersionId :
          /\ lock[w] \notin {d, NoClient} => versions'[w] = versions[w]
          /\ versions[w].status # "draft" => versions'[w].status # "draft"
    BY <2>1, <2>2, <2>3 DEF IndInv, TypeOK
  <2>7. QED
    BY <1>3, <2>4, <2>5, <2>6, RespondStep DEF WriteUnpublish
<1>4. CASE AbortVictim(d)
  BY <1>4, RespondStep DEF AbortVictim, Failure, IndInv, TypeOK
<1>5. CASE TakeFailure(d)
  <2>1. TypeOK' /\ LockedRowsExist' /\ Confined(d) /\ pc'[d] = "idle"
    BY <1>1, <1>5, GotoStep DEF TakeFailure, Statement
  <2>2. Handler(d)'
    BY <2>1 DEF Handler, NamesTarget, HoldsTarget, WillChange, WillRetract, NamesOther,
           HoldsOther, OtherPublished, BodyComplete, TargetNamed, TargetLocked, Demoting
  <2>3. QED
    BY <2>1, <2>2
<1>6. QED
  BY <1>2, <1>3, <1>4, <1>5

-----------------------------------------------------------------------------

\* A handler keeps what it relies on while another client takes a step.
LEMMA HandlerUndisturbed ==
    ASSUME IndInv, NEW d \in Client, Confined(d), NEW c \in Client \ {d}
    PROVE Handler(c)'
<1>1. pc'[c] = pc[c] /\ req'[c] = req[c] /\ Handler(c) /\ req[c] \in Request
  BY DEF Confined, IndInv, TypeOK
<1>2. \A v \in VersionId : lock[v] = c => lock'[v] = c /\ versions'[v] = versions[v]
  BY DEF Confined
<1>3. NamesTarget(c)' /\ WillChange(c)' /\ WillRetract(c)' /\ NamesOther(c)' /\ BodyComplete(c)'
  BY <1>1 DEF Handler, NamesTarget, WillChange, WillRetract, NamesOther, BodyComplete
<1>4. HoldsTarget(c)'
  BY <1>1, <1>2 DEF Handler, NamesTarget, HoldsTarget, TargetNamed
<1>5. HoldsOther(c)'
  BY <1>1, <1>2 DEF Handler, HoldsOther, Request
<1>6. OtherPublished(c)'
  <2>1. req[c].other \notin Fresh
    BY <1>1 DEF Fresh, Referenced
  <2>2. QED
    BY <1>1, <2>1 DEF Handler, OtherPublished, Confined, Request
<1>7. QED
  BY <1>3, <1>4, <1>5, <1>6 DEF Handler

\* IndInv is inductive.
LEMMA NextIndInv == IndInv /\ [Next]_vars => IndInv'
<1> SUFFICES ASSUME IndInv, [Next]_vars PROVE IndInv'
  OBVIOUS
<1>1. CASE UNCHANGED vars
  BY <1>1 DEF vars, IndInv, TypeOK, LockedRowsExist, Exists, Handler, NamesTarget, HoldsTarget,
         WillChange, WillRetract, NamesOther, HoldsOther, OtherPublished, BodyComplete
<1>2. ASSUME NEW d \in Client, NewRequest(d) \/ Continue(d)
      PROVE IndInv'
  <2>1. TypeOK' /\ LockedRowsExist' /\ Confined(d) /\ Handler(d)'
    BY <1>2, NewRequestStep, CreateStep, EditStep, PublishStep, UnpublishStep DEF Continue
  <2>2. ASSUME NEW c \in Client PROVE Handler(c)'
    BY <2>1, HandlerUndisturbed
  <2>3. QED
    BY <2>1, <2>2 DEF IndInv
<1>3. QED
  BY <1>1, <1>2 DEF Next

\* What handlers rely on from one statement to the next holds in every state of
\* every interleaving.
THEOREM Inductive == Spec => []IndInv
<1>1. QED
  BY InitIndInv, NextIndInv, PTL DEF Spec

\* Every variable keeps its type, and no pc, row or handler local is ever lost.
THEOREM TypeCorrect == Spec => []TypeOK
<1>1. IndInv => TypeOK
  BY DEF IndInv
<1>2. QED
  BY <1>1, Inductive, PTL

-----------------------------------------------------------------------------
(* What steps do to rows: four actions move statuses, one edits a graph or   *)
(* an applicability, and every other one keeps all of that and the pointers. *)

Quiet ==
    /\ pointer' = pointer
    /\ \A v \in VersionId : /\ versions'[v].status = versions[v].status
                             /\ versions'[v].number = versions[v].number

\* Outcomes of rows other than drafts stay.
KeepsOutcomes ==
    \A v \in VersionId :
        versions[v].status # "draft" => versions'[v].outcomes = versions[v].outcomes

KeepsContent(v) == /\ versions'[v].graph = versions[v].graph
                   /\ versions'[v].applicability = versions[v].applicability

\* The update of c.
Edited(c) ==
    /\ \A v \in VersionId : v # req[c].target => KeepsContent(v)
    /\ versions'[req[c].target].graph = Coalesce(req[c].graph, versions[req[c].target].graph)
    /\ versions'[req[c].target].outcomes = versions[req[c].target].outcomes

Inserted(v) ==
    /\ v \in VersionId /\ ~Exists(v)
    /\ pointer' = pointer
    /\ versions'[v].status = "draft"
    /\ versions'[v].graph \subseteq versions'[v].outcomes
    /\ \A w \in Rows : versions[w].number # versions'[v].number
    /\ \A w \in VersionId \ {v} : versions'[w] = versions[w]

Deleted(v) ==
    /\ v \in VersionId
    /\ pointer' = SetNull(v)
    /\ versions'[v] = NoRow
    /\ \A w \in VersionId \ {v} : versions'[w] = versions[w]

Promoted(t, o, e) ==
    /\ t \in VersionId /\ Exists(t) /\ e \in Env /\ versions[t].status # e
    /\ o # t /\ o \in VersionId \union {NoVersion}
    /\ o \in VersionId => versions[o].status \in {"staging", "live", "prev"}
    /\ pointer' = [pointer EXCEPT ![e] = t]
    /\ \A v \in VersionId : /\ versions'[v].number = versions[v].number
                             /\ versions'[v].outcomes = versions[v].outcomes
                             /\ KeepsContent(v)
    /\ \/ /\ e = "staging" /\ versions[t].status = "live"
          /\ versions'[t].status = "live"
       \/ /\ ~(e = "staging" /\ versions[t].status = "live")
          /\ versions'[t].status = e
          /\ \A v \in VersionId : versions[v].status = e => v \in {t, o}
    /\ \A v \in VersionId \ {t} :
          versions'[v].status = IF v = o THEN "prev" ELSE versions[v].status

Retracted(t, e) ==
    /\ t \in VersionId /\ Exists(t) /\ e \in Env
    /\ pointer' = [pointer EXCEPT ![e] = NoVersion]
    /\ \A v \in VersionId : /\ versions'[v].number = versions[v].number
                             /\ versions'[v].outcomes = versions[v].outcomes
                             /\ KeepsContent(v)
    /\ \/ /\ versions[t].status = e
          /\ versions'[t].status = "prev"
       \/ /\ versions[t].status # e /\ e = "staging"
          /\ versions'[t].status = versions[t].status
    /\ \A v \in VersionId \ {t} : versions'[v].status = versions[v].status

\* What one step does to the rows.
Effect ==
    \/ Quiet /\ KeepsOutcomes /\ \A v \in VersionId : KeepsContent(v)
    \/ \E v \in VersionId : Inserted(v)
    \/ \E c \in Client :
          \/ pc[c] = "update_write" /\ Quiet /\ KeepsOutcomes /\ Edited(c)
          \/ pc[c] = "delete_write" /\ Deleted(req[c].target)
          \/ pc[c] = "publish_promote" /\ Promoted(req[c].target, req[c].other, req[c].env)
          \/ pc[c] = "unpublish_write" /\ Retracted(req[c].target, req[c].env)

\* An insert adds one DRAFT under a new identifier and a new number.
LEMMA InsertEffect ==
    ASSUME IndInv, NEW d \in Client, InsertVersion(d)
    PROVE \E v \in VersionId : Inserted(v)
<1>1. PICK v \in Fresh, n \in 1..MaxNumber :
        /\ ~Taken(n) /\ req[d].graph \subseteq CarryForward(req[d].other)
        /\ versions' = [versions EXCEPT
                       ![v] = [number |-> n, status |-> "draft",
                               graph |-> req[d].graph,
                               outcomes |-> CarryForward(req[d].other),
                               applicability |-> req[d].applicability]]
  BY DEF InsertVersion, Valid
<1>2. v \in VersionId /\ ~Exists(v)
  BY DEF Fresh, Referenced, Rows
<1>3. /\ versions'[v].status = "draft" /\ versions'[v].number = n
      /\ versions'[v].graph \subseteq versions'[v].outcomes
      /\ \A w \in VersionId \ {v} : versions'[w] = versions[w]
  BY <1>1, <1>2 DEF IndInv, TypeOK
<1>4. \A w \in Rows : versions[w].number # n
  BY <1>1 DEF Taken, Numbers
<1>5. pointer' = pointer
  BY DEF InsertVersion
<1>6. QED
  BY <1>2, <1>3, <1>4, <1>5 DEF Inserted

\* A delete removes one row and every pointer to it.
LEMMA DeleteEffect ==
    ASSUME IndInv, NEW d \in Client, DeleteVersion(d)
    PROVE Deleted(req[d].target)
<1> DEFINE v == req[d].target
<1>1. v \in VersionId
  BY DEF DeleteVersion, IndInv, Handler, NamesTarget, TargetNamed
<1>2. versions \in [VersionId -> Row]
  BY DEF IndInv, TypeOK
<1>3. versions' = [versions EXCEPT ![v] = NoRow] /\ pointer' = SetNull(v)
  BY DEF DeleteVersion
<1>4. Deleted(v)
  BY <1>1, <1>2, <1>3 DEF Deleted
<1>5. QED
  BY <1>1, <1>4

\* A promotion moves its target to the slot unless a rival row forbids it.
LEMMA PromoteEffect ==
    ASSUME IndInv, NEW d \in Client, Promote(d)
    PROVE Promoted(req[d].target, req[d].other, req[d].env)
<1> DEFINE t == req[d].target
           o == req[d].other
           e == req[d].env
<1>1. /\ t \in VersionId /\ lock[t] = d
      /\ req[d].seen = versions[t].status /\ req[d].seen # e
      /\ o # t /\ o \in VersionId \union {NoVersion} /\ e \in Env
      /\ o # NoVersion => lock[o] = d /\ versions[o].status # "draft"
  BY DEF Promote, IndInv, TypeOK, Request, Handler, NamesTarget, HoldsTarget, WillChange,
         NamesOther, HoldsOther, OtherPublished, TargetNamed, TargetLocked, Demoting
<1>2. Exists(t)
  BY <1>1 DEF IndInv, LockedRowsExist
<1>3. o \in VersionId => versions[o].status \in {"staging", "live", "prev"}
  <2>1. ASSUME o \in VersionId PROVE Exists(o) /\ versions[o].status # "draft"
    BY <1>1, <2>1 DEF IndInv, LockedRowsExist
  <2>2. QED
    BY <2>1 DEF Exists, IndInv, TypeOK, Row, Status
<1>4. KeepsStatus(d) <=> e = "staging" /\ versions[t].status = "live"
  BY <1>1 DEF KeepsStatus
<1>5. e \in Status /\ "prev" \in Status
  BY <1>1 DEF Env, Status
<1>6. \A v \in VersionId :
        versions'[v] = IF v = t /\ ~KeepsStatus(d) THEN UpdateStatus(versions[v], e)
                       ELSE IF v = o THEN UpdateStatus(versions[v], "prev")
                       ELSE versions[v]
  BY DEF Promote
<1>7. \A v \in VersionId :
        /\ versions'[v].number = versions[v].number
        /\ versions'[v].outcomes = versions[v].outcomes /\ KeepsContent(v)
        /\ versions'[v].status = IF v = t /\ ~KeepsStatus(d) THEN e
                                 ELSE IF v = o THEN "prev" ELSE versions[v].status
  BY <1>5, <1>6, UpdateStatusType DEF IndInv, TypeOK, KeepsContent
<1>8. ~KeepsStatus(d) => \A v \in VersionId : versions[v].status = e => v \in {t, o}
  BY DEF Promote, Rivals, RowsWith
<1>9. pointer' = [pointer EXCEPT ![e] = t]
  BY DEF Promote
<1> HIDE DEF t, o, e
<1>10. Promoted(t, o, e)
  BY <1>1, <1>2, <1>3, <1>4, <1>7, <1>8, <1>9 DEF Promoted
<1>11. QED
  BY <1>10 DEF t, o, e

\* An unpublish sends its row to PREV, or clears staging on the LIVE row.
LEMMA UnpublishEffect ==
    ASSUME IndInv, NEW d \in Client, WriteUnpublish(d)
    PROVE Retracted(req[d].target, req[d].env)
<1> DEFINE t == req[d].target
           e == req[d].env
<1>1. /\ t \in VersionId /\ lock[t] = d /\ e \in Env
      /\ req[d].seen = versions[t].status /\ req[d].seen \in {e, "live"}
  BY DEF WriteUnpublish, IndInv, TypeOK, Request, Handler, NamesTarget, HoldsTarget,
         WillRetract, TargetNamed, TargetLocked
<1>2. Exists(t)
  BY <1>1 DEF IndInv, LockedRowsExist
<1>3. versions' = IF versions[t].status = e
                  THEN [versions EXCEPT ![t] = UpdateStatus(versions[t], "prev")]
                  ELSE versions
  BY <1>1 DEF WriteUnpublish
<1>4. /\ UpdateStatus(versions[t], "prev").status = "prev"
      /\ UpdateStatus(versions[t], "prev").number = versions[t].number
      /\ UpdateStatus(versions[t], "prev").outcomes = versions[t].outcomes
      /\ UpdateStatus(versions[t], "prev").graph = versions[t].graph
      /\ UpdateStatus(versions[t], "prev").applicability = versions[t].applicability
  BY <1>1, UpdateStatusType DEF IndInv, TypeOK, Status
<1>5. pointer' = [pointer EXCEPT ![e] = NoVersion]
  BY DEF WriteUnpublish
<1>6. versions[t].status # e => e = "staging"
  BY <1>1 DEF Env
<1> HIDE DEF t, e
<1>7. Retracted(t, e)
  BY <1>1, <1>2, <1>3, <1>4, <1>5, <1>6 DEF Retracted, KeepsContent, IndInv, TypeOK
<1>8. QED
  BY <1>7 DEF t, e

\* The edits of drafts and their outcomes move no status, number or pointer.
LEMMA EditEffect ==
    ASSUME IndInv, NEW d \in Client,
           \/ WriteUpdate(d) \/ DeleteOutcome(d)
           \/ \E v \in VersionId, o \in Outcome : CreateOutcome(d, v, o)
    PROVE /\ Quiet /\ KeepsOutcomes
          /\ \/ \A v \in VersionId : KeepsContent(v)
             \/ pc[d] = "update_write" /\ Edited(d)
<1>1. CASE WriteUpdate(d)
  <2> DEFINE v == req[d].target
             g == Coalesce(req[d].graph, versions[v].graph)
             a == Coalesce(req[d].applicability, versions[v].applicability)
             row == [versions[v] EXCEPT !.graph = g, !.applicability = a]
  <2>1. v \in VersionId
    BY <1>1 DEF WriteUpdate, IndInv, Handler, NamesTarget, TargetNamed
  <2>2. /\ row.status = versions[v].status /\ row.number = versions[v].number
        /\ row.outcomes = versions[v].outcomes /\ row.graph = g
    BY <2>1 DEF IndInv, TypeOK, Row
  <2>3. versions' = versions \/ versions' = [versions EXCEPT ![v] = row]
    BY <1>1, <2>1 DEF WriteUpdate, IndInv, TypeOK
  <2>4. pointer' = pointer
    BY <1>1 DEF WriteUpdate
  <2>5. pc[d] = "update_write"
    BY <1>1 DEF WriteUpdate
  <2> HIDE DEF row, g
  <2>6. Quiet /\ KeepsOutcomes
    <3> HIDE DEF v
    <3>1. QED
      BY <2>1, <2>2, <2>3, <2>4 DEF Quiet, KeepsOutcomes, IndInv, TypeOK
  <2>7. CASE versions' = versions
    BY <2>6, <2>7 DEF KeepsContent
  <2>8. CASE versions' = [versions EXCEPT ![v] = row]
    <3>1. \A w \in VersionId : w # v => versions'[w] = versions[w]
      BY <2>8 DEF IndInv, TypeOK
    <3>2. versions'[v] = row
      BY <2>1, <2>8 DEF IndInv, TypeOK
    <3>3. Edited(d)
      BY <2>2, <3>1, <3>2 DEF Edited, KeepsContent, g
    <3>4. QED
      BY <2>5, <2>6, <3>3
  <2>9. QED
    BY <2>3, <2>7, <2>8
<1>2. ASSUME NEW v \in VersionId, NEW S \in SUBSET Outcome,
             versions' = [versions EXCEPT ![v].outcomes = S], pointer' = pointer,
             versions[v].status = "draft" \/ S = versions[v].outcomes
      PROVE Quiet /\ KeepsOutcomes /\ \A w \in VersionId : KeepsContent(w)
  BY <1>2 DEF Quiet, KeepsOutcomes, KeepsContent, IndInv, TypeOK, Row
<1>3. CASE DeleteOutcome(d)
  <2> DEFINE v == req[d].target
             S == IF RequireDraft(v) THEN versions[v].outcomes \ {req[d].outcome}
                  ELSE versions[v].outcomes
  <2>1. v \in VersionId
    BY <1>3 DEF DeleteOutcome, IndInv, Handler, NamesTarget, TargetNamed
  <2>2. S \in SUBSET Outcome
    BY <2>1 DEF IndInv, TypeOK, Row
  <2>3. /\ versions' = [versions EXCEPT ![v].outcomes = S] /\ pointer' = pointer
        /\ versions[v].status = "draft" \/ S = versions[v].outcomes
    BY <1>3 DEF DeleteOutcome, RequireDraft
  <2> HIDE DEF S, v
  <2>4. QED
    BY <1>2, <2>1, <2>2, <2>3
<1>4. ASSUME NEW v \in VersionId, NEW o \in Outcome, CreateOutcome(d, v, o)
      PROVE Quiet /\ KeepsOutcomes /\ \A w \in VersionId : KeepsContent(w)
  <2>1. versions[v].outcomes \union {o} \in SUBSET Outcome
    BY DEF IndInv, TypeOK, Row
  <2>2. QED
    BY <1>2, <1>4, <2>1 DEF CreateOutcome, RequireDraft
<1>5. QED
  BY <1>1, <1>3, <1>4

\* Every step has one of the effects.
LEMMA StepEffect == IndInv /\ [Next]_vars => Effect
<1> SUFFICES ASSUME IndInv, [Next]_vars PROVE Effect
  OBVIOUS
<1>1. UNCHANGED <<versions, pointer>> => Effect
  BY DEF Effect, Quiet, KeepsOutcomes, KeepsContent
<1>2. UNCHANGED vars => UNCHANGED <<versions, pointer>>
  BY DEF vars
<1>3. ASSUME NEW d \in Client, NewRequest(d) PROVE Effect
  <2>1. \/ UNCHANGED <<versions, pointer>>
        \/ \E v \in VersionId, o \in Outcome : CreateOutcome(d, v, o)
  BY <1>3 DEF NewRequest, BeginCreate, FindForUpdate, FindForPublish, FindForUnpublish,
         FindForDelete, FindOutcome, Start
  <2>2. QED
    BY <1>1, <2>1, EditEffect DEF Effect
<1>4. ASSUME NEW d \in Client, Continue(d) PROVE Effect
  <2>1. CASE WriteUpdate(d) \/ DeleteOutcome(d)
    BY <2>1, EditEffect DEF Effect
  <2>2. CASE InsertVersion(d) \/ DeleteVersion(d) \/ Promote(d) \/ WriteUnpublish(d)
    BY <2>2, InsertEffect, DeleteEffect, PromoteEffect, UnpublishEffect
       DEF Effect, DeleteVersion, Promote, WriteUnpublish
  <2>3. CASE \/ LockForCreate(d) \/ ReadSource(d) \/ InsertConflict(d) \/ InsertInvalid(d)
             \/ ValidateUpdate(d) \/ LockForPublish(d) \/ FindCurrent(d) \/ Demote(d)
             \/ PromoteConflict(d) \/ LockForUnpublish(d) \/ AbortVictim(d) \/ TakeFailure(d)
    <3>1. UNCHANGED <<versions, pointer>>
      BY <2>3 DEF LockForCreate, ReadSource, InsertConflict, InsertInvalid, ValidateUpdate,
           LockForPublish, FindCurrent, Demote, PromoteConflict, LockForUnpublish,
           AbortVictim, TakeFailure
    <3>2. QED
      BY <1>1, <3>1
  <2>4. QED
    BY <1>4, <2>1, <2>2, <2>3 DEF Continue
<1>5. QED
  BY <1>1, <1>2, <1>3, <1>4 DEF Next, Effect

-----------------------------------------------------------------------------
(* The safety properties *)

SafeRows == LiveRowIsPointed /\ OneStagingRow /\ PointersResolve /\ NumbersUnique

\* Every kind of change keeps the four row invariants together.
LEMMA SafeRowsStep == IndInv /\ SafeRows /\ [Next]_vars => SafeRows'
<1> SUFFICES ASSUME IndInv, SafeRows, [Next]_vars PROVE SafeRows'
  OBVIOUS
<1> USE DEF SafeRows
<1>t. /\ pointer \in [Env -> VersionId \union {NoVersion}]
      /\ "live" \in Env /\ "staging" \in Env
  BY DEF IndInv, TypeOK, Env
<1>1. CASE Quiet
  BY <1>1, <1>t DEF Quiet, LiveRowIsPointed, OneStagingRow, PointersResolve, NumbersUnique,
              Rows, Exists
<1>2. ASSUME NEW v \in VersionId, Inserted(v) PROVE SafeRows'
  BY <1>2, <1>t DEF Inserted, LiveRowIsPointed, OneStagingRow, PointersResolve, NumbersUnique,
              Rows, Exists
<1>3. ASSUME NEW v \in VersionId, Deleted(v) PROVE SafeRows'
  BY <1>3, <1>t DEF Deleted, NoRow, SetNull, LiveRowIsPointed, OneStagingRow, PointersResolve,
              NumbersUnique, Rows, Exists
<1>4. ASSUME NEW t \in VersionId, NEW o \in VersionId \union {NoVersion}, NEW e \in Env,
             Promoted(t, o, e)
      PROVE SafeRows'
  <2>1. \A v \in VersionId : Exists(v)' <=> Exists(v)
    BY <1>4 DEF Promoted, Exists, Env
  <2>2. PointersResolve'
    BY <1>4, <1>t, <2>1 DEF Promoted, PointersResolve
  <2>3. NumbersUnique'
    BY <1>4, <2>1 DEF Promoted, NumbersUnique, Rows
  <2>4. LiveRowIsPointed'
    <3>1. CASE e = "live"
      BY <1>4, <1>t, <3>1 DEF Promoted, LiveRowIsPointed
    <3>2. CASE e = "staging"
      BY <1>4, <1>t, <3>2 DEF Promoted, LiveRowIsPointed
    <3>3. QED
      BY <3>1, <3>2 DEF Env
  <2>5. OneStagingRow'
    <3>1. CASE e = "live"
      BY <1>4, <3>1 DEF Promoted, OneStagingRow
    <3>2. CASE e = "staging" /\ versions[t].status = "live"
      BY <1>4, <3>2 DEF Promoted, OneStagingRow
    <3>3. CASE e = "staging" /\ versions[t].status # "live"
      BY <1>4, <3>3 DEF Promoted, OneStagingRow
    <3>4. QED
      BY <3>1, <3>2, <3>3 DEF Env
  <2>6. QED
    BY <2>2, <2>3, <2>4, <2>5
<1>5. ASSUME NEW t \in VersionId, NEW e \in Env, Retracted(t, e) PROVE SafeRows'
  <2>1. \A v \in VersionId : Exists(v)' <=> Exists(v)
    BY <1>5 DEF Retracted, Exists
  <2>2. PointersResolve' /\ NumbersUnique'
    BY <1>5, <1>t, <2>1 DEF Retracted, PointersResolve, NumbersUnique, Rows
  <2>3. LiveRowIsPointed' /\ OneStagingRow'
    BY <1>5, <1>t DEF Retracted, LiveRowIsPointed, OneStagingRow, Env
  <2>4. QED
    BY <2>2, <2>3
<1>6. QED
  BY <1>1, <1>2, <1>3, <1>4, <1>5, StepEffect DEF Effect, Deleted, Promoted, Retracted

\* Without rows the row invariants hold.
LEMMA InitSafeRows == Init => SafeRows
BY DEF Init, NoRow, SafeRows, LiveRowIsPointed, OneStagingRow, PointersResolve, NumbersUnique,
       Rows, Exists

\* The row invariants hold in every state.
LEMMA SafeRowsAlways == Spec => []SafeRows
<1>1. QED
  BY InitSafeRows, SafeRowsStep, Inductive, PTL DEF Spec

\* The version whose status is LIVE is the one the live pointer serves, however
\* publishes, unpublishes and deletes interleave.
THEOREM LiveRowServed == Spec => []LiveRowIsPointed
<1>1. SafeRows => LiveRowIsPointed
  BY DEF SafeRows
<1>2. QED
  BY <1>1, SafeRowsAlways, PTL

\* Racing publishes leave at most one STAGING version.
THEOREM StagingUnique == Spec => []OneStagingRow
<1>1. SafeRows => OneStagingRow
  BY DEF SafeRows
<1>2. QED
  BY <1>1, SafeRowsAlways, PTL

\* active_version always finds the row a pointer names.
THEOREM PointersAlwaysResolve == Spec => []PointersResolve
<1>1. SafeRows => PointersResolve
  BY DEF SafeRows
<1>2. QED
  BY <1>1, SafeRowsAlways, PTL

\* Racing create requests never give two versions one number.
THEOREM NumbersAlwaysUnique == Spec => []NumbersUnique
<1>1. SafeRows => NumbersUnique
  BY DEF SafeRows
<1>2. QED
  BY <1>1, SafeRowsAlways, PTL

\* A published version's outcomes are never edited, though outcome_service
\* checks for DRAFT while publishes run.
THEOREM OutcomesFrozenAlways == Spec => OutcomesFrozen
<1>1. IndInv /\ [Next]_vars =>
        [\A v \in VersionId :
           versions[v].status \in {"staging", "live", "prev"} /\ Exists(v)'
             => versions'[v].outcomes = versions[v].outcomes]_vars
  <2> SUFFICES ASSUME IndInv, [Next]_vars, NEW v \in VersionId,
                      versions[v].status \in {"staging", "live", "prev"}, Exists(v)'
               PROVE versions'[v].outcomes = versions[v].outcomes
    OBVIOUS
  <2>1. ASSUME NEW t, Deleted(t) PROVE versions'[v].outcomes = versions[v].outcomes
    BY <2>1 DEF Deleted, NoRow, Exists
  <2>2. ASSUME NEW w, Inserted(w) PROVE versions'[v].outcomes = versions[v].outcomes
    BY <2>2 DEF Inserted, Exists
  <2>3. QED
    BY <2>1, <2>2, StepEffect DEF Effect, KeepsOutcomes, Promoted, Retracted
<1>2. QED
  BY <1>1, Inductive, PTL DEF Spec, OutcomesFrozen

\* Statuses move along draft -> staging | live -> prev and back up only.
THEOREM LifecycleStepsAlways == Spec => LifecycleSteps
<1>1. IndInv /\ [Next]_vars =>
        [\A v \in VersionId : MayBecome(versions[v].status, versions'[v].status)]_vars
  <2> SUFFICES ASSUME IndInv, [Next]_vars, NEW v \in VersionId
               PROVE MayBecome(versions[v].status, versions'[v].status)
    OBVIOUS
  <2>1. versions[v].status \in Status \union {"absent"}
    BY DEF IndInv, TypeOK, Row
  <2>2. CASE versions'[v].status = versions[v].status
    BY <2>2 DEF MayBecome
  <2>3. CASE versions'[v].status = "absent"
    BY <2>3 DEF MayBecome
  <2>4. ASSUME Inserted(v) PROVE MayBecome(versions[v].status, versions'[v].status)
    BY <2>4 DEF Inserted, Exists, MayBecome
  <2>5. ASSUME NEW t \in VersionId, NEW o \in VersionId \union {NoVersion}, NEW e \in Env,
               Promoted(t, o, e)
        PROVE MayBecome(versions[v].status, versions'[v].status)
    <3>1. CASE v = t /\ versions'[t].status = e /\ ~(e = "staging" /\ versions[t].status = "live")
      BY <2>1, <2>5, <3>1 DEF Promoted, Status, Env, Exists, MayBecome
    <3>2. CASE v = o /\ v # t
      BY <2>5, <3>2 DEF Promoted, MayBecome
    <3>3. QED
      BY <2>2, <2>5, <3>1, <3>2 DEF Promoted
  <2>6. ASSUME NEW t \in VersionId, NEW e \in Env, Retracted(t, e)
        PROVE MayBecome(versions[v].status, versions'[v].status)
    BY <2>2, <2>6 DEF Retracted, Env, MayBecome
  <2>7. CASE Quiet
    BY <2>2, <2>7 DEF Quiet
  <2>8. ASSUME NEW w \in VersionId, Inserted(w) \/ Deleted(w)
        PROVE MayBecome(versions[v].status, versions'[v].status)
    BY <2>2, <2>3, <2>4, <2>8 DEF Inserted, Deleted, NoRow
  <2>9. QED
    BY <2>5, <2>6, <2>7, <2>8, StepEffect, SMTT(30) DEF Effect, Deleted, Promoted, Retracted
<1>2. QED
  BY <1>1, Inductive, PTL DEF Spec, LifecycleSteps

-----------------------------------------------------------------------------
(***************************************************************************)
(* When the version lifecycle keeps what PublicationBoard promises.        *)
(* Requests interleave at their statements, and a handler acts on what it  *)
(* has read, so the board is implemented under one of two restrictions:    *)
(* there is one client, or clients only publish to LIVE and delete         *)
(* nothing.  The properties one request at a time keeps are proved with    *)
(* them.                                                                   *)
(***************************************************************************)
USE NullAssumption DEF NullAssumption

-----------------------------------------------------------------------------
(* How the changes of VersionLifecycle map to operations of the board *)

\* The board starts empty.
LEMMA BoardInit == Init => Board!Init
BY DEF Init, NoRow, Board!Init, Env

LEMMA BoardQuiet ==
    ASSUME Quiet
    PROVE  UNCHANGED Board!vars
BY DEF Quiet, Board!vars

LEMMA BoardCreate ==
    ASSUME NEW v, Inserted(v)
    PROVE  Board!Create(v)
<1> DEFINE status == [w \in VersionId |-> versions[w].status]
<1>1. v \in VersionId /\ status[v] = "absent"
  BY DEF Inserted, Exists
<1>2. status' = [status EXCEPT ![v] = "draft"]
  BY DEF Inserted
<1>3. pointer' = pointer
  BY DEF Inserted
<1>4. QED
  BY <1>1, <1>2, <1>3 DEF Board!Create

LEMMA BoardDelete ==
    ASSUME NEW v, Deleted(v), versions[v].status \in {"draft", "prev"}
    PROVE  Board!Delete(v)
<1> DEFINE status == [w \in VersionId |-> versions[w].status]
<1>1. v \in VersionId /\ status[v] \in {"draft", "prev"}
  BY DEF Deleted
<1>2. status' = [status EXCEPT ![v] = "absent"]
  <2>1. NoRow.status = "absent"
    BY DEF NoRow
  <2>2. \A w \in VersionId :
            versions'[w].status = IF w = v THEN "absent" ELSE versions[w].status
    BY <2>1 DEF Deleted
  <2>3. QED
    BY <2>2
<1>3. /\ pointer'["live"] = (IF pointer["live"] = v THEN NoVersion ELSE pointer["live"])
      /\ pointer'["staging"] = (IF pointer["staging"] = v THEN NoVersion ELSE pointer["staging"])
  BY DEF Deleted, SetNull, Env
<1>4. QED
  BY <1>1, <1>2, <1>3 DEF Board!Delete

\* A promotion that demotes the version of the slot, and no other, is the
\* board's.
LEMMA BoardPublish ==
    ASSUME IndInv, NEW t, NEW o, NEW e, Promoted(t, o, e),
           o \in VersionId => versions[o].status \in {e, "prev"},
           \A v \in VersionId \ {t} : versions[v].status = e => v = o
    PROVE  Board!PublishLive(t) \/ Board!PublishStaging(t) \/ Board!PublishLiveToStaging(t)
<1> DEFINE status == [w \in VersionId |-> versions[w].status]
<1>1. /\ t \in VersionId /\ o # t /\ e \in {"live", "staging"}
      /\ status[t] \in Status /\ status[t] # e
  BY DEF Promoted, Exists, Env, IndInv, TypeOK, Row
<1>2. \A v \in VersionId \ {t} :
          versions'[v].status = IF versions[v].status = e THEN "prev" ELSE versions[v].status
  BY DEF Promoted
<1>3. pointer' = [pointer EXCEPT ![e] = t] /\ pointer \in [Env -> VersionId \union {NoVersion}]
  BY DEF Promoted, IndInv, TypeOK
<1>4. CASE e = "live"
  <2>1. versions'[t].status = "live"
    BY <1>4 DEF Promoted
  <2>2. status' = [w \in VersionId |-> IF w = t THEN "live"
                                       ELSE IF status[w] = "live" THEN "prev" ELSE status[w]]
    BY <1>2, <1>4, <2>1
  <2>3. pointer'["live"] = t /\ pointer'["staging"] = pointer["staging"]
    BY <1>3, <1>4 DEF Env
  <2>4. status[t] \in {"draft", "staging", "prev"}
    BY <1>1, <1>4 DEF Status
  <2>5. QED
    BY <2>2, <2>3, <2>4 DEF Board!PublishLive, Board!TakeOver
<1>5. CASE e = "staging" /\ status[t] # "live"
  <2>1. versions'[t].status = "staging"
    BY <1>1, <1>5 DEF Promoted
  <2>2. status' = [w \in VersionId |-> IF w = t THEN "staging"
                                       ELSE IF status[w] = "staging" THEN "prev" ELSE status[w]]
    BY <1>2, <1>5, <2>1
  <2>3. pointer'["staging"] = t /\ pointer'["live"] = pointer["live"]
    BY <1>3, <1>5 DEF Env
  <2>4. status[t] \in {"draft", "prev"}
    BY <1>1, <1>5 DEF Status
  <2>5. QED
    BY <2>2, <2>3, <2>4 DEF Board!PublishStaging, Board!TakeOver
<1>6. CASE e = "staging" /\ status[t] = "live"
  <2>1. versions'[t].status = "live"
    BY <1>1, <1>6 DEF Promoted
  <2>2. status' = [w \in VersionId |-> IF status[w] = "staging" THEN "prev" ELSE status[w]]
    BY <1>1, <1>2, <1>6, <2>1
  <2>3. pointer'["staging"] = t /\ pointer'["live"] = pointer["live"]
    BY <1>3, <1>6 DEF Env
  <2>4. QED
    BY <1>6, <2>2, <2>3 DEF Board!PublishLiveToStaging
<1>7. QED
  BY <1>1, <1>4, <1>5, <1>6

LEMMA BoardUnpublish ==
    ASSUME IndInv, NEW t, NEW e, Retracted(t, e), Retractable(t, e)
    PROVE  Board!UnpublishLive(t) \/ Board!UnpublishStaging(t)
<1> DEFINE status == [w \in VersionId |-> versions[w].status]
<1>1. /\ t \in VersionId /\ e \in {"live", "staging"}
      /\ pointer' = [pointer EXCEPT ![e] = NoVersion]
      /\ pointer \in [Env -> VersionId \union {NoVersion}]
  BY DEF Retracted, Env, IndInv, TypeOK
<1>2. CASE versions[t].status = e
  <2>1. status[t] = e /\ status' = [status EXCEPT ![t] = "prev"]
    BY <1>1, <1>2 DEF Retracted
  <2>2. pointer'["live"] = (IF e = "live" THEN NoVersion ELSE pointer["live"])
        /\ pointer'["staging"] = (IF e = "staging" THEN NoVersion ELSE pointer["staging"])
    BY <1>1 DEF Env
  <2>3. QED
    BY <1>1, <2>1, <2>2 DEF Board!UnpublishLive, Board!UnpublishStaging, Board!StepDown
<1>3. CASE versions[t].status # e
  <2>1. /\ e = "staging" /\ status[t] = "live" /\ pointer["staging"] = t
        /\ status' = status
    BY <1>1, <1>3 DEF Retracted, Retractable
  <2>2. pointer'["staging"] = NoVersion /\ pointer'["live"] = pointer["live"]
    BY <1>1, <2>1 DEF Env
  <2>3. QED
    BY <2>1, <2>2 DEF Board!UnpublishStaging
<1>4. QED
  BY <1>2, <1>3

-----------------------------------------------------------------------------
(* Clients that publish to LIVE only *)

LiveRequests == \A c \in Client : req[c].env = "live"
NoDeletes == \A c \in Client : pc[c] # "delete_write"

\* A handler keeps the environment it was called for, and only a request to
\* delete leads to the DELETE.
LEMMA RequestStep ==
    ASSUME IndInv, NEW d \in Client, NewRequest(d) \/ Continue(d),
           Slots \subseteq {"live"}, req[d].env = "live"
    PROVE  /\ req'[d].env = "live"
           /\ pc'[d] = "delete_write" => pc[d] = "delete_write" \/ "delete" \in Ops
<1> DEFINE Follows == /\ req'[d].env = "live"
                      /\ pc'[d] = "delete_write" => pc[d] = "delete_write" \/ "delete" \in Ops
<1>1. /\ req[d] \in Request /\ NoRequest.env = "live"
      /\ pc \in [Client -> Statement] /\ req \in [Client -> Request]
  BY DEF IndInv, TypeOK, NoRequest
<1>2. ASSUME NEW s, Respond(d, s), s # "delete_write" PROVE Follows
  BY <1>1, <1>2 DEF Respond, Goto
<1>3. ASSUME NEW s, NEW q, Goto(d, s, q), q.env = "live", s = "delete_write" => "delete" \in Ops
      PROVE  Follows
  BY <1>1, <1>3 DEF Goto
<1>4. CASE NewRequest(d)
  <2>1. ASSUME NEW body \in Bodies, BeginCreate(d, body) PROVE Follows
    <3>1. Sending(body).env = "live"
      BY DEF Sending, NoRequest
    <3>2. ASSUME NEW v, NEW rows PROVE NextRow(Sending(body), v, rows).env = "live"
      BY <3>1 DEF NextRow, Sending, NoRequest
    <3>3. QED
      BY <1>3, <2>1, <3>1, <3>2 DEF BeginCreate, Start
  <2>2. ASSUME NEW v \in VersionId, NEW body \in Bodies, FindForUpdate(d, v, body) PROVE Follows
    BY <1>1, <2>2 DEF FindForUpdate, Start, Goto, Sending, NoRequest
  <2>3. ASSUME NEW v \in VersionId, NEW e \in Slots, FindForPublish(d, v, e) \/ FindForUnpublish(d, v, e)
        PROVE  Follows
    BY <1>1, <2>3, ZenonT(60) DEF FindForPublish, FindForUnpublish, Start, Goto, NoRequest
  <2>4. ASSUME NEW v \in VersionId, FindForDelete(d, v) PROVE Follows
    BY <1>1, <2>4 DEF FindForDelete, Start, Goto, NoRequest
  <2>5. ASSUME NEW v \in VersionId, NEW o \in Outcome, FindOutcome(d, v, o) PROVE Follows
    BY <1>1, <2>5 DEF FindOutcome, Start, Goto, NoRequest
  <2>6. ASSUME NEW v \in VersionId, NEW o \in Outcome, CreateOutcome(d, v, o) PROVE Follows
    BY <2>6 DEF CreateOutcome
  <2>7. QED
    BY <1>4, <2>1, <2>2, <2>3, <2>4, <2>5, <2>6 DEF NewRequest
<1>5. CASE \/ InsertConflict(d) \/ InsertInvalid(d) \/ InsertVersion(d) \/ WriteUpdate(d)
           \/ Promote(d) \/ PromoteConflict(d) \/ WriteUnpublish(d) \/ DeleteVersion(d)
           \/ DeleteOutcome(d) \/ AbortVictim(d) \/ TakeFailure(d)
  BY <1>1, <1>2, <1>3, <1>5
     DEF InsertConflict, InsertInvalid, InsertVersion, WriteUpdate, Promote, PromoteConflict,
         WriteUnpublish, DeleteVersion, DeleteOutcome, AbortVictim, TakeFailure
<1>6. CASE \/ LockForCreate(d) \/ ReadSource(d) \/ ValidateUpdate(d) \/ LockForPublish(d)
           \/ FindCurrent(d) \/ Demote(d) \/ LockForUnpublish(d)
  <2>1. CASE LockForCreate(d)
    <3>1. ASSUME NEW v, NEW rows PROVE NextRow(req[d], v, rows).env = "live"
      BY <1>1 DEF Request, NextRow
    <3>2. CASE Goto(d, "create_source", [req[d] EXCEPT !.other = NoVersion])
      BY <1>1, <3>2 DEF Goto, Request
    <3>3. QED
      BY <1>3, <2>1, <3>1, <3>2 DEF LockForCreate
  <2>2. CASE ReadSource(d)
    <3>1. ASSUME NEW g, NEW a,
                 Goto(d, "create_insert", [req[d] EXCEPT !.graph = g, !.applicability = a])
          PROVE  Follows
      BY <1>1, <3>1 DEF Goto, Request
    <3>2. ASSUME NEW o, NEW g, NEW a,
                 Goto(d, "create_insert", [req[d] EXCEPT !.other = o, !.graph = g, !.applicability = a])
          PROVE  Follows
      BY <1>1, <3>2 DEF Goto, Request
    <3>3. QED
      BY <2>2, <3>1, <3>2 DEF ReadSource
  <2>3. CASE ValidateUpdate(d)
    BY <1>1, <1>3, <2>3 DEF ValidateUpdate
  <2>4. CASE LockForPublish(d)
    BY <1>1, <2>4 DEF LockForPublish, Respond, Goto, Request
  <2>5. CASE FindCurrent(d)
    BY <1>1, <2>5 DEF FindCurrent, Goto, Request
  <2>6. CASE Demote(d)
    BY <1>2, <1>3, <2>6 DEF Demote
  <2>7. CASE LockForUnpublish(d)
    BY <1>1, <2>7 DEF LockForUnpublish, Respond, Goto, Request
  <2>8. QED
    BY <1>6, <2>1, <2>2, <2>3, <2>4, <2>5, <2>6, <2>7
<1>7. QED
  BY <1>4, <1>5, <1>6 DEF Continue


LEMMA LiveRequestsStep ==
    ASSUME IndInv, LiveRequests, [Next]_vars, Slots \subseteq {"live"}
    PROVE  LiveRequests' /\ (NoDeletes /\ "delete" \notin Ops => NoDeletes')
<1>1. CASE UNCHANGED vars
  BY <1>1 DEF vars, LiveRequests, NoDeletes
<1>2. ASSUME NEW d \in Client, NewRequest(d) \/ Continue(d)
      PROVE  LiveRequests' /\ (NoDeletes /\ "delete" \notin Ops => NoDeletes')
  <2>1. Confined(d)
    BY <1>2, NewRequestStep, CreateStep, EditStep, PublishStep, UnpublishStep DEF Continue
  <2>2. \A c \in Client \ {d} : pc'[c] = pc[c] /\ req'[c] = req[c]
    BY <2>1 DEF Confined
  <2>3. /\ req'[d].env = "live"
        /\ pc'[d] = "delete_write" => pc[d] = "delete_write" \/ "delete" \in Ops
    BY <1>2, RequestStep DEF LiveRequests
  <2>4. QED
    BY <2>2, <2>3 DEF LiveRequests, NoDeletes
<1>3. QED
  BY <1>1, <1>2 DEF Next

LEMMA LiveRequestsAlways ==
    ASSUME Slots \subseteq {"live"}
    PROVE  Spec => [](IndInv /\ LiveRequests)
<1>1. Init => LiveRequests
  <2>1. NoRequest.env = "live"
    BY DEF NoRequest
  <2>2. QED
    BY <2>1 DEF Init, LiveRequests
<1>2. IndInv /\ LiveRequests /\ [Next]_vars => LiveRequests'
  BY LiveRequestsStep
<1>3. QED
  BY <1>1, <1>2, Inductive, PTL DEF Spec

\* While nothing is published to staging, the version the live pointer names is
\* LIVE, whatever else interleaves: the staging publish that demotes a row gone
\* LIVE meanwhile is the only way they part.  (version_service.rs, publish,
\* unpublish, delete)
THEOREM LivePointerExact ==
    ASSUME Slots \subseteq {"live"}
    PROVE  Spec => []LivePointerNamesLiveRow
<1>1. Init => LivePointerNamesLiveRow
  BY DEF Init, LivePointerNamesLiveRow, Env
<1>2. IndInv /\ LiveRequests /\ LivePointerNamesLiveRow /\ [Next]_vars => LivePointerNamesLiveRow'
  <2> SUFFICES ASSUME IndInv, LiveRequests, LivePointerNamesLiveRow, [Next]_vars
               PROVE  LivePointerNamesLiveRow'
    OBVIOUS
  <2>1. pointer \in [Env -> VersionId \union {NoVersion}] /\ "live" \in Env
    BY DEF IndInv, TypeOK, Env
  <2>2. CASE Quiet
    BY <2>2 DEF Quiet, LivePointerNamesLiveRow
  <2>3. ASSUME NEW v, Inserted(v) PROVE LivePointerNamesLiveRow'
    BY <2>3 DEF Inserted, Exists, LivePointerNamesLiveRow
  <2>4. ASSUME NEW v, Deleted(v) PROVE LivePointerNamesLiveRow'
    BY <2>1, <2>4 DEF Deleted, SetNull, LivePointerNamesLiveRow
  <2>5. ASSUME NEW t, NEW o, Promoted(t, o, "live") PROVE LivePointerNamesLiveRow'
    BY <2>1, <2>5 DEF Promoted, LivePointerNamesLiveRow
  <2>6. ASSUME NEW t, Retracted(t, "live") PROVE LivePointerNamesLiveRow'
    BY <2>1, <2>6 DEF Retracted, LivePointerNamesLiveRow
  <2>7. QED
    BY <2>2, <2>3, <2>4, <2>5, <2>6, StepEffect DEF Effect, LiveRequests
<1>3. QED
  BY <1>1, <1>2, LiveRequestsAlways, PTL DEF Spec

NoStagingRow == RowsWith("staging") = {}

\* Clients that publish to LIVE only and delete nothing see the board, however
\* their requests interleave: the version a publish demotes is LIVE, or another
\* publish or an unpublish has sent it to PREV and the index lets nothing else
\* be LIVE.  (version_service.rs, create_version, publish, unpublish)
THEOREM LivePublishesImplementBoard ==
    ASSUME Slots \subseteq {"live"}, "delete" \notin Ops
    PROVE  Spec => ImplementsBoard
<1> DEFINE J == LiveRequests /\ NoDeletes /\ NoStagingRow
<1>1. Init => J
  BY DEF Init, LiveRequests, NoDeletes, NoStagingRow, RowsWith, NoRequest, NoRow
<1>2. ASSUME IndInv, J, [Next]_vars PROVE NoStagingRow' /\ [Board!Next]_Board!vars
  <2>1. \A v \in VersionId : versions[v].status # "staging"
    BY <1>2 DEF NoStagingRow, RowsWith
  <2>2. CASE Quiet
    BY <2>1, <2>2, BoardQuiet DEF Quiet, NoStagingRow, RowsWith
  <2>3. ASSUME NEW v, Inserted(v) PROVE NoStagingRow' /\ [Board!Next]_Board!vars
    <3>1. \A w \in VersionId : versions'[w].status # "staging"
      BY <2>1, <2>3 DEF Inserted
    <3>2. QED
      BY <2>3, <3>1, BoardCreate DEF NoStagingRow, RowsWith, Inserted, Board!Next
  <2>4. ASSUME NEW t, NEW o, Promoted(t, o, "live")
        PROVE  NoStagingRow' /\ [Board!Next]_Board!vars
    <3>1. \A w \in VersionId : versions'[w].status # "staging"
      BY <2>1, <2>4 DEF Promoted
    <3>2. o \in VersionId => versions[o].status \in {"live", "prev"}
      BY <2>1, <2>4 DEF Promoted
    <3>3. \A v \in VersionId \ {t} : versions[v].status = "live" => v = o
      BY <2>4 DEF Promoted
    <3>4. Board!PublishLive(t) \/ Board!PublishStaging(t) \/ Board!PublishLiveToStaging(t)
      BY <1>2, <2>4, <3>2, <3>3, BoardPublish
    <3>5. t \in VersionId
      BY <2>4 DEF Promoted
    <3>6. QED
      BY <3>1, <3>4, <3>5 DEF NoStagingRow, RowsWith, Board!Next
  <2>5. ASSUME NEW t, Retracted(t, "live") PROVE NoStagingRow' /\ [Board!Next]_Board!vars
    <3>1. \A w \in VersionId : versions'[w].status # "staging"
      BY <2>1, <2>5 DEF Retracted
    <3>2. Retractable(t, "live") /\ t \in VersionId
      BY <2>5 DEF Retracted, Retractable
    <3>3. Board!UnpublishLive(t) \/ Board!UnpublishStaging(t)
      BY <1>2, <2>5, <3>2, BoardUnpublish
    <3>4. QED
      BY <3>1, <3>2, <3>3 DEF NoStagingRow, RowsWith, Board!Next
  <2>6. QED
    BY <1>2, <2>2, <2>3, <2>4, <2>5, StepEffect DEF Effect, LiveRequests, NoDeletes
<1>3. ASSUME IndInv, J, [Next]_vars PROVE J'
  BY <1>2, <1>3, LiveRequestsStep
<1>4. QED
  BY <1>1, <1>2, <1>3, BoardInit, Inductive, PTL DEF Spec, ImplementsBoard, Board!Spec

-----------------------------------------------------------------------------
(* One client *)

OneClient == \A c, d \in Client : c = d

\* What a handler that runs alone still knows of what it has read.
KnowsDraft(c) ==
    pc[c] \in {"update_validate", "update_write"} => versions[req[c].target].status = "draft"

KnowsValid(c) ==
    /\ pc[c] = "update_validate" => req[c].graph # Absent
    /\ pc[c] = "update_write" /\ req[c].graph # Absent =>
           Valid(req[c].graph, versions[req[c].target].outcomes)

KnowsRemovable(c) ==
    pc[c] = "delete_write" => versions[req[c].target].status \in {"draft", "prev"}

KnowsCurrent(c) ==
    /\ pc[c] = "publish_demote" => versions[req[c].other].status = req[c].env
    /\ pc[c] = "publish_promote" =>
           IF req[c].other = NoVersion THEN RowsWith(req[c].env) \subseteq {req[c].target}
           ELSE versions[req[c].other].status = req[c].env

KnowsRetractable(c) ==
    pc[c] = "unpublish_write" => Retractable(req[c].target, req[c].env)

Knows(c) == KnowsDraft(c) /\ KnowsValid(c) /\ KnowsRemovable(c) /\ KnowsCurrent(c) /\ KnowsRetractable(c)

Knowing == {"update_validate", "update_write", "delete_write", "publish_demote",
            "publish_promote", "unpublish_write"}

\* A handler that has just begun, or has no such read behind it, knows nothing.
LEMMA KnowsNothing ==
    ASSUME NEW c \in Client, pc'[c] \notin Knowing
    PROVE  Knows(c)'
BY DEF Knowing, Knows, KnowsDraft, KnowsValid, KnowsRemovable, KnowsCurrent, KnowsRetractable

LEMMA KnowsStep ==
    ASSUME IndInv, NEW d \in Client, Knows(d), NewRequest(d) \/ Continue(d)
    PROVE  Knows(d)'
<1>1. /\ req[d] \in Request
      /\ pc \in [Client -> Statement] /\ req \in [Client -> Request]
  BY DEF IndInv, TypeOK
<1>2. ASSUME NEW s, NEW q, Goto(d, s, q) PROVE pc'[d] = s /\ req'[d] = q
  BY <1>1, <1>2 DEF Goto
<1>3. ASSUME NEW s, NEW q, Goto(d, s, q), s \notin Knowing PROVE Knows(d)'
  BY <1>2, <1>3, KnowsNothing
<1>4. ASSUME NEW s, Respond(d, s), s \notin Knowing PROVE Knows(d)'
  BY <1>3, <1>4 DEF Respond
<1>5. CASE NewRequest(d)
  <2>1. ASSUME NEW body \in Bodies, BeginCreate(d, body) PROVE Knows(d)'
    BY <1>3, <2>1 DEF BeginCreate, Start, Knowing
  <2>2. ASSUME NEW v \in VersionId, NEW body \in Bodies, FindForUpdate(d, v, body) PROVE Knows(d)'
    <3> DEFINE q == [Sending(body) EXCEPT !.target = v]
               s == IF body.graph = Absent THEN "update_write" ELSE "update_validate"
    <3>1. q.target = v /\ q.graph = body.graph
      BY DEF Sending, NoRequest
    <3>2. pc'[d] = s /\ req'[d] = q
      BY <1>2, <2>2 DEF FindForUpdate, Start
    <3>3. versions' = versions /\ versions[v].status = "draft"
      BY <2>2 DEF FindForUpdate, Start, RequireDraft
    <3> HIDE DEF q
    <3>4. QED
      BY <3>1, <3>2, <3>3
         DEF Knows, KnowsDraft, KnowsValid, KnowsRemovable, KnowsCurrent, KnowsRetractable
  <2>3. ASSUME NEW v \in VersionId, NEW e \in Slots, FindForPublish(d, v, e) \/ FindForUnpublish(d, v, e)
        PROVE  Knows(d)'
    BY <1>3, <2>3 DEF FindForPublish, FindForUnpublish, Start, Knowing
  <2>4. ASSUME NEW v \in VersionId, FindForDelete(d, v) PROVE Knows(d)'
    <3> DEFINE q == [NoRequest EXCEPT !.target = v]
    <3>1. q.target = v
      BY DEF NoRequest
    <3>2. pc'[d] = "delete_write" /\ req'[d] = q
      BY <1>2, <2>4 DEF FindForDelete, Start
    <3>3. versions' = versions /\ versions[v].status \in {"draft", "prev"}
      BY <2>4 DEF FindForDelete, Start
    <3> HIDE DEF q
    <3>4. QED
      BY <3>1, <3>2, <3>3
         DEF Knows, KnowsDraft, KnowsValid, KnowsRemovable, KnowsCurrent, KnowsRetractable
  <2>5. ASSUME NEW v \in VersionId, NEW o \in Outcome, FindOutcome(d, v, o) PROVE Knows(d)'
    BY <1>3, <2>5 DEF FindOutcome, Start, Knowing
  <2>6. ASSUME NEW v \in VersionId, NEW o \in Outcome, CreateOutcome(d, v, o) PROVE Knows(d)'
    <3>1. pc'[d] = "idle"
      BY <2>6 DEF CreateOutcome
    <3>2. QED
      BY <3>1, KnowsNothing DEF Knowing
  <2>7. QED
    BY <1>5, <2>1, <2>2, <2>3, <2>4, <2>5, <2>6 DEF NewRequest
<1>6. CASE \/ InsertConflict(d) \/ InsertInvalid(d) \/ InsertVersion(d) \/ WriteUpdate(d)
           \/ Promote(d) \/ PromoteConflict(d) \/ WriteUnpublish(d) \/ DeleteVersion(d)
           \/ DeleteOutcome(d) \/ AbortVictim(d) \/ TakeFailure(d)
  <2>1. \/ Respond(d, "idle") \/ Respond(d, "unique_violation") \/ Respond(d, "row_not_found")
        \/ Respond(d, "deadlock_detected") \/ Goto(d, "idle", NoRequest)
    BY <1>6 DEF InsertConflict, InsertInvalid, InsertVersion, WriteUpdate, Promote, PromoteConflict,
         WriteUnpublish, DeleteVersion, DeleteOutcome, AbortVictim, TakeFailure
  <2>2. QED
    BY <1>3, <1>4, <2>1 DEF Knowing
<1>7. CASE LockForCreate(d) \/ ReadSource(d) \/ LockForPublish(d)
  <2>1. CASE LockForCreate(d)
    BY <1>3, <2>1 DEF LockForCreate, Knowing
  <2>2. CASE ReadSource(d)
    <3>1. pc'[d] = "create_insert"
      BY <1>1, <2>2 DEF ReadSource, Goto
    <3>2. QED
      BY <3>1, KnowsNothing DEF Knowing
  <2>3. CASE LockForPublish(d)
    <3>1. pc'[d] \in {"idle", "publish_find"}
      BY <1>1, <2>3 DEF LockForPublish, Respond, Goto
    <3>2. QED
      BY <3>1, KnowsNothing DEF Knowing
  <2>4. QED
    BY <1>7, <2>1, <2>2, <2>3
<1>8. CASE ValidateUpdate(d)
  <2>1. CASE Goto(d, "idle", NoRequest)
    BY <1>3, <2>1 DEF Knowing
  <2>2. CASE Goto(d, "update_write", req[d]) /\ Valid(req[d].graph, versions[req[d].target].outcomes)
    <3>1. pc'[d] = "update_write" /\ req'[d] = req[d] /\ versions' = versions
      BY <1>2, <1>8, <2>2 DEF ValidateUpdate
    <3>2. versions[req[d].target].status = "draft"
      BY <1>8 DEF ValidateUpdate, Knows, KnowsDraft
    <3>3. QED
      BY <2>2, <3>1, <3>2
         DEF Knows, KnowsDraft, KnowsValid, KnowsRemovable, KnowsCurrent, KnowsRetractable
  <2>3. QED
    BY <1>8, <2>1, <2>2 DEF ValidateUpdate
<1>9. CASE FindCurrent(d)
  <2>1. CASE Goto(d, "publish_promote", req[d]) /\ RowsWith(req[d].env) \ {req[d].target} = {}
    <3>1. pc'[d] = "publish_promote" /\ req'[d] = req[d] /\ versions' = versions
      BY <1>2, <1>9, <2>1 DEF FindCurrent
    <3>2. req[d].other = NoVersion
      BY <1>9 DEF FindCurrent, IndInv, Handler, NamesOther
    <3>3. QED
      BY <2>1, <3>1, <3>2
         DEF Knows, KnowsDraft, KnowsValid, KnowsRemovable, KnowsCurrent, KnowsRetractable, RowsWith
  <2>2. ASSUME NEW r \in RowsWith(req[d].env),
               Goto(d, "publish_demote", [req[d] EXCEPT !.other = r])
        PROVE  Knows(d)'
    <3> DEFINE q == [req[d] EXCEPT !.other = r]
    <3>1. q.other = r /\ q.env = req[d].env
      BY <1>1 DEF Request
    <3>2. pc'[d] = "publish_demote" /\ req'[d] = q /\ versions' = versions
      BY <1>2, <1>9, <2>2 DEF FindCurrent
    <3> HIDE DEF q
    <3>3. QED
      BY <3>1, <3>2
         DEF Knows, KnowsDraft, KnowsValid, KnowsRemovable, KnowsCurrent, KnowsRetractable, RowsWith
  <2>3. QED
    BY <1>9, <2>1, <2>2 DEF FindCurrent
<1>10. CASE Demote(d)
  <2>1. CASE Goto(d, "publish_promote", req[d])
    <3>1. pc'[d] = "publish_promote" /\ req'[d] = req[d] /\ versions' = versions
      BY <1>2, <1>10, <2>1 DEF Demote
    <3>2. req[d].other \in VersionId /\ versions[req[d].other].status = req[d].env
      BY <1>10 DEF Demote, IndInv, Handler, NamesOther, Knows, KnowsCurrent
    <3>3. QED
      BY <3>1, <3>2
         DEF Knows, KnowsDraft, KnowsValid, KnowsRemovable, KnowsCurrent, KnowsRetractable
  <2>2. QED
    BY <1>4, <1>10, <2>1 DEF Demote, Knowing
<1>11. CASE LockForUnpublish(d)
  <2> DEFINE q == [req[d] EXCEPT !.seen = versions[req[d].target].status]
  <2>1. CASE Goto(d, "unpublish_write", q) /\ Retractable(req[d].target, req[d].env)
    <3>1. q.target = req[d].target /\ q.env = req[d].env
      BY <1>1 DEF Request
    <3> HIDE DEF q
    <3>2. pc'[d] = "unpublish_write" /\ req'[d] = q /\ versions' = versions /\ pointer' = pointer
      BY <1>2, <1>11, <2>1 DEF LockForUnpublish
    <3>3. QED
      BY <2>1, <3>1, <3>2
         DEF Knows, KnowsDraft, KnowsValid, KnowsRemovable, KnowsCurrent, KnowsRetractable, Retractable
  <2>2. QED
    BY <1>4, <1>11, <2>1 DEF LockForUnpublish, Knowing
<1>12. QED
  BY <1>5, <1>6, <1>8, <1>9, <1>10, <1>11, <1>7 DEF Continue

LEMMA KnowsAlways ==
    ASSUME OneClient
    PROVE  Spec => [](\A c \in Client : Knows(c))
<1>1. Init => \A c \in Client : Knows(c)
  BY DEF Init, Knows, KnowsDraft, KnowsValid, KnowsRemovable, KnowsCurrent, KnowsRetractable
<1>2. IndInv /\ (\A c \in Client : Knows(c)) /\ [Next]_vars => (\A c \in Client : Knows(c))'
  <2> SUFFICES ASSUME IndInv, \A c \in Client : Knows(c), [Next]_vars, NEW c \in Client
               PROVE  Knows(c)'
    OBVIOUS
  <2>1. CASE UNCHANGED vars
    BY <2>1 DEF vars, Knows, KnowsDraft, KnowsValid, KnowsRemovable, KnowsCurrent,
                KnowsRetractable, Retractable, RowsWith
  <2>2. CASE \E d \in Client : NewRequest(d) \/ Continue(d)
    BY <2>2, KnowsStep DEF OneClient
  <2>3. QED
    BY <2>1, <2>2 DEF Next
<1>3. QED
  BY <1>1, <1>2, Inductive, PTL DEF Spec

\* One request at a time, each operation takes effect as the board says.
\* (version_service.rs)
THEOREM OneClientImplementsBoard ==
    ASSUME OneClient
    PROVE  Spec => ImplementsBoard
<1>1. ASSUME IndInv, SafeRows, \A c \in Client : Knows(c), [Next]_vars
      PROVE  [Board!Next]_Board!vars
  <2>1. CASE Quiet
    BY <2>1, BoardQuiet
  <2>2. ASSUME NEW v, Inserted(v) PROVE Board!Next
    BY <2>2, BoardCreate DEF Inserted, Board!Next
  <2>3. ASSUME NEW c \in Client, pc[c] = "delete_write", Deleted(req[c].target) PROVE Board!Next
    BY <1>1, <2>3, BoardDelete DEF Deleted, Knows, KnowsRemovable, Board!Next
  <2>4. ASSUME NEW c \in Client, pc[c] = "publish_promote",
               Promoted(req[c].target, req[c].other, req[c].env)
        PROVE  Board!Next
    <3>1. PICK t, o, e : /\ t = req[c].target /\ o = req[c].other /\ e = req[c].env
                         /\ Promoted(t, o, e)
      BY <2>4
    <3>2. t \in VersionId /\ o \in VersionId \union {NoVersion} /\ e \in Env
      BY <3>1 DEF Promoted
    <3>3. o = NoVersion => \A v \in VersionId : versions[v].status = e => v = t
      BY <1>1, <2>4, <3>1 DEF Knows, KnowsCurrent, RowsWith
    <3>4. o # NoVersion => versions[o].status = e
      BY <1>1, <2>4, <3>1 DEF Knows, KnowsCurrent
    <3>5. \A v, w \in VersionId : versions[v].status = e /\ versions[w].status = e => v = w
      BY <1>1, <3>2 DEF SafeRows, LiveRowIsPointed, OneStagingRow, Env
    <3>6. \A v \in VersionId \ {t} : versions[v].status = e => v = o
      BY <3>2, <3>3, <3>4, <3>5
    <3>7. o \in VersionId => versions[o].status \in {e, "prev"}
      BY <3>4
    <3>8. Board!PublishLive(t) \/ Board!PublishStaging(t) \/ Board!PublishLiveToStaging(t)
      BY <1>1, <3>1, <3>6, <3>7, BoardPublish
    <3>9. QED
      BY <3>2, <3>8 DEF Board!Next
  <2>5. ASSUME NEW c \in Client, pc[c] = "unpublish_write", Retracted(req[c].target, req[c].env)
        PROVE  Board!Next
    BY <1>1, <2>5, BoardUnpublish DEF Knows, KnowsRetractable, Retracted, Board!Next
  <2>6. QED
    BY <1>1, <2>1, <2>2, <2>3, <2>4, <2>5, StepEffect DEF Effect
<1>2. QED
  BY <1>1, BoardInit, Inductive, SafeRowsAlways, KnowsAlways, PTL DEF Spec, ImplementsBoard, Board!Spec

\* One request at a time, nobody edits the graph or the applicability of a
\* version that is published.  (version_service.rs, update)
THEOREM OneClientFreezesContent ==
    ASSUME OneClient
    PROVE  Spec => PublishedContentFrozen
<1>1. IndInv /\ (\A c \in Client : Knows(c)) /\ [Next]_vars =>
        [\A v \in VersionId :
           versions[v].status \in {"staging", "live", "prev"} /\ Exists(v)'
             => /\ versions'[v].graph = versions[v].graph
                /\ versions'[v].applicability = versions[v].applicability]_vars
  <2> SUFFICES ASSUME IndInv, \A c \in Client : Knows(c), [Next]_vars, NEW v \in VersionId,
                      versions[v].status \in {"staging", "live", "prev"}, Exists(v)'
               PROVE  KeepsContent(v)
    BY DEF KeepsContent
  <2>1. ASSUME NEW t, Deleted(t) PROVE KeepsContent(v)
    BY <2>1 DEF Deleted, NoRow, Exists, KeepsContent
  <2>2. ASSUME NEW w, Inserted(w) PROVE KeepsContent(v)
    BY <2>2 DEF Inserted, Exists, KeepsContent
  <2>3. ASSUME NEW c \in Client, pc[c] = "update_write", Edited(c) PROVE KeepsContent(v)
    BY <2>3 DEF Edited, Knows, KnowsDraft
  <2>4. QED
    BY <2>1, <2>2, <2>3, StepEffect DEF Effect, Promoted, Retracted
<1>2. QED
  BY <1>1, Inductive, KnowsAlways, PTL DEF Spec, PublishedContentFrozen

\* One request at a time, a graph that is stored names outcomes of its version
\* only.  (version_service.rs, update; rule_graph_service.rs, validate)
THEOREM OneClientStoresValidGraphs ==
    ASSUME OneClient
    PROVE  Spec => StoredGraphValid
<1>1. IndInv /\ (\A c \in Client : Knows(c)) /\ [Next]_vars =>
        [\A v \in VersionId :
           versions'[v].graph # versions[v].graph
             => Valid(versions'[v].graph, versions'[v].outcomes)]_vars
  <2> SUFFICES ASSUME IndInv, \A c \in Client : Knows(c), [Next]_vars, NEW v \in VersionId,
                      versions'[v].graph # versions[v].graph
               PROVE  Valid(versions'[v].graph, versions'[v].outcomes)
    OBVIOUS
  <2>1. ~KeepsContent(v)
    BY DEF KeepsContent
  <2>2. ASSUME NEW t, Deleted(t) PROVE Valid(versions'[v].graph, versions'[v].outcomes)
    BY <2>2 DEF Deleted, NoRow, Valid
  <2>3. ASSUME NEW w, Inserted(w) PROVE Valid(versions'[v].graph, versions'[v].outcomes)
    BY <2>3 DEF Inserted, Valid
  <2>4. ASSUME NEW c \in Client, pc[c] = "update_write", Edited(c)
        PROVE  Valid(versions'[v].graph, versions'[v].outcomes)
    <3>1. v = req[c].target
      BY <2>1, <2>4 DEF Edited
    <3>2. /\ versions'[v].graph = Coalesce(req[c].graph, versions[v].graph)
          /\ versions'[v].outcomes = versions[v].outcomes
      BY <2>4, <3>1 DEF Edited
    <3>3. req[c].graph # Absent /\ versions'[v].graph = req[c].graph
      BY <3>2 DEF Coalesce
    <3>4. QED
      BY <2>4, <3>1, <3>2, <3>3 DEF Knows, KnowsValid
  <2>5. QED
    BY <2>1, <2>2, <2>3, <2>4, StepEffect DEF Effect, Promoted, Retracted
<1>2. QED
  BY <1>1, Inductive, KnowsAlways, PTL DEF Spec, StoredGraphValid

=============================================================================
