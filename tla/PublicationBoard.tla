-------------------------- MODULE PublicationBoard --------------------------
(***************************************************************************)
(* What the version lifecycle promises its clients: each operation takes   *)
(* effect at once, on the status of every version of the feature and on    *)
(* the two slots the proxy reads.  Statuses say how a version may be used; *)
(* a slot names the version that active_version serves.                    *)
(***************************************************************************)
CONSTANTS VersionId, NoVersion

VARIABLES status, live, staging

vars == <<status, live, staging>>

Init ==
    /\ status = [v \in VersionId |-> "absent"]
    /\ live = NoVersion
    /\ staging = NoVersion

\* v takes the status s; whoever had it steps down to PREV.
TakeOver(v, s) ==
    status' = [w \in VersionId |-> IF w = v THEN s
                                   ELSE IF status[w] = s THEN "prev"
                                   ELSE status[w]]

StepDown(v) == status' = [status EXCEPT ![v] = "prev"]

Create(v) ==
    /\ status[v] = "absent"
    /\ status' = [status EXCEPT ![v] = "draft"]
    /\ UNCHANGED <<live, staging>>

PublishLive(v) ==
    /\ status[v] \in {"draft", "staging", "prev"}
    /\ TakeOver(v, "live")
    /\ live' = v
    /\ UNCHANGED staging

PublishStaging(v) ==
    /\ status[v] \in {"draft", "prev"}
    /\ TakeOver(v, "staging")
    /\ staging' = v
    /\ UNCHANGED live

\* The LIVE version fills both slots and stays LIVE.
PublishLiveToStaging(v) ==
    /\ status[v] = "live"
    /\ status' = [w \in VersionId |-> IF status[w] = "staging" THEN "prev" ELSE status[w]]
    /\ staging' = v
    /\ UNCHANGED live

UnpublishLive(v) ==
    /\ status[v] = "live"
    /\ StepDown(v)
    /\ live' = NoVersion
    /\ UNCHANGED staging

UnpublishStaging(v) ==
    /\ \/ status[v] = "staging" /\ StepDown(v)
       \/ status[v] = "live" /\ staging = v /\ UNCHANGED status
    /\ staging' = NoVersion
    /\ UNCHANGED live

\* Only a version outside both statuses goes; a slot that named it is emptied.
Delete(v) ==
    /\ status[v] \in {"draft", "prev"}
    /\ status' = [status EXCEPT ![v] = "absent"]
    /\ live' = IF live = v THEN NoVersion ELSE live
    /\ staging' = IF staging = v THEN NoVersion ELSE staging

Next ==
    \E v \in VersionId :
        \/ Create(v) \/ Delete(v)
        \/ PublishLive(v) \/ UnpublishLive(v)
        \/ PublishStaging(v) \/ PublishLiveToStaging(v) \/ UnpublishStaging(v)

Spec == Init /\ [][Next]_vars

=============================================================================
