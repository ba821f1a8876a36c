------------------------ MODULE MCVersionLifecycle ------------------------
(***************************************************************************)
(* Small instances of VersionLifecycle for TLC.                            *)
(***************************************************************************)
EXTENDS VersionLifecycle, TLC

AllOps == {"create", "update", "publish", "unpublish", "delete", "outcome"}
StatusOps == {"create", "publish", "unpublish"}
PublishOps == {"create", "publish"}

\* A body that sends nothing: clone the source as it is.
PlainBodies == [graph : {Absent}, applicability : {Absent}]
\* Some graphs, or an applicability.
EditBodies == [graph : {Absent, Outcome}, applicability : {Absent}]
              \union [graph : {Absent}, applicability : Applicability \ {Default}]

LiveOnly == {"live"}

\* Identifiers and clients are interchangeable in safety properties.
Symmetry == Permutations(VersionId) \union Permutations(Client)

=============================================================================
