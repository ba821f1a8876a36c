CONSTANTS
    Client = {c1, c2}
    VersionId = {v1, v2, v3}
    Outcome = {builtin}
    Builtin = builtin
    Applicability = {empty}
    Default = empty
    MaxNumber = 2
    Ops <- PublishOps
    Slots <- Env
    Bodies <- PlainBodies
    NoVersion = NoVersion
    NoClient = NoClient
    Absent = Absent
SPECIFICATION Spec
SYMMETRY Symmetry
INVARIANT LivePointerNamesLiveRow
