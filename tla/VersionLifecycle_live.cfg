CONSTANTS
    Client = {c1, c2, c3}
    VersionId = {v1, v2}
    Outcome = {builtin}
    Builtin = builtin
    Applicability = {empty}
    Default = empty
    MaxNumber = 2
    Ops <- StatusOps
    Slots <- LiveOnly
    Bodies <- PlainBodies
    NoVersion = NoVersion
    NoClient = NoClient
    Absent = Absent
SPECIFICATION FairSpec
INVARIANTS LivePointerNamesLiveRow
PROPERTIES EveryRequestAnswered ImplementsBoard
