CONSTANTS
    Client = {c1, c2}
    VersionId = {v1, v2, v3, v4}
    Outcome = {builtin, o1}
    Builtin = builtin
    Applicability = {empty}
    Default = empty
    MaxNumber = 2
    Ops <- AllOps
    Slots <- Env
    Bodies <- EditBodies
    NoVersion = NoVersion
    NoClient = NoClient
    Absent = Absent
SPECIFICATION Spec
SYMMETRY Symmetry
INVARIANTS TypeOK LiveRowIsPointed OneStagingRow PointersResolve
PROPERTIES LifecycleSteps OutcomesFrozen
