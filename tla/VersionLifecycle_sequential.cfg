CONSTANTS
    Client = {c1}
    VersionId = {v1, v2, v3}
    Outcome = {builtin, o1}
    Builtin = builtin
    Applicability = {empty, sel}
    Default = empty
    MaxNumber = 3
    Ops <- AllOps
    Slots <- Env
    Bodies <- EditBodies
    NoVersion = NoVersion
    NoClient = NoClient
    Absent = Absent
SPECIFICATION Spec
SYMMETRY Symmetry
PROPERTIES ImplementsBoard PublishedContentFrozen StoredGraphValid
