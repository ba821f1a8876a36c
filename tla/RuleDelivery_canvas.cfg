CONSTANTS
    VersionId = {v1, v2}
    NoVersion = NoVersion
    Graph = {g1, g2}
    NoGraph = NoGraph
    Class = {k1, k2}
    NoCanvas = NoCanvas
    Request = {r1, r2}
    Refresher = {f1}
    MaxNumber = 2
    MaxChanges = 2
    Hazards <- NoDelete
SPECIFICATION Spec
SYMMETRY Symmetry
INVARIANTS MarkerOwned EvaluatesItsCanvas
