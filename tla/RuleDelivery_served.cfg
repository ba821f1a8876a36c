CONSTANTS
    VersionId = {v1, v2}
    NoVersion = NoVersion
    Graph = {g1, g2}
    NoGraph = NoGraph
    Class = {k1}
    NoCanvas = NoCanvas
    Request = {r1}
    Refresher = {f1, f2}
    MaxNumber = 2
    MaxChanges = 2
    Hazards <- DeleteExpire
SPECIFICATION FairSpec
INVARIANTS TypeOK ServedWasLive
PROPERTIES CatchesUp
