CONSTANTS
    Client = {c1}
    Reader = {r1, r2}
    FeatureId = {f1, f2, f3}
    MaxOrder = 2
    Slug = {s1, s2}
    Name = {n1, n2}
    Source <- Sources
    Normal <- Lowercase
    Dest = {d1}
    PageSize = 2
    MaxChanges = 3
SPECIFICATION FairSpec
INVARIANTS TypeOK ChainsAreListed
PROPERTIES CatchesUp
