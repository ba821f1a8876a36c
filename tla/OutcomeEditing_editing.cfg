SPECIFICATION Spec
CONSTANTS
    Clients = {c1, c2}
    Requests <- MCRequests
    Types <- MCTypes
    MaxInt = 3
    MaxTitle = 2
    MaxRequests = 4
SYMMETRY Symmetry
CHECK_DEADLOCK FALSE
INVARIANTS TypeOK
PROPERTIES DraftOnly AppendGoesLast CloneCopies
