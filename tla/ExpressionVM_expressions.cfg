SPECIFICATION FairSpec
CONSTANTS
    Sources <- MCSources
    OverflowChecks = FALSE
INVARIANTS TypeOK ComputesMeaning
PROPERTY Halts
CHECK_DEADLOCK FALSE
