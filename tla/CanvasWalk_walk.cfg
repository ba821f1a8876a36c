SPECIFICATION Spec
CONSTANTS
    Submitted <- MCSubmitted
    Contexts <- MCContexts
    Outcomes <- MCOutcomes
    KeyOrders <- MCKeyOrders
    MaxPatternLen = 2
    IterMax = 4
INVARIANTS TypeOK SearchIsExact RoutedActionsOnly RoutedActionsKept AcceptedRunsEnd AcceptedErrors WalkEnds
