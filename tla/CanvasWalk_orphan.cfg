SPECIFICATION Spec
CONSTANTS
    Submitted <- Orphan
    Contexts <- Html
    Outcomes <- MCOutcomes
    KeyOrders <- MCKeyOrders
    MaxPatternLen = 2
    IterMax = 4
INVARIANT OnRoutedPath
