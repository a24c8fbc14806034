CONSTANT
    Trees <- MCTrees
SPECIFICATION PSpec
INVARIANTS
    PTypeOK
    Coherent
    NeverThrows
    OrderIsPreorder
    SpacingIsDepth
    RoundTrip
PROPERTIES
    CallReturns
    ImplementsCursor
CHECK_DEADLOCK FALSE
