SPECIFICATION Spec
INVARIANTS
    LiquidationsFit
    SwapIsExact
    RoutesAreComplete
    SizeIsBest
CHECK_DEADLOCK FALSE
