SPECIFICATION Spec
CONSTANTS
    Scale = 12
    Setups <- SomeSetups
    Tick = 3
    BlockDt <- Drifting
    MaxDoubled = 1
INVARIANTS
    TypeOK
    FitIsLeastSquares
    SteadyIsExact
    ForwardUnlessDisorder
PROPERTIES
    Completes
CHECK_DEADLOCK FALSE
