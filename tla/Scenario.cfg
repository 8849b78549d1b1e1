SPECIFICATION Spec
CONSTANTS
    Scenarios <- SomeScenarios
    Micro = 3
INVARIANTS
    ObservedIsDropped
    SerialInOrder
    OvertakenByNeighbourOnly
    FaultsInTheirWindow
CHECK_DEADLOCK FALSE
