SPECIFICATION Spec
CONSTANTS
    Scale = 12
    Setups <- Beacons
    Tick = 3
    BlockDt <- Drifting
    MaxDoubled = 0
INVARIANT BeaconsAreAnchors
CHECK_DEADLOCK FALSE
