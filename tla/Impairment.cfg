SPECIFICATION FairSpec
CONSTANTS
    Configs <- LinkConfigs
    MaxFrames = 3
    MaxTime = 1
INVARIANTS
    Conservation
    CountersTell
    ReorderedExact
PROPERTIES
    IsLossyLink
    EveryKeptFrameArrives
CHECK_DEADLOCK FALSE
