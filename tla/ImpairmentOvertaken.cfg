SPECIFICATION Spec
CONSTANTS
    Configs <- JitteredReorder
    MaxFrames = 2
    MaxTime = 1
INVARIANT ReorderedReal
CHECK_DEADLOCK FALSE
