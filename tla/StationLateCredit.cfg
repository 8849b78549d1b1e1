SPECIFICATION Spec
CONSTANTS
    Nodes = {n1}
    SeqMod = 8
    SeenWindow = 5
    StaleAfter = 0
    SinkCount = 0
    Start <- NearWrap
    HeartbeatEvery = 0
    BlockSamples = 2
    MaxLatency = 0
    MaxEmit = 4
    MaxTime = 0
PROPERTY LateFillsGap
CHECK_DEADLOCK FALSE
