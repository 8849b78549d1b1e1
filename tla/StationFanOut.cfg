SPECIFICATION Spec
CONSTANTS
    Nodes = {n1, n2}
    SeqMod = 8
    SeenWindow = 4
    StaleAfter = 0
    SinkCount = 2
    Start <- NearWrap
    HeartbeatEvery = 1
    BlockSamples = 2
    MaxLatency = 0
    MaxEmit = 2
    MaxTime = 0
SYMMETRY NodeSymmetry
INVARIANT TotalsAgree
CHECK_DEADLOCK FALSE
