SPECIFICATION Spec
CONSTANTS
    Nodes = {n1}
    SeqMod = 16
    SeenWindow = 2
    StaleAfter = 1
    SinkCount = 0
    Start <- NearWrap
    HeartbeatEvery = 0
    BlockSamples = 2
    MaxLatency = 1
    MaxEmit = 4
    MaxTime = 3
INVARIANTS
    HighWaterExact
    LossNeverOverstated
    LossUnderstatedAtMost
    DuplicatesExact
    StaleContract
CHECK_DEADLOCK FALSE
