SPECIFICATION FairSpec
CONSTANTS
    Nodes <- AllNodes
    NodeCount = 2
    Packets = 2
    HeartbeatEvery = 1
    BlockSamples = 2
    SeqMod = 16
    SeenWindow = 8
    StaleAfter = 2
    SinkCount = 1
    Configs <- LinkConfigs
INVARIANTS
    NothingLeftBehind
    LossIsReal
    LinkExplainsStats
    PerfectLinkPerfectStats
PROPERTIES
    ImplementsStation
    Terminates
CHECK_DEADLOCK FALSE
