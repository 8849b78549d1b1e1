SPECIFICATION Spec
CONSTANTS
    MaxPacketBytes = 11
    SeqMod = 16
    Nodes = {1, 2}
    SeenWindow = 8
    StaleAfter = 2
    SinkCount = 2
    Capacity = 2
    Rounds <- Script
    NodeOf <- NodeOfIdent
    SeqNoOf <- SeqNoOfIdent
    IdleRounds = 2
    Deadline = 3
INVARIANTS
    TypeOK
    ArchiveIdentical
    WholeRecordsRecovered
    ReplayReproduces
    LeftBehindWasLate
    OverflowNeedsLag
PROPERTIES
    Ends
CHECK_DEADLOCK FALSE
