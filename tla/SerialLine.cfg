SPECIFICATION FairSpec
CONSTANTS
    MaxPacketBytes = 11
    Packets <- TwoPackets
    Bursts <- NoiseBursts
    MaxBursts = 1
    MaxDamage = 1
INVARIANTS
    ChunkingIrrelevant
    BytesAccounted
    BufferBounded
    IntactLostOnlyToFalseHeader
PROPERTIES
    IsOrderedLink
    ScanEnds
    CleanLineDelivers
CHECK_DEADLOCK FALSE
