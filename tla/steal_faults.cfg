CONSTANTS
    N = 3
    Num <- Num211
    MaxCrashes = 1
    MaxExpiries = 1
    NoNode = NoNode
    NoChunk = NoChunk

SPECIFICATION FaultySpec

INVARIANTS
    MarkBeforeDone
    LockFreeRegionExclusive

CHECK_DEADLOCK FALSE
