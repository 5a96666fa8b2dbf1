CONSTANTS
    N = 3
    Num <- Num321
    MaxCrashes = 0
    MaxExpiries = 0
    NoNode = NoNode
    NoChunk = NoChunk

SPECIFICATION FairSpec

INVARIANTS
    TypeOK
    IInv
    AtMostOnce
    AllClaimed
    OwnerReadsOn

PROPERTIES
    ClaimsSpec
    Termination
