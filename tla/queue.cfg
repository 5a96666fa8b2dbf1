CONSTANTS
    r1 = r1
    r2 = r2
    Reader = {r1, r2}
    Producer = Producer
    Num = 9
    Size = 2
    W = 4
    MayWake = {r1, r2, Producer}
    Empty = Empty

SPECIFICATION FairSpec

INVARIANTS
    TypeOK

PROPERTIES
    FifoSpec
    Drained
