CONSTANTS
    N = 4
    Block = {"b1", "b2"}
    Primary <- TwoFiles
    Cell = {"x", "y"}
    MaxOps = 3
    Zero = Zero

SPECIFICATION FairSpec

INVARIANTS
    TypeOK
    ReplicaCatchesUp

PROPERTIES
    ReplicasConverge
