CONSTANTS
    MaxThreads = 2
    MaxMessages = 3
    MaxFaults = 1
    NoServer = NoServer

SPECIFICATION FairSpec

INVARIANTS
    TypeOK
    OneWriter
    FrontIsThere
    NothingStranded
    OvertakenOnlyAtOpening

PROPERTIES
    LanesSpec
    Delivered

\* A node whose io threads have ended, and one with nothing to send, stop.
CHECK_DEADLOCK FALSE
