CONSTANTS
    N = 3
    Zero = Zero
    c1 = c1
    c2 = c2
    f = f
    g = g
    Client = {c1, c2}
    File = {f, g}
    Job <- All
    MaxJobs <- Calls31
    MaxCrashes = 1
    Free = {"get", "read"}
    Home <- Home01
    Key <- Inner
    Chunks <- Len11
    BlockSize = 4
    At <- Hosts
    Beyond = FALSE
    NoJob = NoJob
    NoOne = NoOne
    Gone = Gone
    Apart = Apart
    Torn = Torn

SPECIFICATION EditsSpec

INVARIANTS
    EditsTypeOK
    DescribedIsStored
    SnapshotRead
    OwnWritesSeen
    RemovedStaysRemoved

CHECK_DEADLOCK FALSE
