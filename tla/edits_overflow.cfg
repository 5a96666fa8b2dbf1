CONSTANTS
    N = 3
    Zero = Zero
    c1 = c1
    c2 = c2
    f = f
    g = g
    Client = {c1, c2}
    File = {f, g}
    Job <- Overflow
    MaxJobs <- Calls31
    MaxCrashes = 0
    Free = {"get", "read"}
    Home <- Home01
    Key <- Inner
    Chunks <- Len11
    BlockSize = 3
    At <- Hosts
    Beyond = TRUE
    NoJob = NoJob
    NoOne = NoOne
    Gone = Gone
    Apart = Apart
    Torn = Torn

SPECIFICATION EditsSpec

INVARIANTS
    SnapshotRead

CHECK_DEADLOCK FALSE
