CONSTANTS
    N = 2
    Zero = Zero
    c1 = c1
    c2 = c2
    f = f
    Client = {c1, c2}
    File = {f}
    Job <- AllButArrange
    MaxJobs <- Calls21
    MaxCrashes = 1
    Free = {}
    Home <- Home1
    Key <- Exact
    Chunks <- Len22
    NoJob = NoJob
    NoOne = NoOne
    Gone = Gone
    Apart = Apart
    Torn = Torn

SPECIFICATION Spec

INVARIANTS
    DownloadedWhole
    RemovedStaysRemoved

PROPERTIES
    FileStoreSpec

CHECK_DEADLOCK FALSE
