CONSTANTS
    N = 3
    Zero = Zero
    c1 = c1
    c2 = c2
    f = f
    Client = {c1, c2}
    File = {f}
    Job <- WithArrange
    MaxJobs <- Calls21
    MaxCrashes = 0
    Free = {}
    Home <- Home1
    Key <- Exact
    Chunks <- Len22
    NoJob = NoJob
    NoOne = NoOne
    Gone = Gone
    Apart = Apart
    Torn = Torn

SPECIFICATION Spec

INVARIANTS
    TypeOK
    DownloadedWhole
    RemovedStaysRemoved
    CacheFresh
    NoPrimaryLeft

CHECK_DEADLOCK FALSE
