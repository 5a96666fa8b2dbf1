CONSTANTS
    N = 2
    Zero = Zero
    c1 = c1
    c2 = c2
    f = f
    Client = {c1}
    File = {f}
    Job <- PutGet
    MaxJobs <- Twice
    MaxCrashes = 0
    Free = {}
    Home <- Home0
    Key <- Exact
    Chunks <- Len3
    NoJob = NoJob
    NoOne = NoOne
    Gone = Gone
    Apart = Apart
    Torn = Torn

SPECIFICATION Spec

INVARIANTS
    DownloadedWhole

CHECK_DEADLOCK FALSE
