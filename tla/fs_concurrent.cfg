CONSTANTS
    N = 2
    Zero = Zero
    c1 = c1
    c2 = c2
    f = f
    Client = {c1, c2}
    File = {f}
    Job <- PutWriteGet
    MaxJobs <- Twice
    MaxCrashes = 1
    Free = {"put", "write_file", "get"}
    Home <- Home1
    Key <- Exact
    Chunks <- Len22
    NoJob = NoJob
    NoOne = NoOne
    Gone = Gone
    Apart = Apart
    Torn = Torn

SPECIFICATION Spec

INVARIANTS
    DownloadedInOrder

CHECK_DEADLOCK FALSE
