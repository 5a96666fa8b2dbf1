CONSTANTS
    N = 3
    Job = {j1, j2}
    Layouts <- Files
    MaxChunks = 4
    MaxCores = 2
    Full = 2
    NoArrangement = NoArrangement

SPECIFICATION Spec

INVARIANTS
    JobsTypeOK
    KeptCoversFile
    StealingWalksLists
    JobReadsOnce

SYMMETRY AnyJob

\* All jobs have been started and all their tasks are done.
CHECK_DEADLOCK FALSE
