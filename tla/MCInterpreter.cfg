\* Eleven programs, loops cut off after 3 iterations, calls 3 deep, 2 variables.
SPECIFICATION FairSpec
CONSTANTS
    Programs   <- MCPrograms
    EditorRows <- MCRows
    Cycles     <- MCCycles
    MaxIter    = 3
    MaxDepth   = 3
    MaxVars    = 2
INVARIANTS
    DepthCounts
    EditorJobs
PROPERTIES
    JobEnds
    StopEndsJob
    ImplementsJob
CHECK_DEADLOCK FALSE
