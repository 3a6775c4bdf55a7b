\* Two jobs and everybody who can interfere with them.
SPECIFICATION FairSpec
CONSTANTS
    p = p
    q = q
    MaxJobs   = 2
    Programs  <- MCPrograms
    NoProgram = noprogram
INVARIANTS
    HeldEstopIsShown
    HomedBeforeJob
    JobIsKnown
PROPERTIES
    EstopKeepsReason
    StopEndsJob
    EndIsShown
