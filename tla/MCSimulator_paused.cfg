\* A job whose last instruction ends while it is paused.
SPECIFICATION Spec
CONSTANTS
    p = p
    q = q
    MaxJobs   = 2
    Programs  <- MCPrograms
    NoProgram = noprogram
INVARIANT
    PausedIsResumable
