\* The ids of a new connection against the ring of the simulator; no resends.
SPECIFICATION Spec
CONSTANTS
    MaxSession  = 2
    MaxId       = 1
    Quota       <- OneEach
    MaxAttempts = 1
    RingSize    = 2
    Exempt      <- NoQueries
    Simulated   = TRUE
PROPERTY DuplicateWasRun
CHECK_DEADLOCK FALSE
