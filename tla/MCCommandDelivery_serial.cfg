\* The firmware on a line that loses.
SPECIFICATION FairSpec
CONSTANTS
    MaxSession  = 2
    MaxId       = 3
    Quota       <- ThreeThenOne
    MaxAttempts = 2
    RingSize    = 2
    Exempt      <- NoQueries
    Simulated   = FALSE
INVARIANTS
    AckMeansRan
PROPERTIES
    AtMostOnce
    RanIsNotRefused
    EveryCommandReported
CHECK_DEADLOCK FALSE
