\* The three timers over every phase of the counter.
SPECIFICATION FairSpec
CONSTANTS
    Wrap       = 12
    Half       =  6
    HomingMs   =  3
    PeriodMs   =  2
    DebounceMs =  2
    MaxGap     =  2
INVARIANTS
    HomingNotLate
    StatusNotLate
    PressCounts
PROPERTIES
    HomingNotEarly
    NoBounce
    HomingEnds
