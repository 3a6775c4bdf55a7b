\* One reconnection or two clicks, in front of a machine at rest or calibrating.
SPECIFICATION FairSpec
CONSTANTS
    MaxEvents = 2
    MaxNews = 1
    MaxValue = 1
    Starts = {"READY", "CALIBRATING"}
    Settings = {"steps", "baseline", "position"}
    Initial <- AllQueried
    Programs = {"good", "bad"}
    Valid = {"good"}
    NoProgram = "empty"
INVARIANTS
    PanelAgrees
    
PROPERTIES
    StateCatchesUp
CHECK_DEADLOCK FALSE
