\* All commands, two envelopes, a HAL whose moves watch the E-stop line.
SPECIFICATION FairSpec
CONSTANTS
    Commands     <- AllCommands
    Limits       =  {open, tight}
    NoLimits     =  open
    Axes         =  {x}
    NoAxis       =  noaxis
    JogSteps     <- Jogs
    MaxJog       =  2
    Programs     =  {job}
    NoProgram    =  nojob
    MotionAborts =  TRUE
INVARIANTS
    EstopLatch
    HomedBeforeJob
    JobHasProgram
    HostJobIsCurrent
    FaultShown
    CalibrationCountsMotion
PROPERTIES
    EstopExit
    HeldEstopIsHonoured
    CalibrationFromMeasurement
