\* A held E-stop and a job that spins on the pause flag.
SPECIFICATION FairSpec
CONSTANTS
    Commands     <- JobCommands
    Limits       =  {open, tight}
    NoLimits     =  open
    Axes         =  {x}
    NoAxis       =  noaxis
    JogSteps     <- NoJogs
    MaxJog       =  3
    Programs     =  {job}
    NoProgram    =  nojob
    MotionAborts =  FALSE
PROPERTY EstopAlwaysHonoured
