\* Start in Ready against run_program.
SPECIFICATION Spec
CONSTANTS
    Commands     <- JobCommands
    Limits       =  {open, tight}
    NoLimits     =  open
    Axes         =  {x}
    NoAxis       =  noaxis
    JogSteps     <- NoJogs
    MaxJog       =  3
    Programs     =  {job}
    NoProgram    =  nojob
    MotionAborts =  FALSE
INVARIANT StartIsRunProgram
