------------------------------ MODULE Firmware ------------------------------
(***************************************************************************)
(* The firmware's main loop (PnpFirmware.ino) around its state machine     *)
(* (core/StateMachine.cpp), the polled buttons and E-stop line             *)
(* (hal/Controls.h) and the blocking job interpreter (core/Interpreter.cpp *)
(* run and check).  One thread goes round the loop                         *)
(*                                                                         *)
(*    poll (serial commands) -> tick [-> run] -> start -> pause -> estop   *)
(*                                                                         *)
(* while the operator's hand moves the E-stop button at any moment, in the *)
(* middle of a job or of a jog too.  Commands arrive as the state machine  *)
(* gets them (handleCommand); a command that is refused changes nothing    *)
(* and is no step here.  Time is abstract: a homing timer may expire at    *)
(* any tick (Timers.tla has the clock).                                    *)
(***************************************************************************)
EXTENDS Integers

CONSTANTS
    Commands,      \* the commands the host sends, a subset of CommandNames
    Limits,        \* travel envelopes an operator may set
    NoLimits,      \* the envelope of a machine nobody has configured
    Axes,          \* axes that can be calibrated
    NoAxis,        \* CalAxis::Invalid
    JogSteps,      \* step counts of a cal_jog command (the sign is the direction)
    MaxJog,        \* bound: net steps jogged in one calibration
    Programs,      \* programs the host can upload
    NoProgram,     \* see StoredProgram
    MotionAborts   \* does a move of a job watch the E-stop line and abort?

CommandNames ==
    { "estop", "home", "run_program", "pause", "resume", "reset_fault",
      "reset_estop", "begin_transfer", "end_transfer", "calibrate_axis",
      "cal_jog", "set_cal_distance", "cancel_calibration", "set_max_travel" }

ASSUME FirmwareAssumption ==
    /\ Commands \subseteq CommandNames
    /\ NoLimits \in Limits
    /\ NoAxis \notin Axes
    /\ JogSteps \subseteq Int
    /\ MaxJog \in Nat
    /\ NoProgram \notin Programs
    /\ MotionAborts \in BOOLEAN

VARIABLES
    state,         \* StateMachine::state_
    fault,         \* StateMachine::fault_
    estopHw,       \* StateMachine::estopHw_
    stop, pause,   \* StateMachine::abortFlags_
    receiving, loaded, doc,        \* StateMachine::store_
    attached,      \* what the interpreter's program reference points to
    runLimits,     \* Interpreter::limits_
    maxTravel,     \* Config::travelLimits()
    stepsPerMm,    \* Config::stepsPerMm*, as the net steps last measured
    calAxis, calJogSteps,          \* StateMachine::calAxis_, calJogSteps_
    pc,            \* phase of loop()
    estopSeen,     \* Controls::estop_
    pin,           \* the E-stop line: TRUE is pressed
    \* history
    homed,         \* the machine has homed and has not lost its position since
    origin,        \* who started the job: run_program or the Start button
    moved          \* steps the axis really made in this calibration

storeVars   == <<receiving, loaded, doc>>
configVars  == <<maxTravel, stepsPerMm>>
calVars     == <<calAxis, calJogSteps, moved>>
interpVars  == <<attached, runLimits, origin>>
estopVars   == <<estopHw, stop>>
controlVars == <<estopSeen, pin>>
modeVars    == <<state, fault, estopVars, pause, homed>>
otherVars   == <<storeVars, interpVars, configVars, calVars>>
vars == <<modeVars, otherVars, pc, controlVars>>

States == { "Idle", "Homing", "Ready", "Running", "Paused", "Faulted",
            "Estopped", "Calibrating" }
Faults == { "none", "estop_triggered", "cal_jog_failed", "program" }
Phases == { "poll", "tick", "run", "start", "pause", "estop" }

Store == INSTANCE StoredProgram

FlagsOK ==
    /\ estopHw \in BOOLEAN /\ stop \in BOOLEAN /\ pause \in BOOLEAN
    /\ receiving \in BOOLEAN /\ loaded \in BOOLEAN
    /\ estopSeen \in BOOLEAN /\ pin \in BOOLEAN /\ homed \in BOOLEAN

DataOK ==
    /\ state \in States /\ fault \in Faults /\ pc \in Phases
    /\ doc \in Programs \cup {NoProgram}
    /\ attached \in {"null", "current", "outdated"}
    /\ runLimits \in Limits /\ maxTravel \in Limits
    /\ stepsPerMm \in [Axes -> Nat]
    /\ calAxis \in Axes \cup {NoAxis}
    /\ calJogSteps \in Int /\ moved \in Int
    /\ origin \in {"none", "host", "button"}

TypeOK == FlagsOK /\ DataOK

(* Power-on.  The E-stop may be pressed already: Controls starts with      *)
(* estop_ false and reads the line in the first round.                     *)
Init ==
    /\ state = "Idle" /\ fault = "none"
    /\ estopHw = FALSE /\ stop = FALSE /\ pause = FALSE
    /\ Store!StoreInit
    /\ attached = "null" /\ runLimits = NoLimits
    /\ maxTravel \in Limits /\ stepsPerMm = [a \in Axes |-> 0]
    /\ calAxis = NoAxis /\ calJogSteps = 0 /\ moved = 0
    /\ pc = "poll" /\ estopSeen = FALSE /\ pin \in BOOLEAN
    /\ homed = FALSE /\ origin = "none"

-----------------------------------------------------------------------------
(* Helpers                                                                 *)

(* allowedStates and isAlwaysAccept: the states that accept a command.     *)
AtRest == {"Idle", "Ready"}
allowedStatesTable ==
    [c \in CommandNames |->
        CASE c = "estop"       -> States
          [] c = "run_program" -> {"Ready"}
          [] c = "pause"       -> {"Running"}
          [] c = "resume"      -> {"Paused"}
          [] c = "reset_fault" -> {"Faulted"}
          [] c = "reset_estop" -> {"Estopped"}
          [] c \in {"cal_jog", "set_cal_distance", "cancel_calibration"}
                               -> {"Calibrating"}
          [] OTHER             -> AtRest]

(* The gate with a hole: reset_fault answers an E-stop too; uploads are    *)
(* taken while a job is paused.                                            *)
allowedStatesMutFault ==
    [allowedStatesTable EXCEPT !["reset_fault"] = {"Faulted", "Estopped"}]
allowedStatesMutUpload ==
    [allowedStatesTable EXCEPT !["begin_transfer"] = AtRest \cup {"Paused"}]

allowedStates == allowedStatesTable

(* A command read in the poll phase that the gate lets through.            *)
Host(c) ==
    /\ pc = "poll"
    /\ c \in Commands
    /\ state \in allowedStates[c]
    /\ UNCHANGED <<pc, controlVars>>

enterHoming ==
    /\ state' = "Homing"
    /\ UNCHANGED <<fault, estopVars, pause, homed>>

(* setEstopHardware.  Mutants: the latch is dropped while homing; the      *)
(* release leaves the reason behind.                                       *)
LatchMutHoming ==
    IF state = "Homing"
    THEN UNCHANGED <<stop, fault, state>>
    ELSE stop' = TRUE /\ fault' = "estop_triggered" /\ state' = "Estopped"
Latch == stop' = TRUE /\ fault' = "estop_triggered" /\ state' = "Estopped"

UnlatchMutFault == stop' = FALSE /\ state' = "Idle" /\ UNCHANGED fault
Unlatch == stop' = FALSE /\ fault' = "none" /\ state' = "Idle"

setEstopHardware(active) ==
    /\ estopHw' = active
    /\ \/ active /\ Latch
       \/ ~active /\ state = "Estopped" /\ Unlatch
       \/ ~active /\ state # "Estopped" /\ UNCHANGED <<stop, fault, state>>
    /\ homed' = (homed /\ ~active)
    /\ UNCHANGED pause

(* injectFault                                                             *)
injectFault(reason) ==
    /\ IF state = "Estopped"
       THEN UNCHANGED <<fault, state, homed>>
       ELSE fault' = reason /\ state' = "Faulted" /\ homed' = FALSE
    /\ UNCHANGED <<estopVars, pause>>

-----------------------------------------------------------------------------
(* Commands (handleCommand)                                                *)

CmdEstop ==
    /\ Host("estop")
    /\ setEstopHardware(TRUE)
    /\ UNCHANGED otherVars

CmdHome ==
    /\ Host("home")
    /\ enterHoming
    /\ UNCHANGED otherVars

(* run_program that keeps the flags of the last job.                       *)
CmdRunProgramMut ==
    /\ Host("run_program")
    /\ loaded
    /\ attached' = "current"
    /\ runLimits' = maxTravel
    /\ state' = "Running"
    /\ origin' = "host"
    /\ UNCHANGED <<fault, estopVars, pause, homed, storeVars,
                   configVars, calVars>>

CmdRunProgram ==
    /\ Host("run_program")
    /\ loaded
    /\ stop' = FALSE /\ pause' = FALSE
    /\ attached' = "current"
    /\ runLimits' = maxTravel
    /\ state' = "Running"
    /\ origin' = "host"
    /\ UNCHANGED <<fault, estopHw, homed, storeVars, configVars,
                   calVars>>

CmdPause ==
    /\ Host("pause")
    /\ pause' = TRUE /\ state' = "Paused"
    /\ UNCHANGED <<fault, estopVars, homed, otherVars>>

CmdResume ==
    /\ Host("resume")
    /\ pause' = FALSE /\ state' = "Running"
    /\ UNCHANGED <<fault, estopVars, homed, otherVars>>

(* reset_fault that trusts the position.                                   *)
CmdResetFaultMut ==
    /\ Host("reset_fault")
    /\ fault' = "none" /\ state' = "Ready"
    /\ UNCHANGED <<estopVars, pause, homed, otherVars>>

CmdResetFault ==
    /\ Host("reset_fault")
    /\ fault' = "none" /\ state' = "Idle"
    /\ UNCHANGED <<estopVars, pause, homed, otherVars>>

(* reset_estop that does not look at the line.                             *)
CmdResetEstopMutLine ==
    /\ Host("reset_estop")
    /\ fault' = "none" /\ state' = "Idle"
    /\ UNCHANGED <<estopVars, pause, homed, otherVars>>

(* Refused with hw_fault while estopHw_ is set; leaves the stop flag alone. *)
CmdResetEstop ==
    /\ Host("reset_estop")
    /\ ~estopHw
    /\ fault' = "none" /\ state' = "Idle"
    /\ UNCHANGED <<estopVars, pause, homed, otherVars>>

(* Uploads, by what they do to the stored program.  A new document takes   *)
(* the place of the one the interpreter was given: its reference is out of *)
(* date from then on.                                                      *)
CmdBeginTransfer ==
    /\ Host("begin_transfer")
    /\ Store!Begin \/ Store!BeginFails
    /\ UNCHANGED <<modeVars, interpVars, configVars, calVars>>

CmdEndTransfer ==
    /\ Host("end_transfer")
    /\ \/ /\ Store!Discard
          /\ UNCHANGED attached
       \/ /\ Store!Reject \/ Store!Accept
          /\ attached' = IF attached = "null" THEN "null" ELSE "outdated"
    /\ UNCHANGED <<modeVars, runLimits, origin, configVars, calVars>>

CmdSetMaxTravel ==
    /\ Host("set_max_travel")
    /\ maxTravel' \in Limits
    /\ UNCHANGED <<modeVars, stepsPerMm, storeVars, interpVars, calVars>>

(* calibrate_axis that keeps the count of an abandoned calibration.        *)
CmdCalibrateAxisMut ==
    /\ Host("calibrate_axis")
    /\ calAxis' \in Axes
    /\ moved' = 0
    /\ state' = "Calibrating"
    /\ homed' = FALSE
    /\ UNCHANGED <<fault, estopVars, pause, calJogSteps, storeVars,
                   interpVars, configVars>>

CmdCalibrateAxis ==
    /\ Host("calibrate_axis")
    /\ calAxis' \in Axes
    /\ calJogSteps' = 0 /\ moved' = 0
    /\ state' = "Calibrating"
    /\ homed' = FALSE
    /\ UNCHANGED <<fault, estopVars, pause, storeVars, interpVars, configVars>>

(* The steps of a jog the E-stop can leave it at.                          *)
CutShort(n) == IF n >= 0 THEN 0..(n - 1) ELSE (n + 1)..0

(* jogAxisSteps is blocking: it runs to the end unless the line is, or     *)
(* becomes, pressed.  Zero steps succeed without looking at the line.      *)
CmdCalJog ==
    /\ Host("cal_jog")
    /\ ~pin
    /\ \E n \in JogSteps :
          /\ calJogSteps + n \in -MaxJog..MaxJog
          /\ calJogSteps' = calJogSteps + n
          /\ moved' = moved + n
    /\ UNCHANGED <<modeVars, calAxis, storeVars, interpVars, configVars>>

CmdCalJogAborted ==
    /\ pc = "poll" /\ "cal_jog" \in Commands
    /\ state \in allowedStates["cal_jog"]
    /\ pin' = TRUE
    /\ \E n \in JogSteps : \E done \in CutShort(n) :
          /\ pin => done = 0
          /\ moved' = moved + done
    /\ injectFault("cal_jog_failed")
    /\ UNCHANGED <<pc, estopSeen, calAxis, calJogSteps, storeVars, interpVars,
                   configVars>>

CmdCancelCalibration ==
    /\ Host("cancel_calibration")
    /\ calJogSteps' = 0 /\ calAxis' = NoAxis
    /\ state' = "Idle"
    /\ UNCHANGED <<fault, estopVars, pause, homed, moved, storeVars,
                   interpVars, configVars>>

(* The measured distance turns the net jog into steps/mm (the net steps    *)
(* stand for the quotient) and is saved.                                   *)
MagnitudeMut(n) == n
Magnitude(n) == IF n < 0 THEN -n ELSE n

CmdSetCalDistance ==
    /\ Host("set_cal_distance")
    /\ calJogSteps # 0
    /\ stepsPerMm' = [a \in Axes |-> IF a = calAxis THEN Magnitude(calJogSteps)
                                                    ELSE stepsPerMm[a]]
    /\ calJogSteps' = 0 /\ calAxis' = NoAxis
    /\ state' = "Idle"
    /\ UNCHANGED <<fault, estopVars, pause, homed, moved, maxTravel,
                   storeVars, interpVars>>

Command ==
    \/ CmdEstop \/ CmdHome \/ CmdRunProgram \/ CmdPause \/ CmdResume
    \/ CmdResetFault \/ CmdResetEstop
    \/ CmdBeginTransfer \/ CmdEndTransfer \/ CmdSetMaxTravel
    \/ CmdCalibrateAxis \/ CmdCalJog \/ CmdCalJogAborted
    \/ CmdCancelCalibration \/ CmdSetCalDistance

-----------------------------------------------------------------------------
(* The loop                                                                *)

PollDone ==
    /\ pc = "poll"
    /\ pc' = "tick"
    /\ UNCHANGED <<modeVars, otherVars, controlVars>>

(* tick: a homing deadline that has passed, or not, ...                    *)
TickHoming ==
    /\ pc = "tick" /\ state = "Homing"
    /\ state' = "Ready" /\ homed' = TRUE
    /\ pc' = "start"
    /\ UNCHANGED <<fault, estopVars, pause, otherVars, controlVars>>

TickNothing ==
    /\ pc = "tick" /\ state # "Running"
    /\ pc' = "start"
    /\ UNCHANGED <<modeVars, otherVars, controlVars>>

(* ... or a job to run, inside the same call of tick.                      *)
TickRun ==
    /\ pc = "tick" /\ state = "Running"
    /\ pc' = "run"
    /\ UNCHANGED <<modeVars, otherVars, controlVars>>

(* Interpreter::check, ahead of every instruction: a pause without a stop  *)
(* is waited out in a loop that only another context could end.            *)
SpinsOnPause == pause /\ ~stop

(* The results run() can return.  A reference that was never given a       *)
(* program faults at once; a stop flag faults at the next check.           *)
RunResults ==
    IF attached = "null" \/ stop THEN {"Faulted"}
    ELSE {"Ok", "Faulted"} \cup (IF MotionAborts /\ pin THEN {"Aborted"} ELSE {})

(* tick on the result of run().  Mutant: an abort shows no reason.         *)
OutcomeMutReason(r) ==
    \/ r = "Ok"      /\ state' = "Idle"     /\ UNCHANGED fault
    \/ r = "Aborted" /\ state' = "Estopped" /\ UNCHANGED fault
    \/ r = "Faulted" /\ state' = "Faulted"  /\ fault' = "program"
Outcome(r) ==
    \/ r = "Ok"      /\ state' = "Idle"     /\ UNCHANGED fault
    \/ r = "Aborted" /\ state' = "Estopped" /\ fault' = "estop_triggered"
    \/ r = "Faulted" /\ state' = "Faulted"  /\ fault' = "program"

RunEnds ==
    /\ pc = "run"
    /\ attached = "null" \/ ~SpinsOnPause
    /\ pc' = "start"
    /\ \E r \in RunResults :
          /\ Outcome(r)
          /\ homed' = (homed /\ r = "Ok")
    /\ UNCHANGED <<estopVars, pause, otherVars, controlVars>>

(* Controls::poll: a press edge of Start, ...                              *)
StartButton ==
    /\ pc = "start"
    /\ pc' = "pause"
    /\ \/ /\ state = "Idle"
          /\ enterHoming
          /\ UNCHANGED origin
       \/ /\ state = "Ready" /\ loaded
          /\ state' = "Running" /\ origin' = "button"
          /\ UNCHANGED <<fault, estopVars, pause, homed>>
       \/ /\ state = "Paused"
          /\ pause' = FALSE /\ state' = "Running"
          /\ UNCHANGED <<fault, estopVars, homed, origin>>
    /\ UNCHANGED <<attached, runLimits, storeVars, configVars, calVars,
                   controlVars>>

(* ... a press edge of Pause, ...                                          *)
PauseButton ==
    /\ pc = "pause"
    /\ pc' = "estop"
    /\ \/ /\ state = "Running"
          /\ pause' = TRUE /\ state' = "Paused"
          /\ UNCHANGED fault
       \/ /\ state = "Faulted"
          /\ fault' = "none" /\ state' = "Idle"
          /\ UNCHANGED pause
    /\ UNCHANGED <<estopVars, homed, otherVars, controlVars>>

(* ... no press, or one that means nothing in this state, ...              *)
NoButton ==
    /\ pc \in {"start", "pause"}
    /\ pc' = IF pc = "start" THEN "pause" ELSE "estop"
    /\ UNCHANGED <<modeVars, otherVars, controlVars>>

(* ... and the level of the E-stop line, which counts when it changed.     *)
EstopLine ==
    /\ pc = "estop"
    /\ pc' = "poll"
    /\ estopSeen' = pin
    /\ IF pin # estopSeen
       THEN setEstopHardware(pin)
       ELSE UNCHANGED modeVars
    /\ UNCHANGED <<pin, otherVars>>

(* The operator presses or releases the latching E-stop button.            *)
TurnEstop ==
    /\ pin' = ~pin
    /\ UNCHANGED <<modeVars, pc, estopSeen, otherVars>>

Loop == \/ PollDone \/ TickHoming \/ TickNothing \/ TickRun
        \/ RunEnds
        \/ StartButton \/ PauseButton \/ NoButton \/ EstopLine

Next == Command \/ Loop \/ TurnEstop

Spec == Init /\ [][Next]_vars

(* The loop never rests; the deadline of a homing passes sooner or later   *)
(* (Timers.tla); a job ends unless it spins on the pause flag, that is,    *)
(* the stored program has no endless WAIT.  Host and operator owe nothing. *)
Fairness ==
    /\ WF_vars(Loop)
    /\ WF_vars(RunEnds)
    /\ SF_vars(TickHoming)

FairSpec == Spec /\ Fairness

-----------------------------------------------------------------------------
(* Safety                                                                  *)

(* The E-stop latch.  estopHw_ and the interpreter's stop flag stand and   *)
(* fall together, only in state Estopped, whichever of the four places     *)
(* that write them ran last; and while Controls has the line pressed the   *)
(* latch holds, so no command can lift an E-stop somebody is holding.      *)
EstopLatch ==
    /\ stop = estopHw
    /\ estopHw => state = "Estopped"
    /\ estopSeen => estopHw

(* Leaving Estopped ends in Idle, with the fault cleared, no stop flag     *)
(* left for the next job, and the line not pressed as far as Controls      *)
(* knows: neither reset_estop, nor a button, nor a late fault gets out of  *)
(* a held E-stop.                                                          *)
EstopExit ==
    [][state = "Estopped" /\ state' # "Estopped"
         => /\ state' = "Idle" /\ fault' = "none"
            /\ ~stop' /\ ~estopHw' /\ ~estopSeen']_vars

(* No job starts, runs or waits unless the machine homed after the last    *)
(* E-stop, fault or calibration, over every path of commands and buttons   *)
(* that leads back to Ready.                                               *)
HomedBeforeJob == state \in {"Ready", "Running", "Paused"} => homed

(* The program cannot be taken away from a job: from the start of a job to *)
(* its end the store holds a validated program and no upload replaces it.  *)
JobHasProgram == state \in {"Running", "Paused"} => loaded /\ ~receiving

(* A job started by run_program, also after a pause and a resume from      *)
(* either side, executes the stored program under the travel envelope      *)
(* configured now, and can get past its first check.                       *)
HostJobIsCurrent ==
    pc = "run" /\ origin = "host"
        => attached = "current" /\ runLimits = maxTravel /\ ~pause /\ ~stop

(* A reason is reported exactly when something is wrong: no recovery path  *)
(* leaves a reason behind, and none is lost while the machine is stopped.  *)
FaultShown == fault # "none" <=> state \in {"Faulted", "Estopped"}

(* The steps counted in a calibration are the steps the axis made: a jog   *)
(* that the E-stop cut short ends the calibration.                         *)
CalibrationCountsMotion ==
    state = "Calibrating" => calAxis \in Axes /\ calJogSteps = moved

(* steps/mm changes by measuring alone: at the end of a calibration, for   *)
(* its axis, to the steps really made.                                     *)
CalibrationFromMeasurement ==
    [][\A a \in Axes : stepsPerMm'[a] # stepsPerMm[a]
         => /\ state = "Calibrating" /\ state' = "Idle"
            /\ a = calAxis
            /\ stepsPerMm'[a] \in {moved, -moved} /\ stepsPerMm'[a] > 0]_vars

(* What makes the safety properties inductive: run() is called in state    *)
(* Running only; an upload in progress and a stored program exclude each   *)
(* other; and the settings run_program made last as long as its job.       *)
RunPhase == pc = "run" => state = "Running"
UploadExcludesProgram == loaded => ~receiving
HostSettings ==
    state \in {"Running", "Paused"} /\ origin = "host"
        => /\ attached = "current" /\ runLimits = maxTravel
           /\ state = "Running" => ~pause

IInv == /\ EstopLatch /\ HomedBeforeJob /\ JobHasProgram /\ FaultShown
        /\ CalibrationCountsMotion
        /\ RunPhase /\ UploadExcludesProgram /\ HostSettings

-----------------------------------------------------------------------------
(* Liveness                                                                *)

Spinning == pc = "run" /\ attached # "null" /\ SpinsOnPause

(* An E-stop that is held is honoured for good, unless the loop is stuck   *)
(* in a job that waits on the pause flag: nothing else keeps Controls from *)
(* looking at the line.                                                    *)
HeldEstopIsHonoured == (<>[]pin) => <>[](state = "Estopped" \/ Spinning)

-----------------------------------------------------------------------------
(* What the documents say, and the code does not do                        *)

(* architecture.md:208,219-222: Start in Ready is the internal command     *)
(* run_program.  The button enters Running without load, setTravelLimits   *)
(* or the reset of the flags (StateMachine.cpp:344 against 182-189).       *)
StartIsRunProgram ==
    pc = "run" => attached = "current" /\ runLimits = maxTravel

(* architecture.md:254-255: a latched E-stop enters Estopped.  A pause     *)
(* flag left from before an E-stop makes a job started with the button     *)
(* spin in check for ever, out of reach of resume and of the E-stop line.  *)
EstopAlwaysHonoured == (<>[]pin) => <>[](state = "Estopped")
=============================================================================
