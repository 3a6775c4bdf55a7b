--------------------------- MODULE FirmwareProofs ---------------------------
(***************************************************************************)
(* Proofs about Firmware for every set of commands, travel envelopes, axes,*)
(* jogs and programs, and for both kinds of HAL.                           *)
(***************************************************************************)
EXTENDS Firmware, TLAPS

(* The tuples of variables that the UNCHANGED clauses name.                *)
USE DEF vars, modeVars, otherVars, storeVars, configVars, calVars, interpVars,
        estopVars, controlVars

-----------------------------------------------------------------------------
(* Every variable keeps its type.  The flags are Boolean-valued variables, *)
(* which go to Zenon; the rest goes to the SMT solver.                     *)
LEMMA TypeStep == TypeOK /\ [Next]_vars => TypeOK'
<1> USE FirmwareAssumption DEF FirmwareAssumption, States, Faults, Phases
<1> SUFFICES ASSUME TypeOK, [Next]_vars
             PROVE  TypeOK'
  OBVIOUS
<1>1. CASE CmdEstop
  <2>1. FlagsOK'
    BY <1>1, Zenon DEF TypeOK, FlagsOK, CmdEstop, Host, setEstopHardware, Latch, Unlatch
  <2>2. DataOK'
    BY <1>1 DEF TypeOK, DataOK, CmdEstop, Host, setEstopHardware, Latch, Unlatch
  <2>3. QED
    BY <2>1, <2>2 DEF TypeOK
<1>2. CASE CmdHome
  <2>1. FlagsOK'
    BY <1>2, Zenon DEF TypeOK, FlagsOK, CmdHome, Host, enterHoming
  <2>2. DataOK'
    BY <1>2 DEF TypeOK, DataOK, CmdHome, Host, enterHoming
  <2>3. QED
    BY <2>1, <2>2 DEF TypeOK
<1>3. CASE CmdRunProgram
  <2>1. FlagsOK'
    BY <1>3, Zenon DEF TypeOK, FlagsOK, CmdRunProgram, Host
  <2>2. DataOK'
    BY <1>3 DEF TypeOK, DataOK, CmdRunProgram, Host
  <2>3. QED
    BY <2>1, <2>2 DEF TypeOK
<1>4. CASE CmdPause
  <2>1. FlagsOK'
    BY <1>4, Zenon DEF TypeOK, FlagsOK, CmdPause, Host
  <2>2. DataOK'
    BY <1>4 DEF TypeOK, DataOK, CmdPause, Host
  <2>3. QED
    BY <2>1, <2>2 DEF TypeOK
<1>5. CASE CmdResume
  <2>1. FlagsOK'
    BY <1>5, Zenon DEF TypeOK, FlagsOK, CmdResume, Host
  <2>2. DataOK'
    BY <1>5 DEF TypeOK, DataOK, CmdResume, Host
  <2>3. QED
    BY <2>1, <2>2 DEF TypeOK
<1>6. CASE CmdResetFault
  <2>1. FlagsOK'
    BY <1>6, Zenon DEF TypeOK, FlagsOK, CmdResetFault, Host
  <2>2. DataOK'
    BY <1>6 DEF TypeOK, DataOK, CmdResetFault, Host
  <2>3. QED
    BY <2>1, <2>2 DEF TypeOK
<1>7. CASE CmdResetEstop
  <2>1. FlagsOK'
    BY <1>7, Zenon DEF TypeOK, FlagsOK, CmdResetEstop, Host
  <2>2. DataOK'
    BY <1>7 DEF TypeOK, DataOK, CmdResetEstop, Host
  <2>3. QED
    BY <2>1, <2>2 DEF TypeOK
<1>8. CASE CmdBeginTransfer
  <2>1. FlagsOK'
    BY <1>8, Zenon DEF TypeOK, FlagsOK, CmdBeginTransfer, Host, Store!Begin, Store!BeginFails
  <2>2. DataOK'
    BY <1>8 DEF TypeOK, DataOK, CmdBeginTransfer, Host, Store!Begin, Store!BeginFails
  <2>3. QED
    BY <2>1, <2>2 DEF TypeOK
<1>9. CASE CmdEndTransfer
  <2>1. FlagsOK'
    BY <1>9, Zenon DEF TypeOK, FlagsOK, CmdEndTransfer, Host, Store!Discard, Store!Reject, Store!Accept
  <2>2. DataOK'
    BY <1>9 DEF TypeOK, DataOK, CmdEndTransfer, Host, Store!Discard, Store!Reject, Store!Accept
  <2>3. QED
    BY <2>1, <2>2 DEF TypeOK
<1>10. CASE CmdSetMaxTravel
  <2>1. FlagsOK'
    BY <1>10, Zenon DEF TypeOK, FlagsOK, CmdSetMaxTravel, Host
  <2>2. DataOK'
    BY <1>10 DEF TypeOK, DataOK, CmdSetMaxTravel, Host
  <2>3. QED
    BY <2>1, <2>2 DEF TypeOK
<1>11. CASE CmdCalibrateAxis
  <2>1. FlagsOK'
    BY <1>11, Zenon DEF TypeOK, FlagsOK, CmdCalibrateAxis, Host
  <2>2. DataOK'
    BY <1>11 DEF TypeOK, DataOK, CmdCalibrateAxis, Host
  <2>3. QED
    BY <2>1, <2>2 DEF TypeOK
<1>12. CASE CmdCalJog
  <2>1. FlagsOK'
    BY <1>12, Zenon DEF TypeOK, FlagsOK, CmdCalJog, Host
  <2>2. DataOK'
    BY <1>12 DEF TypeOK, DataOK, CmdCalJog, Host
  <2>3. QED
    BY <2>1, <2>2 DEF TypeOK
<1>13. CASE CmdCalJogAborted
  <2>1. FlagsOK'
    BY <1>13, Zenon DEF TypeOK, FlagsOK, CmdCalJogAborted, injectFault
  <2>2. DataOK'
    BY <1>13 DEF TypeOK, DataOK, CmdCalJogAborted, injectFault, CutShort
  <2>3. QED
    BY <2>1, <2>2 DEF TypeOK
<1>14. CASE CmdCancelCalibration
  <2>1. FlagsOK'
    BY <1>14, Zenon DEF TypeOK, FlagsOK, CmdCancelCalibration, Host
  <2>2. DataOK'
    BY <1>14 DEF TypeOK, DataOK, CmdCancelCalibration, Host
  <2>3. QED
    BY <2>1, <2>2 DEF TypeOK
<1>15. CASE CmdSetCalDistance
  <2>1. FlagsOK'
    BY <1>15, Zenon DEF TypeOK, FlagsOK, CmdSetCalDistance, Host, Magnitude
  <2>2. DataOK'
    BY <1>15 DEF TypeOK, DataOK, CmdSetCalDistance, Host, Magnitude
  <2>3. QED
    BY <2>1, <2>2 DEF TypeOK
<1>16. CASE PollDone
  <2>1. FlagsOK'
    BY <1>16, Zenon DEF TypeOK, FlagsOK, PollDone
  <2>2. DataOK'
    BY <1>16 DEF TypeOK, DataOK, PollDone
  <2>3. QED
    BY <2>1, <2>2 DEF TypeOK
<1>17. CASE TickHoming
  <2>1. FlagsOK'
    BY <1>17, Zenon DEF TypeOK, FlagsOK, TickHoming
  <2>2. DataOK'
    BY <1>17 DEF TypeOK, DataOK, TickHoming
  <2>3. QED
    BY <2>1, <2>2 DEF TypeOK
<1>18. CASE TickNothing
  <2>1. FlagsOK'
    BY <1>18, Zenon DEF TypeOK, FlagsOK, TickNothing
  <2>2. DataOK'
    BY <1>18 DEF TypeOK, DataOK, TickNothing
  <2>3. QED
    BY <2>1, <2>2 DEF TypeOK
<1>19. CASE TickRun
  <2>1. FlagsOK'
    BY <1>19, Zenon DEF TypeOK, FlagsOK, TickRun
  <2>2. DataOK'
    BY <1>19 DEF TypeOK, DataOK, TickRun
  <2>3. QED
    BY <2>1, <2>2 DEF TypeOK
<1>20. CASE RunEnds
  <2>1. FlagsOK'
    BY <1>20, Zenon DEF TypeOK, FlagsOK, RunEnds, RunResults, Outcome
  <2>2. DataOK'
    BY <1>20 DEF TypeOK, DataOK, RunEnds, RunResults, Outcome
  <2>3. QED
    BY <2>1, <2>2 DEF TypeOK
<1>21. CASE StartButton
  <2>1. FlagsOK'
    BY <1>21, Zenon DEF TypeOK, FlagsOK, StartButton, enterHoming
  <2>2. DataOK'
    BY <1>21 DEF TypeOK, DataOK, StartButton, enterHoming
  <2>3. QED
    BY <2>1, <2>2 DEF TypeOK
<1>22. CASE PauseButton
  <2>1. FlagsOK'
    BY <1>22, Zenon DEF TypeOK, FlagsOK, PauseButton
  <2>2. DataOK'
    BY <1>22 DEF TypeOK, DataOK, PauseButton
  <2>3. QED
    BY <2>1, <2>2 DEF TypeOK
<1>23. CASE NoButton
  <2>1. FlagsOK'
    BY <1>23, Zenon DEF TypeOK, FlagsOK, NoButton
  <2>2. DataOK'
    BY <1>23 DEF TypeOK, DataOK, NoButton
  <2>3. QED
    BY <2>1, <2>2 DEF TypeOK
<1>24. CASE EstopLine
  <2>1. FlagsOK'
    BY <1>24, Zenon DEF TypeOK, FlagsOK, EstopLine, setEstopHardware, Latch, Unlatch
  <2>2. DataOK'
    BY <1>24 DEF TypeOK, DataOK, EstopLine, setEstopHardware, Latch, Unlatch
  <2>3. QED
    BY <2>1, <2>2 DEF TypeOK
<1>25. CASE TurnEstop
  <2>1. FlagsOK'
    BY <1>25, Zenon DEF TypeOK, FlagsOK, TurnEstop
  <2>2. DataOK'
    BY <1>25 DEF TypeOK, DataOK, TurnEstop
  <2>3. QED
    BY <2>1, <2>2 DEF TypeOK
<1>26. CASE UNCHANGED vars
  BY <1>26 DEF TypeOK, FlagsOK, DataOK
<1>27. QED
  BY <1>1, <1>2, <1>3, <1>4, <1>5, <1>6, <1>7, <1>8, <1>9, <1>10, <1>11,
     <1>12, <1>13, <1>14, <1>15, <1>16, <1>17, <1>18, <1>19, <1>20,
     <1>21, <1>22, <1>23, <1>24, <1>25, <1>26 DEF Next, Command, Loop

THEOREM TypeCorrect == Spec => []TypeOK
<1>1. Init => TypeOK
  <2>1. Init => FlagsOK
    BY Zenon DEF Init, Store!StoreInit, FlagsOK
  <2>2. Init => DataOK
    BY FirmwareAssumption
    DEF FirmwareAssumption, Init, Store!StoreInit, DataOK, States, Faults, Phases
  <2>3. QED
    BY <2>1, <2>2 DEF TypeOK
<1>2. QED
  BY <1>1, TypeStep, PTL DEF Spec

-----------------------------------------------------------------------------
(* What the command gate lets through, one line per row of allowedStates   *)
(* that the invariants depend on.                                          *)
LEMMA Gate ==
    /\ allowedStates["run_program"] = {"Ready"}
    /\ allowedStates["pause"] = {"Running"}
    /\ allowedStates["resume"] = {"Paused"}
    /\ allowedStates["reset_fault"] = {"Faulted"}
    /\ allowedStates["reset_estop"] = {"Estopped"}
    /\ \A c \in {"home", "begin_transfer", "end_transfer", "set_max_travel",
                 "calibrate_axis"} : allowedStates[c] = {"Idle", "Ready"}
    /\ \A c \in {"cal_jog", "set_cal_distance", "cancel_calibration"} :
          allowedStates[c] = {"Calibrating"}
  BY DEF allowedStates, allowedStatesTable, CommandNames, AtRest

(* The inductive invariant, action by action.                              *)
LEMMA InvariantStep == TypeOK /\ IInv /\ [Next]_vars => IInv'
<1> USE DEF IInv, EstopLatch, HomedBeforeJob, JobHasProgram, FaultShown,
            CalibrationCountsMotion, RunPhase, UploadExcludesProgram, HostSettings
<1> SUFFICES ASSUME TypeOK, IInv, [Next]_vars
             PROVE  IInv'
  OBVIOUS
<1>1. CASE CmdEstop
  BY <1>1 DEF TypeOK, FlagsOK, DataOK, CmdEstop, Host, setEstopHardware, Latch, Unlatch
<1>2. CASE CmdHome
  BY <1>2, Gate DEF CmdHome, Host, enterHoming
<1>3. CASE CmdRunProgram
  BY <1>3, Gate DEF TypeOK, FlagsOK, CmdRunProgram, Host
<1>4. CASE CmdPause
  BY <1>4, Gate DEF CmdPause, Host
<1>5. CASE CmdResume
  BY <1>5, Gate DEF CmdResume, Host
<1>6. CASE CmdResetFault
  BY <1>6, Gate DEF CmdResetFault, Host
<1>7. CASE CmdResetEstop
  BY <1>7, Gate DEF CmdResetEstop, Host
<1>8. CASE CmdBeginTransfer
  BY <1>8, Gate DEF CmdBeginTransfer, Host, Store!Begin, Store!BeginFails
<1>9. CASE CmdEndTransfer
  BY <1>9, Gate DEF CmdEndTransfer, Host, Store!Discard, Store!Reject, Store!Accept
<1>10. CASE CmdSetMaxTravel
  BY <1>10, Gate DEF CmdSetMaxTravel, Host
<1>11. CASE CmdCalibrateAxis
  BY <1>11, Gate DEF CmdCalibrateAxis, Host
<1>12. CASE CmdCalJog
  BY <1>12, Gate DEF TypeOK, FlagsOK, DataOK, CmdCalJog, Host
<1>13. CASE CmdCalJogAborted
  BY <1>13, Gate DEF CmdCalJogAborted, injectFault
<1>14. CASE CmdCancelCalibration
  BY <1>14, Gate DEF CmdCancelCalibration, Host
<1>15. CASE CmdSetCalDistance
  BY <1>15, Gate DEF CmdSetCalDistance, Host, Magnitude
<1>16. CASE PollDone
  BY <1>16 DEF PollDone
<1>17. CASE TickHoming
  BY <1>17 DEF TickHoming
<1>18. CASE TickNothing
  BY <1>18 DEF TickNothing
<1>19. CASE TickRun
  BY <1>19 DEF TickRun
<1>20. CASE RunEnds
  BY <1>20 DEF RunEnds, RunResults, Outcome
<1>21. CASE StartButton
  BY <1>21 DEF StartButton, enterHoming
<1>22. CASE PauseButton
  BY <1>22 DEF PauseButton
<1>23. CASE NoButton
  BY <1>23 DEF NoButton
<1>24. CASE EstopLine
  BY <1>24 DEF TypeOK, FlagsOK, DataOK, EstopLine, setEstopHardware, Latch, Unlatch
<1>25. CASE TurnEstop
  BY <1>25 DEF TurnEstop
<1>26. CASE UNCHANGED vars
  BY <1>26
<1>27. QED
  BY <1>1, <1>2, <1>3, <1>4, <1>5, <1>6, <1>7, <1>8, <1>9, <1>10, <1>11,
     <1>12, <1>13, <1>14, <1>15, <1>16, <1>17, <1>18, <1>19, <1>20,
     <1>21, <1>22, <1>23, <1>24, <1>25, <1>26 DEF Next, Command, Loop

THEOREM Invariance == Spec => []IInv
<1>1. Init => IInv
  BY DEF Init, Store!StoreInit, IInv, EstopLatch, HomedBeforeJob, JobHasProgram,
         FaultShown, CalibrationCountsMotion, RunPhase, UploadExcludesProgram,
         HostSettings
<1>2. QED
  BY <1>1, TypeCorrect, InvariantStep, PTL DEF Spec

-----------------------------------------------------------------------------
(* The safety properties of Firmware, for every value of the constants.    *)

(* estopHw_, the stop flag, the line as Controls saw it and state Estopped *)
(* agree.                                                                  *)
THEOREM EstopLatchHolds == Spec => []EstopLatch
  BY Invariance, PTL DEF IInv

(* Nothing but a release of the line, or reset_estop when the line is not  *)
(* latched, leaves Estopped, and it leaves it clean.                       *)
THEOREM EstopExitHolds == Spec => EstopExit
<1> DEFINE Exit == state = "Estopped" /\ state' # "Estopped"
                     => /\ state' = "Idle" /\ fault' = "none"
                        /\ ~stop' /\ ~estopHw' /\ ~estopSeen'
<1>1. TypeOK /\ IInv /\ [Next]_vars => [Exit]_vars
  <2> SUFFICES ASSUME TypeOK, IInv, [Next]_vars, state = "Estopped",
                      state' # "Estopped"
               PROVE  Exit
    OBVIOUS
  <2>1. CASE CmdResetEstop
    BY <2>1 DEF IInv, EstopLatch, CmdResetEstop, Host
  <2>2. CASE EstopLine
    BY <2>2 DEF TypeOK, FlagsOK, EstopLine, setEstopHardware, Latch, Unlatch
  <2>3. CASE CmdEstop
    BY <2>3 DEF CmdEstop, setEstopHardware, Latch
  <2>4. CASE Command /\ ~CmdResetEstop /\ ~CmdEstop
    BY <2>4, Gate DEF Command, Host, CmdHome, CmdRunProgram, CmdPause,
       CmdResume, CmdResetFault, CmdBeginTransfer, CmdEndTransfer,
       CmdSetMaxTravel, CmdCalibrateAxis, CmdCalJog, CmdCalJogAborted,
       CmdCancelCalibration, CmdSetCalDistance
  <2>5. CASE Loop /\ ~EstopLine
    BY <2>5 DEF IInv, RunPhase, Loop, PollDone, TickHoming, TickNothing,
       TickRun, RunEnds, StartButton, PauseButton, NoButton
  <2>6. CASE TurnEstop \/ UNCHANGED vars
    BY <2>6 DEF TurnEstop
  <2>7. QED
    BY <2>1, <2>2, <2>3, <2>4, <2>5, <2>6 DEF Next
<1>2. QED
  BY <1>1, TypeCorrect, Invariance, PTL DEF Spec, EstopExit

(* No job without a homing since the position was last lost.               *)
THEOREM HomedBeforeJobHolds == Spec => []HomedBeforeJob
  BY Invariance, PTL DEF IInv

(* A job keeps its program.                                                *)
THEOREM JobHasProgramHolds == Spec => []JobHasProgram
  BY Invariance, PTL DEF IInv

(* A fault is shown exactly when the machine is stopped by one.            *)
THEOREM FaultShownHolds == Spec => []FaultShown
  BY Invariance, PTL DEF IInv

(* The steps counted in a calibration are the steps made.                  *)
THEOREM CalibrationCountsMotionHolds == Spec => []CalibrationCountsMotion
  BY Invariance, PTL DEF IInv

(* steps/mm follow the steps that were made: nothing but the end of a      *)
(* calibration with a measured distance touches them, and only for the axis *)
(* in calibration.                                                         *)
THEOREM CalibrationFromMeasurementHolds == Spec => CalibrationFromMeasurement
<1> DEFINE Step == \A a \in Axes : stepsPerMm'[a] # stepsPerMm[a]
                     => /\ state = "Calibrating" /\ state' = "Idle"
                        /\ a = calAxis
                        /\ stepsPerMm'[a] \in {moved, -moved}
                           /\ stepsPerMm'[a] > 0
<1>1. TypeOK /\ IInv /\ [Next]_vars => [Step]_vars
  <2> SUFFICES ASSUME TypeOK, IInv, [Next]_vars
               PROVE  Step
    OBVIOUS
  <2>1. CASE CmdSetCalDistance
    <3>1. state = "Calibrating" /\ calJogSteps = moved /\ calJogSteps \in Int
      BY <2>1, Gate DEF TypeOK, DataOK, IInv, CalibrationCountsMotion,
         CmdSetCalDistance, Host
    <3>2. Magnitude(calJogSteps) \in {moved, -moved} /\ Magnitude(calJogSteps) > 0
      BY <2>1, <3>1 DEF CmdSetCalDistance, Magnitude
    <3>3. stepsPerMm' = [a \in Axes |-> IF a = calAxis
                                       THEN Magnitude(calJogSteps)
                                       ELSE stepsPerMm[a]]
      BY <2>1 DEF CmdSetCalDistance
    <3>4. state' = "Idle"
      BY <2>1 DEF CmdSetCalDistance
    <3>5. QED
      BY <3>1, <3>2, <3>3, <3>4
  <2>2. CASE Command /\ ~CmdSetCalDistance
    BY <2>2 DEF Command, CmdEstop, CmdHome, CmdRunProgram, CmdPause,
       CmdResume, CmdResetFault, CmdResetEstop, CmdBeginTransfer,
       CmdEndTransfer, CmdSetMaxTravel, CmdCalibrateAxis, CmdCalJog,
       CmdCalJogAborted, CmdCancelCalibration
  <2>3. CASE Loop
    BY <2>3 DEF Loop, PollDone, TickHoming, TickNothing, TickRun, RunEnds,
       StartButton, PauseButton, NoButton, EstopLine
  <2>4. CASE TurnEstop \/ UNCHANGED vars
    BY <2>4 DEF TurnEstop
  <2>5. QED
    BY <2>1, <2>2, <2>3, <2>4 DEF Next
<1>2. QED
  BY <1>1, TypeCorrect, Invariance, PTL DEF Spec, CalibrationFromMeasurement

(* A job that run_program started runs what is stored, inside the envelope *)
(* that is configured, with no flag in its way.                            *)
THEOREM HostJobIsCurrentHolds == Spec => []HostJobIsCurrent
<1>1. IInv => HostJobIsCurrent
  BY DEF IInv, RunPhase, HostSettings, EstopLatch, HostJobIsCurrent
<1>2. QED
  BY <1>1, Invariance, PTL

-----------------------------------------------------------------------------
(* The store as a part of the firmware.  Firmware.tla uses the actions of  *)
(* StoredProgram for the two upload commands; no other command, no round   *)
(* of the loop and no hand at the E-stop touches what they keep, so that   *)
(* the firmware as a whole still implements StoredProgram, and what its    *)
(* store holds is whole whenever programLoaded() says so.                  *)
THEOREM StoreImplements == Spec => Store!StoreSpec
<1>1. Init => Store!StoreInit
  BY DEF Init
<1>2. [Next]_vars => [Store!StoreNext]_storeVars
  <2> USE DEF storeVars, Store!storeVars, Store!StoreNext
  <2> SUFFICES ASSUME [Next]_vars
               PROVE  Store!StoreNext \/ UNCHANGED storeVars
    OBVIOUS
  <2>1. CASE CmdBeginTransfer
    BY <2>1 DEF CmdBeginTransfer
  <2>2. CASE CmdEndTransfer
    BY <2>2 DEF CmdEndTransfer
  <2>3. CASE Command /\ ~CmdBeginTransfer /\ ~CmdEndTransfer
    BY <2>3 DEF Command, otherVars, CmdEstop, CmdHome, CmdRunProgram, CmdPause,
       CmdResume, CmdResetFault, CmdResetEstop, CmdSetMaxTravel,
       CmdCalibrateAxis, CmdCalJog, CmdCalJogAborted, CmdCancelCalibration,
       CmdSetCalDistance
  <2>4. CASE Loop
    BY <2>4 DEF Loop, otherVars, PollDone, TickHoming, TickNothing, TickRun,
       RunEnds, StartButton, PauseButton, NoButton, EstopLine
  <2>5. CASE TurnEstop \/ UNCHANGED vars
    BY <2>5 DEF TurnEstop, vars, otherVars
  <2>6. QED
    BY <2>1, <2>2, <2>3, <2>4, <2>5 DEF Next
<1>3. [Next]_vars => [Store!StoreNext]_(Store!storeVars)
  BY <1>2 DEF storeVars, Store!storeVars
<1>4. QED
  BY <1>1, <1>3, PTL DEF Spec, Store!StoreSpec

(* What run_program may start is a program that was validated, never one   *)
(* that an upload is about to replace.                                     *)
THEOREM StoreIsWhole == Spec => []Store!RunnableIsWhole
<1> USE DEF Store!RunnableIsWhole
<1>1. Store!StoreInit => Store!RunnableIsWhole
  BY DEF Store!StoreInit
<1>2. Store!RunnableIsWhole /\ [Store!StoreNext]_(Store!storeVars)
        => Store!RunnableIsWhole'
  <2> SUFFICES ASSUME Store!RunnableIsWhole,
                      [Store!StoreNext]_(Store!storeVars)
               PROVE  Store!RunnableIsWhole'
    OBVIOUS
  <2>1. CASE Store!Begin \/ Store!Clear
    BY <2>1, Zenon DEF Store!Begin, Store!Clear
  <2>2. CASE Store!BeginFails \/ Store!Discard
    BY <2>2, Zenon DEF Store!BeginFails, Store!Discard
  <2>3. CASE Store!Reject
    BY <2>3, Zenon DEF Store!Reject
  <2>4. CASE Store!Accept
    BY <2>4, Zenon DEF Store!Accept
  <2>5. CASE UNCHANGED Store!storeVars
    BY <2>5, Zenon DEF Store!storeVars
  <2>6. QED
    BY <2>1, <2>2, <2>3, <2>4, <2>5, Zenon DEF Store!StoreNext
<1>3. QED
  BY <1>1, <1>2, StoreImplements, PTL DEF Store!StoreSpec
=============================================================================
