--------------------------- MODULE SimulatorProofs ---------------------------
(***************************************************************************)
(* Proofs about Simulator, for any number of jobs and any set of programs. *)
(***************************************************************************)
EXTENDS Simulator, TLAPS

(* The tuples of variables that the UNCHANGED clauses name.                *)
USE DEF vars, modeVars, eventVars, jobVars, historyVars

-----------------------------------------------------------------------------
(* What is taken from the front of a queue is one of its elements, and     *)
(* what is left is a queue.                                                *)
LEMMA HeadIsMember ==
    ASSUME NEW S, NEW s \in Seq(S), s # <<>>
    PROVE  Head(s) \in S
OBVIOUS

LEMMA TailIsSeq ==
    ASSUME NEW S, NEW s \in Seq(S), s # <<>>
    PROVE  Tail(s) \in Seq(S)
OBVIOUS

(* Every variable keeps its type.  The flags are Boolean-valued variables, *)
(* which go to Zenon; the rest goes to the SMT solver.                     *)
LEMMA TypeStep == TypeOK /\ [Next]_vars => TypeOK'
<1> USE SimulatorAssumption
    DEF SimulatorAssumption, States, Faults, Phases, Ended, Jobs, NoJob
<1> SUFFICES ASSUME TypeOK, [Next]_vars
             PROVE  TypeOK'
  OBVIOUS
<1>1. CASE CmdHome
  <2>1. FlagsOK'
    BY <1>1, Zenon DEF TypeOK, FlagsOK, CmdHome
  <2>2. DataOK'
    BY <1>1 DEF TypeOK, DataOK, CmdHome
  <2>3. QED
    BY <2>1, <2>2 DEF TypeOK
<1>2. CASE CmdLoadProgram
  <2>1. FlagsOK'
    BY <1>2, Zenon DEF TypeOK, FlagsOK, CmdLoadProgram
  <2>2. DataOK'
    BY <1>2 DEF TypeOK, DataOK, CmdLoadProgram
  <2>3. QED
    BY <2>1, <2>2 DEF TypeOK
<1>3. CASE CmdRunProgram
  <2>1. FlagsOK'
    BY <1>3, Zenon DEF TypeOK, FlagsOK, CmdRunProgram, Start
  <2>2. DataOK'
    BY <1>3 DEF TypeOK, DataOK, CmdRunProgram, Start
  <2>3. QED
    BY <2>1, <2>2 DEF TypeOK
<1>4. CASE CmdPause
  <2>1. FlagsOK'
    BY <1>4, Zenon DEF TypeOK, FlagsOK, CmdPause
  <2>2. DataOK'
    BY <1>4 DEF TypeOK, DataOK, CmdPause
  <2>3. QED
    BY <2>1, <2>2 DEF TypeOK
<1>5. CASE CmdResume
  <2>1. FlagsOK'
    BY <1>5, Zenon DEF TypeOK, FlagsOK, CmdResume
  <2>2. DataOK'
    BY <1>5 DEF TypeOK, DataOK, CmdResume
  <2>3. QED
    BY <2>1, <2>2 DEF TypeOK
<1>6. CASE CmdEstop
  <2>1. FlagsOK'
    BY <1>6, Zenon DEF TypeOK, FlagsOK, CmdEstop, Stop, Enter
  <2>2. DataOK'
    BY <1>6 DEF TypeOK, DataOK, CmdEstop, Stop, Enter
  <2>3. QED
    BY <2>1, <2>2 DEF TypeOK
<1>7. CASE CmdResetFault
  <2>1. FlagsOK'
    BY <1>7, Zenon DEF TypeOK, FlagsOK, CmdResetFault, Reset, Enter, ClearStop
  <2>2. DataOK'
    BY <1>7 DEF TypeOK, DataOK, CmdResetFault, Reset, Enter, ClearStop
  <2>3. QED
    BY <2>1, <2>2 DEF TypeOK
<1>8. CASE CmdResetEstop
  <2>1. FlagsOK'
    BY <1>8, Zenon DEF TypeOK, FlagsOK, CmdResetEstop, Reset, Enter, ClearStop
  <2>2. DataOK'
    BY <1>8 DEF TypeOK, DataOK, CmdResetEstop, Reset, Enter, ClearStop
  <2>3. QED
    BY <2>1, <2>2 DEF TypeOK
<1>9. CASE EstopPressed
  <2>1. FlagsOK'
    BY <1>9, Zenon DEF TypeOK, FlagsOK, EstopPressed, Stop, Enter
  <2>2. DataOK'
    BY <1>9 DEF TypeOK, DataOK, EstopPressed, Stop, Enter
  <2>3. QED
    BY <2>1, <2>2 DEF TypeOK
<1>10. CASE EstopReleased
  <2>1. FlagsOK'
    BY <1>10, Zenon DEF TypeOK, FlagsOK, EstopReleased, Reset, Enter, ClearStop
  <2>2. DataOK'
    BY <1>10 DEF TypeOK, DataOK, EstopReleased, Reset, Enter, ClearStop
  <2>3. QED
    BY <2>1, <2>2 DEF TypeOK
<1>11. CASE Jam
  <2>1. FlagsOK'
    BY <1>11, Zenon DEF TypeOK, FlagsOK, Jam, Stop, Enter
  <2>2. DataOK'
    BY <1>11 DEF TypeOK, DataOK, Jam, Stop, Enter
  <2>3. QED
    BY <2>1, <2>2 DEF TypeOK
<1>12. CASE InjectFault
  <2>1. FlagsOK'
    BY <1>12, Zenon DEF TypeOK, FlagsOK, InjectFault, Enter
  <2>2. DataOK'
    BY <1>12 DEF TypeOK, DataOK, InjectFault, Enter
  <2>3. QED
    BY <2>1, <2>2 DEF TypeOK
<1>13. CASE StartButton
  <2>1. FlagsOK'
    BY <1>13, Zenon DEF TypeOK, FlagsOK, StartButton, Start
  <2>2. CASE state = "READY" /\ Start
    <3>1. /\ started + 1 \in Jobs
          /\ thread' \in [Jobs -> Phases]
          /\ runs' \in [Jobs -> Programs \cup {NoProgram}]
      BY <2>2 DEF TypeOK, DataOK, Start
    <3>2. DataOK'
      BY <1>13, <2>2, <3>1 DEF TypeOK, DataOK, StartButton, Start
    <3>3. QED
      BY <2>1, <3>2 DEF TypeOK
  <2>3. CASE ~(state = "READY" /\ Start)
    <3>1. DataOK'
      BY <1>13, <2>3 DEF TypeOK, DataOK, StartButton
    <3>2. QED
      BY <2>1, <3>1 DEF TypeOK
  <2>4. QED
    BY <2>2, <2>3
<1>14. CASE PauseButton
  <2>1. FlagsOK'
    BY <1>14, Zenon DEF TypeOK, FlagsOK, PauseButton, Reset, Enter, ClearStop
  <2>2. DataOK'
    BY <1>14 DEF TypeOK, DataOK, PauseButton, Reset, Enter, ClearStop
  <2>3. QED
    BY <2>1, <2>2 DEF TypeOK
<1>15. CASE TickHoming
  <2>1. FlagsOK'
    BY <1>15, Zenon DEF TypeOK, FlagsOK, TickHoming
  <2>2. DataOK'
    BY <1>15 DEF TypeOK, DataOK, TickHoming
  <2>3. QED
    BY <2>1, <2>2 DEF TypeOK
<1>16. CASE TickResult
  <2>1. FlagsOK'
    BY <1>16, Zenon DEF TypeOK, FlagsOK, TickResult, Outcome, Enter
  <2>2. Head(results) \in [job : Jobs, outcome : Ended]
    BY <1>16, HeadIsMember DEF TypeOK, DataOK, TickResult
  <2>3. /\ state' \in States /\ fault' \in Faults
    BY <1>16, <2>2 DEF TypeOK, DataOK, TickResult, Outcome, Enter
  <2>4. results' \in Seq([job : Jobs, outcome : Ended])
    BY <1>16, TailIsSeq DEF TypeOK, DataOK, TickResult
  <2>5. DataOK'
    BY <1>16, <2>3, <2>4 DEF TypeOK, DataOK, TickResult
  <2>6. QED
    BY <2>1, <2>5 DEF TypeOK
<1>17. CASE ConsoleLoad
  <2>1. FlagsOK'
    BY <1>17, Zenon DEF TypeOK, FlagsOK, ConsoleLoad
  <2>2. DataOK'
    BY <1>17 DEF TypeOK, DataOK, ConsoleLoad
  <2>3. QED
    BY <2>1, <2>2 DEF TypeOK
<1>18. CASE ConsoleRun
  <2>1. FlagsOK'
    BY <1>18, Zenon DEF TypeOK, FlagsOK, ConsoleRun, Start
  <2>2. DataOK'
    BY <1>18 DEF TypeOK, DataOK, ConsoleRun, Start
  <2>3. QED
    BY <2>1, <2>2 DEF TypeOK
<1>19. CASE ConsoleState
  <2>1. FlagsOK'
    BY <1>19, Zenon DEF TypeOK, FlagsOK, ConsoleState
  <2>2. DataOK'
    BY <1>19 DEF TypeOK, DataOK, ConsoleState
  <2>3. QED
    BY <2>1, <2>2 DEF TypeOK
<1>20. ASSUME NEW c \in {"run", "pause", "resume"}, ConsoleBegin(c)
      PROVE  TypeOK'
  <2>1. FlagsOK'
    BY <1>20, Zenon DEF TypeOK, FlagsOK, ConsoleBegin
  <2>2. DataOK'
    BY <1>20 DEF TypeOK, DataOK, ConsoleBegin
  <2>3. QED
    BY <2>1, <2>2 DEF TypeOK
<1>21. ASSUME NEW j \in Jobs, Begin(j)
      PROVE  TypeOK'
  <2>1. FlagsOK'
    BY <1>21, Zenon DEF TypeOK, FlagsOK, Begin, Move
  <2>2. DataOK'
    BY <1>21 DEF TypeOK, DataOK, Begin, Move
  <2>3. QED
    BY <2>1, <2>2 DEF TypeOK
<1>22. ASSUME NEW j \in Jobs, SeeStop(j)
      PROVE  TypeOK'
  <2>1. FlagsOK'
    BY <1>22, Zenon DEF TypeOK, FlagsOK, SeeStop, Move
  <2>2. DataOK'
    BY <1>22 DEF TypeOK, DataOK, SeeStop, Move
  <2>3. QED
    BY <2>1, <2>2 DEF TypeOK
<1>23. ASSUME NEW j \in Jobs, Abort(j)
      PROVE  TypeOK'
  <2>1. FlagsOK'
    BY <1>23, Zenon DEF TypeOK, FlagsOK, Abort, Move
  <2>2. DataOK'
    BY <1>23 DEF TypeOK, DataOK, Abort, Move
  <2>3. QED
    BY <2>1, <2>2 DEF TypeOK
<1>24. ASSUME NEW j \in Jobs, Finish(j)
      PROVE  TypeOK'
  <2>1. FlagsOK'
    BY <1>24, Zenon DEF TypeOK, FlagsOK, Finish, Move
  <2>2. DataOK'
    BY <1>24 DEF TypeOK, DataOK, Finish, Move
  <2>3. QED
    BY <2>1, <2>2 DEF TypeOK
<1>25. ASSUME NEW j \in Jobs, Fail(j)
      PROVE  TypeOK'
  <2>1. FlagsOK'
    BY <1>25, Zenon DEF TypeOK, FlagsOK, Fail, Move
  <2>2. DataOK'
    BY <1>25 DEF TypeOK, DataOK, Fail, Move
  <2>3. QED
    BY <2>1, <2>2 DEF TypeOK
<1>26. ASSUME NEW j \in Jobs, End(j)
      PROVE  TypeOK'
  <2>1. FlagsOK'
    BY <1>26, Zenon DEF TypeOK, FlagsOK, End, Move
  <2>2. DataOK'
    BY <1>26 DEF TypeOK, DataOK, End, Move
  <2>3. QED
    BY <2>1, <2>2 DEF TypeOK
<1>27. ASSUME NEW j \in Jobs, Report(j)
      PROVE  TypeOK'
  <2>1. FlagsOK'
    BY <1>27, Zenon DEF TypeOK, FlagsOK, Report
  <2>2. DataOK'
    BY <1>27 DEF TypeOK, DataOK, Report
  <2>3. QED
    BY <2>1, <2>2 DEF TypeOK
<1>28. CASE UNCHANGED vars
  <2>1. FlagsOK'
    BY <1>28, Zenon DEF TypeOK, FlagsOK
  <2>2. DataOK'
    BY <1>28 DEF TypeOK, DataOK
  <2>3. QED
    BY <2>1, <2>2 DEF TypeOK
<1>29. QED
  BY <1>1, <1>2, <1>3, <1>4, <1>5, <1>6, <1>7, <1>8, <1>9, <1>10, <1>11,
     <1>12, <1>13, <1>14, <1>15, <1>16, <1>17, <1>18, <1>19, <1>20, <1>21,
     <1>22, <1>23, <1>24, <1>25, <1>26, <1>27, <1>28
  DEF Next, Commands, Hardware, Tick, Console, Thread

(* The state, fault, queues and threads of the simulator keep their types. *)
THEOREM TypeCorrect == Spec => []TypeOK
<1>1. ASSUME Init
      PROVE  TypeOK
  <2>1. FlagsOK
    BY <1>1, Zenon DEF Init, FlagsOK
  <2>2. /\ thread \in [Jobs -> Phases]
        /\ runs \in [Jobs -> Programs \cup {NoProgram}]
    BY <1>1 DEF Init, Phases
  <2>3. /\ started \in 0..MaxJobs
        /\ results \in Seq([job : Jobs, outcome : Ended])
    BY <1>1, SimulatorAssumption DEF Init, SimulatorAssumption
  <2>4. DataOK
    BY <1>1, <2>2, <2>3 DEF Init, DataOK, States, Faults
  <2>5. QED
    BY <2>1, <2>4 DEF TypeOK
<1>2. QED
  BY <1>1, TypeStep, PTL DEF Spec

-----------------------------------------------------------------------------
(* What the state machine shows: the E-stop, its reason and the homing.    *)
(* These need one another (a held E-stop stays shown because the only      *)
(* result that could replace it looks at the state) and the console.       *)
Shown == /\ HeldEstopIsShown /\ EstopIsReason
         /\ HomedBeforeJob /\ ConsoleOverrules

LEMMA ShownStep == TypeOK /\ Shown /\ [Next]_vars => Shown'
<1> USE SimulatorAssumption
    DEF SimulatorAssumption, States, Faults, Phases, Ended, Jobs, NoJob
<1> SUFFICES ASSUME TypeOK, Shown, [Next]_vars
             PROVE  Shown'
  OBVIOUS
<1>1. CASE CmdHome
  BY <1>1
  DEF TypeOK, FlagsOK, DataOK, Shown, HeldEstopIsShown, EstopIsReason,
      HomedBeforeJob, ConsoleOverrules, CmdHome, Command, COMMAND_STATES,
      COMMAND_STATES_Table, AtRest, Positioned, Measuring
<1>2. CASE CmdLoadProgram
  BY <1>2
  DEF TypeOK, FlagsOK, DataOK, Shown, HeldEstopIsShown, EstopIsReason,
      HomedBeforeJob, ConsoleOverrules, CmdLoadProgram, Command,
      COMMAND_STATES, COMMAND_STATES_Table, AtRest, Positioned, Measuring
<1>3. CASE CmdRunProgram
  BY <1>3
  DEF TypeOK, FlagsOK, DataOK, Shown, HeldEstopIsShown, EstopIsReason,
      HomedBeforeJob, ConsoleOverrules, CmdRunProgram, Command,
      COMMAND_STATES, COMMAND_STATES_Table, AtRest, Positioned, Measuring,
      Start
<1>4. CASE CmdPause
  BY <1>4
  DEF TypeOK, FlagsOK, DataOK, Shown, HeldEstopIsShown, EstopIsReason,
      HomedBeforeJob, ConsoleOverrules, CmdPause, Command, COMMAND_STATES,
      COMMAND_STATES_Table, AtRest, Positioned, Measuring
<1>5. CASE CmdResume
  BY <1>5
  DEF TypeOK, FlagsOK, DataOK, Shown, HeldEstopIsShown, EstopIsReason,
      HomedBeforeJob, ConsoleOverrules, CmdResume, Command, COMMAND_STATES,
      COMMAND_STATES_Table, AtRest, Positioned, Measuring
<1>6. CASE CmdEstop
  BY <1>6
  DEF TypeOK, FlagsOK, DataOK, Shown, HeldEstopIsShown, EstopIsReason,
      HomedBeforeJob, ConsoleOverrules, CmdEstop, Command, COMMAND_STATES,
      COMMAND_STATES_Table, AtRest, Positioned, Measuring, Stop, Enter
<1>7. CASE CmdResetFault
  BY <1>7
  DEF TypeOK, FlagsOK, DataOK, Shown, HeldEstopIsShown, EstopIsReason,
      HomedBeforeJob, ConsoleOverrules, CmdResetFault, Command,
      COMMAND_STATES, COMMAND_STATES_Table, AtRest, Positioned, Measuring,
      Reset, Enter, ClearStop
<1>8. CASE CmdResetEstop
  BY <1>8
  DEF TypeOK, FlagsOK, DataOK, Shown, HeldEstopIsShown, EstopIsReason,
      HomedBeforeJob, ConsoleOverrules, CmdResetEstop, Command,
      COMMAND_STATES, COMMAND_STATES_Table, AtRest, Positioned, Measuring,
      Reset, Enter, ClearStop
<1>9. CASE EstopPressed
  BY <1>9
  DEF TypeOK, FlagsOK, DataOK, Shown, HeldEstopIsShown, EstopIsReason,
      HomedBeforeJob, ConsoleOverrules, EstopPressed, Stop, Enter
<1>10. CASE EstopReleased
  BY <1>10
  DEF TypeOK, FlagsOK, DataOK, Shown, HeldEstopIsShown, EstopIsReason,
      HomedBeforeJob, ConsoleOverrules, EstopReleased, Reset, Enter,
      ClearStop
<1>11. CASE Jam
  BY <1>11
  DEF TypeOK, FlagsOK, DataOK, Shown, HeldEstopIsShown, EstopIsReason,
      HomedBeforeJob, ConsoleOverrules, Jam, Stop, Enter
<1>12. CASE InjectFault
  BY <1>12
  DEF TypeOK, FlagsOK, DataOK, Shown, HeldEstopIsShown, EstopIsReason,
      HomedBeforeJob, ConsoleOverrules, InjectFault, Enter
<1>13. CASE StartButton
  BY <1>13
  DEF TypeOK, FlagsOK, DataOK, Shown, HeldEstopIsShown, EstopIsReason,
      HomedBeforeJob, ConsoleOverrules, StartButton, Start
<1>14. CASE PauseButton
  BY <1>14
  DEF TypeOK, FlagsOK, DataOK, Shown, HeldEstopIsShown, EstopIsReason,
      HomedBeforeJob, ConsoleOverrules, PauseButton, Reset, Enter, ClearStop
<1>15. CASE TickHoming
  BY <1>15
  DEF TypeOK, FlagsOK, DataOK, Shown, HeldEstopIsShown, EstopIsReason,
      HomedBeforeJob, ConsoleOverrules, TickHoming
<1>16. CASE TickResult
  <2>1. Head(results).outcome \in Ended
    BY <1>16, HeadIsMember DEF TypeOK, DataOK, TickResult
  <2>2. CASE Head(results).outcome = "halt"
    BY <1>16, <2>2
    DEF TypeOK, FlagsOK, DataOK, Shown, HeldEstopIsShown, EstopIsReason,
        HomedBeforeJob, ConsoleOverrules, TickResult, Outcome, Enter
  <2>3. CASE Head(results).outcome # "halt"
    BY <1>16, <2>1, <2>3
    DEF TypeOK, FlagsOK, DataOK, Shown, HeldEstopIsShown, EstopIsReason,
        HomedBeforeJob, ConsoleOverrules, TickResult, Outcome, Enter
  <2>4. QED
    BY <2>2, <2>3
<1>17. CASE ConsoleLoad
  BY <1>17
  DEF TypeOK, FlagsOK, DataOK, Shown, HeldEstopIsShown, EstopIsReason,
      HomedBeforeJob, ConsoleOverrules, ConsoleLoad
<1>18. CASE ConsoleRun
  BY <1>18
  DEF TypeOK, FlagsOK, DataOK, Shown, HeldEstopIsShown, EstopIsReason,
      HomedBeforeJob, ConsoleOverrules, ConsoleRun, Start
<1>19. CASE ConsoleState
  BY <1>19
  DEF TypeOK, FlagsOK, DataOK, Shown, HeldEstopIsShown, EstopIsReason,
      HomedBeforeJob, ConsoleOverrules, ConsoleState
<1>20. ASSUME NEW c \in {"run", "pause", "resume"}, ConsoleBegin(c)
      PROVE  Shown'
  BY <1>20
  DEF TypeOK, FlagsOK, DataOK, Shown, HeldEstopIsShown, EstopIsReason,
      HomedBeforeJob, ConsoleOverrules, ConsoleBegin
<1>21. ASSUME NEW j \in Jobs, Begin(j)
      PROVE  Shown'
  BY <1>21
  DEF TypeOK, FlagsOK, DataOK, Shown, HeldEstopIsShown, EstopIsReason,
      HomedBeforeJob, ConsoleOverrules, Begin, Move
<1>22. ASSUME NEW j \in Jobs, SeeStop(j)
      PROVE  Shown'
  BY <1>22
  DEF TypeOK, FlagsOK, DataOK, Shown, HeldEstopIsShown, EstopIsReason,
      HomedBeforeJob, ConsoleOverrules, SeeStop, Move
<1>23. ASSUME NEW j \in Jobs, Abort(j)
      PROVE  Shown'
  BY <1>23
  DEF TypeOK, FlagsOK, DataOK, Shown, HeldEstopIsShown, EstopIsReason,
      HomedBeforeJob, ConsoleOverrules, Abort, Move
<1>24. ASSUME NEW j \in Jobs, Finish(j)
      PROVE  Shown'
  BY <1>24
  DEF TypeOK, FlagsOK, DataOK, Shown, HeldEstopIsShown, EstopIsReason,
      HomedBeforeJob, ConsoleOverrules, Finish, Move
<1>25. ASSUME NEW j \in Jobs, Fail(j)
      PROVE  Shown'
  BY <1>25
  DEF TypeOK, FlagsOK, DataOK, Shown, HeldEstopIsShown, EstopIsReason,
      HomedBeforeJob, ConsoleOverrules, Fail, Move
<1>26. ASSUME NEW j \in Jobs, End(j)
      PROVE  Shown'
  BY <1>26
  DEF TypeOK, FlagsOK, DataOK, Shown, HeldEstopIsShown, EstopIsReason,
      HomedBeforeJob, ConsoleOverrules, End, Move
<1>27. ASSUME NEW j \in Jobs, Report(j)
      PROVE  Shown'
  BY <1>27
  DEF TypeOK, FlagsOK, DataOK, Shown, HeldEstopIsShown, EstopIsReason,
      HomedBeforeJob, ConsoleOverrules, Report
<1>28. CASE UNCHANGED vars
  BY <1>28
  DEF TypeOK, FlagsOK, DataOK, Shown, HeldEstopIsShown, EstopIsReason,
      HomedBeforeJob, ConsoleOverrules
<1>29. QED
  BY <1>1, <1>2, <1>3, <1>4, <1>5, <1>6, <1>7, <1>8, <1>9, <1>10, <1>11,
     <1>12, <1>13, <1>14, <1>15, <1>16, <1>17, <1>18, <1>19, <1>20, <1>21,
     <1>22, <1>23, <1>24, <1>25, <1>26, <1>27, <1>28
  DEF Next, Commands, Hardware, Tick, Console, Thread

-----------------------------------------------------------------------------
(* The jobs: who is alive is the one the state machine knows, and has been *)
(* told to stop when the machine shows a fault.                            *)
LEMMA OneJobStep == TypeOK /\ Shown /\ OneJob /\ [Next]_vars => OneJob'
<1> USE SimulatorAssumption
    DEF SimulatorAssumption, States, Faults, Phases, Ended, Jobs, NoJob
<1> DEFINE Goal == /\ \A i \in Jobs : Alive(i)' => i = interp'
                   /\ \A i \in Jobs : Working(i)' =>
                         /\ runs'[i] = program' \/ overruled'
                         /\ \/ state' \in {"RUNNING", "PAUSED"}
                            \/ stop' /\ state' \in {"FAULTED", "ESTOPPED"}
                   /\ results' # <<>> => ~SomeoneLives'
<1> SUFFICES ASSUME TypeOK, Shown, OneJob, [Next]_vars, ~deserted'
             PROVE  Goal
  BY DEF OneJob
<1>1. CASE CmdHome
  BY <1>1
  DEF TypeOK, DataOK, OneJob, Working, Alive, SomeoneLives, SomeoneWorks,
      CmdHome, Command, COMMAND_STATES, COMMAND_STATES_Table, AtRest,
      Positioned, Measuring
<1>2. CASE CmdLoadProgram
  BY <1>2
  DEF TypeOK, DataOK, OneJob, Working, Alive, SomeoneLives, SomeoneWorks,
      CmdLoadProgram, Command, COMMAND_STATES, COMMAND_STATES_Table, AtRest,
      Positioned, Measuring
<1>3. CASE CmdRunProgram
  BY <1>3
  DEF TypeOK, DataOK, OneJob, Working, Alive, SomeoneLives, SomeoneWorks,
      CmdRunProgram, Command, COMMAND_STATES, COMMAND_STATES_Table, AtRest,
      Positioned, Measuring, Start
<1>4. CASE CmdPause
  BY <1>4
  DEF TypeOK, DataOK, OneJob, Working, Alive, SomeoneLives, SomeoneWorks,
      CmdPause, Command, COMMAND_STATES, COMMAND_STATES_Table, AtRest,
      Positioned, Measuring
<1>5. CASE CmdResume
  BY <1>5
  DEF TypeOK, DataOK, OneJob, Working, Alive, SomeoneLives, SomeoneWorks,
      CmdResume, Command, COMMAND_STATES, COMMAND_STATES_Table, AtRest,
      Positioned, Measuring
<1>6. CASE CmdEstop
  BY <1>6
  DEF TypeOK, DataOK, OneJob, Working, Alive, SomeoneLives, SomeoneWorks,
      CmdEstop, Command, COMMAND_STATES, COMMAND_STATES_Table, AtRest,
      Positioned, Measuring, Stop, Enter
<1>7. CASE CmdResetFault
  BY <1>7
  DEF TypeOK, DataOK, OneJob, Working, Alive, SomeoneLives, SomeoneWorks,
      CmdResetFault, Command, COMMAND_STATES, COMMAND_STATES_Table, AtRest,
      Positioned, Measuring, Reset, Enter, ClearStop
<1>8. CASE CmdResetEstop
  BY <1>8
  DEF TypeOK, DataOK, OneJob, Working, Alive, SomeoneLives, SomeoneWorks,
      CmdResetEstop, Command, COMMAND_STATES, COMMAND_STATES_Table, AtRest,
      Positioned, Measuring, Reset, Enter, ClearStop
<1>9. CASE EstopPressed
  BY <1>9
  DEF TypeOK, DataOK, OneJob, Working, Alive, SomeoneLives, SomeoneWorks,
      EstopPressed, Stop, Enter
<1>10. CASE EstopReleased
  <2>1. CASE state = "ESTOPPED"
    <3>1. ~SomeoneWorks \/ ~stop
      BY <1>10, <2>1 DEF EstopReleased, Reset, ClearStop
    <3>2. QED
      BY <1>10, <2>1, <3>1
      DEF TypeOK, DataOK, OneJob, Working, Alive, SomeoneLives,
          SomeoneWorks, EstopReleased, Reset, Enter, ClearStop
  <2>2. CASE state # "ESTOPPED"
    BY <1>10, <2>2
    DEF TypeOK, DataOK, OneJob, Working, Alive, SomeoneLives, EstopReleased
  <2>3. QED
    BY <2>1, <2>2
<1>11. CASE Jam
  BY <1>11
  DEF TypeOK, DataOK, OneJob, Working, Alive, SomeoneLives, SomeoneWorks,
      Jam, Stop, Enter
<1>12. CASE InjectFault
  BY <1>12
  DEF TypeOK, DataOK, OneJob, Working, Alive, SomeoneLives, SomeoneWorks,
      InjectFault, Enter
<1>13. CASE StartButton
  BY <1>13
  DEF TypeOK, DataOK, OneJob, Working, Alive, SomeoneLives, SomeoneWorks,
      StartButton, Start
<1>14. CASE PauseButton
  BY <1>14
  DEF TypeOK, DataOK, OneJob, Working, Alive, SomeoneLives, SomeoneWorks,
      PauseButton, Reset, Enter, ClearStop
<1>15. CASE TickHoming
  BY <1>15
  DEF TypeOK, DataOK, OneJob, Working, Alive, SomeoneLives, SomeoneWorks,
      TickHoming
<1>16. CASE TickResult
  BY <1>16
  DEF TypeOK, DataOK, OneJob, Working, Alive, SomeoneLives, SomeoneWorks,
      TickResult, Outcome, Enter
<1>17. CASE ConsoleLoad
  BY <1>17
  DEF TypeOK, DataOK, OneJob, Working, Alive, SomeoneLives, SomeoneWorks,
      ConsoleLoad
<1>18. CASE ConsoleRun
  BY <1>18
  DEF TypeOK, DataOK, OneJob, Working, Alive, SomeoneLives, SomeoneWorks,
      ConsoleRun, Start
<1>19. CASE ConsoleState
  BY <1>19
  DEF TypeOK, DataOK, OneJob, Working, Alive, SomeoneLives, SomeoneWorks,
      ConsoleState
<1>20. ASSUME NEW c \in {"run", "pause", "resume"}, ConsoleBegin(c)
      PROVE  Goal
  BY <1>20
  DEF TypeOK, DataOK, OneJob, Working, Alive, SomeoneLives, SomeoneWorks,
      ConsoleBegin
<1>21. ASSUME NEW j \in Jobs, Begin(j)
      PROVE  Goal
  BY <1>21
  DEF TypeOK, DataOK, OneJob, Working, Alive, SomeoneLives, SomeoneWorks,
      Begin, Move
<1>22. ASSUME NEW j \in Jobs, SeeStop(j)
      PROVE  Goal
  BY <1>22
  DEF TypeOK, DataOK, OneJob, Working, Alive, SomeoneLives, SomeoneWorks,
      SeeStop, Move
<1>23. ASSUME NEW j \in Jobs, Abort(j)
      PROVE  Goal
  BY <1>23
  DEF TypeOK, DataOK, OneJob, Working, Alive, SomeoneLives, SomeoneWorks,
      Abort, Move
<1>24. ASSUME NEW j \in Jobs, Finish(j)
      PROVE  Goal
  BY <1>24
  DEF TypeOK, DataOK, OneJob, Working, Alive, SomeoneLives, SomeoneWorks,
      Finish, Move
<1>25. ASSUME NEW j \in Jobs, Fail(j)
      PROVE  Goal
  BY <1>25
  DEF TypeOK, DataOK, OneJob, Working, Alive, SomeoneLives, SomeoneWorks,
      Fail, Move
<1>26. ASSUME NEW j \in Jobs, End(j)
      PROVE  Goal
  BY <1>26
  DEF TypeOK, DataOK, OneJob, Working, Alive, SomeoneLives, SomeoneWorks,
      End, Move
<1>27. ASSUME NEW j \in Jobs, Report(j)
      PROVE  Goal
  BY <1>27
  DEF TypeOK, DataOK, OneJob, Working, Alive, SomeoneLives, SomeoneWorks,
      Report
<1>28. CASE UNCHANGED vars
  BY <1>28
  DEF TypeOK, DataOK, OneJob, Working, Alive, SomeoneLives, SomeoneWorks
<1>29. QED
  BY <1>1, <1>2, <1>3, <1>4, <1>5, <1>6, <1>7, <1>8, <1>9, <1>10, <1>11,
     <1>12, <1>13, <1>14, <1>15, <1>16, <1>17, <1>18, <1>19, <1>20, <1>21,
     <1>22, <1>23, <1>24, <1>25, <1>26, <1>27, <1>28
  DEF Next, Commands, Hardware, Tick, Console, Thread

LEMMA InvariantHolds == Spec => []IInv
<1>1. Init => IInv
  BY SimulatorAssumption
  DEF SimulatorAssumption, Init, IInv, HeldEstopIsShown, HomedBeforeJob,
      EstopIsReason, ConsoleOverrules, OneJob, Alive, Working, Ended, Jobs
<1>2. TypeOK /\ IInv /\ [Next]_vars => IInv'
  BY ShownStep, OneJobStep DEF IInv, Shown
<1>3. QED
  BY <1>1, <1>2, TypeCorrect, PTL DEF Spec

(* Unless the console overrules it, the machine shows ESTOPPED as long as  *)
(* the E-stop is held, and a reason exactly while something is wrong       *)
(* (_handle_internal, _cmd_reset_estop, _tick_interpreter).                *)
THEOREM HeldEstopIsShownHolds == Spec => []HeldEstopIsShown
<1>1. IInv /\ TypeOK => HeldEstopIsShown
  BY DEF IInv
<1>2. QED
  BY <1>1, TypeCorrect, InvariantHolds, PTL

(* No job is started, or shown as running, on an arm that was not homed    *)
(* since the last fault or E-stop (COMMAND_STATES, _handle_button).        *)
THEOREM HomedBeforeJobHolds == Spec => []HomedBeforeJob
<1>1. IInv /\ TypeOK => HomedBeforeJob
  BY DEF IInv
<1>2. QED
  BY <1>1, TypeCorrect, InvariantHolds, PTL

(* As long as no reset, early start or injected fault has deserted a job,  *)
(* the thread that moves the arm is the job the state machine knows, and   *)
(* is told to stop when the machine shows neither RUNNING nor PAUSED,      *)
(* also while the console writes state and events without the lock; it     *)
(* runs the stored program as long as the console has not overruled the    *)
(* machine (_start_interpreter, _tick_interpreter, console_loop).          *)
THEOREM JobIsKnownHolds == Spec => []JobIsKnown
<1>1. IInv /\ TypeOK => JobIsKnown
  BY DEF IInv, OneJob, JobIsKnown, Alive
<1>2. QED
  BY <1>1, TypeCorrect, InvariantHolds, PTL

(* No late result, jam or command replaces an E-stop or its reason, and a  *)
(* fault is only left for an E-stop or through a reset (_tick_interpreter, *)
(* _handle_internal).                                                      *)
LEMMA ReasonStep ==
    TypeOK /\ Shown /\ [Next]_vars =>
        [~overruled' =>
            /\ state = "ESTOPPED" => /\ state' \in {"ESTOPPED", "IDLE"}
                                     /\ state' = state => fault' = fault
            /\ state = "FAULTED" =>
                  state' \in {"FAULTED", "ESTOPPED", "IDLE"}]_vars
<1> USE SimulatorAssumption
    DEF SimulatorAssumption, States, Faults, Phases, Ended, Jobs, NoJob
<1> DEFINE Goal == ~overruled' =>
              /\ state = "ESTOPPED" => /\ state' \in {"ESTOPPED", "IDLE"}
                                       /\ state' = state => fault' = fault
              /\ state = "FAULTED" =>
                    state' \in {"FAULTED", "ESTOPPED", "IDLE"}
<1> SUFFICES ASSUME TypeOK, Shown, Next
             PROVE  Goal
  OBVIOUS
<1>1. CASE CmdHome
  BY <1>1
  DEF TypeOK, FlagsOK, DataOK, Shown, EstopIsReason, ConsoleOverrules,
      CmdHome, Command, COMMAND_STATES, COMMAND_STATES_Table, AtRest,
      Positioned, Measuring
<1>2. CASE CmdLoadProgram
  BY <1>2
  DEF TypeOK, FlagsOK, DataOK, Shown, EstopIsReason, ConsoleOverrules,
      CmdLoadProgram, Command, COMMAND_STATES, COMMAND_STATES_Table, AtRest,
      Positioned, Measuring
<1>3. CASE CmdRunProgram
  BY <1>3
  DEF TypeOK, FlagsOK, DataOK, Shown, EstopIsReason, ConsoleOverrules,
      CmdRunProgram, Command, COMMAND_STATES, COMMAND_STATES_Table, AtRest,
      Positioned, Measuring, Start
<1>4. CASE CmdPause
  BY <1>4
  DEF TypeOK, FlagsOK, DataOK, Shown, EstopIsReason, ConsoleOverrules,
      CmdPause, Command, COMMAND_STATES, COMMAND_STATES_Table, AtRest,
      Positioned, Measuring
<1>5. CASE CmdResume
  BY <1>5
  DEF TypeOK, FlagsOK, DataOK, Shown, EstopIsReason, ConsoleOverrules,
      CmdResume, Command, COMMAND_STATES, COMMAND_STATES_Table, AtRest,
      Positioned, Measuring
<1>6. CASE CmdEstop
  BY <1>6
  DEF TypeOK, FlagsOK, DataOK, Shown, EstopIsReason, ConsoleOverrules,
      CmdEstop, Command, COMMAND_STATES, COMMAND_STATES_Table, AtRest,
      Positioned, Measuring, Stop, Enter
<1>7. CASE CmdResetFault
  BY <1>7
  DEF TypeOK, FlagsOK, DataOK, Shown, EstopIsReason, ConsoleOverrules,
      CmdResetFault, Command, COMMAND_STATES, COMMAND_STATES_Table, AtRest,
      Positioned, Measuring, Reset, Enter, ClearStop
<1>8. CASE CmdResetEstop
  BY <1>8
  DEF TypeOK, FlagsOK, DataOK, Shown, EstopIsReason, ConsoleOverrules,
      CmdResetEstop, Command, COMMAND_STATES, COMMAND_STATES_Table, AtRest,
      Positioned, Measuring, Reset, Enter, ClearStop
<1>9. CASE EstopPressed
  BY <1>9
  DEF TypeOK, FlagsOK, DataOK, Shown, EstopIsReason, ConsoleOverrules,
      EstopPressed, Stop, Enter
<1>10. CASE EstopReleased
  BY <1>10
  DEF TypeOK, FlagsOK, DataOK, Shown, EstopIsReason, ConsoleOverrules,
      EstopReleased, Reset, Enter, ClearStop
<1>11. CASE Jam
  BY <1>11
  DEF TypeOK, FlagsOK, DataOK, Shown, EstopIsReason, ConsoleOverrules, Jam,
      Stop, Enter
<1>12. CASE InjectFault
  BY <1>12
  DEF TypeOK, FlagsOK, DataOK, Shown, EstopIsReason, ConsoleOverrules,
      InjectFault, Enter
<1>13. CASE StartButton
  BY <1>13
  DEF TypeOK, FlagsOK, DataOK, Shown, EstopIsReason, ConsoleOverrules,
      StartButton, Start
<1>14. CASE PauseButton
  BY <1>14
  DEF TypeOK, FlagsOK, DataOK, Shown, EstopIsReason, ConsoleOverrules,
      PauseButton, Reset, Enter, ClearStop
<1>15. CASE TickHoming
  BY <1>15
  DEF TypeOK, FlagsOK, DataOK, Shown, EstopIsReason, ConsoleOverrules,
      TickHoming
<1>16. CASE TickResult
  BY <1>16
  DEF TypeOK, FlagsOK, DataOK, Shown, EstopIsReason, ConsoleOverrules,
      TickResult, Outcome, Enter
<1>17. CASE ConsoleLoad
  BY <1>17
  DEF TypeOK, FlagsOK, DataOK, Shown, EstopIsReason, ConsoleOverrules,
      ConsoleLoad
<1>18. CASE ConsoleRun
  BY <1>18
  DEF TypeOK, FlagsOK, DataOK, Shown, EstopIsReason, ConsoleOverrules,
      ConsoleRun, Start
<1>19. CASE ConsoleState
  BY <1>19
  DEF TypeOK, FlagsOK, DataOK, Shown, EstopIsReason, ConsoleOverrules,
      ConsoleState
<1>20. ASSUME NEW c \in {"run", "pause", "resume"}, ConsoleBegin(c)
      PROVE  Goal
  BY <1>20
  DEF TypeOK, FlagsOK, DataOK, Shown, EstopIsReason, ConsoleOverrules,
      ConsoleBegin
<1>21. ASSUME NEW j \in Jobs, Begin(j)
      PROVE  Goal
  BY <1>21
  DEF TypeOK, FlagsOK, DataOK, Shown, EstopIsReason, ConsoleOverrules,
      Begin, Move
<1>22. ASSUME NEW j \in Jobs, SeeStop(j)
      PROVE  Goal
  BY <1>22
  DEF TypeOK, FlagsOK, DataOK, Shown, EstopIsReason, ConsoleOverrules,
      SeeStop, Move
<1>23. ASSUME NEW j \in Jobs, Abort(j)
      PROVE  Goal
  BY <1>23
  DEF TypeOK, FlagsOK, DataOK, Shown, EstopIsReason, ConsoleOverrules,
      Abort, Move
<1>24. ASSUME NEW j \in Jobs, Finish(j)
      PROVE  Goal
  BY <1>24
  DEF TypeOK, FlagsOK, DataOK, Shown, EstopIsReason, ConsoleOverrules,
      Finish, Move
<1>25. ASSUME NEW j \in Jobs, Fail(j)
      PROVE  Goal
  BY <1>25
  DEF TypeOK, FlagsOK, DataOK, Shown, EstopIsReason, ConsoleOverrules, Fail,
      Move
<1>26. ASSUME NEW j \in Jobs, End(j)
      PROVE  Goal
  BY <1>26
  DEF TypeOK, FlagsOK, DataOK, Shown, EstopIsReason, ConsoleOverrules, End,
      Move
<1>27. ASSUME NEW j \in Jobs, Report(j)
      PROVE  Goal
  BY <1>27
  DEF TypeOK, FlagsOK, DataOK, Shown, EstopIsReason, ConsoleOverrules,
      Report
<1>28. QED
  BY <1>1, <1>2, <1>3, <1>4, <1>5, <1>6, <1>7, <1>8, <1>9, <1>10, <1>11,
     <1>12, <1>13, <1>14, <1>15, <1>16, <1>17, <1>18, <1>19, <1>20, <1>21,
     <1>22, <1>23, <1>24, <1>25, <1>26, <1>27
  DEF Next, Commands, Hardware, Tick, Console, Thread

THEOREM EstopKeepsReasonHolds == Spec => EstopKeepsReason
<1>1. IInv => Shown
  BY DEF IInv, Shown
<1>2. QED
  BY <1>1, ReasonStep, TypeCorrect, InvariantHolds, PTL
  DEF Spec, EstopKeepsReason

-----------------------------------------------------------------------------
(* The threads and Job.tla.  What a thread of the simulator may do is what *)
(* a job may do, no less: a step of a job that leaves everything else      *)
(* alone is a step of the simulator.  Interpreter.tla implements Job.tla,  *)
(* so that what is proved here holds with the interpreter in each thread.  *)
THEOREM JobMayExecute ==
    ASSUME TypeOK, NEW j \in Jobs, AsJob(j)!Execute,
           thread' = [thread EXCEPT ![j] = thread'[j]],
           UNCHANGED <<modeVars, estopHw, program, interp, started, runs,
                       results, console, historyVars>>
    PROVE  Next
<1>1. Thread(j)
  BY DEF AsJob!Execute, AsJob!Begin, AsJob!SeeStop, AsJob!Abort, AsJob!Finish,
     AsJob!Fail, AsJob!End, AsJob!Go, Thread, Begin, SeeStop, Abort, Finish,
     Fail, End, Move
<1>2. QED
  BY <1>1 DEF Next

(* A job that was not started has no thread.                               *)
NotYet == \A j \in Jobs : j > started => thread[j] = "none"

LEMMA StartIsFresh ==
    ASSUME TypeOK, NotYet, Start
    PROVE  /\ started + 1 \in Jobs /\ thread[started + 1] = "none"
           /\ thread' = [thread EXCEPT ![started + 1] = "next"]
           /\ ~pause' /\ ~stop' /\ started' = started + 1
BY SimulatorAssumption DEF SimulatorAssumption, TypeOK, DataOK, NotYet, Start, Jobs

(* Every other step leaves the threads alone, or is one of a thread.       *)
LEMMA ThreadSteps ==
    ASSUME [Next]_vars
    PROVE  \/ Start
           \/ UNCHANGED <<started, thread>>
           \/ \E j \in Jobs : Thread(j)
<1>1. CASE Commands
  BY <1>1 DEF Commands, CmdHome, CmdLoadProgram, CmdRunProgram, CmdPause,
     CmdResume, CmdEstop, CmdResetFault, CmdResetEstop
<1>2. CASE Hardware
  BY <1>2 DEF Hardware, EstopPressed, EstopReleased, Jam, InjectFault,
     StartButton, PauseButton
<1>3. CASE Tick
  BY <1>3 DEF Tick, TickHoming, TickResult
<1>4. CASE Console
  BY <1>4 DEF Console, ConsoleLoad, ConsoleRun, ConsoleState, ConsoleBegin
<1>5. CASE UNCHANGED vars
  BY <1>5
<1>6. QED
  BY <1>1, <1>2, <1>3, <1>4, <1>5 DEF Next

LEMMA NotYetStep == TypeOK /\ NotYet /\ [Next]_vars => NotYet'
<1> SUFFICES ASSUME TypeOK, NotYet, [Next]_vars
             PROVE  NotYet'
  OBVIOUS
<1>1. CASE Start
  BY <1>1, StartIsFresh DEF TypeOK, DataOK, NotYet
<1>2. CASE UNCHANGED <<started, thread>>
  BY <1>2 DEF NotYet
<1>3. ASSUME NEW j \in Jobs, Thread(j)
      PROVE  NotYet'
  <2>1. thread[j] # "none" /\ UNCHANGED started
    BY <1>3 DEF Thread, Begin, SeeStop, Abort, Finish, Fail, End, Move, Report,
       Ended
  <2>2. \A k \in Jobs : k # j => thread'[k] = thread[k]
    BY <1>3 DEF TypeOK, DataOK, Thread, Begin, SeeStop, Abort, Finish, Fail,
       End, Move, Report
  <2>3. j <= started
    BY <2>1 DEF TypeOK, DataOK, NotYet, Jobs
  <2>4. QED
    BY <2>1, <2>2, <2>3 DEF NotYet, Jobs
<1>4. QED
  BY <1>1, <1>2, <1>3, ThreadSteps

(* ... and no more: each thread of the simulator, from its start to the    *)
(* report of its outcome, is a job of Job.tla, whoever else writes the     *)
(* events (_start_interpreter and the thread that it starts).              *)
THEOREM ThreadIsJob ==
    ASSUME NEW j \in Jobs
    PROVE  Spec => AsJob(j)!JobSpec
<1>1. Init => AsJob(j)!JobInit /\ NotYet
  BY DEF Init, AsJob!JobInit, NotYet
<1>2. TypeOK /\ NotYet /\ [Next]_vars => [AsJob(j)!JobNext]_(AsJob(j)!jobVars)
  <2> SUFFICES ASSUME TypeOK, NotYet, [Next]_vars
               PROVE  AsJob(j)!JobNext
    OBVIOUS
  <2> USE DEF AsJob!JobNext, AsJob!Environment
  <2>1. CASE Start
    BY <2>1, StartIsFresh DEF TypeOK, DataOK, AsJob!Start
  <2>2. CASE UNCHANGED <<started, thread>>
    BY <2>2
  <2>3. ASSUME NEW k \in Jobs, Thread(k)
        PROVE  AsJob(j)!JobNext
    <3>1. CASE k = j
      BY <2>3, <3>1 DEF TypeOK, DataOK, Thread, Begin, SeeStop, Abort, Finish,
         Fail, End, Move, Report, Ended, AsJob!Execute, AsJob!Begin,
         AsJob!SeeStop, AsJob!Abort, AsJob!Finish, AsJob!Fail, AsJob!End,
         AsJob!Go, AsJob!Report, AsJob!Ended
    <3>2. CASE k # j
      BY <2>3, <3>2 DEF TypeOK, DataOK, Thread, Begin, SeeStop, Abort, Finish,
         Fail, End, Move, Report
    <3>3. QED
      BY <3>1, <3>2
  <2>4. QED
    BY <2>1, <2>2, <2>3, ThreadSteps
<1>3. QED
  BY <1>1, <1>2, TypeCorrect, NotYetStep, PTL DEF Spec, AsJob!JobSpec
=============================================================================
