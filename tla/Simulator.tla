----------------------------- MODULE Simulator -----------------------------
(***************************************************************************)
(* The simulator's state machine and the threads around it (simulator.py). *)
(*                                                                         *)
(*   tick      drains commands, faults and buttons and reads the result of *)
(*             the job, holding _lock; one action per item here            *)
(*   job       a thread per started program, without the lock; it looks at *)
(*             the pause and stop events between instructions and inside   *)
(*             blocking ones, and puts its result into a queue that all    *)
(*             jobs share                                                  *)
(*   console   writes state and events without the lock, in any state      *)
(*                                                                         *)
(* Time is abstract: homing may end at any tick, a thread may be slow.     *)
(* A refused command changes nothing and is no step.  Calibration and the  *)
(* settings are in Panel.tla, the instructions in Interpreter.tla.         *)
(***************************************************************************)
EXTENDS Integers, Sequences, FiniteSets, SimCommands

CONSTANTS
    MaxJobs,      \* bound: programs started
    Programs,     \* programs that pass the validator
    NoProgram

ASSUME SimulatorAssumption ==
    /\ MaxJobs \in Nat \ {0}
    /\ NoProgram \notin Programs

Jobs == 1..MaxJobs
NoJob == 0

(* Where a thread is: between instructions, inside one, ended with a       *)
(* result it has not put into the queue yet, gone.                         *)
Ended == {"halt", "estop_triggered", "program_error"}
Phases == {"none", "next", "busy", "gone"} \cup Ended
Faults == {"none", "estop_triggered", "motion_fault", "injected",
           "program_error"}

VARIABLES
    state, fault, estopHw,    \* MachineState
    program,                  \* stored_program
    pause, stop,              \* _pause_event, _stop_event
    interp,                   \* _interp: the job the state machine knows of
    started,                  \* jobs started so far
    thread,                   \* phase of each job's thread
    runs,                     \* the program each job executes
    results,                  \* _interp_result
    console,                  \* what the console thread is in the middle of
    \* history
    homed,                    \* homed since the last fault or E-stop
    overruled,                \* the console paused, resumed, loaded or
                              \* injected a fault
    deserted                  \* a job lost its stop event or its place while
                              \* its thread was alive

modeVars    == <<state, fault, homed>>
eventVars   == <<pause, stop>>
jobVars     == <<interp, started, thread, runs, results>>
historyVars == <<overruled, deserted>>
vars == <<modeVars, estopHw, program, eventVars, jobVars, console,
          historyVars>>

FlagsOK ==
    /\ estopHw \in BOOLEAN /\ pause \in BOOLEAN /\ stop \in BOOLEAN
    /\ homed \in BOOLEAN /\ overruled \in BOOLEAN /\ deserted \in BOOLEAN

DataOK ==
    /\ state \in States /\ fault \in Faults
    /\ program \in Programs \cup {NoProgram}
    /\ interp \in Jobs \cup {NoJob} /\ started \in 0..MaxJobs
    /\ thread \in [Jobs -> Phases]
    /\ runs \in [Jobs -> Programs \cup {NoProgram}]
    /\ results \in Seq([job : Jobs, outcome : Ended])
    /\ console \in {"prompt", "run", "pause", "resume"}

TypeOK == FlagsOK /\ DataOK

Init ==
    /\ state = "IDLE" /\ fault = "none" /\ estopHw = FALSE
    /\ program = NoProgram /\ pause = FALSE /\ stop = FALSE
    /\ interp = NoJob /\ started = 0
    /\ thread = [j \in Jobs |-> "none"]
    /\ runs = [j \in Jobs |-> NoProgram]
    /\ results = <<>> /\ console = "prompt"
    /\ homed = FALSE /\ overruled = FALSE /\ deserted = FALSE

Working(j) == thread[j] \in {"next", "busy"}
Alive(j) == Working(j) \/ thread[j] \in Ended
SomeoneWorks == \E j \in Jobs : Working(j)
SomeoneLives == \E j \in Jobs : Alive(j)

-----------------------------------------------------------------------------
(* Helpers                                                                 *)

(* set_state with a reason: what stops the machine loses its position.     *)
Enter(s, reason) ==
    /\ state' = s /\ fault' = reason
    /\ homed' = (homed /\ s \notin {"FAULTED", "ESTOPPED"})

(* Clearing the stop event: a thread that has not seen it yet never will.  *)
ClearStop ==
    /\ stop' = FALSE
    /\ deserted' = (deserted \/ (stop /\ SomeoneWorks))

(* The three resets: command, button, release of the E-stop.               *)
Reset == Enter("IDLE", "none") /\ ClearStop

Stop(s, reason) == stop' = TRUE /\ Enter(s, reason)

(* _start_interpreter and its callers.  An older thread that is still      *)
(* alive has its events taken away and its result read as the new job's.   *)
Start ==
    /\ program # NoProgram /\ started < MaxJobs
    /\ started' = started + 1 /\ interp' = started + 1
    /\ thread' = [thread EXCEPT ![started + 1] = "next"]
    /\ runs' = [runs EXCEPT ![started + 1] = program]
    /\ pause' = FALSE /\ stop' = FALSE
    /\ deserted' = (deserted \/ SomeoneLives \/ results # <<>>)
    /\ state' = "RUNNING"

Command(c) == state \in COMMAND_STATES(c)

-----------------------------------------------------------------------------
(* Commands                                                                *)

CmdHome ==
    /\ Command("home")
    /\ state' = "HOMING"
    /\ UNCHANGED <<fault, homed, estopHw, program, eventVars, jobVars, console,
                   historyVars>>

CmdLoadProgram ==
    /\ Command("load_program")
    /\ program' \in Programs
    /\ UNCHANGED <<modeVars, estopHw, eventVars, jobVars, console, historyVars>>

CmdRunProgram ==
    /\ Command("run_program")
    /\ Start
    /\ UNCHANGED <<fault, homed, estopHw, program, results, console, overruled>>

CmdPause ==
    /\ Command("pause")
    /\ pause' = TRUE /\ state' = "PAUSED"
    /\ UNCHANGED <<fault, homed, estopHw, program, stop, jobVars, console,
                   historyVars>>

CmdResume ==
    /\ Command("resume")
    /\ pause' = FALSE /\ state' = "RUNNING"
    /\ UNCHANGED <<fault, homed, estopHw, program, stop, jobVars, console,
                   historyVars>>

CmdEstop ==
    /\ Command("estop")
    /\ Stop("ESTOPPED", "estop_triggered")
    /\ UNCHANGED <<estopHw, program, pause, jobVars, console, historyVars>>

CmdResetFault ==
    /\ Command("reset_fault")
    /\ Reset
    /\ UNCHANGED <<estopHw, program, pause, jobVars, console, overruled>>

(* Mutant: reset_estop does not look at the E-stop line.                   *)
CmdResetEstopMut ==
    /\ Command("reset_estop")
    /\ Reset
    /\ UNCHANGED <<estopHw, program, pause, jobVars, console, overruled>>
CmdResetEstop ==
    /\ Command("reset_estop") /\ ~estopHw
    /\ Reset
    /\ UNCHANGED <<estopHw, program, pause, jobVars, console, overruled>>

-----------------------------------------------------------------------------
(* Hardware events, queued by the console                                  *)

EstopPressed ==
    /\ estopHw' = TRUE
    /\ Stop("ESTOPPED", "estop_triggered")
    /\ UNCHANGED <<program, pause, jobVars, console, historyVars>>

EstopReleased ==
    /\ estopHw' = FALSE
    /\ IF state = "ESTOPPED" THEN Reset
       ELSE UNCHANGED <<modeVars, stop, deserted>>
    /\ UNCHANGED <<program, pause, jobVars, console, overruled>>

(* Mutant: a jam does not stop the job.                                    *)
JamMut ==
    /\ state # "ESTOPPED"
    /\ Enter("FAULTED", "motion_fault")
    /\ UNCHANGED <<estopHw, program, eventVars, jobVars, console, historyVars>>
Jam ==
    /\ state # "ESTOPPED"
    /\ Stop("FAULTED", "motion_fault")
    /\ UNCHANGED <<estopHw, program, pause, jobVars, console, historyVars>>

(* In any state, and without the stop event: a job goes on.                *)
InjectFault ==
    /\ Enter("FAULTED", "injected")
    /\ overruled' = TRUE
    /\ deserted' = (deserted \/ SomeoneWorks)
    /\ UNCHANGED <<estopHw, program, eventVars, jobVars, console>>

StartButton ==
    /\ \/ /\ state = "IDLE" /\ state' = "HOMING"
          /\ UNCHANGED <<eventVars, interp, started, thread, runs, deserted>>
       \/ /\ state = "READY" /\ Start
       \/ /\ state = "PAUSED" /\ pause' = FALSE /\ state' = "RUNNING"
          /\ UNCHANGED <<stop, interp, started, thread, runs, deserted>>
    /\ UNCHANGED <<fault, homed, estopHw, program, results, console, overruled>>

PauseButton ==
    /\ \/ /\ state = "RUNNING" /\ pause' = TRUE /\ state' = "PAUSED"
          /\ UNCHANGED <<fault, homed, stop, deserted>>
       \/ /\ state = "FAULTED" /\ Reset /\ UNCHANGED pause
    /\ UNCHANGED <<estopHw, program, jobVars, console, overruled>>

-----------------------------------------------------------------------------
(* The rest of a tick                                                      *)

TickHoming ==
    /\ state = "HOMING"
    /\ state' = "READY" /\ homed' = TRUE
    /\ UNCHANGED <<fault, estopHw, program, eventVars, jobVars, console,
                   historyVars>>

(* The outcome of a job, whose job it may be: 'halt' only ends a job that  *)
(* is shown as running, a fault only overrides a state that has none.      *)
(* Mutants: a late fault replaces the reason of an E-stop; the end of a    *)
(* job goes back to IDLE.                                                  *)
OutcomeMutReason(r) ==
    IF r.outcome = "halt"
    THEN IF state = "RUNNING" THEN Enter("READY", fault)
                              ELSE UNCHANGED modeVars
    ELSE Enter("FAULTED", r.outcome)
OutcomeMutStuck(r) ==
    IF r.outcome = "halt" THEN UNCHANGED modeVars
    ELSE IF state \notin {"ESTOPPED", "FAULTED"}
         THEN Enter("FAULTED", r.outcome) ELSE UNCHANGED modeVars
Outcome(r) ==
    IF r.outcome = "halt"
    THEN IF state = "RUNNING" THEN Enter("READY", fault)
                              ELSE UNCHANGED modeVars
    ELSE IF state \notin {"ESTOPPED", "FAULTED"}
         THEN Enter("FAULTED", r.outcome) ELSE UNCHANGED modeVars

TickResult ==
    /\ results # <<>>
    /\ Outcome(Head(results))
    /\ results' = Tail(results) /\ interp' = NoJob
    /\ UNCHANGED <<estopHw, program, eventVars, started, thread, runs, console,
                   historyVars>>

-----------------------------------------------------------------------------
(* The threads of the jobs                                                 *)

Move(j, from, to) ==
    /\ thread[j] = from
    /\ thread' = [thread EXCEPT ![j] = to]
    /\ UNCHANGED <<modeVars, estopHw, program, eventVars, interp, started, runs,
                   results, console, historyVars>>

(* _check, ahead of an instruction: waits while paused, unless stopped.    *)
Begin(j) == ~pause /\ ~stop /\ Move(j, "next", "busy")
SeeStop(j) == stop /\ Move(j, "next", "estop_triggered")

(* Inside an instruction that blocks the stop event is seen at every step, *)
(* after the last step no more.  Mutant: motion does not look at it.       *)
AbortMut(j) == FALSE /\ Move(j, "busy", "estop_triggered")
Abort(j) == stop /\ Move(j, "busy", "estop_triggered")
Finish(j) == Move(j, "busy", "next")
Fail(j) == Move(j, "busy", "program_error")

(* No instruction is left, or HALT: no more checks.                        *)
End(j) == Move(j, "next", "halt")

Report(j) ==
    /\ thread[j] \in Ended
    /\ thread' = [thread EXCEPT ![j] = "gone"]
    /\ results' = Append(results, [job |-> j, outcome |-> thread[j]])
    /\ UNCHANGED <<modeVars, estopHw, program, eventVars, interp, started, runs,
                   console, historyVars>>

(* What the state machine relies on of a thread; Interpreter.tla is shown  *)
(* to implement it.                                                        *)
AsJob(j) == INSTANCE Job WITH at <- thread[j]

-----------------------------------------------------------------------------
(* The console                                                             *)

ConsoleLoad ==
    /\ console = "prompt"
    /\ program' \in Programs
    /\ overruled' = TRUE
    /\ UNCHANGED <<modeVars, estopHw, eventVars, jobVars, console, deserted>>

(* run looks at the state first and takes the lock afterwards; pause and   *)
(* resume write the event first and the state afterwards.                  *)
ConsoleBegin(c) ==
    /\ console = "prompt" /\ console' = c
    /\ \/ /\ c = "run" /\ program # NoProgram /\ state = "READY"
          /\ UNCHANGED <<pause, overruled>>
       \/ /\ c # "run"
          /\ pause' = (c = "pause")
          /\ overruled' = TRUE
    /\ UNCHANGED <<modeVars, estopHw, program, stop, jobVars, deserted>>

ConsoleRun ==
    /\ console = "run" /\ console' = "prompt"
    /\ Start
    /\ overruled' = (overruled \/ state # "READY")
    /\ UNCHANGED <<fault, homed, estopHw, program, results>>

ConsoleState ==
    /\ console \in {"pause", "resume"} /\ console' = "prompt"
    /\ state' = IF console = "pause" THEN "PAUSED" ELSE "RUNNING"
    /\ UNCHANGED <<fault, homed, estopHw, program, eventVars, jobVars,
                   historyVars>>

-----------------------------------------------------------------------------
Commands ==
    \/ CmdHome \/ CmdLoadProgram \/ CmdRunProgram \/ CmdPause \/ CmdResume
    \/ CmdEstop \/ CmdResetFault \/ CmdResetEstop
Hardware ==
    \/ EstopPressed \/ EstopReleased \/ Jam \/ InjectFault
    \/ StartButton \/ PauseButton
Tick == TickHoming \/ TickResult
Thread(j) ==
    \/ Begin(j) \/ SeeStop(j) \/ Abort(j) \/ Finish(j) \/ Fail(j) \/ End(j)
    \/ Report(j)
Console ==
    \/ ConsoleLoad \/ ConsoleRun \/ ConsoleState
    \/ \E c \in {"run", "pause", "resume"} : ConsoleBegin(c)

Next == Commands \/ Hardware \/ Tick \/ Console \/ \E j \in Jobs : Thread(j)

Spec == Init /\ [][Next]_vars

(* The main loop ticks at a fixed rate and the operating system schedules  *)
(* every thread; what a person, the hardware or the job does, when an      *)
(* instruction ends or whether a program ends, is owed to nobody.          *)
Fairness ==
    /\ WF_vars(TickHoming) /\ WF_vars(TickResult)
    /\ \A j \in Jobs :
        WF_vars(SeeStop(j)) /\ WF_vars(Abort(j)) /\ WF_vars(Report(j))

FairSpec == Spec /\ Fairness

-----------------------------------------------------------------------------
(* Properties.  What the console overrules, and what is left of a job that *)
(* was deserted, is outside of them; see the hazards.                      *)

(* A held E-stop keeps the machine in ESTOPPED through every command,      *)
(* button and late result, and a reason is shown exactly while something   *)
(* is wrong.                                                               *)
HeldEstopIsShown ==
    ~overruled =>
        /\ estopHw => state = "ESTOPPED"
        /\ fault # "none" <=> state \in {"FAULTED", "ESTOPPED"}

(* "E-stop or a motion_fault (jam) that aborted the run keeps its own      *)
(* reason": whatever the aborted job, or a jam, reports later, ESTOPPED is *)
(* only left through a reset, and FAULTED only for an E-stop or one.       *)
EstopKeepsReason ==
    [][~overruled' =>
        /\ state = "ESTOPPED" => /\ state' \in {"ESTOPPED", "IDLE"}
                                 /\ state' = state => fault' = fault
        /\ state = "FAULTED" => state' \in {"FAULTED", "ESTOPPED", "IDLE"}]_vars

(* No job is shown as startable, running or paused unless the arm was      *)
(* homed after the last fault or E-stop, whoever started it.               *)
HomedBeforeJob ==
    ~overruled /\ state \in {"READY", "RUNNING", "PAUSED"} => homed

(* As long as no job was deserted, which the resets, a start too early and *)
(* an injected fault may do, the thread that moves the arm is the one job  *)
(* the state machine knows, and while the machine shows a fault, or rest,  *)
(* it has been told to stop; it executes the program a client can read     *)
(* back, unless the console has put another in its place.                  *)
JobIsKnown ==
    ~deserted =>
        \A j \in Jobs : Working(j) =>
            /\ j = interp
            /\ state \in {"RUNNING", "PAUSED"} \/ stop
            /\ runs[j] = program \/ overruled

(* What makes them inductive: an E-stop gives itself as the reason; the    *)
(* console has overruled the machine before it writes the state; and a job *)
(* whose result waits to be read was the last one alive.                   *)
EstopIsReason ==
    ~overruled /\ state = "ESTOPPED" => fault = "estop_triggered"
ConsoleOverrules == console \in {"pause", "resume"} => overruled
OneJob ==
    ~deserted =>
        /\ \A j \in Jobs : Alive(j) => j = interp
        /\ \A j \in Jobs : Working(j) =>
              /\ runs[j] = program \/ overruled
              /\ \/ state \in {"RUNNING", "PAUSED"}
                 \/ stop /\ state \in {"FAULTED", "ESTOPPED"}
        /\ results # <<>> => ~SomeoneLives

IInv == /\ HeldEstopIsShown /\ HomedBeforeJob
        /\ EstopIsReason /\ ConsoleOverrules /\ OneJob

(* The stop event is seen wherever the job is, paused, between or inside   *)
(* instructions, and the machine takes note of the end.                    *)
StopEndsJob ==
    (stop /\ interp # NoJob) ~> (interp = NoJob \/ ~stop)

(* A job that has come to its end does not go on being shown as running.   *)
EndIsShown ==
    \A j \in Jobs :
        (thread[j] \in Ended /\ state = "RUNNING") ~> (state # "RUNNING")

(* "PAUSED: executor suspended at a safe point. Resumable."  Violated: the *)
(* last instruction may end after the pause, the result is then dropped,   *)
(* and resume shows RUNNING for ever.                                      *)
PausedIsResumable ==
    state = "PAUSED" /\ ~overruled /\ ~deserted => interp # NoJob
=============================================================================
