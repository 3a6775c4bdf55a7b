--------------------------------- MODULE Job ---------------------------------
(***************************************************************************)
(* What the state machine of the simulator relies on of the thread that    *)
(* executes a job: it looks at the pause and stop events ahead of every    *)
(* instruction, at the stop event inside one that blocks, and has one      *)
(* outcome.  Interpreter.tla is the detailed specification and is shown to *)
(* implement this one; each thread of Simulator.tla takes these steps.     *)
(***************************************************************************)
VARIABLES at,             \* where the thread is
          pause, stop     \* the two events, which others write

jobVars == <<at, pause, stop>>

(* Ended with an outcome that has not been reported yet.                   *)
Ended == {"halt", "estop_triggered", "program_error"}

JobInit == at \in {"none", "next"}

Go(from, to) == at = from /\ at' = to /\ UNCHANGED <<pause, stop>>

(* It gets events that are clear.                                          *)
Start == at = "none" /\ at' = "next" /\ ~pause' /\ ~stop'

(* Ahead of an instruction it waits while it is paused, and begins nothing *)
(* once it was told to stop.                                               *)
Begin   == ~pause /\ ~stop /\ Go("next", "busy")
SeeStop == stop /\ Go("next", "estop_triggered")

(* Inside an instruction.                                                  *)
Abort  == stop /\ Go("busy", "estop_triggered")
Finish == Go("busy", "next")
Fail   == Go("busy", "program_error")

(* Nothing is left to execute: no more looks at the events.                *)
End == Go("next", "halt")

Report == at \in Ended /\ at' = "gone" /\ UNCHANGED <<pause, stop>>

Execute == Begin \/ SeeStop \/ Abort \/ Finish \/ Fail \/ End

(* Whoever sets or clears an event.                                        *)
Environment == UNCHANGED at

JobNext == Start \/ Execute \/ Report \/ Environment

JobSpec == JobInit /\ [][JobNext]_jobVars

-----------------------------------------------------------------------------
(* As long as it is told to stop, a job begins no instruction, and it only *)
(* ends as stopped when it was told to.  What it ended with is final.      *)
StopIsObeyed ==
    [][/\ at = "next" /\ at' = "busy" => ~stop
       /\ at # at' /\ at' = "estop_triggered" => stop
       /\ at \in Ended => at' \in {at, "gone"}]_jobVars
=============================================================================
