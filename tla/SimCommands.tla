---------------------------- MODULE SimCommands ----------------------------
(***************************************************************************)
(* The command gate of the simulator (simulator.py: COMMAND_STATES,        *)
(* ALWAYS_ACCEPT and the checks of _handle_command), for the commands that *)
(* change something.                                                       *)
(***************************************************************************)

States == { "IDLE", "HOMING", "READY", "RUNNING", "PAUSED", "FAULTED",
            "ESTOPPED", "CALIBRATING" }

AtRest == {"IDLE", "READY"}

(* Commands that only an arm that knows its position may carry out.        *)
Positioned == { "run_program", "jog", "teach_position", "move_to" }

Measuring == { "cal_jog", "set_cal_distance", "cancel_calibration" }

(* The mutant lets a program run without homing.                           *)
COMMAND_STATES_Table(c) ==
    CASE c = "estop"        -> States
      [] c \in Positioned   -> {"READY"}
      [] c = "pause"        -> {"RUNNING"}
      [] c = "resume"       -> {"PAUSED"}
      [] c = "reset_fault"  -> {"FAULTED"}
      [] c = "reset_estop"  -> {"ESTOPPED"}
      [] c \in Measuring    -> {"CALIBRATING"}
      [] OTHER              -> AtRest

COMMAND_STATES_MutHome(c) ==
    IF c = "run_program" THEN AtRest ELSE COMMAND_STATES_Table(c)

COMMAND_STATES(c) == COMMAND_STATES_Table(c)
=============================================================================
