---------------------------- MODULE MCFirmware ----------------------------
(***************************************************************************)
(* Small instances of Firmware for TLC: sets of commands and the step      *)
(* counts of the jogs.                                                     *)
(***************************************************************************)
EXTENDS Firmware

AllCommands == CommandNames

(* Jobs, uploads, E-stops and recoveries; calibration is left out.         *)
JobCommands ==
    { "estop", "home", "run_program", "pause", "resume", "reset_fault",
      "reset_estop", "begin_transfer", "end_transfer", "set_max_travel" }

(* Jogs both ways, one of them long enough to be cut in the middle.        *)
Jogs == {-1, 2}
NoJogs == {}
=============================================================================
