------------------------------ MODULE MCTimers ------------------------------
(* A counter of twelve values, which wraps within every few timeouts.      *)
EXTENDS Timers
=============================================================================
