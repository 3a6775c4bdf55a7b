---------------------------- MODULE MCSimulator ----------------------------
(* The simulator with two jobs, so that one may still be alive when the    *)
(* other starts, and two programs to tell apart.                           *)
EXTENDS Simulator

CONSTANTS p, q

MCPrograms == {p, q}
=============================================================================
