------------------------------ MODULE MCPanel ------------------------------
EXTENDS Panel

AllQueried == <<"steps", "baseline", "position">>
=============================================================================
