------------------------- MODULE MCCommandDelivery -------------------------
(* Small instances of CommandDelivery for TLC.                             *)
EXTENDS CommandDelivery

NoQueries == {}
OneEach == <<1, 1>>

(* Three commands meet a ring of two places; the next session brings back  *)
(* an id.                                                                  *)
ThreeThenOne == <<3, 1>>
=============================================================================
