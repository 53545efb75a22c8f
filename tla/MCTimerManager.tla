--------------------------- MODULE MCTimerManager ---------------------------
(* Instances of TimerManager for TLC.                                      *)
EXTENDS TimerManager

CONSTANTS c1, c2   \* two client threads
=============================================================================
