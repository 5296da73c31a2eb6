------------------------------- MODULE MCSched -------------------------------
(* Small instances of Sched for TLC.                                       *)
EXTENDS Sched

CONSTANTS idle, main, t1
Two == {idle, main, t1}
==============================================================================
