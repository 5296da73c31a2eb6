------------------------------- MODULE MCTimer -------------------------------
(* Small instances of Timer for TLC.                                       *)
EXTENDS Timer

CONSTANTS idle, main, t1
Three == {idle, main, t1}
Sleeping == {main, t1}
==============================================================================
