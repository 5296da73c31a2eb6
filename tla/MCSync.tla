-------------------------------- MODULE MCSync -------------------------------
(* Small instances of Sync for TLC.                                        *)
EXTENDS Sync

CONSTANTS idle, main, t1, t2
Two == {idle, main, t1}
Three == {idle, main, t1, t2}
==============================================================================
