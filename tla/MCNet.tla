--------------------------------- MODULE MCNet --------------------------------
(* A ring of two and two sessions, for TLC.                                *)
EXTENDS Net
MCSessions == <<"ip1", "ip2">>
MCClients == {"ip1", "ip2", "shell"}
===============================================================================
