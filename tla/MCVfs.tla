--------------------------------- MODULE MCVfs --------------------------------
(* A machine with a console, a keyboard and up to two drives, for TLC.     *)
EXTENDS Vfs

MCNames == <<"", "0", "1", "Harddisk", "IDE", "VirtualConsole">>
MCModules == <<"VirtualConsole", "Harddisk">>
MCAddresses == 1 .. 5
MCArchive == <<[name |-> "doc/readme", nested |-> TRUE, size |-> 3], NoHeader, NoHeader,
               [name |-> "motd", nested |-> FALSE, size |-> 0],
               [name |-> "systartup.com", nested |-> FALSE, size |-> 1], NoHeader, NoHeader>>
MCFatRoot == <<[name |-> "DIR", id |-> 1, dir |-> TRUE], [name |-> "FILE", id |-> 2, dir |-> FALSE]>>
MCEntry(d) == IF d = "0" THEN {0, 2} ELSE {0}
Part0 == <<"Devices", "Harddisk", "IDE", "0", "part0">>
MCDevices == {Part0, <<"Devices", "Harddisk">>}
MCMountpoints == {<<"System", "tmp">>, <<"System", "mnt">>, <<"System", "tmp", "DIR">>,
                  <<"Devices", "VirtualConsole">>}
MCOpens == {<<"System", "tmp", "FILE">>, <<"System", "Startup", "systartup.com">>}
FileSymmetry == Permutations(Files)
Types == {"rootfs", "devfs", "tarfs", "fat"}
MCFnodes == [fs : [type : Types, addr : MCAddresses], id : 0 .. 103, dir : BOOLEAN]
===============================================================================
