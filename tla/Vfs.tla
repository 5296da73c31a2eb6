---------------------------------- MODULE Vfs ---------------------------------
(***************************************************************************)
(* Drivers, devices and the boot of the file system: driver.c, device.c,   *)
(* harddisk.c, partition.c and vfs_test.c over the paths of Mounts, and    *)
(* the shell's user, who mounts, opens, reads and closes.                  *)
(*                                                                         *)
(* A device is its name, its driver and, for a partition, its disk and its *)
(* entry in the partition table.                                           *)
(***************************************************************************)
EXTENDS Mounts

CONSTANTS
  Names,        \* the names of drivers, in the order of strcmp
  Modules,      \* the drivers that init() starts, in that order, all at the root
  Drives,       \* the IDE drives that may answer the probe
  Entry(_),     \* the entries in use in the partition table of each drive
  Devices,      \* bound: paths the user mounts,
  Mountpoints,  \* where to,
  Opens,        \* the paths the user opens,
  Lengths,      \* the bytes in a read,
  MaxMounts     \* bound: file systems the user mounts

ASSUME VfsAssumption == MAX_FD > 3 /\ \A d \in Drives : Entry(d) \subseteq 0 .. 3

VARIABLES
  children,       \* for each driver the tree of those below, by name
  children_list,  \* and their list
  devices,        \* the list of its devices
  phase           \* how far the boot is

driverVars == <<children, children_list, devices>>
vars == <<fileVars, mountVars, driverVars, phase>>

ROOT == ""
Drivers == ToSet(Names)

strcmp(a, b) == IdOrder(CHOOSE i \in DOMAIN Names : Names[i] = a,
                        CHOOSE i \in DOMAIN Names : Names[i] = b)
NameTree == INSTANCE Avl WITH Compare <- strcmp, Match <- strcmp

Device(name, driver) == [name |-> name, driver |-> driver, disk |-> NoDevice]
Partition(disk, i) ==
  [name |-> <<"part0", "part1", "part2", "part3">>[i + 1], driver |-> "Harddisk", disk |-> disk]

-----------------------------------------------------------------------------
(* The driver tree.                                                        *)

(* driver_find_relative, as a set of at most one driver: the slash behind  *)
(* a name is not skipped, so that what is below it is looked up as "".     *)
RECURSIVE driver_find_relative(_, _)
driver_find_relative(path, driver) ==
  IF path = <<>> THEN {driver}
  ELSE LET rest == IF Len(path) = 1 THEN <<>> ELSE <<"">> \o Tail(path) IN
       UNION {driver_find_relative(rest, d) : d \in NameTree!Find(Head(path), children[driver])}

(* driver_register, driver_register_driver, device_attach_driver.          *)
Registered(driver, path, names) ==
  LET parents == driver_find_relative(path, ROOT)
      Below(f, p, x) == IF p \in parents THEN x ELSE f[p]
  IN
  /\ children' = [p \in Drivers |-> Below(children, p, NameTree!Add(driver, children[p]))]
  /\ children_list' = [p \in Drivers |-> Below(children_list, p, Append(children_list[p], driver))]
  /\ devices' = [devices EXCEPT ![driver] =
                   @ \o [i \in DOMAIN names |-> Device(names[i], driver)]]

(* root_basedir: the names from the root down.                             *)
RECURSIVE devfs_basedir(_)
devfs_basedir(driver) ==
  IF driver = ROOT THEN <<>>
  ELSE Append(devfs_basedir(CHOOSE p \in Drivers : driver \in ToSet(children_list[p])), driver)

(* file_path_dropfirst                                                     *)
DropFirst(path) == IF Len(path) <= 1 THEN <<"">> ELSE Tail(path)

(* device_default_devfs_filename, partition_devfs_filename                 *)
devfs_filename(dev) ==
  IF dev.disk = NoDevice THEN <<dev.name>>
  ELSE DropFirst(devfs_basedir(dev.disk.driver)) \o <<dev.disk.name, dev.name>>

DevicePath(dev) ==
  LET base == devfs_basedir(dev.driver) IN
  (IF base = <<>> THEN <<"">> ELSE base) \o devfs_filename(dev)

(* device_default_register_devfs, devfs_register_device: on the state at   *)
(* of the registration, the nodes and whether the kernel panics.           *)
DeviceRegistered(at, dev) ==
  CASE at.taken -> at
    [] Resolve(at.devfs, mount_tree, <<"Devices">> \o DevicePath(dev), root) # NoFile ->
         [at EXCEPT !.taken = TRUE]
    [] OTHER -> [at EXCEPT !.devfs = DeviceAdded(@, DevicePath(dev), dev)]

(* partition_lookup: the partitions of a disk are attached to the driver   *)
(* Harddisk and registered; those of partitions are not looked for.        *)
PartitionsRegistered(at, dev) ==
  IF dev.driver = "Harddisk" THEN at
  ELSE LET Found(s, i) ==
             LET p == Partition(dev, i) IN
             DeviceRegistered([s EXCEPT !.devices["Harddisk"] = Append(@, p)], p)
       IN  FoldLeft(Found, at, SetToSortSeq(Entry(dev.name), <))

(* root_register_devfs: the devices of the driver, then the drivers below. *)
(* harddisk_register_devfs, which the drivers below Harddisk inherit: the  *)
(* same, then the partitions of the driver's devices.                      *)
Harddisks == {"Harddisk"} \cup ToSet(children_list["Harddisk"])
RECURSIVE DriverRegistered(_, _)
DriverRegistered(at, driver) ==
  LET own == FoldLeft(DeviceRegistered, at, at.devices[driver])
      all == FoldLeft(DriverRegistered, own, children_list[driver])
  IN  IF driver \in Harddisks
      THEN FoldLeft(PartitionsRegistered, all, all.devices[driver])
      ELSE all

-----------------------------------------------------------------------------
(* The boot, in the order of init.c and vfs_test.c.                        *)
Boot(from, to) == Up /\ phase = from /\ phase' = to

InitModule ==
  LET n == Len(children_list[ROOT]) + 1 IN
  /\ Boot("init", "init")
  /\ n <= Len(Modules)
  /\ Registered(Modules[n], <<>>, IF Modules[n] = "Harddisk" THEN <<>> ELSE <<"0">>)
  /\ UNCHANGED <<fileVars, mountVars>>

(* ide_init: the drives that answer are attached.                          *)
ide_init(answering) ==
  /\ Boot("init", "devfs")
  /\ Len(children_list[ROOT]) = Len(Modules)
  /\ Registered("IDE", <<"Harddisk">>, SetToSortSeq(answering, LAMBDA a, b : strcmp(a, b) < 0))
  /\ UNCHANGED <<fileVars, mountVars>>

DevfsMount ==
  /\ Boot("devfs", "register")
  /\ \E a \in Fresh : devfs_mount(a)
  /\ UNCHANGED driverVars

driver_register_devfs ==
  LET done == DriverRegistered([devfs |-> devfs, devices |-> devices, taken |-> FALSE], ROOT)
  IN
  /\ Boot("register", "tarfs")
  /\ devfs' = done.devfs
  /\ devices' = done.devices
  /\ IF done.taken THEN Panic("device already registered") ELSE UNCHANGED fileVars
  /\ UNCHANGED <<mount_tree, mounts, children, children_list>>

TarfsMount ==
  /\ Boot("tarfs", "shell")
  /\ \E a \in Fresh : tarfs_mount(a)
  /\ UNCHANGED driverVars

(* shell_run: the console is opened and becomes the standard descriptors,  *)
(* which no command closes; file_api.h gives errors the fourth.            *)
ConsolePath == <<"Devices", "VirtualConsole", "0">>
Standard == {0, 1, 3}

shell_run ==
  LET console == PathFile(ConsolePath)
      opened == {file_find_next_fd(fd)} \cup Standard
  IN
  /\ Boot("shell", "user")
  /\ IF console = NoFile THEN Panic("cannot open the console")
     ELSE /\ \E f \in Files \ Live :
               /\ file' = [file EXCEPT ![f] = [Opened(console) EXCEPT !.reference_count = Cardinality(opened)]]
               /\ fd' = [d \in Descriptors |-> IF d \in opened THEN f ELSE fd[d]]
          /\ owned' = owned \cup opened
          /\ UNCHANGED panic
  /\ UNCHANGED <<mountVars, driverVars>>

Shell == Up /\ phase = "user" /\ UNCHANGED <<driverVars, phase>>

UserMount ==
  /\ Shell
  /\ Len(mounts) < 3 + MaxMounts
  /\ \E d \in Devices, m \in Mountpoints, a \in Fresh, good \in BOOLEAN :
       filesystem_mount(d, m, a, good)

UserOpen == Shell /\ \E p \in Opens : open(p)

UserDescriptor ==
  Shell /\ Descriptor(Lengths) /\ (\A d \in Standard : fd'[d] = fd[d] /\ d \in owned') /\ UNCHANGED mountVars

(* file_read asserts that the file system can read, and FAT cannot;        *)
(* file_write asserts the same of reading, and calls a null pointer in the *)
(* file systems that can read and not write.                               *)
UserUnsupported ==
  /\ Shell
  /\ \E d \in owned :
       LET type == file[fd[d]].fnode.fs.type IN
       \/ type = "fat" /\ Panic("assert")
       \/ type = "tarfs" /\ Panic("null")
  /\ UNCHANGED mountVars

-----------------------------------------------------------------------------
Init ==
  \E a \in Addresses :
    /\ devfs = DevfsStart
    /\ mount_tree = MountTree!Leaf(RootMount(a))
    /\ mounts = <<RootMount(a)>>
    /\ FileInit(RootMount(a).root)
    /\ children = [d \in Drivers |-> NameTree!Null]
    /\ children_list = [d \in Drivers |-> <<>>]
    /\ devices = [d \in Drivers |-> <<>>]
    /\ phase = "init"

Next ==
  \/ InitModule
  \/ \E answering \in SUBSET Drives : ide_init(answering)
  \/ DevfsMount \/ driver_register_devfs \/ TarfsMount \/ shell_run
  \/ UserMount \/ UserOpen \/ UserDescriptor \/ UserUnsupported

Spec == Init /\ [][Next]_vars

-----------------------------------------------------------------------------
AllDevices == UNION {ToSet(devices[d]) : d \in Drivers}

(* After the boot every device and every partition has exactly one node,   *)
(* and its path leads to it through the mount of the device file system,   *)
(* whatever has been mounted elsewhere since in ascending order.           *)
Covered == \E i \in DOMAIN mounts : mounts[i].on.fs.type = "devfs"
DevicesReachable ==
  phase \in {"tarfs", "shell", "user"} /\ Up =>
    /\ Ascending /\ ~Covered => \A dev \in AllDevices :
         LET n == PathFile(<<"Devices">> \o DevicePath(dev)) IN
         n # NoFile /\ n.fs.type = "devfs" /\ \E node \in NodeOf(devfs, n.id) : node.device = dev
    /\ \A i, j \in DOMAIN devfs.node :
         devfs.node[i].device = devfs.node[j].device /\ devfs.node[i].device # NoDevice => i = j
    /\ {p.disk : p \in {d \in AllDevices : d.disk # NoDevice}} \subseteq ToSet(devices["IDE"])
===============================================================================
