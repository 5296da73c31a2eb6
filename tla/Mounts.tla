--------------------------------- MODULE Mounts -------------------------------
(***************************************************************************)
(* Paths and mounts: filesystem.c, file_resolve_path of file.c, and the    *)
(* directories of rootfs.c and tarfs.c, over the descriptors of FileTable  *)
(* and the nodes of Devfs.                                                 *)
(*                                                                         *)
(* A mounted file system is its type and its address, which malloc chooses *)
(* and the mount tree is ordered by.  A path is the sequence of its names. *)
(***************************************************************************)
EXTENDS FileTable, Devfs

CONSTANTS
  Addresses,  \* bound: the addresses malloc gives to mounted file systems
  Archive,    \* the boot archive: blocks, those of headers [name, nested, size]
  NoHeader,   \* a block of data, or of zeroes
  BLOCKSIZE,
  FatRoot,    \* the root directory of a FAT volume: a sequence of entries
  NoFile

ASSUME MountsAssumption ==
  /\ Addresses \subseteq Int
  /\ BLOCKSIZE \in Nat \ {0}
  /\ \A i \in DOMAIN Archive :
       Archive[i] = NoHeader \/ (Archive[i].nested \in BOOLEAN /\ Archive[i].size \in Nat)

VARIABLES
  devfs,       \* nodes and id_tree
  mount_tree,
  mounts       \* the mounted file systems, in the order they were mounted

mountVars == <<devfs, mount_tree, mounts>>

fnode(fs, id, dir) == [fs |-> fs, id |-> id, dir |-> dir]

(* Mutant: the addresses are compared the wrong way round.                 *)
MountCompareSwapped(a, b) == IF a.on.fs.addr > b.on.fs.addr THEN -1 ELSE 1

(* mounted_filesystem_t_avlcompare: two equal file systems compare as      *)
(* greater, and the file numbers never come into it.                       *)
MountCompare(a, b) == IF a.on.fs.addr < b.on.fs.addr THEN -1 ELSE 1

(* mounted_filesystem_t_avlmatch: by file system, then by number.          *)
MountMatch(n, m) ==
  IF n.fs.addr # m.on.fs.addr THEN IdOrder(n.fs.addr, m.on.fs.addr)
  ELSE IdOrder(n.id, m.on.id)

MountTree == INSTANCE Avl WITH Compare <- MountCompare, Match <- MountMatch

Fresh == Addresses \ {mounts[i].root.fs.addr : i \in DOMAIN mounts}

(* A mount: the directory it covers, its root, its device.                 *)
Mounted(on, type, addr, device) ==
  [on |-> on, root |-> fnode([type |-> type, addr |-> addr], 0, TRUE), device |-> device]

Mount(m) ==
  /\ mount_tree' = MountTree!Add(m, mount_tree)
  /\ mounts' = Append(mounts, m)

-----------------------------------------------------------------------------
(* The directories.                                                        *)
Dirs(pairs) == [i \in DOMAIN pairs |-> [name |-> pairs[i][1], id |-> pairs[i][2], dir |-> TRUE]]

rootfs_read_dir(id) ==
  CASE id = 0 -> Dirs(<<<<"Applications", 1>>, <<"Devices", 2>>, <<"Network", 3>>,
                        <<"System", 4>>, <<"Users", 5>>>>)
    [] id = 4 -> Dirs(<<<<"Startup", 101>>, <<"tmp", 102>>, <<"mnt", 103>>>>)
    [] OTHER  -> <<>>

(* tar.c: the header of a file is a block, its data follow in as many as   *)
(* they need, and the archive ends with a block that is no header.         *)
tar_file_blocks(size) == size \div BLOCKSIZE + (IF size % BLOCKSIZE = 0 THEN 0 ELSE 1)
tar_is_valid_file(i) == i \in DOMAIN Archive /\ Archive[i] # NoHeader

(* tarfs_populate: files in subdirectories are skipped, the others are     *)
(* numbered from 1 as they come.                                           *)
RECURSIVE Populated(_)
Populated(i) ==
  IF ~tar_is_valid_file(i) THEN <<>>
  ELSE (IF Archive[i].nested THEN <<>> ELSE <<Archive[i]>>)
         \o Populated(i + tar_file_blocks(Archive[i].size) + 1)
TarFiles == Populated(1)

tarfs_read_dir(id) ==
  IF id # 0 THEN <<>>
  ELSE [i \in DOMAIN TarFiles |-> [name |-> TarFiles[i].name, id |-> i, dir |-> FALSE]]

devfs_read_dir(fs, id) ==
  [i \in DOMAIN fs.node[id].children |-> CHOOSE e \in DirEntry(fs, id, i - 1) : TRUE]

(* The entries read_dir returns one after the other.                       *)
Entries(fs, n) ==
  CASE ~n.dir               -> <<>>
    [] n.fs.type = "rootfs" -> rootfs_read_dir(n.id)
    [] n.fs.type = "devfs"  -> devfs_read_dir(fs, n.id)
    [] n.fs.type = "tarfs"  -> tarfs_read_dir(n.id)
    [] n.fs.type = "fat"    -> IF n.id = 0 THEN FatRoot ELSE <<>>

TarSize(n) == IF n.fs.type = "tarfs" /\ n.id \in DOMAIN TarFiles THEN TarFiles[n.id].size ELSE 0

(* The fnode of a name in a directory, without crossing a mount.           *)
Named(fs, parent, name) ==
  LET es == Entries(fs, parent)
      found == {i \in DOMAIN es : es[i].name = name}
  IN  IF found = {} THEN NoFile
      ELSE fnode(parent.fs, es[Min(found)].id, es[Min(found)].dir)

(* A directory something is mounted on stands for the root of that.        *)
Crossed(tree, n) ==
  LET m == MountTree!Find(n, tree) IN IF m = {} THEN n ELSE (CHOOSE x \in m : TRUE).root

(* file_resolve_relative_path                                              *)
RECURSIVE Resolve(_, _, _, _)
Resolve(fs, tree, path, parent) ==
  IF path = <<>> THEN parent
  ELSE LET n == Named(fs, parent, Head(path)) IN
       CASE n = NoFile -> NoFile
         [] n # NoFile /\ n.dir ->
              Resolve(fs, tree, Tail(path), Crossed(tree, n))
         [] n # NoFile /\ ~n.dir -> IF Tail(path) = <<>> THEN n ELSE NoFile

(* file_resolve_path: from the root of the process.                        *)
root == mounts[1].root
PathFile(path) == Resolve(devfs, mount_tree, path, root)

(* To look a name up takes a descriptor.                                   *)
CanResolve(path) == path = <<>> \/ FreeFds(fd) # {}

-----------------------------------------------------------------------------
(* Operations.                                                             *)

open(path) ==
  /\ UNCHANGED mountVars
  /\ IF CanResolve(path)
     THEN PathFile(path) # NoFile /\ file_open_fnode(PathFile(path))
     ELSE Panic("no free file descriptors")

(* rootfs_mount: its root is mounted on itself.                            *)
RootMount(addr) ==
  LET fs == [type |-> "rootfs", addr |-> addr]
  IN  [on |-> fnode(fs, 0, TRUE), root |-> fnode(fs, 0, TRUE), device |-> NoDevice]

devfs_mount(addr) ==
  /\ Mount(Mounted(PathFile(<<"Devices">>), "devfs", addr, NoDevice))
  /\ UNCHANGED <<devfs, fileVars>>

tarfs_mount(addr) ==
  /\ Mount(Mounted(PathFile(<<"System", "Startup">>), "tarfs", addr, NoDevice))
  /\ UNCHANGED <<devfs, fileVars>>

(* filesystem_mount of a FAT volume; good says whether fat_fs_init accepts *)
(* what is on the device.  devfs_device_from_file looks up the number      *)
(* alone, in whatever file system the device's path leads to, and asserts  *)
(* that the node so found is a device.                                     *)
filesystem_mount(device, mountpoint, addr, good) ==
  LET on == PathFile(mountpoint)
      dev == PathFile(device)
  IN
  /\ CanResolve(mountpoint)
  /\ on # NoFile /\ on.dir /\ dev # NoFile
  /\ UNCHANGED devfs
  /\ \E node \in NodeOf(devfs, dev.id) :
       IF node.device = NoDevice
       THEN Panic("assert") /\ UNCHANGED <<mount_tree, mounts>>
       ELSE good /\ Mount(Mounted(on, "fat", addr, node.device)) /\ UNCHANGED fileVars

-----------------------------------------------------------------------------
(* The mounts on each file system were made in the order of its numbers.   *)
Ascending ==
  \A i, j \in DOMAIN mounts :
    i < j /\ mounts[i].on.fs = mounts[j].on.fs => mounts[i].on.id < mounts[j].on.id

(* Every mount is found from the directory it covers (file_resolve_path,   *)
(* avl_find), wherever malloc has put the file systems, as long as the     *)
(* mounts of each come in ascending order: the comparator the tree is      *)
(* built with and the one it is searched with disagree otherwise.          *)
MountFound ==
  Ascending => \A i \in DOMAIN mounts : Crossed(mount_tree, mounts[i].on) = mounts[i].root

(* The two trees stay balanced and lose nothing: every mount, and every    *)
(* node of the device file system, is in its tree once (avl_grownLeft,     *)
(* avl_grownRight).                                                        *)
TreesIntact ==
  /\ MountTree!Balanced(mount_tree) /\ IdTree!Balanced(devfs.id_tree)
  /\ Len(MountTree!InOrder(mount_tree)) = Len(mounts)
  /\ ToSet(MountTree!InOrder(mount_tree)) = ToSet(mounts)
  /\ IdTree!InOrder(devfs.id_tree) = [i \in 1 .. next_file_id(devfs) |-> i - 1]
===============================================================================
