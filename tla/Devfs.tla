--------------------------------- MODULE Devfs --------------------------------
(***************************************************************************)
(* The device file system of devfs.c, as operators on its two structures:  *)
(* the nodes, linked to their children, and the tree in which a node is    *)
(* found by its number.  A path is the sequence of its names; "" stands    *)
(* before a leading slash, after a trailing one and between two.           *)
(***************************************************************************)
EXTENDS Integers, Sequences, SequencesExt

CONSTANT NoDevice

IdOrder(a, b) == IF a < b THEN -1 ELSE IF a = b THEN 0 ELSE 1
IdTree == INSTANCE Avl WITH Compare <- IdOrder, Match <- IdOrder

NewNode(name, device) == [name |-> name, device |-> device, children |-> <<>>]

(* devfs_init: the root, number 0.                                         *)
DevfsStart == [node |-> 0 :> NewNode("", NoDevice), id_tree |-> IdTree!Leaf(0)]

next_file_id(fs) == Cardinality(DOMAIN fs.node)

(* The node with this number, through the tree, as a set of at most one.   *)
NodeOf(fs, id) == {fs.node[i] : i \in IdTree!Find(id, fs.id_tree)}

-----------------------------------------------------------------------------
(* devfs_init_devfs_node, devfs_devfs_node_add                             *)
NodeAdded(fs, name, device, parent) ==
  LET id == next_file_id(fs)
      linked == [fs.node EXCEPT ![parent].children = Append(@, id)]
  IN  [node |-> id :> NewNode(name, device) @@ linked, id_tree |-> IdTree!Add(id, fs.id_tree)]

(* Mutant: a directory that exists is not looked for.                      *)
LookupDirNever(fs, name, parent) == IF name = "" THEN {0} ELSE {}

(* devfs_lookup_dir: "" is the root; otherwise the first child so named.   *)
(* The empty set when there is none.                                       *)
devfs_lookup_dir(fs, name, parent) ==
  LET kids == fs.node[parent].children
      found == {i \in DOMAIN kids : fs.node[kids[i]].name = name}
  IN  IF name = "" THEN {0} ELSE IF found = {} THEN {} ELSE {kids[Min(found)]}

(* devfs_ensure_directory_exist, from the root down; devfs_create_dir.     *)
EnsuredDirectory(fs, path) ==
  LET Enter(at, name) ==
        LET dir == devfs_lookup_dir(at.fs, name, at.id) IN
        IF dir # {} THEN [at EXCEPT !.id = CHOOSE d \in dir : TRUE]
        ELSE [fs |-> NodeAdded(at.fs, name, NoDevice, at.id), id |-> next_file_id(at.fs)]
  IN  FoldLeft(Enter, [fs |-> fs, id |-> 0], path)

(* devfs_register_device, after its check.                                 *)
DeviceAdded(fs, path, device) ==
  LET dir == EnsuredDirectory(fs, Front(path)) IN NodeAdded(dir.fs, Last(path), device, dir.id)

(* devfs_read_dir: entry `position' of a node, as a set of at most one.    *)
(* Every entry counts as a directory.  A node without children has one     *)
(* entry before its end, made of the list head itself: its name is what    *)
(* lies at the address of its number, no name of the tree.                 *)
DirEntry(fs, id, position) ==
  LET kids == fs.node[id].children IN
  IF position < Len(kids)
  THEN {[name |-> fs.node[kids[position + 1]].name, id |-> kids[position + 1], dir |-> TRUE]}
  ELSE {}
===============================================================================
