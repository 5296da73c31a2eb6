------------------------------- MODULE FileTable ------------------------------
(***************************************************************************)
(* The descriptors of the kernel process: file_api.c and the first half of *)
(* file.c.  Calls do not overlap (the table has no lock; all threads share *)
(* it).                                                                    *)
(*                                                                         *)
(* Clients close, read and duplicate only descriptors they were given and  *)
(* have not closed: `owned'.  dup2 may name any descriptor to replace.     *)
(***************************************************************************)
EXTENDS Integers, FiniteSets

CONSTANTS
  MAX_FD,
  Files,     \* bound: the addresses at which malloc places open files
  NULL,
  Fnodes,    \* the files and directories that can be opened
  Size(_)    \* the bytes of each

ASSUME FileTableAssumption ==
  /\ MAX_FD \in Nat \ {0}
  /\ NULL \notin Files
  /\ \A n \in Fnodes : Size(n) \in Nat

VARIABLES
  fd,      \* the descriptor table
  file,    \* the memory of the open files; a freed one keeps its contents
  owned,   \* the descriptors handed out and not closed
  panic    \* "none", or why nothing is said of what follows

fileVars == <<fd, file, owned, panic>>

Descriptors == 0 .. MAX_FD - 1

FreeFds(t) == {d \in Descriptors : t[d] = NULL}

(* Mutant: the first descriptor is taken for free.                         *)
FindFirstFd(t) == 0

(* file_find_next_fd: the lowest.                                          *)
file_find_next_fd(t) == CHOOSE d \in FreeFds(t) : \A e \in FreeFds(t) : d <= e

Live == {f \in Files : file[f].reference_count > 0}

Up == panic = "none"
Panic(why) == panic' = why /\ UNCHANGED <<fd, file, owned>>

-----------------------------------------------------------------------------
(* Mutant: nobody counts the first reference.                              *)
OpenedUncounted(n) == [fnode |-> n, position |-> 0, reference_count |-> 0]

(* file_open_fnode_file: the file is new, with one reference.              *)
Opened(n) == [fnode |-> n, position |-> 0, reference_count |-> 1]

file_open_fnode(n) ==
  \E f \in Files \ Live :
    IF FreeFds(fd) = {} THEN Panic("no free file descriptors")
    ELSE /\ file' = [file EXCEPT ![f] = Opened(n)]
         /\ fd' = [fd EXCEPT ![file_find_next_fd(fd)] = f]
         /\ owned' = owned \cup {file_find_next_fd(fd)}
         /\ UNCHANGED panic

(* What close does to the files and to the table: the reference is given   *)
(* back, and the descriptor is cleared only when that was the last one.    *)
Released(d) ==
  IF fd[d] = NULL THEN file ELSE [file EXCEPT ![fd[d]].reference_count = @ - 1]
Cleared(d) ==
  IF fd[d] # NULL /\ file[fd[d]].reference_count = 1 THEN [fd EXCEPT ![d] = NULL] ELSE fd

close(d) ==
  /\ file' = Released(d)
  /\ fd' = Cleared(d)
  /\ owned' = owned \ {d}
  /\ UNCHANGED panic

(* Mutant: the file is shared without counting the new reference.          *)
Dup2NoCount(oldfd, newfd) ==
  /\ oldfd # newfd
  /\ fd' = [Cleared(newfd) EXCEPT ![newfd] = Cleared(newfd)[oldfd]]
  /\ file' = Released(newfd)
  /\ owned' = owned \cup {newfd}
  /\ UNCHANGED panic

(* A descriptor that was closed and is still in the table is closed again: *)
(* the count of its file, which others hold or memory holds no more, is    *)
(* one too low from there on.                                              *)
Stale(d) == d \notin owned /\ fd[d] # NULL

dup2(oldfd, newfd) ==
  /\ oldfd # newfd
  /\ IF Stale(newfd) THEN Panic("stale")
     ELSE /\ fd' = [Cleared(newfd) EXCEPT ![newfd] = fd[oldfd]]
          /\ file' = [Released(newfd) EXCEPT ![fd[oldfd]].reference_count = @ + 1]
          /\ owned' = owned \cup {newfd}
          /\ UNCHANGED panic

(* The bytes a read of len returns at position p of n: at most what is     *)
(* left, and -1 at the end.                                                *)
Given(n, p, len) ==
  IF p >= Size(n) THEN -1
  ELSE IF Size(n) - p < len THEN Size(n) - p ELSE len

read(d, len) ==
  LET given == Given(file[fd[d]].fnode, file[fd[d]].position, len) IN
  /\ given > 0
  /\ file' = [file EXCEPT ![fd[d]].position = @ + given]
  /\ UNCHANGED <<fd, owned, panic>>

-----------------------------------------------------------------------------
(* n is whatever lies in the memory of files not yet opened.               *)
FileInit(n) ==
  /\ fd = [d \in Descriptors |-> NULL]
  /\ file = [f \in Files |-> [fnode |-> n, position |-> 0, reference_count |-> 0]]
  /\ owned = {}
  /\ panic = "none"

(* What clients do with descriptors, whatever they name.                   *)
Descriptor(Lengths) ==
  /\ Up
  /\ \/ \E d \in owned : close(d)
     \/ \E d \in owned, e \in Descriptors : dup2(d, e)
     \/ \E d \in owned, len \in Lengths : read(d, len)

(* The table by itself: any file may be opened at any time.                *)
FileNext ==
  \/ Up /\ \E n \in Fnodes : file_open_fnode(n)
  \/ Descriptor(Nat)

FileSpec == (\E n \in Fnodes : FileInit(n)) /\ [][FileNext]_fileVars

-----------------------------------------------------------------------------
FileTypeOK ==
  /\ fd \in [Descriptors -> Files \cup {NULL}]
  /\ file \in [Files -> [fnode : Fnodes, position : Nat, reference_count : Nat]]
  /\ \A f \in Files : file[f].position <= Size(file[f].fnode)
  /\ owned \subseteq Descriptors

(* A descriptor a client holds names an open file: no sequence of opens,   *)
(* duplications and closes frees a file under it (file_close, dup2).       *)
OwnedIsLive == \A d \in owned : fd[d] \in Live

(* file.h:69-72, the count of a file is the number of descriptors that     *)
(* clients hold on it, so that it is freed exactly when the last one is    *)
(* closed.  Entries that close left in the table do not count.             *)
Holders(f) == {d \in owned : fd[d] = f}
CountIsHolders == \A f \in Files : file[f].reference_count = Cardinality(Holders(f))

(* A step that keeps a descriptor a client's leaves it on its file, and    *)
(* moves its position only when a descriptor on the same file is read:     *)
(* opening a file never lands on memory still in use.                      *)
Undisturbed ==
  [][ \A d \in owned \cap owned' :
        \/ fd'[d] = fd[d] /\ file'[fd[d]].fnode = file[fd[d]].fnode
                          /\ file'[fd[d]].position >= file[fd[d]].position
        \/ \E e \in owned \ {d} : dup2(e, d) ]_fileVars
===============================================================================
