--------------------------- MODULE FileTableProofs ---------------------------
(***************************************************************************)
(* Whatever clients open, duplicate, close and read, the descriptors they  *)
(* hold are those of open files, every file is counted as often as it is   *)
(* held, and nothing is moved under a client.  The three facts need each   *)
(* other: a file is freed by its count, so the count must be the number of *)
(* holders for a held file not to be freed, and memory is given out again  *)
(* by the count too.                                                       *)
(***************************************************************************)
EXTENDS FileTable, FiniteSetTheorems, TLAPS, WellFoundedInduction

(* A set of numbers has a least one.                                       *)
LEMMA NatMin ==
  ASSUME NEW T, T \subseteq Nat, T # {}
  PROVE  \E x \in T : \A y \in T : x <= y
<1>1. PICK R : R = {ss \in Nat \X Nat : ss[1] < ss[2]}
  OBVIOUS
<1>2. IsWellFoundedOn(R, Nat)
  BY <1>1, NatLessThanWellFounded DEF OpToRel
<1>3. PICK x \in T : \A y \in T : ~(<<y, x>> \in R)
  BY <1>2, WFMin
<1>4. \A y \in T : x <= y
  <2> TAKE y \in T
  <2>1. x \in Nat /\ y \in Nat /\ ~(<<y, x>> \in R)
    BY <1>3
  <2>2. ~(y < x)
    BY <1>1, <2>1
  <2>3. QED
    BY <2>1, <2>2
<1>5. QED
  BY <1>4

FileInv == FileTypeOK /\ OwnedIsLive /\ CountIsHolders

File == [fnode : Fnodes, position : Nat, reference_count : Nat]

(* The holders of a file can be counted, and counting them one more or one *)
(* less is what it should be.                                              *)
LEMMA HoldersFinite ==
  ASSUME owned \subseteq Descriptors, NEW f
  PROVE  /\ IsFiniteSet(Holders(f))
         /\ Cardinality(Holders(f)) \in Nat
<1>1. IsFiniteSet(Descriptors)
  BY FileTableAssumption, FS_Interval DEF Descriptors
<1>2. Holders(f) \subseteq Descriptors
  BY DEF Holders
<1>3. QED
  BY <1>1, <1>2, FS_Subset, FS_CardinalityType

LEMMA HeldIsCounted ==
  ASSUME NEW held, held \subseteq Descriptors, NEW t, NEW e \in held
  PROVE  Cardinality({d \in held : t[d] = t[e]}) > 0
<1>. DEFINE H == {d \in held : t[d] = t[e]}
<1>1. IsFiniteSet(Descriptors)
  BY FileTableAssumption, FS_Interval DEF Descriptors
<1>2. H \subseteq Descriptors /\ H # {}
  OBVIOUS
<1>3. IsFiniteSet(H)
  BY <1>1, <1>2, FS_Subset
<1>4. Cardinality(H) # 0 /\ Cardinality(H) \in Nat
  BY <1>2, <1>3, FS_EmptySet, FS_CardinalityType
<1>5. QED
  BY <1>4

LEMMA OneMore ==
  ASSUME NEW S, IsFiniteSet(S), NEW x, x \notin S
  PROVE  Cardinality(S \cup {x}) = Cardinality(S) + 1
BY FS_AddElement

LEMMA OneLess ==
  ASSUME NEW S, IsFiniteSet(S), NEW x \in S
  PROVE  Cardinality(S \ {x}) = Cardinality(S) - 1
BY FS_RemoveElement

(* The first free descriptor is free, and no client holds it.              *)
LEMMA FirstFree ==
  ASSUME FileTypeOK, OwnedIsLive, FreeFds(fd) # {}
  PROVE  /\ file_find_next_fd(fd) \in Descriptors
         /\ fd[file_find_next_fd(fd)] = NULL
         /\ file_find_next_fd(fd) \notin owned
<1>1. FreeFds(fd) \subseteq Nat
  BY FileTableAssumption DEF FreeFds, Descriptors
<1>2. PICK d \in FreeFds(fd) : \A e \in FreeFds(fd) : d <= e
  BY <1>1, NatMin
<1>3. /\ file_find_next_fd(fd) \in FreeFds(fd)
      /\ \A e \in FreeFds(fd) : file_find_next_fd(fd) <= e
  BY <1>2 DEF file_find_next_fd
<1>4. \A x \in owned : fd[x] # NULL
  BY FileTableAssumption DEF OwnedIsLive, Live
<1>5. QED
  BY <1>3, <1>4 DEF FreeFds

-----------------------------------------------------------------------------
THEOREM FileInvInit ==
  ASSUME NEW n \in Fnodes, FileInit(n)
  PROVE  FileInv
<1>1. FileTypeOK
  BY FileTableAssumption DEF FileInit, FileTypeOK
<1>2. OwnedIsLive
  BY DEF FileInit, OwnedIsLive
<1>3. \A f \in Files : Holders(f) = {} /\ file[f].reference_count = 0
  BY DEF FileInit, Holders
<1>4. CountIsHolders
  BY <1>3, FS_EmptySet DEF CountIsHolders
<1>5. QED
  BY <1>1, <1>2, <1>4 DEF FileInv

(* What follows from the invariant for a descriptor a client holds.        *)
LEMMA OwnedFacts ==
  ASSUME FileInv, NEW d \in owned
  PROVE  /\ d \in Descriptors
         /\ fd[d] \in Files
         /\ fd[d] # NULL
         /\ file[fd[d]] \in File
         /\ file[fd[d]].reference_count > 0
BY FileTableAssumption DEF FileInv, FileTypeOK, OwnedIsLive, Live, File

(* An open: the file was nobody's, the descriptor too.                     *)
LEMMA OpenPreserves ==
  ASSUME FileInv, NEW n \in Fnodes, file_open_fnode(n)
  PROVE  FileInv'
<1>1. CASE Panic("no free file descriptors")
  BY <1>1 DEF Panic, FileInv, FileTypeOK, OwnedIsLive, Live, CountIsHolders, Holders
<1>2. CASE ~Panic("no free file descriptors")
  <2>1. FreeFds(fd) # {}
    BY <1>2 DEF file_open_fnode
  <2>. DEFINE i == file_find_next_fd(fd)
  <2>2. i \in Descriptors /\ fd[i] = NULL /\ i \notin owned
    BY <2>1, FirstFree DEF FileInv
  <2>3. PICK f \in Files \ Live :
          /\ file' = [file EXCEPT ![f] = Opened(n)]
          /\ fd' = [fd EXCEPT ![i] = f]
          /\ owned' = owned \cup {i}
    BY <2>1, <1>2 DEF file_open_fnode
  <2>. HIDE DEF i
  <2>4. FileTypeOK'
    BY <2>2, <2>3, FileTableAssumption DEF FileInv, FileTypeOK, Opened
  <2>5. \A d \in owned : fd[d] # f /\ fd'[d] = fd[d]
    BY <2>2, <2>3 DEF FileInv, FileTypeOK, OwnedIsLive
  <2>6. OwnedIsLive'
    <3>1. fd'[i] = f /\ file'[f].reference_count = 1
      BY <2>2, <2>3 DEF FileInv, FileTypeOK, Opened
    <3>2. \A d \in owned : file'[fd[d]] = file[fd[d]] /\ fd[d] \in Live
      BY <2>3, <2>5 DEF FileInv, FileTypeOK, OwnedIsLive
    <3>3. QED
      BY <2>3, <2>5, <3>1, <3>2 DEF OwnedIsLive, Live
  <2>7. ASSUME NEW g \in Files
        PROVE  file'[g].reference_count = Cardinality(Holders(g)')
    <3>1. CASE g = f
      <4>1. Holders(g)' = {i}
        BY <2>2, <2>3, <2>5, <3>1 DEF Holders, FileInv, FileTypeOK
      <4>2. file'[g].reference_count = 1
        BY <2>3, <3>1 DEF FileInv, FileTypeOK, Opened
      <4>3. QED
        BY <4>1, <4>2, FS_Singleton
    <3>2. CASE g # f
      <4>1. Holders(g)' = Holders(g)
        BY <2>2, <2>3, <2>5, <3>2 DEF Holders, FileInv, FileTypeOK
      <4>2. file'[g] = file[g]
        BY <2>3, <3>2 DEF FileInv, FileTypeOK
      <4>3. QED
        BY <4>1, <4>2 DEF FileInv, CountIsHolders
    <3>3. QED
      BY <3>1, <3>2
  <2>8. QED
    BY <2>4, <2>6, <2>7 DEF FileInv, CountIsHolders
<1>3. QED
  BY <1>1, <1>2

(* A close: one holder less of one file.                                   *)
LEMMA ClosePreserves ==
  ASSUME FileInv, NEW d \in owned, close(d)
  PROVE  FileInv'
<1>. DEFINE f == fd[d]
<1>1. d \in Descriptors /\ f \in Files /\ f # NULL /\ file[f] \in File /\ file[f].reference_count > 0
  BY OwnedFacts
<1>2. file' = [file EXCEPT ![f].reference_count = @ - 1]
  BY <1>1 DEF close, Released
<1>3. \A e \in Descriptors : e # d => fd'[e] = fd[e]
  BY DEF close, Cleared, FileInv, FileTypeOK
<1>4. owned' = owned \ {d} /\ owned \subseteq Descriptors
  BY DEF close, FileInv, FileTypeOK
<1>5. FileTypeOK'
  <2>1. fd' \in [Descriptors -> Files \cup {NULL}]
    BY <1>1 DEF close, Cleared, FileInv, FileTypeOK
  <2>2. file' \in [Files -> [fnode : Fnodes, position : Nat, reference_count : Nat]]
    BY <1>1, <1>2 DEF FileInv, FileTypeOK, File
  <2>3. \A g \in Files : file'[g].position = file[g].position /\ file'[g].fnode = file[g].fnode
    BY <1>1, <1>2 DEF FileInv, FileTypeOK
  <2>4. QED
    BY <1>4, <2>1, <2>2, <2>3 DEF FileInv, FileTypeOK
<1>6. ASSUME NEW g \in Files
      PROVE  file'[g].reference_count = Cardinality(Holders(g)')
  <2>1. CASE g = f
    <3>1. Holders(g)' = Holders(g) \ {d}
      BY <1>3, <1>4, <2>1 DEF Holders
    <3>2. d \in Holders(g) /\ IsFiniteSet(Holders(g))
      BY <1>4, <2>1, HoldersFinite DEF Holders
    <3>3. file'[g].reference_count = file[g].reference_count - 1
      BY <1>1, <1>2, <2>1 DEF FileInv, FileTypeOK
    <3>4. file[g].reference_count = Cardinality(Holders(g))
      BY DEF FileInv, CountIsHolders
    <3>5. QED
      BY <3>1, <3>2, <3>3, <3>4, OneLess
  <2>2. CASE g # f
    <3>1. Holders(g)' = Holders(g)
      BY <1>3, <1>4, <2>2 DEF Holders
    <3>2. file'[g] = file[g]
      BY <1>2, <2>2 DEF FileInv, FileTypeOK
    <3>3. QED
      BY <3>1, <3>2 DEF FileInv, CountIsHolders
  <2>3. QED
    BY <2>1, <2>2
<1>7. OwnedIsLive'
  <2>. SUFFICES ASSUME NEW e \in owned' PROVE (fd[e] \in Live)' /\ fd'[e] = fd[e]
    BY DEF OwnedIsLive
  <2>1. e \in owned /\ e # d /\ fd'[e] = fd[e] /\ fd[e] \in Files
    BY <1>3, <1>4, OwnedFacts
  <2>2. Holders(fd[e])' = {x \in owned' : fd'[x] = fd'[e]}
    BY <2>1 DEF Holders
  <2>3. Cardinality(Holders(fd[e])') > 0
    BY <1>4, <2>2, HeldIsCounted
  <2>4. QED
    BY <1>6, <2>1, <2>3 DEF Live
<1>8. QED
  BY <1>5, <1>6, <1>7 DEF FileInv, CountIsHolders

(* A duplication: the new descriptor leaves its file for that of the old.  *)
LEMMA Dup2Preserves ==
  ASSUME FileInv, NEW o \in owned, NEW n \in Descriptors, dup2(o, n)
  PROVE  FileInv'
<1>1. CASE Stale(n)
  BY <1>1 DEF dup2, Panic, FileInv, FileTypeOK, OwnedIsLive, Live, CountIsHolders, Holders
<1>2. CASE ~Stale(n)
  <2>. DEFINE f == fd[o]
              h == fd[n]
  <2>1. o \in Descriptors /\ f \in Files /\ f # NULL /\ file[f] \in File /\ file[f].reference_count > 0
    BY OwnedFacts
  <2>2. /\ o # n
        /\ fd' = [Cleared(n) EXCEPT ![n] = f]
        /\ file' = [Released(n) EXCEPT ![f].reference_count = @ + 1]
        /\ owned' = owned \cup {n}
    BY <1>2 DEF dup2
  <2>3. /\ fd' \in [Descriptors -> Files \cup {NULL}]
        /\ fd'[n] = f
        /\ \A e \in Descriptors : e # n => fd'[e] = fd[e]
    BY <2>1, <2>2 DEF Cleared, FileInv, FileTypeOK
  <2>4. owned \subseteq Descriptors /\ owned' \subseteq Descriptors
    BY <2>2 DEF FileInv, FileTypeOK
  <2>5. n \notin owned => h = NULL
    BY <1>2 DEF Stale
  <2>6. n \in owned => h \in Files /\ h # NULL /\ file[h] \in File /\ file[h].reference_count > 0
    BY OwnedFacts
  <2>7. Released(n) = IF n \in owned THEN [file EXCEPT ![h].reference_count = @ - 1] ELSE file
    BY <2>5, <2>6 DEF Released
  <2>8. /\ Released(n) \in [Files -> File]
        /\ \A g \in Files : /\ Released(n)[g].position = file[g].position
                            /\ Released(n)[g].fnode = file[g].fnode
    BY <2>6, <2>7 DEF FileInv, FileTypeOK, File
  <2>9. /\ file' \in [Files -> File]
        /\ \A g \in Files : /\ file'[g].position = file[g].position
                            /\ file'[g].fnode = file[g].fnode
    BY <2>1, <2>2, <2>8 DEF File
  <2>10. FileTypeOK'
    BY <2>3, <2>4, <2>9 DEF FileInv, FileTypeOK, File
  <2>11. ASSUME NEW g \in Files
         PROVE  file'[g].reference_count = Cardinality(Holders(g)')
    <3>1. file[g].reference_count = Cardinality(Holders(g)) /\ IsFiniteSet(Holders(g))
      BY <2>4, HoldersFinite DEF FileInv, CountIsHolders
    <3>2. file[g] \in File
      BY DEF FileInv, FileTypeOK, File
    <3>3. CASE g = f /\ h = f
      <4>1. n \in owned /\ Holders(g)' = Holders(g)
        BY <2>1, <2>2, <2>3, <2>4, <2>5, <3>3 DEF Holders
      <4>2. file'[g].reference_count = (file[g].reference_count - 1) + 1
        BY <2>1, <2>2, <2>7, <2>8, <3>3, <4>1 DEF FileInv, FileTypeOK
      <4>3. QED
        BY <3>1, <3>2, <4>1, <4>2 DEF File
    <3>4. CASE g = f /\ h # f
      <4>1. n \notin Holders(g) /\ Holders(g)' = Holders(g) \cup {n}
        BY <2>2, <2>3, <2>4, <3>4 DEF Holders
      <4>2. file'[g].reference_count = file[g].reference_count + 1
        BY <2>1, <2>2, <2>6, <2>7, <2>8, <3>4 DEF FileInv, FileTypeOK
      <4>3. QED
        BY <3>1, <4>1, <4>2, OneMore
    <3>5. CASE g # f /\ g = h
      <4>1. n \in owned
        BY <2>5, <3>5, FileTableAssumption
      <4>2. n \in Holders(g) /\ Holders(g)' = Holders(g) \ {n}
        BY <2>2, <2>3, <2>4, <3>5, <4>1 DEF Holders
      <4>3. file'[g].reference_count = file[g].reference_count - 1
        BY <2>1, <2>2, <2>6, <2>7, <2>8, <3>5, <4>1 DEF FileInv, FileTypeOK
      <4>4. QED
        BY <3>1, <4>2, <4>3, OneLess
    <3>6. CASE g # f /\ g # h
      <4>1. Holders(g)' = Holders(g)
        BY <2>2, <2>3, <2>4, <3>6 DEF Holders
      <4>2. file'[g] = file[g]
        BY <2>1, <2>2, <2>6, <2>7, <2>8, <3>6 DEF FileInv, FileTypeOK
      <4>3. QED
        BY <3>1, <4>1, <4>2
    <3>7. QED
      BY <3>3, <3>4, <3>5, <3>6
  <2>12. OwnedIsLive'
    <3>. SUFFICES ASSUME NEW e \in owned' PROVE (fd[e] \in Live)'
      BY DEF OwnedIsLive
    <3>1. fd'[e] \in Files
      BY <2>1, <2>2, <2>3, <2>4, OwnedFacts
    <3>2. Cardinality({x \in owned' : fd'[x] = fd'[e]}) > 0
      BY <2>4, HeldIsCounted
    <3>3. \A g \in Files : file'[g].reference_count = Cardinality({x \in owned' : fd'[x] = g})
      BY <2>11 DEF Holders
    <3>4. file'[fd'[e]].reference_count > 0
      BY <3>1, <3>2, <3>3
    <3>5. QED
      BY <3>1, <3>4 DEF Live
  <2>13. QED
    BY <2>10, <2>11, <2>12 DEF FileInv, CountIsHolders
<1>3. QED
  BY <1>1, <1>2

(* A read moves a position, within the file.                               *)
LEMMA ReadPreserves ==
  ASSUME FileInv, NEW d \in owned, NEW len \in Nat, read(d, len)
  PROVE  FileInv'
<1>. DEFINE f == fd[d]
            given == Given(file[f].fnode, file[f].position, len)
<1>1. f \in Files /\ file[f] \in File /\ Size(file[f].fnode) \in Nat
  BY OwnedFacts, FileTableAssumption DEF File
<1>2. given > 0 /\ file' = [file EXCEPT ![f].position = @ + given] /\ UNCHANGED <<fd, owned>>
  BY DEF read
<1>3. given \in Nat /\ file[f].position + given <= Size(file[f].fnode)
  BY <1>1, <1>2 DEF Given, File
<1>. HIDE DEF given
<1>4. /\ file' \in [Files -> File]
      /\ \A g \in Files : /\ file'[g].reference_count = file[g].reference_count
                          /\ file'[g].fnode = file[g].fnode
                          /\ g # f => file'[g].position = file[g].position
      /\ file'[f].position = file[f].position + given
  BY <1>1, <1>2, <1>3 DEF FileInv, FileTypeOK, File
<1>5. FileTypeOK'
  BY <1>1, <1>2, <1>3, <1>4 DEF FileInv, FileTypeOK, File
<1>6. OwnedIsLive' /\ CountIsHolders'
  BY <1>2, <1>4 DEF FileInv, OwnedIsLive, Live, CountIsHolders, Holders
<1>7. QED
  BY <1>5, <1>6 DEF FileInv

-----------------------------------------------------------------------------
LEMMA FileInvStep ==
  ASSUME FileInv, [FileNext]_fileVars
  PROVE  FileInv'
<1>1. CASE UNCHANGED fileVars
  BY <1>1 DEF fileVars, FileInv, FileTypeOK, OwnedIsLive, Live, CountIsHolders, Holders
<1>2. ASSUME NEW n \in Fnodes, file_open_fnode(n) PROVE FileInv'
  BY <1>2, OpenPreserves
<1>3. ASSUME NEW d \in owned, close(d) PROVE FileInv'
  BY <1>3, ClosePreserves
<1>4. ASSUME NEW d \in owned, NEW e \in Descriptors, dup2(d, e) PROVE FileInv'
  BY <1>4, Dup2Preserves
<1>5. ASSUME NEW d \in owned, NEW len \in Nat, read(d, len) PROVE FileInv'
  BY <1>5, ReadPreserves
<1>6. QED
  BY <1>1, <1>2, <1>3, <1>4, <1>5 DEF FileNext, Descriptor

(* The three facts hold in every state of every use of the table.          *)
THEOREM FileInvariant == FileSpec => []FileInv
<1>1. (\E n \in Fnodes : FileInit(n)) => FileInv
  BY FileInvInit
<1>2. FileInv /\ [FileNext]_fileVars => FileInv'
  BY FileInvStep
<1>3. QED
  BY <1>1, <1>2, PTL DEF FileSpec

(* The descriptor table, the files and the descriptors handed out have the *)
(* shape the calls rely on, and no position is past the end of its file.   *)
THEOREM FilesTyped == FileSpec => []FileTypeOK
<1>1. FileInv => FileTypeOK
  BY DEF FileInv
<1>2. QED
  BY <1>1, FileInvariant, PTL

(* A descriptor that was given to a client and not closed names an open    *)
(* file, whatever was opened, duplicated and closed (file.c:45).           *)
THEOREM HeldFilesOpen == FileSpec => []OwnedIsLive
<1>1. FileInv => OwnedIsLive
  BY DEF FileInv
<1>2. QED
  BY <1>1, FileInvariant, PTL

(* The count of a file is the number of descriptors clients hold on it, so *)
(* that the last close frees it and no other does (file_api.c:44).         *)
THEOREM CountsExact == FileSpec => []CountIsHolders
<1>1. FileInv => CountIsHolders
  BY DEF FileInv
<1>2. QED
  BY <1>1, FileInvariant, PTL

(* A step of one client: descriptors that stay with clients stay on their  *)
(* files, which keep their contents and do not move back.                  *)
LEMMA StepUndisturbed ==
  ASSUME FileInv, FileNext, NEW d \in owned \cap owned'
  PROVE  \/ fd'[d] = fd[d] /\ file'[fd[d]].fnode = file[fd[d]].fnode
                            /\ file'[fd[d]].position >= file[fd[d]].position
         \/ \E e \in owned \ {d} : dup2(e, d)
<1>. DEFINE Kept == /\ fd'[d] = fd[d]
                    /\ file'[fd[d]].fnode = file[fd[d]].fnode
                    /\ file'[fd[d]].position >= file[fd[d]].position
<1>1. d \in Descriptors /\ fd[d] \in Files /\ fd[d] # NULL /\ file[fd[d]] \in File /\ fd[d] \in Live
  BY OwnedFacts DEF FileInv, OwnedIsLive
<1>2. file[fd[d]].position \in Nat /\ file[fd[d]].position >= file[fd[d]].position
  BY <1>1 DEF File
<1>3. ASSUME NEW n \in Fnodes, file_open_fnode(n) PROVE Kept
  <2>1. CASE Panic("no free file descriptors")
    BY <1>2, <2>1 DEF Panic
  <2>2. CASE ~Panic("no free file descriptors")
    <3>1. FreeFds(fd) # {}
      BY <1>3, <2>2 DEF file_open_fnode
    <3>2. file_find_next_fd(fd) # d
      BY <3>1, FirstFree DEF FileInv
    <3>3. QED
      BY <1>1, <1>2, <1>3, <2>2, <3>2 DEF file_open_fnode, FileInv, FileTypeOK
  <2>3. QED
    BY <2>1, <2>2
<1>4. ASSUME NEW e \in owned, close(e) PROVE Kept
  <2>1. e # d
    BY <1>4 DEF close
  <2>2. fd'[d] = fd[d]
    BY <1>4, <2>1, <1>1 DEF close, Cleared, FileInv, FileTypeOK
  <2>3. fd[e] \in Files /\ file[fd[e]] \in File /\ fd[e] # NULL
    BY OwnedFacts
  <2>4. file' = [file EXCEPT ![fd[e]].reference_count = @ - 1]
    BY <1>4, <2>3 DEF close, Released
  <2>5. file'[fd[d]].fnode = file[fd[d]].fnode /\ file'[fd[d]].position = file[fd[d]].position
    BY <1>1, <2>3, <2>4 DEF FileInv, FileTypeOK
  <2>6. QED
    BY <1>2, <2>2, <2>5
<1>5. ASSUME NEW e \in owned, NEW n \in Descriptors, dup2(e, n), n # d PROVE Kept
  <2>1. CASE Stale(n)
    BY <1>2, <1>5, <2>1 DEF dup2, Panic
  <2>2. CASE ~Stale(n)
    <3>1. fd[e] \in Files
      BY OwnedFacts
    <3>2. /\ fd' = [Cleared(n) EXCEPT ![n] = fd[e]]
          /\ file' = [Released(n) EXCEPT ![fd[e]].reference_count = @ + 1]
      BY <1>5, <2>2 DEF dup2
    <3>3. fd'[d] = fd[d]
      BY <1>1, <1>5, <3>2 DEF Cleared, FileInv, FileTypeOK
    <3>4. fd[n] = NULL \/ fd[n] \in Files
      BY DEF FileInv, FileTypeOK
    <3>5. /\ Released(n)[fd[d]].fnode = file[fd[d]].fnode
          /\ Released(n)[fd[d]].position = file[fd[d]].position
          /\ Released(n)[fd[d]] \in [fnode : Fnodes, position : Nat, reference_count : Int]
          /\ DOMAIN Released(n) = Files
      BY <1>1, <3>4 DEF Released, FileInv, FileTypeOK, File
    <3>6. file'[fd[d]].fnode = file[fd[d]].fnode /\ file'[fd[d]].position = file[fd[d]].position
      BY <1>1, <3>1, <3>2, <3>5
    <3>7. QED
      BY <1>2, <3>3, <3>6
  <2>3. QED
    BY <2>1, <2>2
<1>6. ASSUME NEW e \in owned, NEW len \in Nat, read(e, len) PROVE Kept
  <2>. DEFINE given == Given(file[fd[e]].fnode, file[fd[e]].position, len)
  <2>1. fd[e] \in Files /\ file[fd[e]] \in File /\ Size(file[fd[e]].fnode) \in Nat
    BY OwnedFacts, FileTableAssumption DEF File
  <2>2. given > 0 /\ file' = [file EXCEPT ![fd[e]].position = @ + given] /\ UNCHANGED fd
    BY <1>6 DEF read
  <2>3. given \in Nat
    BY <2>1, <2>2 DEF Given, File
  <2>. HIDE DEF given
  <2>4. /\ file'[fd[d]].fnode = file[fd[d]].fnode
        /\ file'[fd[d]].position = file[fd[d]].position \/ file'[fd[d]].position = file[fd[d]].position + given
    BY <1>1, <2>1, <2>2 DEF FileInv, FileTypeOK
  <2>5. QED
    BY <1>2, <2>2, <2>3, <2>4
<1>7. ASSUME NEW e \in owned, dup2(e, d) PROVE e \in owned \ {d}
  BY <1>7 DEF dup2
<1>8. QED
  BY <1>3, <1>4, <1>5, <1>6, <1>7 DEF FileNext, Descriptor

(* No call of one client disturbs what another holds: memory that is given *)
(* out for an open is nobody's (file.c:24).                                *)
THEOREM HeldFilesUndisturbed == FileSpec => Undisturbed
<1>. DEFINE A == \A d \in owned \cap owned' :
                   \/ fd'[d] = fd[d] /\ file'[fd[d]].fnode = file[fd[d]].fnode
                                      /\ file'[fd[d]].position >= file[fd[d]].position
                   \/ \E e \in owned \ {d} : dup2(e, d)
<1>1. FileInv /\ [FileNext]_fileVars => [A]_fileVars
  BY StepUndisturbed
<1>2. QED
  BY <1>1, FileInvariant, PTL DEF FileSpec, Undisturbed
==============================================================================
