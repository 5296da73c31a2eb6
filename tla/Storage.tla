------------------------------- MODULE Storage -------------------------------
(***************************************************************************)
(* Disks, partitions and the FAT file system: ide.c, partition.c, fat.c    *)
(* and fat_low.c.  One thread uses them, so an operation is one step; what *)
(* is hard is that every failed read is ignored and leaves the buffer as   *)
(* it was, that the buffers of the boot sector and of the root directory   *)
(* are shared by all the mounts, and that each layer has its own limits.   *)
(*                                                                         *)
(* A sector is a record of all that it may be read as: a partition table,  *)
(* a boot sector, a page of the file allocation table, a page of a         *)
(* directory.  The drive is external: it answers at once, addresses by     *)
(* cylinder, head and sector, and hands over Junk for what it has not got. *)
(***************************************************************************)
EXTENDS Naturals, Sequences, FiniteSets, SequencesExt

CONSTANTS
  Disk,       \* the sectors of each drive: a function of functions
  Zero,       \* a sector of zeros, as a static buffer is at first
  Junk,       \* a sector whose bytes mean nothing
  BYTE,       \* what the registers of the drive count to, 256
  WORD,       \* what off_t and size_t count to, 2^32
  HEADS, SPT, \* the geometry of the drives
  FAT_PAGE,   \* entries of the table in a sector, 256
  DIR_PAGES,  \* pages of the root directory that are read, 32
  LOOK,       \* entries of the table a mount prints, 10
  MaxMounts, MaxHandles, MaxPosition

VARIABLES
  boot_block,      \* the last boot sector read, for all mounts
  rootdir_buffer,  \* the last directory page read, for all mounts
  mounts,          \* the mounted FAT file systems
  files,           \* the open files of these file systems
  touched,         \* the sectors the last operation made drives hand over
  halted           \* a processor exception stopped the kernel

vars == <<boot_block, rootdir_buffer, mounts, files, touched, halted>>

(* What a buffer may hold.  fat16_read_entry indexes a page with an offset *)
(* below sectors_per_fat and not above the entry asked for: it stays on    *)
(* the page as LOOK <= FAT_PAGE in the code, and an instance with smaller  *)
(* pages has tables of few sectors.                                        *)
Blocks == {Zero, Junk} \cup UNION {{Disk[d][n] : n \in DOMAIN Disk[d]} : d \in DOMAIN Disk}

DirEntries == UNION {{s.dir[i] : i \in DOMAIN s.dir} : s \in Blocks}

SectorOK(s) ==
  /\ \A i \in DOMAIN s.pe : s.pe[i].lba_sector \in Nat /\ s.pe[i].lba_len \in Nat
  /\ s.reserved_sector \in Nat /\ s.number_hidden_sectors \in Nat
  /\ s.number_of_fats \in Nat /\ s.sectors_per_fat \in Nat
  /\ s.bytes_per_sector = 512 => LOOK <= FAT_PAGE \/ s.sectors_per_fat <= FAT_PAGE
  /\ s.fat \in [1 .. FAT_PAGE -> Nat]
  /\ s.dir \in Seq(DirEntries)

ASSUME StorageAssumption ==
  /\ BYTE \in Nat \ {0} /\ HEADS \in Nat /\ SPT \in Nat
  /\ WORD \in Nat /\ BYTE <= WORD
  /\ FAT_PAGE \in Nat \ {0} /\ LOOK \in Nat /\ DIR_PAGES \in Nat
  /\ \A d \in DOMAIN Disk : 0 \in DOMAIN Disk[d] /\ DOMAIN Disk[d] \subseteq Nat
  /\ \A s \in Blocks : SectorOK(s)

-----------------------------------------------------------------------------
(* Block devices.                                                          *)

(* off_t, size_t: unsigned numbers of one width.                           *)
Word(n) == n % WORD

Drives == {[drive |-> d, part |-> FALSE, start |-> 0, len |-> 0] : d \in DOMAIN Disk}

(* partition_lookup: the used entries of any first sector with the         *)
(* signature.                                                              *)
Partitions ==
  UNION {{[drive |-> d, part |-> TRUE,
           start |-> Disk[d][0].pe[i].lba_sector, len |-> Disk[d][0].pe[i].lba_len] :
            i \in (1 .. 4) \cap DOMAIN Disk[d][0].pe} :
           d \in {x \in DOMAIN Disk : Disk[x][0].signature}}

Devices == Drives \cup Partitions
IsPartition(dev) == dev.part

(* make_request and file_request: the block number plus one, cut in bytes. *)
(* The order of struct taskfile sends its middle byte to the high cylinder *)
(* register and its high byte to the low one.                              *)
make_request(sector) ==
  LET next == Word(sector + 1) IN
  [sector |-> next % BYTE,
   cylinder_high |-> (next \div BYTE) % BYTE,
   cylinder_low |-> (next \div (BYTE * BYTE)) % BYTE]

(* External: what the drive hands over.  Bit 6 of the drive and head       *)
(* register is clear, so the address is cylinder, head 0, sector.          *)
Addressed(request) ==
  (request.cylinder_high * BYTE + request.cylinder_low) * HEADS * SPT + request.sector

read_sector(d, sector) ==
  LET at == Addressed(make_request(sector)) IN
  IF at > 0 /\ at - 1 \in DOMAIN Disk[d] THEN Disk[d][at - 1] ELSE Junk

(* Mutant: the number of blocks read is not added.                         *)
AllowedStart(dev, block) == IsPartition(dev) => Word(block) <= dev.len

(* partition_read_blocks refuses the last block of a partition too, and    *)
(* the sum wraps: block WORD - 1 is allowed.                               *)
Allowed(dev, block) == IsPartition(dev) => Word(block + 1) < dev.len

(* filesystem_read_blocks of one block, as all its callers use it: they    *)
(* ignore the result, and a refused read leaves the buffer as it was.      *)
ReadInto(buffer, dev, block) ==
  IF Allowed(dev, block) THEN read_sector(dev.drive, Word(dev.start + block)) ELSE buffer

Sectors(dev, blocks) ==
  {[dev |-> dev, block |-> b, sector |-> Addressed(make_request(Word(dev.start + b))) - 1] :
     b \in {x \in blocks : Allowed(dev, x)}}

-----------------------------------------------------------------------------
(* The file allocation table.                                              *)

(* fat_read_page: the page is the current one even if it was not read.     *)
fat_read_page(m, page) ==
  [m EXCEPT !.page = ReadInto(@, m.dev, Word(m.fat_start + page)), !.current_page = page]

(* Mutant: the page is not the unit of the cache.                          *)
fat16_read_entry_once(m, cluster) ==
  LET page == cluster \div m.sectors_per_fat
      read == IF m.current_page >= 0 THEN m ELSE fat_read_page(m, page)
  IN  [read EXCEPT !.shown = Append(@, read.page.fat[(cluster % m.sectors_per_fat) + 1])]

(* fat16_read_entry: the page and the offset are those of a sector of      *)
(* sectors_per_fat entries.                                                *)
fat16_read_entry(m, cluster) ==
  LET page == cluster \div m.sectors_per_fat
      read == IF m.current_page = page THEN m ELSE fat_read_page(m, page)
  IN  [read EXCEPT !.shown = Append(@, read.page.fat[(cluster % m.sectors_per_fat) + 1])]

(* A mount prints the first entries of the table, one after the other.     *)
Looking(m) ==
  LET after[n \in 0 .. LOOK] ==
        IF n = 0 THEN m ELSE fat16_read_entry(after[n - 1], n - 1)
  IN  after

Looked(m) == Looking(m)[LOOK]

(* The file system a boot sector describes.                                *)
Described(dev, boot) ==
  LET fat_start == Word(boot.reserved_sector + boot.number_hidden_sectors) IN
  [dev |-> dev, fat_start |-> fat_start, sectors_per_fat |-> boot.sectors_per_fat,
   rootdir_start |-> Word(fat_start + boot.number_of_fats * boot.sectors_per_fat),
   page |-> Zero, current_page |-> 0 - 1, shown |-> <<>>]

Init ==
  /\ boot_block = Zero /\ rootdir_buffer = Zero
  /\ mounts = <<>> /\ files = <<>> /\ touched = {} /\ halted = FALSE

(* Mutant: the boot sector is read for the first mount only.               *)
fat_fs_init_once(dev) ==
  LET boot == IF mounts = <<>> THEN ReadInto(boot_block, dev, 0) ELSE boot_block
      m == Described(dev, boot)
  IN  /\ Len(mounts) < MaxMounts
      /\ boot_block' = boot
      /\ boot.bytes_per_sector = 512 /\ boot.root_dir_entries # 0 /\ boot.sectors_per_fat # 0
      /\ mounts' = Append(mounts, Looked(m))
      /\ touched' = Sectors(dev, {0})
      /\ UNCHANGED <<rootdir_buffer, files, halted>>

(* fat_fs_init: the boot sector, the table's first sector for the dump,    *)
(* the first entries of the table, the second directory page for the dump. *)
(* The first entry divides by sectors_per_fat: nothing handles a division  *)
(* by zero, and the kernel stops.                                          *)
fat_fs_init(dev) ==
  LET boot == ReadInto(boot_block, dev, 0)
      m == Described(dev, boot)
      table == {Word(m.fat_start + (c \div m.sectors_per_fat)) : c \in 0 .. LOOK - 1}
      fat16 == boot.bytes_per_sector = 512 /\ boot.root_dir_entries # 0
  IN  /\ Len(mounts) < MaxMounts
      /\ boot_block' = boot
      /\ \/ /\ fat16 /\ m.sectors_per_fat # 0
            /\ mounts' = Append(mounts, Looked(m))
            /\ touched' = Sectors(dev, {0, m.fat_start, Word(m.rootdir_start + 1)} \cup table)
            /\ UNCHANGED halted
         \/ /\ fat16 /\ m.sectors_per_fat = 0
            /\ touched' = Sectors(dev, {0, m.fat_start})
            /\ halted' = TRUE
            /\ UNCHANGED mounts
         \/ /\ ~fat16
            /\ touched' = Sectors(dev, {0})
            /\ UNCHANGED <<mounts, halted>>
      /\ UNCHANGED <<rootdir_buffer, files>>

-----------------------------------------------------------------------------
(* Directories.                                                            *)

(* What fat_read_dir finds in the buffer after asking for each page.       *)
Pages(m) ==
  LET shown[k \in 0 .. DIR_PAGES - 1] ==
        ReadInto(IF k = 0 THEN rootdir_buffer ELSE shown[k - 1], m.dev, Word(m.rootdir_start + k))
  IN  shown

Visible(e) == ~e.hidden /\ ~e.volume_label

(* The visible entries among the first n, up to one without a name.        *)
ListedUpTo(all) ==
  LET listed[n \in 0 .. Len(all)] ==
        IF n = 0 THEN <<>>
        ELSE IF ~Visible(all[n]) \/ \E i \in 1 .. n : all[i].name = "" THEN listed[n - 1]
        ELSE Append(listed[n - 1], all[n])
  IN  listed

(* Those of some pages.                                                    *)
Listed(pages) == LET all == FlattenSeq(pages) IN ListedUpTo(all)[Len(all)]

Upto(m, k) == [i \in 1 .. k |-> Pages(m)[i - 1].dir]
Ends(page) == \E i \in DOMAIN page.dir : page.dir[i].name = ""

(* The pages asked for: up to the one with entry p, or with the end.       *)
Asked(m, p) ==
  LET stops == {k \in 1 .. DIR_PAGES : Len(Listed(Upto(m, k))) > p \/ Ends(Pages(m)[k - 1])}
  IN  IF stops = {} THEN DIR_PAGES ELSE CHOOSE k \in stops : \A j \in stops : k <= j

(* Mutant: the page of the last call is searched first.                    *)
fat_read_dir_cached(f) ==
  LET file == files[f]
      m == mounts[file.mounted]
      pages == Asked(m, file.position)
      entries == Listed(<<rootdir_buffer.dir>> \o Tail(Upto(m, pages)))
      found == file.position < Len(entries)
  IN  /\ file.position < MaxPosition
      /\ files' = [files EXCEPT
           ![f].position = @ + 1,
           ![f].got = IF found THEN Append(@, entries[file.position + 1]) ELSE @]
      /\ touched' = {}
      /\ rootdir_buffer' = Pages(m)[pages - 1]
      /\ UNCHANGED <<boot_block, mounts, halted>>

(* fat_read_dir: the position moves before anything is looked at, only     *)
(* the file with the identity 0 is a directory, and the entry at the       *)
(* position is counted from the start of the directory each time.          *)
fat_read_dir(f) ==
  LET file == files[f]
      m == mounts[file.mounted]
      pages == Asked(m, file.position)
      entries == Listed(Upto(m, pages))
      found == file.position < Len(entries)
  IN  /\ file.position < MaxPosition
      /\ IF file.file_id # 0
         THEN /\ files' = [files EXCEPT ![f].position = @ + 1]
              /\ touched' = {}
              /\ UNCHANGED rootdir_buffer
         ELSE /\ files' = [files EXCEPT
                   ![f].position = @ + 1,
                   ![f].got = IF found THEN Append(@, entries[file.position + 1]) ELSE @]
              /\ touched' = Sectors(m.dev, {Word(m.rootdir_start + k) : k \in 0 .. pages - 1})
              /\ rootdir_buffer' = Pages(m)[pages - 1]
      /\ UNCHANGED <<boot_block, mounts, halted>>

(* A file system's root directory is opened, or a file just listed.        *)
Open(m, id) ==
  /\ Len(files) < MaxHandles
  /\ \/ id = 0
     \/ \E f \in DOMAIN files : files[f].mounted = m /\ \E e \in ToSet(files[f].got) : e.first_cluster = id
  /\ files' = Append(files, [mounted |-> m, file_id |-> id, position |-> 0, got |-> <<>>])
  /\ touched' = {}
  /\ UNCHANGED <<boot_block, rootdir_buffer, mounts, halted>>

Clusters == UNION {UNION {{Disk[d][n].dir[i].first_cluster : i \in DOMAIN Disk[d][n].dir} :
                            n \in DOMAIN Disk[d]} : d \in DOMAIN Disk}

Next ==
  /\ ~halted
  /\ \/ \E dev \in Devices : fat_fs_init(dev)
     \/ \E m \in DOMAIN mounts, id \in Clusters \cup {0} : Open(m, id)
     \/ \E f \in DOMAIN files : fat_read_dir(f)

Spec == Init /\ [][Next]_vars

-----------------------------------------------------------------------------
(* Properties.                                                             *)

(* The blocks of a device that are read as asked: below the sector number  *)
(* that no longer fits the register, and on the disk.                      *)
Reachable(dev, block) ==
  /\ dev.start + block + 1 < BYTE
  /\ dev.start + block \in DOMAIN Disk[dev.drive]
  /\ Allowed(dev, block)
Own(dev, block) == Disk[dev.drive][dev.start + block]

(* A partition hands over its own sectors only, or the one sector before   *)
(* it, and that one for the block number WORD - 1 alone, which wraps past  *)
(* the check (partition.c:32).  So a damaged boot sector that points past  *)
(* the end, or a directory read past it, never reaches another sector of   *)
(* another partition, where the partition itself has no sectors that no    *)
(* drive can number and the number fits the sector register (ide.c:62).    *)
SectorsStayInside ==
  \A t \in touched :
    IsPartition(t.dev) /\ t.dev.start + t.dev.len <= WORD /\ Word(t.dev.start + t.block) + 1 < BYTE =>
      \/ t.sector \in t.dev.start .. t.dev.start + t.dev.len - 2
      \/ t.block = WORD - 1 /\ t.sector = t.dev.start - 1

(* A file system is mounted with the geometry of its own boot sector and   *)
(* not of the one read before, unless its first block cannot be read       *)
(* (fat.c:102 ignores the result and looks at the shared boot_block).      *)
GeometryIsOwn ==
  \A m \in DOMAIN mounts :
    LET own == Described(mounts[m].dev, Own(mounts[m].dev, 0)) IN
    Reachable(mounts[m].dev, 0) =>
      /\ mounts[m].fat_start = own.fat_start
      /\ mounts[m].rootdir_start = own.rootdir_start
      /\ mounts[m].sectors_per_fat = own.sectors_per_fat

(* The printed entries of the table are those of the file system's own     *)
(* table, each from its page, when the table has as many sectors as a      *)
(* sector has entries, or for the first clusters (fat_low.c:8 divides by   *)
(* the wrong number), and when the page can be read (fat_low.c:20).        *)
EntriesAreTables ==
  \A m \in DOMAIN mounts : \A c \in 0 .. LOOK - 1 :
    LET fs == mounts[m]
        block == fs.fat_start + (c \div FAT_PAGE)
    IN  Reachable(fs.dev, block) /\ (fs.sectors_per_fat = FAT_PAGE \/ c < fs.sectors_per_fat) =>
          fs.shown[c + 1] = Own(fs.dev, block).fat[(c % FAT_PAGE) + 1]

(* The root directory of a file system: the listing of its own pages up to *)
(* the first with an entry without a name, if all of them can be read.     *)
DirPage(fs, k) == Own(fs.dev, fs.rootdir_start + k - 1)

LastPages(fs) ==
  {k \in 1 .. DIR_PAGES :
     /\ \A j \in 1 .. k : Reachable(fs.dev, fs.rootdir_start + j - 1)
     /\ Ends(DirPage(fs, k))}

LastPage(fs) == CHOOSE k \in LastPages(fs) : \A j \in LastPages(fs) : k <= j
Directory(fs) == Listed([k \in 1 .. LastPage(fs) |-> DirPage(fs, k).dir])

GotInOrder(fs, file) ==
  LET directory == Directory(fs)
      seen == IF file.position < Len(directory) THEN file.position ELSE Len(directory)
  IN  file.got = IF file.file_id = 0 THEN SubSeq(directory, 1, seen) ELSE <<>>

(* Successive calls list the visible entries of the file system's own root *)
(* directory, each once and in order, whatever other directories and       *)
(* mounts are read in between, if the end of the directory is within reach *)
(* (fat.c:67 ignores a failed read, the buffer is shared by the mounts).   *)
EntriesInOrder ==
  \A f \in DOMAIN files :
    LET fs == mounts[files[f].mounted]
    IN  LastPages(fs) # {} => GotInOrder(fs, files[f])

-----------------------------------------------------------------------------
(* The inductive invariant.  The entries printed so far are those of the   *)
(* table, and while a mount reads them, the page in its buffer is the      *)
(* current one if the table's own sector could be read.                    *)
Table(m, c) == Own(m.dev, m.fat_start + (c \div FAT_PAGE)).fat[(c % FAT_PAGE) + 1]

ShownOK(m, c) ==
  Reachable(m.dev, m.fat_start + (c \div FAT_PAGE))
    /\ (m.sectors_per_fat = FAT_PAGE \/ c < m.sectors_per_fat) => m.shown[c + 1] = Table(m, c)

CacheOK(m) ==
  m.current_page # 0 - 1 /\ Reachable(m.dev, m.fat_start + m.current_page) =>
    m.page = Own(m.dev, m.fat_start + m.current_page)

FileSystem ==
  [dev : Devices, fat_start : 0 .. WORD - 1, rootdir_start : 0 .. WORD - 1,
   sectors_per_fat : {n \in Nat \ {0} : LOOK <= FAT_PAGE \/ n <= FAT_PAGE},
   page : Blocks, current_page : Nat \cup {0 - 1}, shown : Seq(Nat)]

StorageInv ==
  /\ boot_block \in Blocks
  /\ mounts \in Seq(FileSystem)
  /\ \A f \in DOMAIN files : files[f].mounted \in DOMAIN mounts
  /\ \A m \in DOMAIN mounts : \A c \in 0 .. LOOK - 1 : ShownOK(mounts[m], c)
  /\ GeometryIsOwn
  /\ EntriesInOrder
  /\ SectorsStayInside
==============================================================================
