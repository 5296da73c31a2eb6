---------------------------- MODULE StorageProofs ----------------------------
(***************************************************************************)
(* What the layers of the disk code keep in spite of reads that fail and   *)
(* buffers that all mounts share, for any disks, any geometry and any      *)
(* number of mounts and open files.                                        *)
(***************************************************************************)
EXTENDS Storage, TLAPS, WellFoundedInduction

(* A set of numbers has a least one.                                       *)
LEMMA NatMin ==
  ASSUME NEW T, T \subseteq Nat, T # {}
  PROVE  \E x \in T : \A y \in T : x <= y
<1>1. PICK R : R = {ss \in Nat \X Nat : ss[1] < ss[2]}
  OBVIOUS
<1>2. IsWellFoundedOn(R, Nat)
  BY <1>1, NatLessThanWellFounded DEF OpToRel
<1>3. PICK x \in T : \A y \in T : ~(<<y, x>> \in R)
  BY <1>2, WFMin
<1>4. \A y \in T : x <= y
  <2> TAKE y \in T
  <2>1. x \in Nat /\ y \in Nat /\ ~(<<y, x>> \in R)
    BY <1>3
  <2>2. ~(y < x)
    BY <1>1, <2>1
  <2>3. QED
    BY <2>1, <2>2
<1>5. QED
  BY <1>4

(* Induction, for a set of numbers.                                        *)
LEMMA NatInduct ==
  ASSUME NEW S, 0 \in S, \A n \in Nat : n \in S => n + 1 \in S
  PROVE  \A n \in Nat : n \in S
<1> SUFFICES ASSUME Nat \ S # {}
             PROVE  FALSE
  OBVIOUS
<1>1. PICK x \in Nat \ S : \A y \in Nat \ S : x <= y
  BY NatMin
<1>2. x # 0 /\ x - 1 \in Nat /\ ~(x <= x - 1) /\ (x - 1) + 1 = x
  OBVIOUS
<1>3. x - 1 \in S
  BY <1>1, <1>2
<1>4. QED
  BY <1>2, <1>3

(* Numbers below the divisor.                                              *)
LEMMA DivSmall ==
  ASSUME NEW x \in Nat, NEW n \in Nat \ {0}, x < n
  PROVE  x \div n = 0 /\ x % n = x
OBVIOUS

-----------------------------------------------------------------------------
(* Numbers of the width of off_t: below the limit they are themselves, and *)
(* up to twice the limit they wrap once.                                   *)
LEMMA WordFits ==
  ASSUME NEW n \in Nat, n < WORD
  PROVE  Word(n) = n
BY DivSmall, StorageAssumption DEF Word

LEMMA WordRange ==
  ASSUME NEW n \in Nat
  PROVE  Word(n) \in 0 .. WORD - 1 /\ Word(n) \in Nat
BY StorageAssumption DEF Word

LEMMA WordWraps ==
  ASSUME NEW k \in Nat, k < WORD
  PROVE  Word(WORD + k) = k
<1>1. PICK w : w = WORD
  OBVIOUS
<1>2. w \in Nat \ {0}
  BY <1>1, StorageAssumption
<1>3. (w + k) % w = k
  BY <1>1, <1>2, Z3
<1>4. QED
  BY <1>1, <1>3 DEF Word

LEMMA DeviceOK ==
  ASSUME NEW dev \in Devices
  PROVE  dev.drive \in DOMAIN Disk /\ dev.start \in Nat /\ dev.len \in Nat
<1>1. CASE dev \in Drives
  BY <1>1 DEF Drives
<1>2. CASE dev \in Partitions
  BY <1>2, StorageAssumption DEF Partitions, SectorOK, Blocks
<1>3. QED
  BY <1>1, <1>2 DEF Devices

(* A block number that fits the sector register reaches its own sector.    *)
LEMMA AddressFits ==
  ASSUME NEW n \in Nat, n + 1 < BYTE
  PROVE  Addressed(make_request(n)) = n + 1
<1>1. BYTE \in Nat \ {0} /\ HEADS \in Nat /\ SPT \in Nat /\ Word(n + 1) = n + 1
  BY StorageAssumption, WordFits
<1>2. BYTE * BYTE \in Nat \ {0} /\ BYTE <= BYTE * BYTE
  <2>1. PICK b \in Nat : BYTE = b + 1
    <3>1. BYTE - 1 \in Nat /\ BYTE = (BYTE - 1) + 1
      BY <1>1
    <3>2. QED
      BY <3>1
  <2>2. (b + 1) * (b + 1) = b * b + 2 * b + 1 /\ b * b \in Nat
    BY SMT
  <2>3. QED
    BY <2>1, <2>2
<1>3. (n + 1) % BYTE = n + 1 /\ (n + 1) \div BYTE = 0
  BY <1>1, DivSmall
<1>4. (n + 1) \div (BYTE * BYTE) = 0
  <2>1. PICK m : m = BYTE * BYTE
    OBVIOUS
  <2>2. m \in Nat \ {0} /\ n + 1 < m /\ n + 1 \in Nat
    BY <1>1, <1>2, <2>1
  <2>3. (n + 1) \div m = 0
    BY <2>2, DivSmall
  <2>4. QED
    BY <2>1, <2>3
<1>5. 0 % BYTE = 0
  BY <1>1, DivSmall
<1>6. make_request(n) = [sector |-> n + 1, cylinder_high |-> 0, cylinder_low |-> 0]
  BY <1>1, <1>3, <1>4, <1>5 DEF make_request
<1>7. (0 * BYTE + 0) * HEADS * SPT = 0
  BY <1>1
<1>8. QED
  BY <1>6, <1>7 DEF Addressed

LEMMA ReachableFits ==
  ASSUME NEW dev \in Devices, NEW b \in Nat, Reachable(dev, b)
  PROVE  Word(b) = b
BY DeviceOK, StorageAssumption, WordFits DEF Reachable

LEMMA ReadReachable ==
  ASSUME NEW dev \in Devices, NEW b \in Nat, NEW buffer, Reachable(dev, b)
  PROVE  ReadInto(buffer, dev, b) = Own(dev, b)
<1>1. dev.drive \in DOMAIN Disk /\ dev.start + b \in Nat /\ Word(dev.start + b) = dev.start + b
  BY DeviceOK, StorageAssumption, WordFits DEF Reachable
<1>2. Addressed(make_request(dev.start + b)) = dev.start + b + 1
  BY <1>1, AddressFits DEF Reachable
<1>3. (dev.start + b + 1) - 1 = dev.start + b /\ dev.start + b + 1 > 0
  BY <1>1
<1>4. read_sector(dev.drive, dev.start + b) = Own(dev, b)
  BY <1>2, <1>3 DEF read_sector, Reachable, Own
<1>5. QED
  BY <1>1, <1>4 DEF ReadInto, Reachable

(* Whatever is read into a buffer is a sector.                             *)
LEMMA ReadBlock ==
  ASSUME NEW dev \in Devices, NEW b \in Nat, NEW buffer \in Blocks
  PROVE  ReadInto(buffer, dev, b) \in Blocks
<1>1. dev.drive \in DOMAIN Disk
  BY DeviceOK
<1>2. read_sector(dev.drive, Word(dev.start + b)) \in Blocks
  BY <1>1 DEF read_sector, Blocks
<1>3. QED
  BY <1>2 DEF ReadInto

(* The blocks of one device that an operation asks for are its own, but    *)
(* for the one that wraps.                                                 *)
SectorInside(t) ==
  IsPartition(t.dev) /\ t.dev.start + t.dev.len <= WORD /\ Word(t.dev.start + t.block) + 1 < BYTE =>
    \/ t.sector \in t.dev.start .. t.dev.start + t.dev.len - 2
    \/ t.block = WORD - 1 /\ t.sector = t.dev.start - 1

LEMMA SectorsInside ==
  ASSUME NEW dev \in Devices, NEW blocks, blocks \subseteq 0 .. WORD - 1,
         NEW t \in Sectors(dev, blocks)
  PROVE  SectorInside(t)
<1> SUFFICES ASSUME IsPartition(t.dev), t.dev.start + t.dev.len <= WORD,
                    Word(t.dev.start + t.block) + 1 < BYTE
             PROVE  \/ t.sector \in t.dev.start .. t.dev.start + t.dev.len - 2
                    \/ t.block = WORD - 1 /\ t.sector = t.dev.start - 1
  BY DEF SectorInside
<1>1. PICK b \in blocks : /\ Allowed(dev, b)
                          /\ t = [dev |-> dev, block |-> b,
                                  sector |-> Addressed(make_request(Word(dev.start + b))) - 1]
  BY DEF Sectors
<1>2. /\ dev.start \in Nat /\ dev.len \in Nat /\ b \in Nat /\ b <= WORD - 1
      /\ BYTE \in Nat /\ WORD \in Nat \ {0} /\ BYTE <= WORD
  BY DeviceOK, StorageAssumption
<1>3. Word(b + 1) < dev.len /\ dev.start + dev.len <= WORD
  BY <1>1 DEF Allowed
<1>4. PICK n : n = Word(dev.start + b)
  OBVIOUS
<1>5. n \in Nat /\ n + 1 < BYTE
  BY <1>1, <1>2, <1>4, WordRange
<1>6. t.sector = n /\ t.dev = dev /\ t.block = b
  BY <1>1, <1>4, <1>5, AddressFits
<1>7. CASE b + 1 < WORD
  <2>1. b + 1 < dev.len
    BY <1>2, <1>3, <1>7, WordFits
  <2>2. n = dev.start + b
    BY <1>2, <1>3, <1>4, <2>1, WordFits
  <2>3. QED
    BY <1>2, <1>6, <2>1, <2>2
<1>8. CASE b + 1 = WORD
  <2>1. CASE dev.start = 0
    <3>1. n = b
      BY <1>2, <1>4, <1>8, <2>1, WordFits
    <3>2. QED
      BY <1>2, <1>5, <1>8, <3>1
  <2>2. CASE dev.start # 0
    <3>1. dev.start - 1 \in Nat /\ dev.start - 1 < WORD /\ dev.start + b = WORD + (dev.start - 1)
      BY <1>2, <1>3, <1>8, <2>2
    <3>2. n = dev.start - 1
      BY <1>4, <3>1, WordWraps
    <3>3. QED
      BY <1>2, <1>6, <1>8, <3>2
  <2>3. QED
    BY <2>1, <2>2
<1>9. QED
  BY <1>2, <1>7, <1>8

-----------------------------------------------------------------------------
(* The cache of the file allocation table.                                 *)

SameGeometry(m, r) ==
  /\ r.dev = m.dev /\ r.fat_start = m.fat_start
  /\ r.rootdir_start = m.rootdir_start /\ r.sectors_per_fat = m.sectors_per_fat

(* After a page is read it is current, and holds what the table has there  *)
(* if that can be read.                                                    *)
LEMMA PageRead ==
  ASSUME NEW m \in FileSystem, NEW page \in Nat
  PROVE  LET r == fat_read_page(m, page) IN
         /\ r \in FileSystem /\ SameGeometry(m, r) /\ CacheOK(r)
         /\ r.current_page = page /\ r.shown = m.shown
<1>1. PICK block : block = ReadInto(m.page, m.dev, Word(m.fat_start + page))
  OBVIOUS
<1>2. /\ m.dev \in Devices /\ m.page \in Blocks /\ m.fat_start + page \in Nat
      /\ Word(m.fat_start + page) \in Nat
  <2>1. m.dev \in Devices /\ m.page \in Blocks /\ m.fat_start \in Nat
    BY StorageAssumption DEF FileSystem
  <2>2. QED
    BY <2>1, WordRange
<1>3. block \in Blocks
  BY <1>1, <1>2, ReadBlock
<1>4. PICK r : r = [m EXCEPT !.page = block, !.current_page = page]
  OBVIOUS
<1>5. r = fat_read_page(m, page)
  BY <1>1, <1>4 DEF fat_read_page
<1>6. /\ r.dev = m.dev /\ r.fat_start = m.fat_start /\ r.rootdir_start = m.rootdir_start
      /\ r.sectors_per_fat = m.sectors_per_fat /\ r.shown = m.shown
      /\ r.page = block /\ r.current_page = page
  BY <1>4 DEF FileSystem
<1>7. r \in FileSystem
  BY <1>3, <1>4 DEF FileSystem
<1>8. ASSUME Reachable(m.dev, m.fat_start + page)
      PROVE  block = Own(m.dev, m.fat_start + page)
  <2>1. Word(m.fat_start + page) = m.fat_start + page
    BY <1>2, <1>8, ReachableFits
  <2>2. QED
    BY <1>1, <1>2, <1>8, <2>1, ReadReachable
<1>9. CacheOK(r)
  BY <1>6, <1>8 DEF CacheOK
<1>10. QED
  BY <1>5, <1>6, <1>7, <1>9 DEF SameGeometry

(* Dividing by the sectors of the table in place of the entries of a page  *)
(* finds the same entry when the two are equal, and on the first page.     *)
TableSizes == {n \in Nat \ {0} : LOOK <= FAT_PAGE \/ n <= FAT_PAGE}

LEMMA SamePage ==
  ASSUME NEW c \in Nat, c < LOOK, NEW n \in TableSizes, n = FAT_PAGE \/ c < n
  PROVE  c \div n = c \div FAT_PAGE /\ c % n = c % FAT_PAGE
<1>1. /\ FAT_PAGE \in Nat \ {0} /\ n \in Nat \ {0} /\ LOOK \in Nat
      /\ LOOK <= FAT_PAGE \/ n <= FAT_PAGE
  BY StorageAssumption DEF TableSizes
<1>2. CASE c < n
  <2>1. c < FAT_PAGE
    BY <1>1, <1>2
  <2>2. c \div n = 0 /\ c % n = c
    BY <1>1, <1>2, DivSmall
  <2>3. c \div FAT_PAGE = 0 /\ c % FAT_PAGE = c
    BY <1>1, <2>1, DivSmall
  <2>4. QED
    BY <2>2, <2>3
<1>3. QED
  BY <1>2

(* An entry that a mount prints is within the page.                        *)
LEMMA OnPage ==
  ASSUME NEW c \in Nat, c < LOOK, NEW n \in TableSizes
  PROVE  c \div n \in Nat /\ c % n \in 0 .. FAT_PAGE - 1
<1>1. /\ FAT_PAGE \in Nat \ {0} /\ n \in Nat \ {0} /\ LOOK \in Nat
      /\ LOOK <= FAT_PAGE \/ n <= FAT_PAGE
  BY StorageAssumption DEF TableSizes
<1>2. c \div n \in Nat /\ c % n \in 0 .. n - 1
  BY <1>1
<1>3. CASE c < n
  BY <1>1, <1>2, <1>3, DivSmall
<1>4. CASE ~(c < n)
  BY <1>1, <1>2, <1>4
<1>5. QED
  BY <1>3, <1>4

LookedAt(m, r, n) ==
  /\ r \in FileSystem /\ SameGeometry(m, r) /\ CacheOK(r)
  /\ Len(r.shown) = n
  /\ \A c \in 0 .. n - 1 : ShownOK(r, c)

LEMMA EntryRead ==
  ASSUME NEW m, NEW r, NEW n \in Nat, n < LOOK, LookedAt(m, r, n)
  PROVE  LookedAt(m, fat16_read_entry(r, n), n + 1)
<1>1. PICK page, offset : page = n \div r.sectors_per_fat /\ offset = n % r.sectors_per_fat
  OBVIOUS
<1>2. r \in FileSystem /\ r.sectors_per_fat \in TableSizes /\ FAT_PAGE \in Nat
  BY StorageAssumption DEF LookedAt, FileSystem, TableSizes
<1>3. page \in Nat /\ offset \in 0 .. FAT_PAGE - 1
  BY <1>1, <1>2, OnPage
<1>4. PICK read : read = IF r.current_page = page THEN r ELSE fat_read_page(r, page)
  OBVIOUS
<1>5. /\ read \in FileSystem /\ SameGeometry(r, read) /\ CacheOK(read)
      /\ read.current_page = page /\ read.shown = r.shown
  <2>1. CASE r.current_page = page
    BY <1>4, <2>1 DEF LookedAt, SameGeometry
  <2>2. CASE r.current_page # page
    BY <1>2, <1>3, <1>4, <2>2, PageRead
  <2>3. QED
    BY <2>1, <2>2
<1>6. PICK entry : entry = read.page.fat[offset + 1]
  OBVIOUS
<1>7. entry \in Nat
  <2>1. read.page \in Blocks
    BY <1>5 DEF FileSystem
  <2>2. read.page.fat \in [1 .. FAT_PAGE -> Nat]
    BY <2>1, StorageAssumption DEF SectorOK
  <2>3. offset + 1 \in 1 .. FAT_PAGE
    BY <1>2, <1>3
  <2>4. QED
    BY <1>6, <2>2, <2>3
<1>8. PICK after : after = [read EXCEPT !.shown = Append(@, entry)]
  OBVIOUS
<1>9. after = fat16_read_entry(r, n)
  BY <1>1, <1>4, <1>6, <1>8 DEF fat16_read_entry
<1>10. /\ read.shown \in Seq(Nat) /\ Len(read.shown) = n
       /\ after.shown = Append(read.shown, entry)
       /\ after.dev = read.dev /\ after.fat_start = read.fat_start
       /\ after.rootdir_start = read.rootdir_start /\ after.sectors_per_fat = read.sectors_per_fat
       /\ after.page = read.page /\ after.current_page = read.current_page
  BY <1>5, <1>8 DEF FileSystem, LookedAt
<1>11. /\ after.shown \in Seq(Nat) /\ Len(after.shown) = n + 1 /\ after.shown[n + 1] = entry
       /\ \A c \in 0 .. n - 1 : after.shown[c + 1] = r.shown[c + 1]
  BY <1>5, <1>7, <1>10
<1>12. after \in FileSystem
  BY <1>5, <1>8, <1>10, <1>11 DEF FileSystem
<1>13. SameGeometry(m, after) /\ SameGeometry(r, after)
  BY <1>5, <1>10 DEF SameGeometry, LookedAt
<1>14. CacheOK(after)
  BY <1>5, <1>10 DEF CacheOK
<1>15. ASSUME NEW c \in 0 .. n - 1
       PROVE  ShownOK(after, c)
  <2>1. ShownOK(r, c)
    BY DEF LookedAt
  <2>2. QED
    BY <1>11, <1>13, <2>1 DEF ShownOK, Table, SameGeometry
<1>16. ShownOK(after, n)
  <2> SUFFICES ASSUME Reachable(r.dev, r.fat_start + (n \div FAT_PAGE)),
                      r.sectors_per_fat = FAT_PAGE \/ n < r.sectors_per_fat
               PROVE  entry = Own(r.dev, r.fat_start + (n \div FAT_PAGE)).fat[(n % FAT_PAGE) + 1]
    BY <1>11, <1>13 DEF ShownOK, Table, SameGeometry
  <2>1. page = n \div FAT_PAGE /\ offset = n % FAT_PAGE
    BY <1>1, <1>2, SamePage
  <2>2. read.page = Own(r.dev, r.fat_start + page)
    <3>1. page # 0 - 1
      BY <1>3
    <3>2. QED
      BY <1>5, <2>1, <3>1 DEF CacheOK, SameGeometry
  <2>3. QED
    BY <1>6, <2>1, <2>2
<1>17. \A c \in 0 .. (n + 1) - 1 : c \in 0 .. n - 1 \/ c = n
  OBVIOUS
<1>18. \A c \in 0 .. (n + 1) - 1 : ShownOK(after, c)
  BY <1>15, <1>16, <1>17
<1>19. QED
  BY <1>9, <1>11, <1>12, <1>13, <1>14, <1>18 DEF LookedAt
(* f reads the first k entries of the table of m, one after the other.     *)
Looks(f, m, k) ==
  f = [n \in 0 .. k |-> IF n = 0 THEN m ELSE fat16_read_entry(f[n - 1], n - 1)]

LEMMA LooksExist ==
  ASSUME NEW m, NEW k \in Nat
  PROVE  \E f : Looks(f, m, k)
<1> DEFINE S == {n \in Nat : \E f : Looks(f, m, n)}
<1>1. 0 \in S
  <2>1. Looks([n \in 0 .. 0 |-> m], m, 0)
    BY DEF Looks
  <2>2. QED
    BY <2>1
<1>2. ASSUME NEW j \in Nat, j \in S
      PROVE  j + 1 \in S
  <2>1. PICK f : Looks(f, m, j)
    BY <1>2
  <2>2. PICK g : g = [n \in 0 .. j + 1 |-> IF n = j + 1 THEN fat16_read_entry(f[j], j) ELSE f[n]]
    OBVIOUS
  <2>3. \A n \in 0 .. j + 1 : n = j + 1 \/ (n \in 0 .. j /\ n # j + 1)
    OBVIOUS
  <2>4. \A n \in 0 .. j + 1 : n # 0 => n - 1 \in 0 .. j /\ n - 1 # j + 1 /\ n - 1 \in 0 .. j + 1
    OBVIOUS
  <2>5. \A n \in 0 .. j + 1 : g[n] = IF n = 0 THEN m ELSE fat16_read_entry(g[n - 1], n - 1)
    <3> TAKE n \in 0 .. j + 1
    <3>1. n # 0 => g[n - 1] = f[n - 1]
      BY <2>2, <2>4
    <3>2. CASE n = j + 1
      <4>1. n # 0 /\ n - 1 = j /\ g[n] = fat16_read_entry(f[j], j)
        BY <2>2, <3>2
      <4>2. QED
        BY <3>1, <4>1
    <3>3. CASE n \in 0 .. j /\ n # j + 1
      <4>1. g[n] = f[n]
        BY <2>2, <3>3
      <4>2. f[n] = IF n = 0 THEN m ELSE fat16_read_entry(f[n - 1], n - 1)
        BY <2>1, <3>3 DEF Looks
      <4>3. QED
        BY <3>1, <4>1, <4>2
    <3>4. QED
      BY <2>3, <3>2, <3>3
  <2>6. Looks(g, m, j + 1)
    BY <2>2, <2>5 DEF Looks
  <2>7. QED
    BY <2>6
<1>3. \A n \in Nat : n \in S
  <2> HIDE DEF S
  <2>1. QED
    BY <1>1, <1>2, NatInduct
<1>4. QED
  BY <1>3

LEMMA LookingLooks ==
  ASSUME NEW m
  PROVE  Looks(Looking(m), m, LOOK)
<1>1. PICK f : Looks(f, m, LOOK)
  BY StorageAssumption, LooksExist
<1>2. QED
  BY <1>1 DEF Looking, Looks

(* What a mount prints is the table.                                       *)
LEMMA TableLookedAt ==
  ASSUME NEW m, LookedAt(m, m, 0)
  PROVE  LookedAt(m, Looked(m), LOOK)
<1>1. PICK f : f = Looking(m) /\ Looks(f, m, LOOK)
  BY LookingLooks
<1>2. \A n \in 0 .. LOOK : f[n] = IF n = 0 THEN m ELSE fat16_read_entry(f[n - 1], n - 1)
  BY <1>1 DEF Looks
<1> DEFINE S == {n \in Nat : n \in 0 .. LOOK => LookedAt(m, f[n], n)}
<1>3. 0 \in S
  <2>1. 0 \in 0 .. LOOK
    BY StorageAssumption
  <2>2. f[0] = m
    BY <1>2, <2>1
  <2>3. QED
    BY <2>2
<1>4. ASSUME NEW n \in Nat, n \in S
      PROVE  n + 1 \in S
  <2> SUFFICES ASSUME n + 1 \in 0 .. LOOK
               PROVE  LookedAt(m, f[n + 1], n + 1)
    OBVIOUS
  <2>1. n \in 0 .. LOOK /\ n < LOOK /\ n + 1 # 0 /\ (n + 1) - 1 = n
    BY StorageAssumption
  <2>2. f[n + 1] = fat16_read_entry(f[n], n)
    BY <1>2, <2>1
  <2>3. LookedAt(m, f[n], n)
    BY <1>4, <2>1
  <2>4. QED
    BY <2>1, <2>2, <2>3, EntryRead
<1>5. \A n \in Nat : n \in S
  <2> HIDE DEF S
  <2>1. QED
    BY <1>3, <1>4, NatInduct
<1>6. LookedAt(m, f[LOOK], LOOK)
  BY <1>5, StorageAssumption
<1>7. QED
  BY <1>1, <1>6 DEF Looked

-----------------------------------------------------------------------------
(* A mount.                                                                *)

LEMMA DescribedFits ==
  ASSUME NEW a \in Nat, NEW b \in Nat, NEW c \in Nat, NEW d \in Nat
  PROVE  Word(a + b) \in 0 .. WORD - 1 /\ Word(Word(a + b) + c * d) \in 0 .. WORD - 1
<1>1. Word(a + b) \in 0 .. WORD - 1 /\ Word(a + b) \in Nat
  BY WordRange
<1>2. c * d \in Nat
  OBVIOUS
<1>3. Word(a + b) + c * d \in Nat
  BY <1>1, <1>2
<1>4. QED
  BY <1>1, <1>3, WordRange

LEMMA DescribedOK ==
  ASSUME NEW dev \in Devices, NEW boot \in Blocks, boot.bytes_per_sector = 512, boot.sectors_per_fat # 0
  PROVE  LookedAt(Described(dev, boot), Described(dev, boot), 0)
<1>1. /\ boot.reserved_sector \in Nat /\ boot.number_hidden_sectors \in Nat
      /\ boot.number_of_fats \in Nat /\ boot.sectors_per_fat \in TableSizes /\ boot.sectors_per_fat \in Nat
  BY StorageAssumption DEF SectorOK, TableSizes
<1>2. PICK fat, root : /\ fat = Word(boot.reserved_sector + boot.number_hidden_sectors)
                       /\ root = Word(fat + boot.number_of_fats * boot.sectors_per_fat)
  OBVIOUS
<1>3. fat \in 0 .. WORD - 1 /\ root \in 0 .. WORD - 1
  BY <1>1, <1>2, DescribedFits
<1>4. Zero \in Blocks
  BY DEF Blocks
<1>5. PICK m : m = Described(dev, boot)
  OBVIOUS
<1>6. m = [dev |-> dev, fat_start |-> fat, sectors_per_fat |-> boot.sectors_per_fat,
           rootdir_start |-> root, page |-> Zero, current_page |-> 0 - 1, shown |-> <<>>]
  BY <1>2, <1>5 DEF Described
<1>7. m \in FileSystem /\ m.current_page = 0 - 1 /\ m.shown = <<>>
  BY <1>1, <1>3, <1>4, <1>6 DEF FileSystem, TableSizes
<1>8. CacheOK(m) /\ SameGeometry(m, m) /\ Len(m.shown) = 0
  BY <1>7 DEF CacheOK, SameGeometry
<1>9. QED
  BY <1>5, <1>7, <1>8 DEF LookedAt
-----------------------------------------------------------------------------
(* Listings.  Those of some pages are the start of those of more pages.    *)

Starts(s, t) == Len(s) <= Len(t) /\ \A i \in 1 .. Len(s) : s[i] = t[i]

LEMMA StartsTransitive ==
  ASSUME NEW E, NEW s \in Seq(E), NEW t \in Seq(E), NEW u \in Seq(E), Starts(s, t), Starts(t, u)
  PROVE  Starts(s, u)
BY DEF Starts

LEMMA StartsAppended ==
  ASSUME NEW E, NEW s \in Seq(E), NEW t \in Seq(E)
  PROVE  Starts(s, s \o t)
BY DEF Starts

Flattens(f, ps, k) ==
  f = [i \in 1 .. k |-> IF i = 1 THEN ps[i] ELSE f[i - 1] \o ps[i]]

LEMMA FlattensExist ==
  ASSUME NEW ps, NEW k \in Nat
  PROVE  \E f : Flattens(f, ps, k)
<1> DEFINE S == {n \in Nat : \E f : Flattens(f, ps, n)}
<1>1. 0 \in S
  <2>1. Flattens([i \in 1 .. 0 |-> i], ps, 0)
    BY DEF Flattens
  <2>2. QED
    BY <2>1
<1>2. ASSUME NEW j \in Nat, j \in S
      PROVE  j + 1 \in S
  <2>1. PICK f : Flattens(f, ps, j)
    BY <1>2
  <2>2. PICK more : more = IF j + 1 = 1 THEN ps[j + 1] ELSE f[j] \o ps[j + 1]
    OBVIOUS
  <2>3. PICK g : g = [i \in 1 .. j + 1 |-> IF i = j + 1 THEN more ELSE f[i]]
    OBVIOUS
  <2>4. \A i \in 1 .. j + 1 : i = j + 1 \/ (i \in 1 .. j /\ i # j + 1)
    OBVIOUS
  <2>5. \A i \in 1 .. j + 1 : i # 1 => i - 1 \in 1 .. j /\ i - 1 # j + 1 /\ i - 1 \in 1 .. j + 1
    OBVIOUS
  <2>6. \A i \in 1 .. j + 1 : g[i] = IF i = 1 THEN ps[i] ELSE g[i - 1] \o ps[i]
    <3> TAKE i \in 1 .. j + 1
    <3>1. i # 1 => g[i - 1] = f[i - 1]
      BY <2>3, <2>5
    <3>2. CASE i = j + 1
      <4>1. g[i] = more /\ i - 1 = j
        BY <2>3, <3>2
      <4>2. QED
        BY <2>2, <3>1, <3>2, <4>1
    <3>3. CASE i \in 1 .. j /\ i # j + 1
      <4>1. g[i] = f[i]
        BY <2>3, <3>3
      <4>2. f[i] = IF i = 1 THEN ps[i] ELSE f[i - 1] \o ps[i]
        BY <2>1, <3>3 DEF Flattens
      <4>3. QED
        BY <3>1, <4>1, <4>2
    <3>4. QED
      BY <2>4, <3>2, <3>3
  <2>7. Flattens(g, ps, j + 1)
    BY <2>3, <2>6 DEF Flattens
  <2>8. QED
    BY <2>7
<1>3. \A n \in Nat : n \in S
  <2> HIDE DEF S
  <2>1. QED
    BY <1>1, <1>2, NatInduct
<1>4. QED
  BY <1>3

LEMMA FlattenSeqFlattens ==
  ASSUME NEW ps, Len(ps) \in Nat \ {0}
  PROVE  \E f : Flattens(f, ps, Len(ps)) /\ FlattenSeq(ps) = f[Len(ps)]
<1>1. PICK f : Flattens(f, ps, Len(ps))
  BY FlattensExist
<1>2. QED
  BY <1>1 DEF FlattenSeq, Flattens

LEMMA FlattensValue ==
  ASSUME NEW f, NEW ps, NEW k \in Nat, Flattens(f, ps, k), NEW i \in 1 .. k
  PROVE  f[i] = IF i = 1 THEN ps[i] ELSE f[i - 1] \o ps[i]
BY DEF Flattens

LEMMA FlattensTyped ==
  ASSUME NEW E, NEW f, NEW ps \in Seq(Seq(E)), Flattens(f, ps, Len(ps))
  PROVE  \A i \in 1 .. Len(ps) : f[i] \in Seq(E)
<1> DEFINE S == {n \in Nat : n \in 1 .. Len(ps) => f[n] \in Seq(E)}
<1>1. 0 \in S
  OBVIOUS
<1>2. ASSUME NEW n \in Nat, n \in S
      PROVE  n + 1 \in S
  <2> SUFFICES ASSUME n + 1 \in 1 .. Len(ps)
               PROVE  f[n + 1] \in Seq(E)
    OBVIOUS
  <2>1. f[n + 1] = IF n + 1 = 1 THEN ps[n + 1] ELSE f[(n + 1) - 1] \o ps[n + 1]
    BY FlattensValue
  <2>2. (n + 1) - 1 = n /\ ps[n + 1] \in Seq(E) /\ (n + 1 # 1 => n \in 1 .. Len(ps))
    OBVIOUS
  <2>3. QED
    BY <1>2, <2>1, <2>2
<1>3. \A n \in Nat : n \in S
  <2> HIDE DEF S
  <2>1. QED
    BY <1>1, <1>2, NatInduct
<1>4. QED
  BY <1>3

LEMMA FlattensAgree ==
  ASSUME NEW E, NEW f, NEW g, NEW ps \in Seq(Seq(E)), NEW qs \in Seq(Seq(E)), Starts(ps, qs),
         Flattens(f, ps, Len(ps)), Flattens(g, qs, Len(qs))
  PROVE  \A i \in 1 .. Len(ps) : f[i] = g[i]
<1> DEFINE S == {n \in Nat : n \in 1 .. Len(ps) => f[n] = g[n]}
<1>1. 0 \in S
  OBVIOUS
<1>2. ASSUME NEW n \in Nat, n \in S
      PROVE  n + 1 \in S
  <2> SUFFICES ASSUME n + 1 \in 1 .. Len(ps)
               PROVE  f[n + 1] = g[n + 1]
    OBVIOUS
  <2>1. n + 1 \in 1 .. Len(qs) /\ ps[n + 1] = qs[n + 1]
    BY DEF Starts
  <2>2. f[n + 1] = IF n + 1 = 1 THEN ps[n + 1] ELSE f[(n + 1) - 1] \o ps[n + 1]
    BY FlattensValue
  <2>3. g[n + 1] = IF n + 1 = 1 THEN qs[n + 1] ELSE g[(n + 1) - 1] \o qs[n + 1]
    BY <2>1, FlattensValue
  <2>4. (n + 1) - 1 = n /\ (n + 1 # 1 => n \in 1 .. Len(ps))
    OBVIOUS
  <2>5. QED
    BY <1>2, <2>1, <2>2, <2>3, <2>4
<1>3. \A n \in Nat : n \in S
  <2> HIDE DEF S
  <2>1. QED
    BY <1>1, <1>2, NatInduct
<1>4. QED
  BY <1>3

LEMMA FlattensGrow ==
  ASSUME NEW E, NEW g, NEW qs \in Seq(Seq(E)), Flattens(g, qs, Len(qs)), NEW i \in 1 .. Len(qs)
  PROVE  \A j \in i .. Len(qs) : Starts(g[i], g[j])
<1>0. \A j \in 1 .. Len(qs) : g[j] = IF j = 1 THEN qs[j] ELSE g[j - 1] \o qs[j]
  <2> SUFFICES ASSUME NEW j \in 1 .. Len(qs)
               PROVE  g[j] = IF j = 1 THEN qs[j] ELSE g[j - 1] \o qs[j]
    OBVIOUS
  <2>1. Len(qs) \in Nat
    OBVIOUS
  <2>2. QED
    BY <2>1, FlattensValue
<1>1. \A j \in 1 .. Len(qs) : g[j] \in Seq(E)
  BY FlattensTyped
<1> DEFINE S == {n \in Nat : n \in i .. Len(qs) => Starts(g[i], g[n])}
<1>2. 0 \in S
  OBVIOUS
<1>3. ASSUME NEW n \in Nat, n \in S
      PROVE  n + 1 \in S
  <2> SUFFICES ASSUME n + 1 \in i .. Len(qs)
               PROVE  Starts(g[i], g[n + 1])
    OBVIOUS
  <2>1. CASE n + 1 = i
    BY <1>1, <2>1 DEF Starts
  <2>2. CASE n + 1 # i
    <3>1. n \in i .. Len(qs) /\ n \in 1 .. Len(qs) /\ n + 1 \in 1 .. Len(qs) /\ n + 1 # 1 /\ (n + 1) - 1 = n
      BY <2>2
    <3>2. g[n + 1] = g[n] \o qs[n + 1]
      <4>1. g[n + 1] = IF n + 1 = 1 THEN qs[n + 1] ELSE g[(n + 1) - 1] \o qs[n + 1]
        BY <1>0, <3>1
      <4>2. QED
        BY <3>1, <4>1
    <3>3. g[n] \in Seq(E) /\ qs[n + 1] \in Seq(E) /\ g[i] \in Seq(E) /\ g[n + 1] \in Seq(E)
      BY <1>1, <3>1
    <3>4. Starts(g[n], g[n + 1])
      BY <3>2, <3>3, StartsAppended
    <3>5. Starts(g[i], g[n])
      BY <1>3, <3>1
    <3>6. QED
      BY <3>3, <3>4, <3>5, StartsTransitive
  <2>3. QED
    BY <2>1, <2>2
<1>4. \A n \in Nat : n \in S
  <2> HIDE DEF S
  <2>1. QED
    BY <1>2, <1>3, NatInduct
<1>5. QED
  BY <1>4

LEMMA FlattenStarts ==
  ASSUME NEW E, NEW ps \in Seq(Seq(E)), NEW qs \in Seq(Seq(E)), Starts(ps, qs), Len(ps) # 0
  PROVE  /\ FlattenSeq(ps) \in Seq(E) /\ FlattenSeq(qs) \in Seq(E)
         /\ Starts(FlattenSeq(ps), FlattenSeq(qs))
<1>1. /\ Len(ps) \in Nat \ {0} /\ Len(qs) \in Nat \ {0} /\ Len(ps) \in 1 .. Len(ps)
      /\ Len(ps) \in 1 .. Len(qs) /\ Len(qs) \in Len(ps) .. Len(qs) /\ Len(qs) \in 1 .. Len(qs)
  BY DEF Starts
<1>2. PICK f : Flattens(f, ps, Len(ps)) /\ FlattenSeq(ps) = f[Len(ps)]
  BY <1>1, FlattenSeqFlattens
<1>3. PICK g : Flattens(g, qs, Len(qs)) /\ FlattenSeq(qs) = g[Len(qs)]
  BY <1>1, FlattenSeqFlattens
<1>4. f[Len(ps)] = g[Len(ps)]
  BY <1>1, <1>2, <1>3, FlattensAgree
<1>5. f[Len(ps)] \in Seq(E) /\ g[Len(qs)] \in Seq(E)
  BY <1>1, <1>2, <1>3, FlattensTyped
<1>6. Starts(g[Len(ps)], g[Len(qs)])
  BY <1>1, <1>3, FlattensGrow
<1>7. QED
  BY <1>2, <1>3, <1>4, <1>5, <1>6

(* The entries of the flat sequence.                                       *)

Skipped(all, n) == ~Visible(all[n]) \/ \E i \in 1 .. n : all[i].name = ""

Lists(f, all, k) ==
  f = [n \in 0 .. k |-> IF n = 0 THEN <<>> ELSE IF Skipped(all, n) THEN f[n - 1]
                        ELSE Append(f[n - 1], all[n])]

LEMMA ListsExist ==
  ASSUME NEW all, NEW k \in Nat
  PROVE  \E f : Lists(f, all, k)
<1> DEFINE S == {n \in Nat : \E f : Lists(f, all, n)}
<1>1. 0 \in S
  <2>1. Lists([n \in 0 .. 0 |-> <<>>], all, 0)
    BY DEF Lists
  <2>2. QED
    BY <2>1
<1>2. ASSUME NEW j \in Nat, j \in S
      PROVE  j + 1 \in S
  <2>1. PICK f : Lists(f, all, j)
    BY <1>2
  <2>2. PICK more : more = IF Skipped(all, j + 1) THEN f[j] ELSE Append(f[j], all[j + 1])
    OBVIOUS
  <2>3. PICK g : g = [n \in 0 .. j + 1 |-> IF n = j + 1 THEN more ELSE f[n]]
    OBVIOUS
  <2>4. \A n \in 0 .. j + 1 : n = j + 1 \/ (n \in 0 .. j /\ n # j + 1)
    OBVIOUS
  <2>5. \A n \in 0 .. j + 1 : n # 0 => n - 1 \in 0 .. j /\ n - 1 # j + 1 /\ n - 1 \in 0 .. j + 1
    OBVIOUS
  <2>6. \A n \in 0 .. j + 1 :
          g[n] = IF n = 0 THEN <<>> ELSE IF Skipped(all, n) THEN g[n - 1] ELSE Append(g[n - 1], all[n])
    <3> TAKE n \in 0 .. j + 1
    <3>1. n # 0 => g[n - 1] = f[n - 1]
      BY <2>3, <2>5
    <3>2. CASE n = j + 1
      <4>1. g[n] = more /\ n - 1 = j /\ n # 0
        BY <2>3, <3>2
      <4>2. QED
        BY <2>2, <3>1, <3>2, <4>1
    <3>3. CASE n \in 0 .. j /\ n # j + 1
      <4>1. g[n] = f[n]
        BY <2>3, <3>3
      <4>2. f[n] = IF n = 0 THEN <<>> ELSE IF Skipped(all, n) THEN f[n - 1] ELSE Append(f[n - 1], all[n])
        BY <2>1, <3>3 DEF Lists
      <4>3. QED
        BY <3>1, <4>1, <4>2
    <3>4. QED
      BY <2>4, <3>2, <3>3
  <2>7. Lists(g, all, j + 1)
    BY <2>3, <2>6 DEF Lists
  <2>8. QED
    BY <2>7
<1>3. \A n \in Nat : n \in S
  <2> HIDE DEF S
  <2>1. QED
    BY <1>1, <1>2, NatInduct
<1>4. QED
  BY <1>3

LEMMA ListedUpToLists ==
  ASSUME NEW all, Len(all) \in Nat
  PROVE  Lists(ListedUpTo(all), all, Len(all))
<1>1. PICK f : Lists(f, all, Len(all))
  BY ListsExist
<1>2. QED
  BY <1>1 DEF ListedUpTo, Lists, Skipped

LEMMA ListsValue ==
  ASSUME NEW f, NEW all, NEW k \in Nat, Lists(f, all, k), NEW n \in Nat, n + 1 \in 1 .. k
  PROVE  /\ f[0] = <<>>
         /\ f[n + 1] = IF Skipped(all, n + 1) THEN f[n] ELSE Append(f[n], all[n + 1])
<1>1. n + 1 \in 0 .. k /\ 0 \in 0 .. k /\ n + 1 # 0 /\ (n + 1) - 1 = n
  OBVIOUS
<1>2. f[n + 1] = IF n + 1 = 0 THEN <<>> ELSE IF Skipped(all, n + 1) THEN f[(n + 1) - 1]
                 ELSE Append(f[(n + 1) - 1], all[n + 1])
  BY <1>1 DEF Lists
<1>3. f[0] = <<>>
  BY <1>1 DEF Lists
<1>4. QED
  BY <1>1, <1>2, <1>3

LEMMA ListsGrow ==
  ASSUME NEW E, NEW f, NEW all \in Seq(E), Lists(f, all, Len(all)), NEW m \in 0 .. Len(all)
  PROVE  \A n \in m .. Len(all) : f[m] \in Seq(E) /\ f[n] \in Seq(E) /\ Starts(f[m], f[n])
<1>1. f[0] = <<>>
  BY DEF Lists
<1> DEFINE S == {n \in Nat : n \in 0 .. Len(all) => f[n] \in Seq(E)}
<1> DEFINE T == {n \in Nat : n \in m .. Len(all) => Starts(f[m], f[n])}
<1>2. ASSUME NEW n \in Nat, n + 1 \in 0 .. Len(all)
      PROVE  /\ n \in 0 .. Len(all) /\ all[n + 1] \in E
             /\ f[n + 1] = f[n] \/ f[n + 1] = Append(f[n], all[n + 1])
  <2>1. n + 1 \in 1 .. Len(all) /\ n \in 0 .. Len(all) /\ all[n + 1] \in E
    BY <1>2
  <2>2. f[n + 1] = IF Skipped(all, n + 1) THEN f[n] ELSE Append(f[n], all[n + 1])
    BY <2>1, ListsValue
  <2>3. QED
    BY <2>1, <2>2
<1>3. \A n \in Nat : n \in S
  <2>1. 0 \in S
    <3>1. <<>> \in Seq(E)
      OBVIOUS
    <3>2. QED
      BY <1>1, <3>1
  <2>2. ASSUME NEW n \in Nat, n \in S
        PROVE  n + 1 \in S
    <3> SUFFICES ASSUME n + 1 \in 0 .. Len(all)
                 PROVE  f[n + 1] \in Seq(E)
      OBVIOUS
    <3>1. all[n + 1] \in E /\ f[n] \in Seq(E)
      BY <1>2, <2>2
    <3>2. Append(f[n], all[n + 1]) \in Seq(E)
      BY <3>1
    <3>3. QED
      BY <1>2, <3>1, <3>2
  <2> HIDE DEF S
  <2>3. QED
    BY <2>1, <2>2, NatInduct
<1>4. \A n \in 0 .. Len(all) : f[n] \in Seq(E)
  BY <1>3
<1>5. \A n \in Nat : n \in T
  <2>1. 0 \in T
    BY <1>4 DEF Starts
  <2>2. ASSUME NEW n \in Nat, n \in T
        PROVE  n + 1 \in T
    <3> SUFFICES ASSUME n + 1 \in m .. Len(all)
                 PROVE  Starts(f[m], f[n + 1])
      OBVIOUS
    <3>1. CASE n + 1 = m
      BY <1>4, <3>1 DEF Starts
    <3>2. CASE n + 1 # m
      <4>1. n \in m .. Len(all) /\ n + 1 \in 0 .. Len(all) /\ n \in 0 .. Len(all)
        BY <3>2
      <4>2. f[m] \in Seq(E) /\ f[n] \in Seq(E) /\ all[n + 1] \in E /\ Starts(f[m], f[n])
        BY <1>2, <1>4, <2>2, <4>1
      <4>3. f[n + 1] = f[n] \/ f[n + 1] = Append(f[n], all[n + 1])
        BY <1>2, <4>1
      <4>4. Starts(f[m], Append(f[n], all[n + 1]))
        BY <4>2 DEF Starts
      <4>5. QED
        BY <4>2, <4>3, <4>4
    <3>3. QED
      BY <3>1, <3>2
  <2> HIDE DEF T
  <2>3. QED
    BY <2>1, <2>2, NatInduct
<1>6. QED
  BY <1>4, <1>5

LEMMA ListsAgree ==
  ASSUME NEW E, NEW f, NEW g, NEW s \in Seq(E), NEW t \in Seq(E), Starts(s, t),
         Lists(f, s, Len(s)), Lists(g, t, Len(t))
  PROVE  f[Len(s)] = g[Len(s)]
<1> DEFINE S == {n \in Nat : n \in 0 .. Len(s) => f[n] = g[n]}
<1>1. 0 \in S
  BY DEF Lists
<1>2. ASSUME NEW n \in Nat, n \in S
      PROVE  n + 1 \in S
  <2> SUFFICES ASSUME n + 1 \in 0 .. Len(s)
               PROVE  f[n + 1] = g[n + 1]
    OBVIOUS
  <2>1. n + 1 \in 1 .. Len(s) /\ n + 1 \in 1 .. Len(t) /\ n \in 0 .. Len(s)
    BY DEF Starts
  <2>2. \A i \in 1 .. n + 1 : s[i] = t[i]
    BY <2>1 DEF Starts
  <2>3. n + 1 \in 1 .. n + 1
    OBVIOUS
  <2>4. Skipped(s, n + 1) <=> Skipped(t, n + 1)
    BY <2>2, <2>3 DEF Skipped
  <2>5. f[n + 1] = IF Skipped(s, n + 1) THEN f[n] ELSE Append(f[n], s[n + 1])
    BY <2>1, ListsValue
  <2>6. g[n + 1] = IF Skipped(t, n + 1) THEN g[n] ELSE Append(g[n], t[n + 1])
    BY <2>1, ListsValue
  <2>7. QED
    BY <1>2, <2>1, <2>2, <2>3, <2>4, <2>5, <2>6
<1>3. \A n \in Nat : n \in S
  <2> HIDE DEF S
  <2>1. QED
    BY <1>1, <1>2, NatInduct
<1>4. QED
  BY <1>3

LEMMA ListedStarts ==
  ASSUME NEW E, NEW ps \in Seq(Seq(E)), NEW qs \in Seq(Seq(E)), Starts(ps, qs), Len(ps) # 0
  PROVE  Listed(ps) \in Seq(E) /\ Listed(qs) \in Seq(E) /\ Starts(Listed(ps), Listed(qs))
<1>1. PICK s, t : s = FlattenSeq(ps) /\ t = FlattenSeq(qs)
  OBVIOUS
<1>2. s \in Seq(E) /\ t \in Seq(E) /\ Starts(s, t)
  BY <1>1, FlattenStarts
<1>3. PICK f, g : f = ListedUpTo(s) /\ g = ListedUpTo(t)
  OBVIOUS
<1>4. Lists(f, s, Len(s)) /\ Lists(g, t, Len(t))
  BY <1>2, <1>3, ListedUpToLists
<1>5. /\ Len(s) \in 0 .. Len(s) /\ Len(s) \in 0 .. Len(t)
      /\ Len(t) \in Len(s) .. Len(t) /\ Len(s) \in Len(s) .. Len(s)
  BY <1>2 DEF Starts
<1>6. f[Len(s)] = g[Len(s)]
  BY <1>2, <1>4, ListsAgree
<1>7. g[Len(s)] \in Seq(E) /\ g[Len(t)] \in Seq(E) /\ Starts(g[Len(s)], g[Len(t)])
  BY <1>2, <1>4, <1>5, ListsGrow
<1>8. Listed(ps) = f[Len(s)] /\ Listed(qs) = g[Len(t)]
  BY <1>1, <1>3 DEF Listed
<1>9. QED
  BY <1>6, <1>7, <1>8

-----------------------------------------------------------------------------
(* What fat_read_dir finds in the buffer.                                  *)

Reads(f, m, k) ==
  f = [n \in 0 .. k |-> ReadInto(IF n = 0 THEN rootdir_buffer ELSE f[n - 1], m.dev, Word(m.rootdir_start + n))]

LEMMA ReadsExist ==
  ASSUME NEW m, NEW k \in Nat
  PROVE  \E f : Reads(f, m, k)
<1> DEFINE S == {n \in Nat : \E f : Reads(f, m, n)}
<1>1. 0 \in S
  <2>1. Reads([n \in 0 .. 0 |-> ReadInto(rootdir_buffer, m.dev, Word(m.rootdir_start + n))], m, 0)
    BY DEF Reads
  <2>2. QED
    BY <2>1
<1>2. ASSUME NEW j \in Nat, j \in S
      PROVE  j + 1 \in S
  <2>1. PICK f : Reads(f, m, j)
    BY <1>2
  <2>2. PICK more : more = ReadInto(f[j], m.dev, Word(m.rootdir_start + (j + 1)))
    OBVIOUS
  <2>3. PICK g : g = [n \in 0 .. j + 1 |-> IF n = j + 1 THEN more ELSE f[n]]
    OBVIOUS
  <2>4. \A n \in 0 .. j + 1 : n = j + 1 \/ (n \in 0 .. j /\ n # j + 1)
    OBVIOUS
  <2>5. \A n \in 0 .. j + 1 : n # 0 => n - 1 \in 0 .. j /\ n - 1 # j + 1 /\ n - 1 \in 0 .. j + 1
    OBVIOUS
  <2>6. \A n \in 0 .. j + 1 :
          g[n] = ReadInto(IF n = 0 THEN rootdir_buffer ELSE g[n - 1], m.dev, Word(m.rootdir_start + n))
    <3> TAKE n \in 0 .. j + 1
    <3>1. n # 0 => g[n - 1] = f[n - 1]
      BY <2>3, <2>5
    <3>2. CASE n = j + 1
      <4>1. g[n] = more /\ n - 1 = j /\ n # 0
        BY <2>3, <3>2
      <4>2. QED
        BY <2>2, <3>1, <3>2, <4>1
    <3>3. CASE n \in 0 .. j /\ n # j + 1
      <4>1. g[n] = f[n]
        BY <2>3, <3>3
      <4>2. f[n] = ReadInto(IF n = 0 THEN rootdir_buffer ELSE f[n - 1], m.dev, Word(m.rootdir_start + n))
        BY <2>1, <3>3 DEF Reads
      <4>3. QED
        BY <3>1, <4>1, <4>2
    <3>4. QED
      BY <2>4, <3>2, <3>3
  <2>7. Reads(g, m, j + 1)
    BY <2>3, <2>6 DEF Reads
  <2>8. QED
    BY <2>7
<1>3. \A n \in Nat : n \in S
  <2> HIDE DEF S
  <2>1. QED
    BY <1>1, <1>2, NatInduct
<1>4. QED
  BY <1>3

LEMMA PageOwn ==
  ASSUME NEW m, m.dev \in Devices, m.rootdir_start \in Nat,
         NEW k \in 1 .. DIR_PAGES, Reachable(m.dev, m.rootdir_start + k - 1)
  PROVE  Pages(m)[k - 1] = DirPage(m, k)
<1>1. DIR_PAGES - 1 \in Nat /\ k - 1 \in 0 .. DIR_PAGES - 1 /\ k - 1 \in Nat
  BY StorageAssumption
<1>2. PICK f : Reads(f, m, DIR_PAGES - 1)
  BY <1>1, ReadsExist
<1>3. Reads(Pages(m), m, DIR_PAGES - 1)
  BY <1>2 DEF Pages, Reads
<1>4. PICK n : n = k - 1
  OBVIOUS
<1>5. PICK buffer : buffer = IF n = 0 THEN rootdir_buffer ELSE Pages(m)[n - 1]
  OBVIOUS
<1>6. Pages(m)[n] = ReadInto(buffer, m.dev, Word(m.rootdir_start + n))
  BY <1>1, <1>3, <1>4, <1>5 DEF Reads
<1>7. m.rootdir_start + k - 1 = m.rootdir_start + n /\ m.rootdir_start + n \in Nat
  BY <1>1, <1>4
<1>8. ReadInto(buffer, m.dev, Word(m.rootdir_start + n)) = Own(m.dev, m.rootdir_start + n)
  BY <1>7, ReadReachable, ReachableFits
<1>9. QED
  BY <1>4, <1>6, <1>7, <1>8 DEF DirPage

(* The first k pages of the directory.                                     *)
OwnPages(m, k) == [i \in 1 .. k |-> DirPage(m, i).dir]

LEMMA UptoOwn ==
  ASSUME NEW m, m.dev \in Devices, m.rootdir_start \in Nat, NEW k \in 1 .. DIR_PAGES,
         \A j \in 1 .. k : Reachable(m.dev, m.rootdir_start + j - 1)
  PROVE  Upto(m, k) = OwnPages(m, k)
<1>1. \A i \in 1 .. k : Pages(m)[i - 1].dir = DirPage(m, i).dir
  <2> TAKE i \in 1 .. k
  <2>1. i \in 1 .. DIR_PAGES
    BY StorageAssumption
  <2>2. QED
    BY <2>1, PageOwn
<1>2. QED
  BY <1>1 DEF Upto, OwnPages

LEMMA OwnPagesOK ==
  ASSUME NEW m, m.dev \in Devices, m.rootdir_start \in Nat, NEW k \in Nat,
         \A j \in 1 .. k : Reachable(m.dev, m.rootdir_start + j - 1), NEW i \in 1 .. k
  PROVE  /\ OwnPages(m, k) \in Seq(Seq(DirEntries)) /\ Len(OwnPages(m, k)) = k
         /\ OwnPages(m, i) \in Seq(Seq(DirEntries)) /\ Len(OwnPages(m, i)) = i
         /\ Starts(OwnPages(m, i), OwnPages(m, k))
<1>1. \A j \in 1 .. k : DirPage(m, j).dir \in Seq(DirEntries)
  <2> TAKE j \in 1 .. k
  <2>1. m.dev.start + (m.rootdir_start + j - 1) \in DOMAIN Disk[m.dev.drive]
    BY DEF Reachable
  <2>2. m.dev.drive \in DOMAIN Disk
    BY DeviceOK
  <2>3. DirPage(m, j) \in Blocks
    BY <2>1, <2>2 DEF DirPage, Own, Blocks
  <2>4. QED
    BY <2>3, StorageAssumption DEF SectorOK
<1>2. \A j \in 1 .. i : j \in 1 .. k
  OBVIOUS
<1>3. OwnPages(m, k) \in Seq(Seq(DirEntries)) /\ Len(OwnPages(m, k)) = k
  BY <1>1 DEF OwnPages
<1>4. OwnPages(m, i) \in Seq(Seq(DirEntries)) /\ Len(OwnPages(m, i)) = i
  BY <1>1, <1>2 DEF OwnPages
<1>5. \A j \in 1 .. i : OwnPages(m, i)[j] = OwnPages(m, k)[j]
  BY <1>2 DEF OwnPages
<1>6. QED
  BY <1>3, <1>4, <1>5 DEF Starts

LEMMA LastPageOK ==
  ASSUME NEW m, LastPages(m) # {}
  PROVE  LastPage(m) \in LastPages(m) /\ \A j \in LastPages(m) : LastPage(m) <= j
<1>1. LastPages(m) \subseteq Nat
  BY StorageAssumption DEF LastPages
<1>2. \E k \in LastPages(m) : \A j \in LastPages(m) : k <= j
  BY <1>1, NatMin
<1>3. QED
  BY <1>2 DEF LastPage

(* The entry at a position that fat_read_dir finds, or that there is none, *)
(* is what the directory says.                                             *)
LEMMA EntryFound ==
  ASSUME NEW m \in FileSystem, LastPages(m) # {}, NEW p \in Nat
  PROVE  LET entries == Listed(Upto(m, Asked(m, p))) IN
         /\ Directory(m) \in Seq(DirEntries)
         /\ p < Len(entries) <=> p < Len(Directory(m))
         /\ p < Len(entries) => entries[p + 1] = Directory(m)[p + 1]
<1>1. PICK last : last = LastPage(m)
  OBVIOUS
<1>2. /\ last \in 1 .. DIR_PAGES /\ Ends(DirPage(m, last))
      /\ \A j \in 1 .. last : Reachable(m.dev, m.rootdir_start + j - 1)
  BY <1>1, LastPageOK DEF LastPages
<1>3. m.dev \in Devices /\ m.rootdir_start \in Nat /\ DIR_PAGES \in Nat
  BY StorageAssumption DEF FileSystem
<1>4. PICK stops : stops = {k \in 1 .. DIR_PAGES : Len(Listed(Upto(m, k))) > p \/ Ends(Pages(m)[k - 1])}
  OBVIOUS
<1>5. last \in stops
  <2>1. last \in 1 .. last
    BY <1>2, <1>3
  <2>2. Pages(m)[last - 1] = DirPage(m, last)
    BY <1>2, <1>3, <2>1, PageOwn
  <2>3. QED
    BY <1>2, <1>4, <2>2
<1>6. PICK k \in stops : \A j \in stops : k <= j
  <2>1. stops \subseteq Nat
    BY <1>3, <1>4
  <2>2. QED
    BY <1>5, <2>1, NatMin
<1>7. PICK pages : pages = Asked(m, p)
  OBVIOUS
<1>8. pages \in stops /\ \A j \in stops : pages <= j
  <2>1. pages = IF stops = {} THEN DIR_PAGES ELSE CHOOSE i \in stops : \A j \in stops : i <= j
    BY <1>4, <1>7 DEF Asked
  <2>2. QED
    BY <1>6, <2>1
<1>9. pages \in 1 .. last /\ pages \in 1 .. DIR_PAGES
  BY <1>2, <1>3, <1>4, <1>5, <1>8
<1>10. \A j \in 1 .. pages : j \in 1 .. last
  BY <1>2, <1>3, <1>9
<1>11. Upto(m, pages) = OwnPages(m, pages)
  BY <1>2, <1>3, <1>9, <1>10, UptoOwn
<1>12. PICK s, d : s = Listed(OwnPages(m, pages)) /\ d = Listed(OwnPages(m, last))
  OBVIOUS
<1>13. s \in Seq(DirEntries) /\ d \in Seq(DirEntries) /\ Starts(s, d)
  <2>1. last \in Nat
    BY <1>2, <1>3
  <2>2. /\ OwnPages(m, pages) \in Seq(Seq(DirEntries)) /\ OwnPages(m, last) \in Seq(Seq(DirEntries))
        /\ Len(OwnPages(m, pages)) # 0 /\ Starts(OwnPages(m, pages), OwnPages(m, last))
    BY <1>2, <1>3, <1>9, <2>1, OwnPagesOK
  <2>3. QED
    BY <1>12, <2>2, ListedStarts
<1>14. d = Directory(m)
  BY <1>1, <1>12 DEF Directory, OwnPages
<1>15. Len(s) > p \/ s = d
  <2>1. Len(Listed(Upto(m, pages))) > p \/ Ends(Pages(m)[pages - 1])
    BY <1>4, <1>8
  <2>2. ASSUME Ends(Pages(m)[pages - 1])
        PROVE  pages = last
    <3>1. pages \in 1 .. pages
      BY <1>9
    <3>2. Pages(m)[pages - 1] = DirPage(m, pages)
      BY <1>2, <1>3, <1>9, PageOwn
    <3>3. pages \in LastPages(m)
      BY <1>2, <1>9, <1>10, <2>2, <3>2 DEF LastPages
    <3>4. last <= pages
      BY <1>1, <3>3, LastPageOK
    <3>5. QED
      BY <1>2, <1>3, <1>9, <3>4
  <2>3. QED
    BY <1>11, <1>12, <2>1, <2>2
<1>16. /\ p < Len(s) <=> p < Len(d)
       /\ p < Len(s) => s[p + 1] = d[p + 1]
  BY <1>13, <1>15 DEF Starts
<1>17. QED
  BY <1>7, <1>11, <1>12, <1>13, <1>14, <1>16

File(S) == [mounted : Nat, file_id : Clusters \cup {0}, position : Nat, got : S]

(* A call moves the position, and adds the entry it has found.             *)
LEMMA SubSeqMore ==
  ASSUME NEW E, NEW d \in Seq(E), NEW p \in Nat, p < Len(d)
  PROVE  SubSeq(d, 1, p + 1) = Append(SubSeq(d, 1, p), d[p + 1])
OBVIOUS

LEMMA GotMore ==
  ASSUME NEW m \in FileSystem, LastPages(m) # {}, NEW S, NEW old \in File(S), GotInOrder(m, old),
         old.file_id = 0, NEW new, new.position = old.position + 1, new.file_id = 0,
         LET entries == Listed(Upto(m, Asked(m, old.position)))
             found == old.position < Len(entries)
         IN  new.got = IF found THEN Append(old.got, entries[old.position + 1]) ELSE old.got
  PROVE  GotInOrder(m, new)
<1>1. PICK d, p : d = Directory(m) /\ p = old.position
  OBVIOUS
<1>2. p \in Nat
  BY <1>1 DEF File
<1>3. d \in Seq(DirEntries) /\ Len(d) \in Nat
  BY <1>1, <1>2, EntryFound
<1>4. new.got = IF p < Len(d) THEN Append(old.got, d[p + 1]) ELSE old.got
  BY <1>1, <1>2, EntryFound
<1>5. old.got = SubSeq(d, 1, IF p < Len(d) THEN p ELSE Len(d))
  BY <1>1 DEF GotInOrder
<1>6. new.got = SubSeq(d, 1, IF p + 1 < Len(d) THEN p + 1 ELSE Len(d))
  <2>1. CASE p < Len(d)
    <3>1. new.got = SubSeq(d, 1, p + 1)
      BY <1>2, <1>3, <1>4, <1>5, <2>1, SubSeqMore
    <3>2. p + 1 < Len(d) \/ p + 1 = Len(d)
      BY <1>2, <1>3, <2>1
    <3>3. QED
      BY <3>1, <3>2
  <2>2. CASE ~(p < Len(d))
    <3>1. ~(p + 1 < Len(d))
      BY <1>2, <1>3, <2>2
    <3>2. QED
      BY <1>4, <1>5, <2>2, <3>1
  <2>3. QED
    BY <2>1, <2>2
<1>7. QED
  BY <1>1, <1>6 DEF GotInOrder

-----------------------------------------------------------------------------
(* The invariant.                                                          *)

StorageIInv == StorageInv /\ \E S : files \in Seq(File(S))

LEMMA StorageInitInv == Init => StorageIInv
<1> SUFFICES ASSUME Init
             PROVE  StorageIInv
  OBVIOUS
<1>1. boot_block \in Blocks
  BY DEF Init, Blocks
<1>2. mounts \in Seq(FileSystem) /\ DOMAIN mounts = {} /\ DOMAIN files = {}
  BY DEF Init
<1>3. files \in Seq(File({}))
  BY DEF Init
<1>4. SectorsStayInside /\ GeometryIsOwn /\ EntriesInOrder
  BY <1>2 DEF Init, SectorsStayInside, GeometryIsOwn, EntriesInOrder
<1>5. QED
  BY <1>1, <1>2, <1>3, <1>4 DEF StorageIInv, StorageInv

(* The sectors that a step has asked for.                                  *)
LEMMA TouchedInside ==
  ASSUME NEW dev \in Devices, NEW blocks, blocks \subseteq 0 .. WORD - 1, touched' = Sectors(dev, blocks)
  PROVE  SectorsStayInside'
BY SectorsInside DEF SectorsStayInside, SectorInside

LEMMA NothingTouched ==
  ASSUME touched' = {}
  PROVE  SectorsStayInside'
BY DEF SectorsStayInside

(* A file system that is mounted prints its table and has its geometry.    *)
LEMMA MountGood ==
  ASSUME NEW dev \in Devices, NEW boot \in Blocks, boot.bytes_per_sector = 512, boot.sectors_per_fat # 0,
         Reachable(dev, 0) => boot = Own(dev, 0)
  PROVE  LET m == Looked(Described(dev, boot))
             own == Described(dev, Own(dev, 0)) IN
         /\ m \in FileSystem /\ m.dev = dev
         /\ \A c \in 0 .. LOOK - 1 : ShownOK(m, c)
         /\ Reachable(m.dev, 0) =>
              /\ m.fat_start = own.fat_start /\ m.rootdir_start = own.rootdir_start
              /\ m.sectors_per_fat = own.sectors_per_fat
<1>1. PICK d, m : d = Described(dev, boot) /\ m = Looked(d)
  OBVIOUS
<1>2. LookedAt(d, m, LOOK)
  BY <1>1, DescribedOK, TableLookedAt
<1>3. d.dev = dev
  BY <1>1 DEF Described
<1>4. ASSUME Reachable(dev, 0)
      PROVE  d = Described(dev, Own(dev, 0))
  BY <1>1, <1>4
<1>5. QED
  BY <1>1, <1>2, <1>3, <1>4 DEF LookedAt, SameGeometry

LEMMA MountStep ==
  ASSUME StorageIInv, NEW dev \in Devices, fat_fs_init(dev)
  PROVE  StorageIInv'
<1>1. PICK boot, m : boot = ReadInto(boot_block, dev, 0) /\ m = Described(dev, boot)
  OBVIOUS
<1>2. boot \in Blocks /\ (Reachable(dev, 0) => boot = Own(dev, 0))
  BY <1>1, ReadBlock, ReadReachable DEF StorageIInv, StorageInv
<1>3. boot_block' = boot /\ UNCHANGED <<rootdir_buffer, files>>
  BY <1>1 DEF fat_fs_init
<1>0. m.sectors_per_fat = boot.sectors_per_fat /\ m.fat_start \in 0 .. WORD - 1 /\ 0 \in 0 .. WORD - 1
  <2>1. boot.reserved_sector \in Nat /\ boot.number_hidden_sectors \in Nat
    BY <1>2, StorageAssumption DEF SectorOK
  <2>2. Word(boot.reserved_sector + boot.number_hidden_sectors) \in 0 .. WORD - 1
    BY <2>1, WordRange
  <2>3. /\ m.fat_start = Word(boot.reserved_sector + boot.number_hidden_sectors)
        /\ m.sectors_per_fat = boot.sectors_per_fat
    BY <1>1 DEF Described
  <2>4. QED
    BY <2>2, <2>3, StorageAssumption
<1>4. CASE boot.bytes_per_sector = 512 /\ boot.root_dir_entries # 0 /\ m.sectors_per_fat # 0
  <2>1. PICK new : new = Looked(m)
    OBVIOUS
  <2>2. /\ mounts' = Append(mounts, new)
        /\ touched' = Sectors(dev, {0, m.fat_start, Word(m.rootdir_start + 1)} \cup
                         {Word(m.fat_start + (c \div m.sectors_per_fat)) : c \in 0 .. LOOK - 1})
    BY <1>1, <1>4, <2>1 DEF fat_fs_init
  <2>3. /\ new \in FileSystem
        /\ \A c \in 0 .. LOOK - 1 : ShownOK(new, c)
        /\ Reachable(new.dev, 0) =>
             /\ new.fat_start = Described(new.dev, Own(new.dev, 0)).fat_start
             /\ new.rootdir_start = Described(new.dev, Own(new.dev, 0)).rootdir_start
             /\ new.sectors_per_fat = Described(new.dev, Own(new.dev, 0)).sectors_per_fat
    BY <1>0, <1>1, <1>2, <1>4, <2>1, MountGood
  <2>4. /\ mounts \in Seq(FileSystem)
        /\ mounts' \in Seq(FileSystem)
        /\ \A i \in DOMAIN mounts' : mounts'[i] = new \/ (i \in DOMAIN mounts /\ mounts'[i] = mounts[i])
        /\ DOMAIN mounts \subseteq DOMAIN mounts'
    BY <2>2, <2>3 DEF StorageIInv, StorageInv
  <2>5. \A i \in DOMAIN mounts' : \A c \in 0 .. LOOK - 1 : ShownOK(mounts'[i], c)
    BY <2>3, <2>4 DEF StorageIInv, StorageInv
  <2>6. GeometryIsOwn'
    BY <2>3, <2>4 DEF StorageIInv, StorageInv, GeometryIsOwn
  <2>7. \A i \in DOMAIN mounts : mounts'[i] = mounts[i]
    BY <2>2, <2>3 DEF StorageIInv, StorageInv
  <2>8. EntriesInOrder'
    BY <1>3, <2>4, <2>7 DEF StorageIInv, StorageInv, EntriesInOrder
  <2>9. m \in FileSystem
    <3>1. boot.bytes_per_sector = 512 /\ boot.sectors_per_fat # 0
      BY <1>0, <1>4
    <3>2. LookedAt(m, m, 0)
      BY <1>1, <1>2, <3>1, DescribedOK
    <3>3. QED
      BY <3>2 DEF LookedAt
  <2>10. m.fat_start \in Nat /\ m.rootdir_start \in Nat /\ Word(m.rootdir_start + 1) \in 0 .. WORD - 1
    <3>1. m.fat_start \in Nat /\ m.rootdir_start \in Nat
      BY <2>9, StorageAssumption DEF FileSystem
    <3>2. QED
      BY <3>1, WordRange
  <2>11. \A c \in 0 .. LOOK - 1 : Word(m.fat_start + (c \div m.sectors_per_fat)) \in 0 .. WORD - 1
    <3> TAKE c \in 0 .. LOOK - 1
    <3>1. m.sectors_per_fat \in TableSizes /\ c \in Nat /\ c < LOOK
      BY <2>9, StorageAssumption DEF FileSystem, TableSizes
    <3>2. c \div m.sectors_per_fat \in Nat
      BY <3>1, OnPage
    <3>3. m.fat_start + (c \div m.sectors_per_fat) \in Nat
      BY <2>10, <3>2
    <3>4. QED
      BY <3>3, WordRange
  <2>12. SectorsStayInside'
    <3>1. PICK blocks : blocks = {0, m.fat_start, Word(m.rootdir_start + 1)} \cup
                          {Word(m.fat_start + (c \div m.sectors_per_fat)) : c \in 0 .. LOOK - 1}
      OBVIOUS
    <3>2. blocks \subseteq 0 .. WORD - 1
      BY <1>0, <2>10, <2>11, <3>1
    <3>3. QED
      BY <2>2, <3>1, <3>2, TouchedInside
  <2>13. QED
    BY <1>2, <1>3, <2>4, <2>5, <2>6, <2>12, <2>8 DEF StorageIInv, StorageInv
<1>5. CASE ~(boot.bytes_per_sector = 512 /\ boot.root_dir_entries # 0 /\ m.sectors_per_fat # 0)
  <2>1. /\ touched' = Sectors(dev, {0, m.fat_start}) \/ touched' = Sectors(dev, {0})
        /\ UNCHANGED mounts
    BY <1>1, <1>5 DEF fat_fs_init
  <2>2. SectorsStayInside'
    BY <1>0, <2>1, TouchedInside
  <2>3. GeometryIsOwn' /\ EntriesInOrder'
    BY <1>3, <2>1 DEF StorageIInv, StorageInv, GeometryIsOwn, EntriesInOrder
  <2>4. QED
    BY <1>2, <1>3, <2>1, <2>2, <2>3 DEF StorageIInv, StorageInv
<1>6. QED
  BY <1>4, <1>5

LEMMA MoreFiles ==
  ASSUME NEW S, NEW T, S \subseteq T, NEW fs \in Seq(File(S))
  PROVE  fs \in Seq(File(T))
<1>1. \A file \in File(S) : file \in File(T)
  BY DEF File
<1>2. \A i \in 1 .. Len(fs) : fs[i] \in File(T)
  BY <1>1
<1>3. QED
  BY <1>2

LEMMA OpenStep ==
  ASSUME StorageIInv, NEW m \in DOMAIN mounts, NEW id \in Clusters \cup {0}, Open(m, id)
  PROVE  StorageIInv'
<1>1. PICK file : file = [mounted |-> m, file_id |-> id, position |-> 0, got |-> <<>>]
  OBVIOUS
<1>2. files' = Append(files, file) /\ touched' = {} /\ UNCHANGED <<boot_block, rootdir_buffer, mounts>>
  BY <1>1 DEF Open
<1>3. PICK S : files \in Seq(File(S))
  BY DEF StorageIInv
<1>4. files \in Seq(File(S \cup {<<>>})) /\ files' \in Seq(File(S \cup {<<>>}))
  <2>1. PICK T : T = S \cup {<<>>}
    OBVIOUS
  <2>2. files \in Seq(File(T))
    BY <1>3, <2>1, MoreFiles
  <2>3. m \in Nat
    BY DEF StorageIInv, StorageInv
  <2>4. file \in File(T)
    BY <1>1, <2>1, <2>3 DEF File
  <2>5. QED
    BY <1>2, <2>1, <2>2, <2>4
<1>5. \A f \in DOMAIN files' : files'[f] = file \/ (f \in DOMAIN files /\ files'[f] = files[f])
  BY <1>2, <1>4
<1>6. \A f \in DOMAIN files' : files'[f].mounted \in DOMAIN mounts
  BY <1>1, <1>5 DEF StorageIInv, StorageInv
<1>7. SectorsStayInside' /\ GeometryIsOwn'
  BY <1>2, NothingTouched DEF StorageIInv, StorageInv, GeometryIsOwn
<1>8. EntriesInOrder'
  <2>1. ASSUME NEW fs \in FileSystem, LastPages(fs) # {}
        PROVE  GotInOrder(fs, file)
    <3>1. PICK d : d = Directory(fs)
      OBVIOUS
    <3>2. d \in Seq(DirEntries)
      BY <2>1, <3>1, EntryFound
    <3>3. SubSeq(d, 1, 0) = <<>> /\ (IF 0 < Len(d) THEN 0 ELSE Len(d)) = 0
      BY <3>2
    <3>4. QED
      BY <1>1, <3>1, <3>3 DEF GotInOrder
  <2>2. \A f \in DOMAIN files' : mounts[files'[f].mounted] \in FileSystem
    BY <1>6 DEF StorageIInv, StorageInv
  <2>3. \A f \in DOMAIN files' :
          LastPages(mounts[files'[f].mounted]) # {} => GotInOrder(mounts[files'[f].mounted], files'[f])
    BY <1>5, <2>1, <2>2 DEF StorageIInv, StorageInv, EntriesInOrder
  <2>4. QED
    BY <1>2, <2>3 DEF EntriesInOrder
<1>9. QED
  BY <1>2, <1>4, <1>6, <1>7, <1>8 DEF StorageIInv, StorageInv

LEMMA AskedOK ==
  ASSUME NEW m, NEW p
  PROVE  Asked(m, p) \in Nat
<1>1. PICK stops : stops = {k \in 1 .. DIR_PAGES : Len(Listed(Upto(m, k))) > p \/ Ends(Pages(m)[k - 1])}
  OBVIOUS
<1>2. Asked(m, p) = IF stops = {} THEN DIR_PAGES ELSE CHOOSE k \in stops : \A j \in stops : k <= j
  BY <1>1 DEF Asked
<1>3. stops \subseteq Nat /\ DIR_PAGES \in Nat
  BY <1>1, StorageAssumption
<1>4. CASE stops = {}
  BY <1>2, <1>3, <1>4
<1>5. CASE stops # {}
  <2>1. \E k \in stops : \A j \in stops : k <= j
    BY <1>3, <1>5, NatMin
  <2>2. Asked(m, p) \in stops
    BY <1>2, <1>5, <2>1
  <2>3. QED
    BY <1>3, <2>2
<1>6. QED
  BY <1>4, <1>5

LEMMA ReadDirStep ==
  ASSUME StorageIInv, NEW f \in DOMAIN files, fat_read_dir(f)
  PROVE  StorageIInv'
<1>1. PICK m, pages : m = mounts[files[f].mounted] /\ pages = Asked(m, files[f].position)
  OBVIOUS
<1>2. m \in FileSystem /\ pages \in Nat
  BY <1>1, AskedOK DEF StorageIInv, StorageInv
<1>3. \/ touched' = {}
      \/ touched' = Sectors(m.dev, {Word(m.rootdir_start + k) : k \in 0 .. pages - 1})
  BY <1>1 DEF fat_read_dir
<1>4. SectorsStayInside'
  <2>1. PICK blocks : blocks = {Word(m.rootdir_start + k) : k \in 0 .. pages - 1}
    OBVIOUS
  <2>2. m.dev \in Devices /\ blocks \subseteq 0 .. WORD - 1
    BY <1>2, <2>1, StorageAssumption, WordRange DEF FileSystem
  <2>3. QED
    BY <1>3, <2>1, <2>2, TouchedInside, NothingTouched
<1>5. /\ UNCHANGED <<boot_block, mounts>>
      /\ DOMAIN files' = DOMAIN files
      /\ \A g \in DOMAIN files : files'[g] = files[g] \/ g = f
  BY DEF fat_read_dir
<1>6. PICK S : files \in Seq(File(S))
  BY DEF StorageIInv
<1>7. PICK old, new : old = files[f] /\ new = files'[f]
  OBVIOUS
<1>8. PICK entries : entries = Listed(Upto(m, pages))
  OBVIOUS
<1>9. PICK got : got = IF old.position < Len(entries) THEN Append(old.got, entries[old.position + 1]) ELSE old.got
  OBVIOUS
<1>10. PICK T : T = S \cup {got}
  OBVIOUS
<1>11. files \in Seq(File(T)) /\ f \in 1 .. Len(files) /\ old \in File(T)
  BY <1>6, <1>7, <1>10, MoreFiles
<1>12. files' = [files EXCEPT ![f] = new]
  BY <1>7, <1>11 DEF fat_read_dir
<1>13. \/ old.file_id # 0 /\ new = [old EXCEPT !.position = old.position + 1]
       \/ old.file_id = 0 /\ new = [old EXCEPT !.position = old.position + 1, !.got = got]
  <2>1. CASE old.file_id # 0
    <3>1. files' = [files EXCEPT ![f].position = @ + 1]
      BY <1>7, <2>1 DEF fat_read_dir
    <3>2. QED
      BY <1>7, <1>11, <2>1, <3>1
  <2>2. CASE old.file_id = 0
    <3>1. files' = [files EXCEPT ![f].position = @ + 1,
                     ![f].got = IF old.position < Len(entries) THEN Append(@, entries[old.position + 1]) ELSE @]
      BY <1>1, <1>7, <1>8, <2>2 DEF fat_read_dir
    <3>2. files' = [files EXCEPT ![f].position = @ + 1, ![f].got = got]
      BY <1>7, <1>9, <1>11, <3>1
    <3>3. QED
      BY <1>7, <1>11, <2>2, <3>2
  <2>3. QED
    BY <2>1, <2>2
<1>14. /\ new \in File(T) /\ new.mounted = old.mounted /\ new.position = old.position + 1
       /\ new.file_id = old.file_id
       /\ new.got = IF old.file_id = 0 THEN got ELSE old.got
  <2>1. old.position + 1 \in Nat /\ got \in T
    BY <1>10, <1>11 DEF File
  <2>2. CASE old.file_id # 0 /\ new = [old EXCEPT !.position = old.position + 1]
    BY <1>11, <2>1, <2>2 DEF File
  <2>3. CASE old.file_id = 0 /\ new = [old EXCEPT !.position = old.position + 1, !.got = got]
    BY <1>11, <2>1, <2>3 DEF File
  <2>4. QED
    BY <1>13, <2>2, <2>3
<1>15. files' \in Seq(File(T))
  BY <1>11, <1>12, <1>14
<1>16. GeometryIsOwn'
  BY <1>5 DEF StorageIInv, StorageInv, GeometryIsOwn
<1>17. ASSUME LastPages(m) # {}
       PROVE  GotInOrder(m, new)
  <2>1. GotInOrder(m, old)
    BY <1>1, <1>7, <1>17 DEF StorageIInv, StorageInv, EntriesInOrder
  <2>2. CASE old.file_id # 0
    BY <1>14, <2>1, <2>2 DEF GotInOrder
  <2>3. CASE old.file_id = 0
    <3>1. entries = Listed(Upto(m, Asked(m, old.position)))
      BY <1>1, <1>7, <1>8
    <3>2. QED
      BY <1>2, <1>9, <1>11, <1>14, <1>17, <2>1, <2>3, <3>1, GotMore
  <2>4. QED
    BY <2>2, <2>3
<1>18. EntriesInOrder'
  <2>1. \A g \in DOMAIN files : files'[g] = files[g] \/ g = f
    BY <1>5
  <2>2. mounts[files'[f].mounted] = m /\ files'[f] = new
    BY <1>1, <1>7, <1>14
  <2>3. QED
    BY <1>5, <1>17, <2>1, <2>2 DEF StorageIInv, StorageInv, EntriesInOrder
<1>19. \A g \in DOMAIN files' : files'[g].mounted \in DOMAIN mounts
  BY <1>5, <1>7, <1>14 DEF StorageIInv, StorageInv
<1>20. QED
  BY <1>4, <1>5, <1>15, <1>16, <1>18, <1>19 DEF StorageIInv, StorageInv

LEMMA StorageStepInv ==
  ASSUME StorageIInv, [Next]_vars
  PROVE  StorageIInv'
<1>1. CASE UNCHANGED vars
  BY <1>1 DEF vars, StorageIInv, StorageInv, GeometryIsOwn, SectorsStayInside, EntriesInOrder
<1>2. CASE \E dev \in Devices : fat_fs_init(dev)
  BY <1>2, MountStep
<1>3. CASE \E m \in DOMAIN mounts, id \in Clusters \cup {0} : Open(m, id)
  BY <1>3, OpenStep
<1>4. CASE \E f \in DOMAIN files : fat_read_dir(f)
  BY <1>4, ReadDirStep
<1>5. QED
  BY <1>1, <1>2, <1>3, <1>4 DEF Next

LEMMA StorageInvariant == Spec => []StorageIInv
<1>1. StorageIInv /\ [Next]_vars => StorageIInv'
  BY StorageStepInv
<1>2. QED
  BY <1>1, StorageInitInv, PTL DEF Spec
(* No operation makes a drive hand over a sector outside the partition it  *)
(* was asked of, whatever the boot sectors claim, but for the one sector   *)
(* before it, and that one only when block WORD - 1 was asked, as long as  *)
(* the sector number fits the register and the table entry does not run    *)
(* past the last sector a drive can number.                                *)
THEOREM PartitionsAreApart == Spec => []SectorsStayInside
<1>1. StorageIInv => SectorsStayInside
  BY DEF StorageIInv, StorageInv
<1>2. QED
  BY <1>1, StorageInvariant, PTL

(* A file system has the geometry of its own boot sector, although all     *)
(* mounts read theirs into one buffer, if that sector can be read.         *)
THEOREM MountsAreOwn == Spec => []GeometryIsOwn
<1>1. StorageIInv => GeometryIsOwn
  BY DEF StorageIInv, StorageInv
<1>2. QED
  BY <1>1, StorageInvariant, PTL

(* The entries of the allocation table that a mount prints are those of    *)
(* its own table, through a cache of one page that may hold what an        *)
(* earlier failed read has left.                                           *)
THEOREM TablesAreRead == Spec => []EntriesAreTables
<1>1. StorageIInv => EntriesAreTables
  BY DEF StorageIInv, StorageInv, EntriesAreTables, ShownOK, Table
<1>2. QED
  BY <1>1, StorageInvariant, PTL

(* Successive reads of a directory list each visible entry of the mount's  *)
(* own directory once and in order, whatever other files and mounts use    *)
(* the shared buffer in between.                                           *)
THEOREM DirectoriesAreRead == Spec => []EntriesInOrder
<1>1. StorageIInv => EntriesInOrder
  BY DEF StorageIInv, StorageInv
<1>2. QED
  BY <1>1, StorageInvariant, PTL
==============================================================================
