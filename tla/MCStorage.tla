------------------------------ MODULE MCStorage ------------------------------
EXTENDS Storage

Entry(name, cluster) == [name |-> name, hidden |-> FALSE, volume_label |-> FALSE, first_cluster |-> cluster]
Hidden(name) == [Entry(name, 5) EXCEPT !.hidden = TRUE]
Label(name) == [Entry(name, 0) EXCEPT !.volume_label = TRUE]
End == Entry("", 0)

MCZero ==
  [signature |-> FALSE, pe |-> <<>>, bytes_per_sector |-> 0, reserved_sector |-> 0,
   number_hidden_sectors |-> 0, number_of_fats |-> 0, root_dir_entries |-> 0, sectors_per_fat |-> 0,
   fat |-> <<0, 0>>, dir |-> <<End, End>>]
MCJunk == [MCZero EXCEPT !.fat = <<7, 7>>, !.dir = <<Entry("?", 9), Entry("?", 9)>>]

Fat(a, b) == [MCJunk EXCEPT !.fat = <<a, b>>]
Dir(a, b) == [MCJunk EXCEPT !.dir = <<a, b>>]
Boot(hidden, fats, spf) ==
  [MCJunk EXCEPT !.signature = TRUE, !.bytes_per_sector = 512, !.reserved_sector = 1,
     !.number_hidden_sectors = hidden, !.number_of_fats = fats, !.sectors_per_fat = spf,
     !.root_dir_entries = 4]
Part(start, len) == [lba_sector |-> start, lba_len |-> len]

(* The first drive has four partitions: one whose directory ends on its    *)
(* second page, one of a single block, one whose table has as many sectors *)
(* as a sector has entries, and one across the limit of the register.      *)
Drive0 ==
  <<[MCJunk EXCEPT !.signature = TRUE, !.pe = <<Part(1, 7), Part(8, 1), Part(9, 8), Part(17, 9)>>],
    Boot(0, 1, 1), Fat(1, 2), Dir(Entry("A", 2), Label("L")), Dir(Entry("B", 0), End), MCJunk, MCJunk, MCZero,
    MCJunk,
    Boot(0, 1, 2), Fat(3, 4), Fat(5, 6), Dir(Hidden("H"), Entry("C", 3)), Dir(Entry("D", 4), Entry("E", 4)),
      Dir(End, End), MCZero, MCJunk,
    Boot(0, 2, 1), Fat(8, 9), Fat(8, 9), Dir(Entry("F", 2), Entry("G", 3)), Dir(Entry("I", 0), End),
      MCJunk, MCJunk, MCZero, MCZero>>
(* The second is one file system without a partition table: its boot code  *)
(* is taken for one, with a file system whose boot sector puts its table   *)
(* at the block before the partition, one whose table has no sectors, and  *)
(* a used entry of no sectors at all.                                      *)
Drive1 ==
  <<[Boot(0, 1, 1) EXCEPT !.pe = <<Part(3, 4), Part(7, 2), Part(0, 0)>>],
    Fat(2, 1), Dir(Entry("J", 2), End),
    Boot(WORD - 2, 1, 1), Dir(Entry("K", 2), End), MCZero, MCJunk,
    Boot(0, 1, 0), MCJunk>>

FromZero(s) == [n \in 0 .. Len(s) - 1 |-> s[n + 1]]
MCDisk == [d \in 0 .. 1 |-> FromZero(IF d = 0 THEN Drive0 ELSE Drive1)]
==============================================================================
