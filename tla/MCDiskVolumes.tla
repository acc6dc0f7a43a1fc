--------------------------- MODULE MCDiskVolumes ---------------------------
(***************************************************************************)
(* Small instances of DiskVolumes: discs of eight sectors of four bytes.   *)
(***************************************************************************)
EXTENDS DiskVolumes

Chs(c, h, s) == [Cylinders |-> c, Heads |-> h, Sectors |-> s]

Entry(type, lba, n, start, end) ==
  [Type |-> type, Lba |-> lba, NumSectors |-> n, ChsStart |-> start, ChsEnd |-> end]

Empty == Entry("None", 0, 0, Chs(0, 0, 0), Chs(0, 0, 0))

ByLba(type, lba, n) == Entry(type, lba, n, Chs(0, 0, 0), Chs(0, 0, 0))

ByChs(type, first, last) == Entry(type, 0, 0, Chs(0, 0, first + 1), Chs(0, 0, last + 1))

NoHeader == [Sound |-> FALSE, PartitionCrc32 |-> <<>>]

Disc(logical, signature, entries, primary, backup, array) ==
  [LogicalPartition |-> logical, NumSectors |-> 8,
   Mbr |-> [Signature |-> signature, Entry |-> entries],
   Primary |-> primary, Backup |-> backup, Array |-> array]

Unpartitioned == Disc(FALSE, FALSE, <<Empty, Empty>>, NoHeader, NoHeader, <<>>)

MbrDisc(entries) == Disc(FALSE, TRUE, entries, NoHeader, NoHeader, <<>>)

TwoPartitions == MbrDisc(<<ByChs("Fat", 1, 3), ByLba("Ntfs", 5, 2)>>)

\* CHS addresses without a valid sector number, which no MBR should have.
BadChs == MbrDisc(<<ByLba("Fat", 0, 3), Empty>>)

TooLarge == MbrDisc(<<ByLba("Fat", 1, 20), Empty>>)

\* A partition with the boot sector of a FAT filesystem.
FatPartition == Disc(TRUE, TRUE, <<ByLba("Fat", 1, 2), Empty>>, NoHeader, NoHeader, <<>>)

Cell(type, first, last) == [Type |-> type, StartingLba |-> first, EndingLba |-> last]

NoCell == Cell("None", 0, 0)

GptHeader(sound, own, other, first, n, size, crc) ==
  [Sound |-> sound, HeaderLba |-> own, BackupLba |-> other, PartitionLba |-> first,
   NumPartitions |-> n, PartitionEntrySize |-> size, PartitionCrc32 |-> crc]

GptDisc(soundPrimary, n, size, array, crc) ==
  Disc(FALSE, TRUE, <<ByLba("Gpt", 1, 7), Empty>>,
       GptHeader(soundPrimary, 1, 7, 2, n, size, crc), GptHeader(TRUE, 7, 1, 6, n, size, crc), array)

ThreeCells == <<Cell("Fat", 3, 3), NoCell, Cell("BasicData", 4, 5)>>

Gpt == GptDisc(TRUE, 3, 1, ThreeCells, ThreeCells)

OtherCells == <<Cell("Fat", 3, 5), NoCell, NoCell>>

BadArray == GptDisc(TRUE, 3, 1, ThreeCells, OtherCells)

BadPrimary == GptDisc(FALSE, 3, 1, ThreeCells, ThreeCells)

\* Two entries of twice the usual size.
WideCells == <<Cell("Fat", 3, 3), NoCell, Cell("Fat", 4, 5), NoCell>>

WideEntries == GptDisc(TRUE, 2, 2, WideCells, WideCells)

\* Three entries of three times the usual size, of which all but one are lost when the size
\* wraps.
WrappingArray == GptDisc(TRUE, 3, 3, WideCells, <<Cell("Fat", 3, 3)>>)

MCDiscs ==
  {Unpartitioned, TwoPartitions, BadChs, TooLarge, FatPartition, Gpt,
   BadArray, BadPrimary, WideEntries, WrappingArray}

MCBeyond == {NoCell, Cell("Fat", 6, 6)}
=============================================================================
