---------------------------- MODULE PartitionMap ----------------------------
(***************************************************************************)
(* The partition maps that Fs.c reads: what it makes of the entries of an  *)
(* MBR, which headers it accepts, and the volumes it adds for them.        *)
(*                                                                         *)
(* A checksum is represented by the data it is the checksum of, and Sound  *)
(* stands for the checks of a header that do not concern its numbers: the  *)
(* signature, the revision, the sizes, its checksum, the zeroes after it.  *)
(***************************************************************************)
EXTENDS Integers, Sequences

CONSTANTS
  Word,        \* One more than the largest uint64.
  ArrayLimit,  \* How many entries of a GPT array one more than the largest uint32 would hold.
  Beyond       \* What memory behind an array may look like when it is taken for an entry.

ASSUME WordAssumption == Word \in Nat \ {0} /\ ArrayLimit \in Nat \ {0}

SectorsPerHead == 63
HeadsPerCylinder == 255

ConvertChsToLba(chs) ==
  ( (chs.Sectors - 1)
    + chs.Heads * SectorsPerHead
    + chs.Cylinders * SectorsPerHead * HeadsPerCylinder ) % Word

CalculateMbrOffset(entry) ==
  IF entry.Lba # 0 THEN entry.Lba ELSE ConvertChsToLba(entry.ChsStart)

CalculateMbrSize(entry) ==
  IF entry.NumSectors # 0
  THEN entry.NumSectors
  ELSE (ConvertChsToLba(entry.ChsEnd) - ConvertChsToLba(entry.ChsStart) + 1) % Word

CalculateMbrEnd(entry) == (CalculateMbrOffset(entry) + CalculateMbrSize(entry)) % Word

\* In bytes, although it is compared with sectors.
SectorLimit(volume) == (volume.BytesPerSector * volume.NumSectors) % Word

Used(mbr) == {i \in DOMAIN mbr.Entry : mbr.Entry[i].Type # "None"}

ValidEntry(entry, volume) ==
  /\ CalculateMbrOffset(entry) # 0
  /\ CalculateMbrEnd(entry) > SectorLimit(volume) => entry.Type = "Gpt"
  /\ CalculateMbrOffset(entry) < CalculateMbrEnd(entry)

\* A fault: the boot sector of a partition is taken for an MBR.
ValidateMbrOfAny(mbr, volume) ==
  /\ mbr.Signature
  /\ Used(mbr) # {}
  /\ \A i \in Used(mbr) : ValidEntry(mbr.Entry[i], volume)

ValidateMbrHeader(mbr, volume) ==
  /\ mbr.Signature
  /\ ~volume.IsPartition
  /\ Used(mbr) # {}
  /\ \A i \in Used(mbr) : ValidEntry(mbr.Entry[i], volume)

GptPartitionMap(mbr) == \E i \in DOMAIN mbr.Entry : mbr.Entry[i].Type = "Gpt"

\* Entry sizes are counted in sizeof(gptPartition).
ValidateGptHeader(header, volume) ==
  /\ header.Sound
  /\ header.HeaderLba = 1
  /\ header.BackupLba = volume.NumSectors - 1
  /\ header.HeaderLba < header.PartitionLba
  /\ header.PartitionLba < header.BackupLba
  /\ header.NumPartitions > 0
  /\ header.PartitionEntrySize > 0

-----------------------------------------------------------------------------
ConvertPartitionType(type) == IF type \in {"Fat", "BasicData"} THEN type ELSE "Other"

\* What the volume of a partition does not take over from that of its device.
PartitionVolume(volume, partition, first, n, type) ==
  [volume EXCEPT !.IsPartition = TRUE, !.Partition = partition, !.NumSectors = n,
                 !.PartitionOffset = first, !.Type = ConvertPartitionType(type)]

\* The loops that add volumes go over the first n entries, and skip all but the wanted ones.
InOrder(wanted, n) ==
  LET UpTo[i \in 0 .. n] ==
        IF i = 0 THEN <<>>
        ELSE IF i \in wanted THEN Append(UpTo[i - 1], i) ELSE UpTo[i - 1]
  IN  UpTo[n]

MbrVolumes(mbr, volume) ==
  LET listed == InOrder({i \in Used(mbr) : mbr.Entry[i].Type # "Gpt"}, Len(mbr.Entry))
  IN  [k \in DOMAIN listed |->
         LET entry == mbr.Entry[listed[k]]
         IN  PartitionVolume(volume, listed[k] - 1, CalculateMbrOffset(entry),
                             CalculateMbrSize(entry), entry.Type)]

\* The array's size is a product of two numbers of type uint32, and may wrap.
ArraySize(header) == (header.NumPartitions * header.PartitionEntrySize) % ArrayLimit

\* What the memory holds from the start of the array on, once it has been read.
CellsRead(header, array) ==
  {[i \in 1 .. header.NumPartitions |-> IF i <= ArraySize(header) THEN array[i] ELSE rest[i]] :
     rest \in [ArraySize(header) + 1 .. header.NumPartitions -> Beyond]}

\* The array is interpreted in steps of sizeof(gptPartition), whatever the size of an entry.
GptVolumes(header, cells, volume) ==
  LET listed == InOrder({i \in 1 .. header.NumPartitions : cells[i].Type # "None"},
                        header.NumPartitions)
  IN  [k \in DOMAIN listed |->
         LET cell == cells[listed[k]]
         IN  PartitionVolume(volume, listed[k] - 1, cell.StartingLba,
                             (1 + cell.EndingLba - cell.StartingLba) % Word, cell.Type)]

\* Volumes are added for as long as VolumeList has room.
Added(volumes, new, limit) ==
  LET room == limit - Len(volumes)
  IN  volumes \o SubSeq(new, 1, IF room < Len(new) THEN room ELSE Len(new))
=============================================================================
