------------------------- MODULE DiskVolumesProofs -------------------------
(***************************************************************************)
(* Proofs about the life of the volumes, for every number of devices,      *)
(* media and volumes, and whatever is on the discs: protocols are open     *)
(* when they are needed and closed in the end, no partition is looked for  *)
(* in another one, and every partition is one of the medium that its       *)
(* volume names, but for those behind an array whose size has wrapped.     *)
(***************************************************************************)
EXTENDS DiskVolumes, InductionLemmas, SequenceTheorems

-----------------------------------------------------------------------------
(***************************************************************************)
(* What InOrder() selects is wanted, and one of the first n.               *)
(***************************************************************************)
LEMMA InOrderSelects ==
  ASSUME NEW wanted, NEW n \in Nat
  PROVE  InOrder(wanted, n) \in Seq(wanted \cap 1 .. n)
<1> DEFINE Step(f, i) == IF i = 0 THEN <<>>
                         ELSE IF i \in wanted THEN Append(f[i - 1], i) ELSE f[i - 1]
           Defined == {m \in Nat : \E f : f = [i \in 0 .. m |-> Step(f, i)]}
           UpTo == CHOOSE f : f = [i \in 0 .. n |-> Step(f, i)]
           Kept == {m \in Nat : UpTo[m] \in Seq(wanted \cap 1 .. n)}
<1>1. Nat \subseteq Defined
  <2>1. 0 \in Defined
    <3>1. [i \in 0 .. 0 |-> <<>>] = [i \in 0 .. 0 |-> Step([k \in 0 .. 0 |-> <<>>], i)]
      OBVIOUS
    <3> QED BY <3>1
  <2>2. ASSUME NEW m \in Nat, m \in Defined
        PROVE  m + 1 \in Defined
    <3>1. PICK f : f = [i \in 0 .. m |-> Step(f, i)]
      BY <2>2
    <3>2. \A i \in 0 .. m : f[i] = Step(f, i)
      BY <3>1, Zenon
    <3> DEFINE g == [i \in 0 .. m + 1 |-> IF i <= m THEN f[i] ELSE Step(f, m + 1)]
    <3>3. ASSUME NEW i \in 0 .. m + 1
          PROVE  g[i] = Step(g, i)
      <4>1. i # 0 => i - 1 \in 0 .. m + 1 /\ g[i - 1] = f[i - 1]
        OBVIOUS
      <4>2. g[i] = IF i <= m THEN f[i] ELSE Step(f, m + 1)
        OBVIOUS
      <4> HIDE DEF g
      <4>3. CASE i <= m
        BY <3>2, <4>1, <4>2, <4>3
      <4>4. CASE i = m + 1
        BY <4>1, <4>2, <4>4
      <4> QED BY <4>3, <4>4
    <3>4. g = [i \in 0 .. m + 1 |-> g[i]]
      OBVIOUS
    <3> HIDE DEF g
    <3>5. [i \in 0 .. m + 1 |-> g[i]] = [i \in 0 .. m + 1 |-> Step(g, i)]
      <4> HIDE DEF Step
      <4> QED BY <3>3
    <3>6. \E f1 : f1 = [i \in 0 .. m + 1 |-> Step(f1, i)]
      <4> HIDE DEF Step
      <4> QED BY <3>4, <3>5, Zenon
    <3> HIDE DEF Step
    <3> QED BY <3>6
  <2> HIDE DEF Defined
  <2> QED BY <2>1, <2>2, SetInduction
<1>2. UpTo = [i \in 0 .. n |-> Step(UpTo, i)]
  <2>1. \E f : f = [i \in 0 .. n |-> Step(f, i)]
    BY <1>1
  <2> HIDE DEF Step
  <2> QED BY <2>1, Zenon
<1>3. InOrder(wanted, n) = UpTo[n]
  BY DEF InOrder
<1> HIDE DEF UpTo
<1>4. \A i \in 0 .. n : UpTo[i] = Step(UpTo, i)
  BY <1>2, Zenon
<1>5. 0 .. n \subseteq Kept
  <2>1. 0 \in Kept
    <3>1. UpTo[0] = <<>>
      BY <1>4
    <3>2. <<>> \in Seq(wanted \cap 1 .. n)
      OBVIOUS
    <3> QED BY <3>1, <3>2
  <2>2. ASSUME NEW m \in 0 .. n - 1, m \in Kept
        PROVE  m + 1 \in Kept
    <3>1. UpTo[m + 1] = IF m + 1 \in wanted THEN Append(UpTo[m], m + 1) ELSE UpTo[m]
      BY <1>4
    <3>2. UpTo[m] \in Seq(wanted \cap 1 .. n)
      BY <2>2
    <3>3. m + 1 \in 1 .. n /\ m + 1 \in Nat
      OBVIOUS
    <3>4. UpTo[m + 1] \in Seq(wanted \cap 1 .. n)
      BY <3>1, <3>2, <3>3
    <3> QED BY <3>3, <3>4
  <2> HIDE DEF Kept
  <2> QED BY <2>1, <2>2, BoundedInduction
<1> QED BY <1>3, <1>5
-----------------------------------------------------------------------------
(***************************************************************************)
(* The inductive invariant.                                                *)
(***************************************************************************)
Scanning == {"bootsector", "partitions", "headers", "backup", "choose", "array"}

Starting == {"count", "fill", "open", "list"}

Stages == Starting \cup Scanning \cup {"bios", "fs", "terminate", "close", "returned"}

VolumeRecord ==
  [Method : {"Efi", "Int13"}, Drive : Nat, Partition : Nat,
   Type : {"Unknown", "Mbr", "Fat", "BasicData", "Other"}, IsPartition : BOOLEAN,
   PartitionOffset : Address, BytesPerSector : {SectorSize}, MediaId : 0 .. MaxMedia,
   NumSectors : Address]

TypeInv ==
  /\ boot \in {"Efi", "Int13"}
  /\ inserted \in [1 .. MaxMedia -> Discs]
  /\ media \in [Devices -> 0 .. MaxMedia]
  /\ fresh \in 1 .. MaxMedia + 1
  /\ at \in Stages
  /\ index \in Nat \ {0}
  /\ handles \in Seq(Devices \cup {None}) /\ Len(handles) <= NumDevices
  /\ open \subseteq DOMAIN handles
  /\ volumes \in Seq(VolumeRecord) /\ Len(volumes) <= VolumeLimit
  /\ enabled \in BOOLEAN
  /\ scanned \in Nat
  /\ status \in {"running", "Success", "CouldntInitializeDisk"}

\* What belongs to which stage, and where its loop is.
StageInv ==
  /\ boot = "Efi" => at # "bios"
  /\ boot = "Int13" => at \notin Starting \cup {"close"}
  /\ at \in {"count", "fill", "bios", "fs", "terminate"} => index = 1
  /\ boot = "Efi" /\ at \notin {"count", "returned"} => 1 <= Len(handles)
  /\ at \in {"open", "list", "close"} => index <= Len(handles)
  /\ at \in Scanning => index <= scanned /\ scanned <= Len(volumes)
  /\ at \in Starting \cup {"bios", "fs"} => scanned = 0
  /\ at \in {"count", "fill", "open", "bios"} => volumes = <<>>
  /\ enabled => at \in Scanning \cup {"fs", "terminate"}
  /\ at # "returned" => status = "running"

\* Which protocols are open: a prefix while they are opened, a suffix while they are closed.
ProtocolInv ==
  /\ at \in {"count", "fill", "bios"} => open = {}
  /\ at = "open" => open = 1 .. index - 1
  /\ boot = "Efi" /\ at \in Scanning \cup {"list", "fs", "terminate"} => open = DOMAIN handles
  /\ boot = "Int13" => open = {} /\ handles = <<>>
  /\ at = "close" => open = index .. Len(handles)
  /\ at # "fill" => \A i \in open : handles[i] # None
  /\ status = "Success" => open = {}

\* The volume that was listed for a medium, and the ones of its partitions.
VolumeInv ==
  /\ boot = "Int13" => media[1] = 1 /\ ~inserted[1].LogicalPartition
  /\ \A v \in DOMAIN volumes :
       /\ volumes[v].Method = boot
       /\ boot = "Efi" => volumes[v].Drive \in DOMAIN handles /\ volumes[v].MediaId # None
       /\ v \notin FromMap => volumes[v].IsPartition = DiscOfPartition(v).LogicalPartition

\* What was read for the volume at hand was read from the medium that it names.
BufferInv ==
  LET disc == DiscOfPartition(index)
  IN  /\ buffers = [mbr |-> buffers.mbr, primary |-> buffers.primary, backup |-> buffers.backup]
      /\ at \in Scanning \ {"bootsector"} =>
           /\ buffers.mbr = disc.Mbr
           /\ ~disc.LogicalPartition
           /\ GptPartitionMap(disc.Mbr) <=> at # "partitions"
      /\ at \notin {"backup", "choose", "array"} => buffers.primary = Unread
      /\ at = "backup" => buffers.primary \in {Unread, disc.Primary}
      /\ at \in {"choose", "array"} =>
           buffers.primary = disc.Primary /\ buffers.backup = disc.Backup
      /\ at = "array" => ValidateGptHeader(Header, Volume)

DiskInv ==
  /\ TypeInv /\ StageInv /\ ProtocolInv /\ VolumeInv /\ BufferInv
  /\ PartitionsAreOfTheirMedium /\ NoPartitionInPartition
-----------------------------------------------------------------------------
(***************************************************************************)
(* The volumes that an MBR or a GPT adds.                                  *)
(***************************************************************************)
LEMMA AddressArithmetic ==
  ASSUME NEW i \in Int
  PROVE  i % Word \in Address
BY WordAssumption DEF Address

LEMMA ChsAddress ==
  ASSUME NEW chs \in [Cylinders : Nat, Heads : Nat, Sectors : Nat]
  PROVE  ConvertChsToLba(chs) \in Address
BY AddressArithmetic DEF ConvertChsToLba, SectorsPerHead, HeadsPerCylinder

LEMMA EntryAddresses ==
  ASSUME NEW disc \in Discs, NEW i \in DOMAIN disc.Mbr.Entry
  PROVE  /\ CalculateMbrOffset(disc.Mbr.Entry[i]) \in Address
         /\ CalculateMbrSize(disc.Mbr.Entry[i]) \in Address
<1> DEFINE entry == disc.Mbr.Entry[i]
           start == ConvertChsToLba(entry.ChsStart)
           end == ConvertChsToLba(entry.ChsEnd)
<1>1. entry.Lba \in Address /\ entry.NumSectors \in Address
      /\ start \in Address /\ end \in Address
  BY DiscsAssumption, ChsAddress
<1> HIDE DEF entry, start, end
<1>2. (end - start + 1) % Word \in Address
  BY <1>1, AddressArithmetic DEF Address
<1> QED BY <1>1, <1>2 DEF CalculateMbrOffset, CalculateMbrSize, entry, start, end

\* A volume that a map of the disc adds: where it is, and what it has from its device.
IsPartitionOf(new, volume, disc) ==
  /\ new \in VolumeRecord
  /\ new.IsPartition
  /\ new.Method = volume.Method /\ new.Drive = volume.Drive /\ new.MediaId = volume.MediaId
  /\ \/ Area(new.PartitionOffset, new.NumSectors) \in Areas(disc)
     \/ IsBeyondArray(disc, new.Partition)

LEMMA PartitionVolumeType ==
  ASSUME NEW volume \in VolumeRecord, NEW partition \in Nat, NEW first \in Address,
         NEW n \in Address, NEW type
  PROVE  LET new == PartitionVolume(volume, partition, first, n, type)
         IN  /\ new \in VolumeRecord
             /\ new.IsPartition
             /\ new.Method = volume.Method /\ new.Drive = volume.Drive
             /\ new.MediaId = volume.MediaId
             /\ new.Partition = partition
             /\ new.PartitionOffset = first /\ new.NumSectors = n
<1>1. ConvertPartitionType(type) \in {"Fat", "BasicData", "Other"}
  BY DEF ConvertPartitionType
<1> QED BY <1>1 DEF PartitionVolume, VolumeRecord

LEMMA MbrVolumesAreAreas ==
  ASSUME NEW disc \in Discs, NEW volume \in VolumeRecord, ~GptPartitionMap(disc.Mbr)
  PROVE  /\ MbrVolumes(disc.Mbr, volume) \in Seq(VolumeRecord)
         /\ \A k \in DOMAIN MbrVolumes(disc.Mbr, volume) :
              IsPartitionOf(MbrVolumes(disc.Mbr, volume)[k], volume, disc)
<1> DEFINE wanted == {i \in Used(disc.Mbr) : disc.Mbr.Entry[i].Type # "Gpt"}
           listed == InOrder(wanted, Len(disc.Mbr.Entry))
           new(k) == LET entry == disc.Mbr.Entry[listed[k]]
                     IN  PartitionVolume(volume, listed[k] - 1, CalculateMbrOffset(entry),
                                         CalculateMbrSize(entry), entry.Type)
<1>1. Len(disc.Mbr.Entry) \in Nat
  BY DiscsAssumption
<1>2. listed \in Seq(wanted \cap 1 .. Len(disc.Mbr.Entry))
  BY <1>1, InOrderSelects
<1>3. MbrVolumes(disc.Mbr, volume) = [k \in DOMAIN listed |-> new(k)]
  BY DEF MbrVolumes
<1> HIDE DEF listed
<1>4. ASSUME NEW k \in DOMAIN listed
      PROVE  IsPartitionOf(new(k), volume, disc)
  <2> DEFINE i == listed[k]
             entry == disc.Mbr.Entry[i]
  <2>1. i \in Used(disc.Mbr) /\ i \in 1 .. Len(disc.Mbr.Entry)
    BY <1>2
  <2>2. i \in DOMAIN disc.Mbr.Entry
    BY <2>1 DEF Used
  <2>3. CalculateMbrOffset(entry) \in Address /\ CalculateMbrSize(entry) \in Address
    BY <2>2, EntryAddresses
  <2>4. Area(CalculateMbrOffset(entry), CalculateMbrSize(entry)) \in Areas(disc)
    BY <2>1 DEF Areas
  <2>5. i - 1 \in Nat
    BY <1>1, <2>1
  <2> HIDE DEF i
  <2>6. new(k) = PartitionVolume(volume, i - 1, CalculateMbrOffset(entry),
                                 CalculateMbrSize(entry), entry.Type)
    BY DEF i
  <2> HIDE DEF new, entry
  <2> QED BY <2>3, <2>4, <2>5, <2>6, PartitionVolumeType DEF IsPartitionOf
<1> HIDE DEF new
<1>5. \A k \in DOMAIN listed : new(k) \in VolumeRecord
  BY <1>4 DEF IsPartitionOf
<1>6. DOMAIN listed = 1 .. Len(listed) /\ Len(listed) \in Nat
  BY <1>2
<1>7. [k \in DOMAIN listed |-> new(k)] \in Seq(VolumeRecord)
  BY <1>5, <1>6
<1> QED BY <1>3, <1>4, <1>7

\* The entries of an array that is intact are those of the disc, up to where its size ends.
LEMMA CellsOfDisc ==
  ASSUME NEW disc \in Discs, NEW header \in Headers(disc), IsIntact(disc.Array, header),
         NEW cells \in CellsRead(header, disc.Array), NEW i \in 1 .. header.NumPartitions
  PROVE  /\ cells[i].StartingLba \in Address /\ cells[i].EndingLba \in Address
         /\ i <= ArraySize(header) => i \in DOMAIN disc.Array /\ cells[i] = disc.Array[i]
<1> DEFINE size == ArraySize(header)
           n == header.NumPartitions
<1>1. n \in Nat /\ header.PartitionEntrySize \in Nat
  BY DiscsAssumption DEF Headers
<1>2. size \in Nat
  BY <1>1, WordAssumption DEF ArraySize
<1>3. size <= Len(disc.Array) /\ Len(disc.Array) \in Nat /\ DOMAIN disc.Array = 1 .. Len(disc.Array)
  BY DiscsAssumption DEF IsIntact
<1>4. i \in 1 .. n
  OBVIOUS
<1>5. PICK rest \in [size + 1 .. n -> Beyond] :
        cells = [j \in 1 .. n |-> IF j <= size THEN disc.Array[j] ELSE rest[j]]
  BY DEF CellsRead
<1> HIDE DEF size, n
<1>6. cells[i] = IF i <= size THEN disc.Array[i] ELSE rest[i]
  BY <1>4, <1>5
<1>7. CASE i <= size
  <2>1. i \in DOMAIN disc.Array
    BY <1>1, <1>2, <1>3, <1>4, <1>7
  <2>2. disc.Array[i].StartingLba \in Address /\ disc.Array[i].EndingLba \in Address
    BY <2>1, DiscsAssumption
  <2> QED BY <1>6, <1>7, <2>1, <2>2 DEF size
<1>8. CASE ~(i <= size)
  <2>1. i \in size + 1 .. n
    BY <1>1, <1>2, <1>4, <1>8
  <2>2. rest[i] \in Beyond
    BY <1>5, <2>1
  <2> QED BY <1>6, <1>8, <2>2, BeyondAssumption DEF size
<1> QED BY <1>7, <1>8

LEMMA GptVolumesAreAreas ==
  ASSUME NEW disc \in Discs, NEW volume \in VolumeRecord, GptPartitionMap(disc.Mbr),
         NEW header \in Headers(disc), IsIntact(disc.Array, header),
         NEW cells \in CellsRead(header, disc.Array)
  PROVE  /\ GptVolumes(header, cells, volume) \in Seq(VolumeRecord)
         /\ \A k \in DOMAIN GptVolumes(header, cells, volume) :
              IsPartitionOf(GptVolumes(header, cells, volume)[k], volume, disc)
<1> DEFINE n == header.NumPartitions
           wanted == {i \in 1 .. n : cells[i].Type # "None"}
           listed == InOrder(wanted, n)
           new(k) == LET cell == cells[listed[k]]
                     IN  PartitionVolume(volume, listed[k] - 1, cell.StartingLba,
                                         (1 + cell.EndingLba - cell.StartingLba) % Word, cell.Type)
<1>1. n \in Nat /\ ArraySize(header) \in Nat
  BY DiscsAssumption, WordAssumption DEF Headers, ArraySize
<1>2. \A i \in 1 .. n :
        /\ cells[i].StartingLba \in Address /\ cells[i].EndingLba \in Address
        /\ i <= ArraySize(header) => i \in DOMAIN disc.Array /\ cells[i] = disc.Array[i]
  BY CellsOfDisc
<1> HIDE DEF n
<1>3. listed \in Seq(wanted \cap 1 .. n)
  BY <1>1, InOrderSelects
<1>4. GptVolumes(header, cells, volume) = [k \in DOMAIN listed |-> new(k)]
  BY DEF GptVolumes, n
<1> HIDE DEF listed
<1>5. ASSUME NEW k \in DOMAIN listed
      PROVE  IsPartitionOf(new(k), volume, disc)
  <2> DEFINE i == listed[k]
             cell == cells[i]
             first == cell.StartingLba
             size == (cell.EndingLba - first + 1) % Word
  <2>1. i \in 1 .. n /\ cell.Type # "None"
    BY <1>1, <1>3
  <2>2. first \in Address /\ cell.EndingLba \in Address
    BY <1>2, <2>1
  <2>3. size \in Address /\ 1 + cell.EndingLba - first = cell.EndingLba - first + 1
    <3> HIDE DEF first, cell
    <3> QED BY <2>2, AddressArithmetic DEF Address
  <2>4. Area(first, size) \in Areas(disc) \/ IsBeyondArray(disc, i - 1)
    <3>1. CASE i <= ArraySize(header)
      <4>1. i \in DOMAIN disc.Array /\ cell = disc.Array[i]
        BY <1>2, <2>1, <3>1
      <4>2. i \in {j \in DOMAIN disc.Array :
                     /\ disc.Array[j].Type # "None"
                     /\ \E h \in Headers(disc) : IsIntact(disc.Array, h) /\ j <= ArraySize(h)}
        BY <2>1, <3>1, <4>1
      <4>3. Area(disc.Array[i].StartingLba,
                 (disc.Array[i].EndingLba - disc.Array[i].StartingLba + 1) % Word) \in Areas(disc)
        <5> HIDE DEF i
        <5> QED BY <4>2 DEF Areas
      <4> QED BY <4>1, <4>3
    <3>2. CASE ~(i <= ArraySize(header))
      <4>1. /\ ArraySize(header) < n
            /\ i - 1 \in ArraySize(header) .. n - 1
        <5> HIDE DEF i
        <5> QED BY <1>1, <2>1, <3>2
      <4> HIDE DEF i
      <4> QED BY <4>1 DEF IsBeyondArray, n
    <3> QED BY <3>1, <3>2
  <2>5. i - 1 \in Nat
    BY <1>1, <2>1
  <2>6. new(k) = PartitionVolume(volume, i - 1, first, size, cell.Type)
    BY <2>3
  <2> HIDE DEF new, size, first, cell, i
  <2> QED BY <2>2, <2>3, <2>4, <2>5, <2>6, PartitionVolumeType DEF IsPartitionOf
<1> HIDE DEF new
<1>6. \A k \in DOMAIN listed : new(k) \in VolumeRecord
  BY <1>5 DEF IsPartitionOf
<1>7. DOMAIN listed = 1 .. Len(listed) /\ Len(listed) \in Nat
  BY <1>3
<1>8. [k \in DOMAIN listed |-> new(k)] \in Seq(VolumeRecord)
  BY <1>6, <1>7
<1> QED BY <1>4, <1>5, <1>8

LEMMA AddedVolumes ==
  ASSUME NEW old \in Seq(VolumeRecord), NEW new \in Seq(VolumeRecord),
         Len(old) <= VolumeLimit
  PROVE  LET all == Added(old, new, VolumeLimit)
         IN  /\ all \in Seq(VolumeRecord)
             /\ Len(old) <= Len(all) /\ Len(all) <= VolumeLimit
             /\ \A v \in DOMAIN old : all[v] = old[v]
             /\ \A v \in DOMAIN all : v > Len(old) => \E k \in DOMAIN new : all[v] = new[k]
<1> DEFINE room == VolumeLimit - Len(old)
           m == IF room < Len(new) THEN room ELSE Len(new)
           taken == SubSeq(new, 1, m)
           all == Added(old, new, VolumeLimit)
<1>1. m \in Nat /\ m <= Len(new) /\ Len(old) + m <= VolumeLimit
  BY DeviceAssumption
<1>2. all = old \o taken
  BY DEF Added
<1> HIDE DEF m, all
<1>3. taken \in Seq(VolumeRecord) /\ Len(taken) = m /\ \A k \in 1 .. m : taken[k] = new[k]
  BY <1>1
<1> HIDE DEF taken
<1>4. all \in Seq(VolumeRecord) /\ Len(all) = Len(old) + m
      /\ \A v \in 1 .. Len(all) : all[v] = IF v <= Len(old) THEN old[v] ELSE taken[v - Len(old)]
  <2> HIDE DEF room
  <2>1. /\ old \o taken \in Seq(VolumeRecord)
        /\ Len(old \o taken) = Len(old) + Len(taken)
        /\ \A v \in 1 .. Len(old) + Len(taken) :
             (old \o taken)[v] = IF v <= Len(old) THEN old[v] ELSE taken[v - Len(old)]
    BY <1>3, ConcatProperties
  <2> QED BY <1>2, <1>3, <2>1
<1>5. ASSUME NEW v \in DOMAIN all, v > Len(old)
      PROVE  \E k \in DOMAIN new : all[v] = new[k]
  <2>1. v - Len(old) \in 1 .. m /\ v - Len(old) \in DOMAIN new
    BY <1>1, <1>4, <1>5
  <2>2. all[v] = new[v - Len(old)]
    BY <1>3, <1>4, <1>5, <2>1
  <2> QED BY <2>1, <2>2
<1> QED BY <1>1, <1>4, <1>5 DEF all

-----------------------------------------------------------------------------
(***************************************************************************)
(* Every step keeps the invariant.                                         *)
(***************************************************************************)
LEMMA InitKeeps ==
  ASSUME Init
  PROVE  DiskInv
<1>1. TypeInv
  <2>1. media \in [Devices -> 0 .. MaxMedia]
    BY DeviceAssumption DEF Init, Devices
  <2>2. <<>> \in Seq(VolumeRecord) /\ <<>> \in Seq(Devices \cup {None}) /\ Len(<<>>) = 0
    OBVIOUS
  <2>3. handles \in Seq(Devices \cup {None}) /\ Len(handles) <= NumDevices
        /\ volumes \in Seq(VolumeRecord) /\ Len(volumes) <= VolumeLimit
        /\ open \subseteq DOMAIN handles
    BY <2>2, DeviceAssumption DEF Init
  <2>4. fresh \in 1 .. MaxMedia + 1
    BY DeviceAssumption DEF Init
  <2>5. at \in Stages
    BY DEF Init, Stages, Starting
  <2>6. index \in Nat \ {0} /\ scanned \in Nat
    BY DEF Init
  <2>7. /\ boot \in {"Efi", "Int13"} /\ inserted \in [1 .. MaxMedia -> Discs]
        /\ enabled \in BOOLEAN /\ status \in {"running", "Success", "CouldntInitializeDisk"}
    BY Zenon DEF Init
  <2> QED BY <2>1, <2>3, <2>4, <2>5, <2>6, <2>7 DEF TypeInv
<1>2. StageInv /\ ProtocolInv
  BY DEF Init, StageInv, ProtocolInv, Starting, Scanning
<1>3. VolumeInv /\ PartitionsAreOfTheirMedium /\ NoPartitionInPartition
  BY DeviceAssumption DEF Init, VolumeInv, PartitionsAreOfTheirMedium, NoPartitionInPartition,
                          FromMap, Devices
<1>4. BufferInv
  BY DEF Init, BufferInv, NoBuffers, Scanning
<1> QED BY <1>1, <1>2, <1>3, <1>4 DEF DiskInv

\* What is said of the volumes depends on their list, and on the medium of int 13h.
SameVolumes ==
  /\ boot' = boot /\ inserted' = inserted /\ handles' = handles
  /\ volumes' = volumes /\ scanned' = scanned
  /\ boot = "Int13" => media'[1] = media[1]

LEMMA SameVolumesKeep ==
  ASSUME DiskInv, SameVolumes
  PROVE  /\ VolumeInv' /\ PartitionsAreOfTheirMedium' /\ NoPartitionInPartition'
         /\ \A v \in DOMAIN volumes : DiscOfPartition(v)' = DiscOfPartition(v)
<1>1. boot \in {"Efi", "Int13"}
  BY DEF DiskInv, TypeInv
<1>2. ASSUME NEW v \in DOMAIN volumes
      PROVE  DiscOfPartition(v)' = DiscOfPartition(v)
  BY <1>1, <1>2 DEF SameVolumes, DiscOfPartition
<1>3. FromMap' = FromMap /\ FromMap \subseteq DOMAIN volumes
  BY DEF SameVolumes, FromMap
<1>4. NoPartitionInPartition'
  BY <1>2, <1>3 DEF DiskInv, NoPartitionInPartition
<1>5. PartitionsAreOfTheirMedium'
  BY <1>2, <1>3 DEF DiskInv, PartitionsAreOfTheirMedium, SameVolumes
<1>6. VolumeInv'
  BY <1>1, <1>2, <1>3 DEF DiskInv, VolumeInv, SameVolumes
<1> QED BY <1>2, <1>4, <1>5, <1>6

\* Nothing is said of the buffers outside of the scan, nor at its beginning.
LEMMA BuffersOutside ==
  ASSUME BufferInv, buffers' = buffers, at \notin Scanning, at' \notin Scanning \ {"bootsector"}
  PROVE  BufferInv'
BY DEF BufferInv, Scanning

LEMMA MediumStepKeeps ==
  ASSUME DiskInv, RemoveMedium \/ ReplaceMedium
  PROVE  DiskInv'
<1>1. /\ boot = "Efi"
      /\ boot' = boot /\ inserted' = inserted /\ at' = at /\ index' = index
      /\ handles' = handles /\ open' = open /\ volumes' = volumes /\ enabled' = enabled
      /\ scanned' = scanned /\ buffers' = buffers /\ status' = status
  BY DEF RemoveMedium, ReplaceMedium, lists
<1>2. /\ media' \in [Devices -> 0 .. MaxMedia]
      /\ fresh' \in 1 .. MaxMedia + 1
  <2>1. media \in [Devices -> 0 .. MaxMedia] /\ fresh \in 1 .. MaxMedia + 1 /\ MaxMedia \in Nat
    BY DeviceAssumption DEF DiskInv, TypeInv
  <2>2. CASE RemoveMedium
    BY <2>1, <2>2 DEF RemoveMedium, None
  <2>3. CASE ReplaceMedium
    BY <2>1, <2>3 DEF ReplaceMedium
  <2> QED BY <2>2, <2>3
<1>3. TypeInv' /\ StageInv' /\ ProtocolInv'
  BY <1>1, <1>2 DEF DiskInv, TypeInv, StageInv, ProtocolInv
<1>4. SameVolumes
  BY <1>1 DEF SameVolumes
<1>5. VolumeInv' /\ PartitionsAreOfTheirMedium' /\ NoPartitionInPartition'
  BY <1>4, SameVolumesKeep
<1>6. BufferInv'
  <2>1. CASE at \in Scanning
    <3>1. index \in DOMAIN volumes
      BY <2>1 DEF DiskInv, TypeInv, StageInv
    <3>2. DiscOfPartition(index)' = DiscOfPartition(index)
      BY <1>1 DEF DiscOfPartition
    <3>3. Header' = Header /\ Volume' = Volume
      BY <1>1 DEF Header, Volume
    <3> QED BY <1>1, <3>2, <3>3 DEF DiskInv, BufferInv
  <2>2. CASE at \notin Scanning
    BY <1>1, <2>2, BuffersOutside DEF DiskInv
  <2> QED BY <2>1, <2>2
<1> QED BY <1>3, <1>5, <1>6 DEF DiskInv

LEMMA CountHandlesKeeps ==
  ASSUME DiskInv, CountHandles
  PROVE  DiskInv'
<1>1. /\ at = "count" /\ at' \in {"fill", "returned"}
      /\ (at' = "returned" => handles' = handles /\ status' = "CouldntInitializeDisk")
      /\ (at' = "fill" => status' = status /\ 1 <= Len(handles'))
      /\ handles' \in Seq(Devices \cup {None}) /\ Len(handles') <= NumDevices
      /\ boot' = boot /\ inserted' = inserted /\ media' = media /\ fresh' = fresh
      /\ index' = index /\ open' = open /\ volumes' = volumes
      /\ enabled' = enabled /\ scanned' = scanned /\ buffers' = buffers
  BY DEF CountHandles, Fail, environment, DiskInv, TypeInv, Devices
<1>2. boot = "Efi" /\ open = {} /\ volumes = <<>> /\ scanned = 0 /\ index = 1
  BY <1>1 DEF DiskInv, TypeInv, StageInv, ProtocolInv, Starting
<1>3. TypeInv'
  BY <1>1, <1>2 DEF DiskInv, TypeInv, Stages, Starting
<1>4. StageInv' /\ ProtocolInv'
  BY <1>1, <1>2 DEF DiskInv, StageInv, ProtocolInv, Starting, Scanning
<1>5. VolumeInv' /\ PartitionsAreOfTheirMedium' /\ NoPartitionInPartition'
  BY <1>1, <1>2 DEF VolumeInv, PartitionsAreOfTheirMedium, NoPartitionInPartition, FromMap
<1>6. BufferInv'
  BY <1>1, BuffersOutside DEF DiskInv, Scanning
<1> QED BY <1>3, <1>4, <1>5, <1>6 DEF DiskInv

LEMMA FillHandlesKeeps ==
  ASSUME DiskInv, FillHandles
  PROVE  DiskInv'
<1>1. /\ at = "fill" /\ at' \in {"open", "returned"}
      /\ boot' = boot /\ inserted' = inserted /\ media' = media /\ fresh' = fresh
      /\ index' = index /\ open' = open /\ volumes' = volumes
      /\ enabled' = enabled /\ scanned' = scanned /\ buffers' = buffers
  BY DEF FillHandles, Fail, environment
<1>2. boot = "Efi" /\ open = {} /\ volumes = <<>> /\ scanned = 0 /\ index = 1
  BY <1>1 DEF DiskInv, TypeInv, StageInv, ProtocolInv, Starting
<1>3. /\ handles' \in Seq(Devices \cup {None}) /\ Len(handles') <= NumDevices
      /\ (at' = "returned" => status' = "CouldntInitializeDisk")
      /\ (at' = "open" => status' = status /\ Len(handles') >= 1)
  <2>1. handles \in Seq(Devices \cup {None}) /\ Len(handles) <= NumDevices
    BY DEF DiskInv, TypeInv
  <2>2. CASE Fail /\ handles' = handles
    BY <2>1, <2>2 DEF Fail
  <2>3. ASSUME NEW n \in 1 .. Len(handles),
               handles' = [i \in DOMAIN handles |-> IF i <= n THEN i ELSE None],
               at' = "open", status' = status
        PROVE  <1>3!:
    <3>1. DOMAIN handles = 1 .. Len(handles) /\ Len(handles) \in Nat
      BY <2>1
    <3>2. handles' \in [1 .. Len(handles) -> Devices \cup {None}]
      BY <2>1, <2>3, <3>1, DeviceAssumption DEF Devices
    <3> QED BY <2>1, <2>3, <3>1, <3>2
  <2> QED BY <2>2, <2>3 DEF FillHandles
<1>4. TypeInv'
  BY <1>1, <1>2, <1>3 DEF DiskInv, TypeInv, Stages, Starting
<1>5. StageInv' /\ ProtocolInv'
  BY <1>1, <1>2, <1>3 DEF DiskInv, TypeInv, StageInv, ProtocolInv, Starting, Scanning
<1>6. VolumeInv' /\ PartitionsAreOfTheirMedium' /\ NoPartitionInPartition'
  BY <1>1, <1>2 DEF VolumeInv, PartitionsAreOfTheirMedium, NoPartitionInPartition, FromMap
<1>7. BufferInv'
  BY <1>1, BuffersOutside DEF DiskInv, Scanning
<1> QED BY <1>4, <1>5, <1>6, <1>7 DEF DiskInv

LEMMA OpenProtocolKeeps ==
  ASSUME DiskInv, OpenProtocol
  PROVE  DiskInv'
<1>1. /\ at = "open" /\ at' \in {"open", "list", "returned"}
      /\ boot' = boot /\ inserted' = inserted /\ media' = media /\ fresh' = fresh
      /\ handles' = handles /\ volumes' = volumes
      /\ enabled' = enabled /\ scanned' = scanned /\ buffers' = buffers
  BY DEF OpenProtocol, Fail, NextHandle, environment
<1>2. /\ boot = "Efi" /\ open = 1 .. index - 1 /\ volumes = <<>> /\ scanned = 0
      /\ index \in 1 .. Len(handles) /\ Len(handles) \in Nat /\ DOMAIN handles = 1 .. Len(handles)
      /\ status = "running" /\ enabled = FALSE
  BY <1>1 DEF DiskInv, TypeInv, StageInv, ProtocolInv, Starting, Scanning
<1>3. \/ /\ at' = "returned" /\ status' = "CouldntInitializeDisk" /\ index' = index /\ open' = open
      \/ /\ handles[index] # None /\ open' = 1 .. index /\ status' = status
         /\ at' = "open" /\ index' = index + 1 /\ index < Len(handles)
      \/ /\ handles[index] # None /\ open' = 1 .. Len(handles) /\ status' = status
         /\ at' = "list" /\ index' = 1 /\ index = Len(handles)
  <2>1. (1 .. index - 1) \cup {index} = 1 .. index
    BY <1>2
  <2>2. CASE Fail /\ UNCHANGED <<open, index>>
    BY <2>2 DEF Fail
  <2>3. CASE handles[index] # None /\ open' = open \cup {index} /\ NextHandle("list")
             /\ UNCHANGED status
    <3>1. open' = 1 .. index
      BY <1>2, <2>1, <2>3
    <3>2. CASE index < Len(handles)
      BY <1>1, <2>3, <3>1, <3>2 DEF NextHandle
    <3>3. CASE index = Len(handles)
      BY <1>2, <2>3, <3>1, <3>3 DEF NextHandle
    <3>4. index < Len(handles) \/ index = Len(handles)
      <4> DEFINE n == Len(handles)
      <4>1. index \in 1 .. n /\ n \in Nat
        BY <1>2
      <4> HIDE DEF n
      <4> QED BY <4>1 DEF n
    <3> QED BY <3>2, <3>3, <3>4
  <2> QED BY <2>2, <2>3 DEF OpenProtocol
<1>4. VolumeInv' /\ PartitionsAreOfTheirMedium' /\ NoPartitionInPartition'
  BY <1>1, <1>2 DEF VolumeInv, PartitionsAreOfTheirMedium, NoPartitionInPartition, FromMap
<1>5. BufferInv'
  BY <1>1, BuffersOutside DEF DiskInv, Scanning
<1>6. (TypeInv /\ StageInv /\ ProtocolInv)'
  <2>1. CASE at' = "returned"
    BY <1>1, <1>2, <1>3, <2>1
    DEF DiskInv, TypeInv, StageInv, ProtocolInv, Stages, Starting, Scanning
  <2>2. CASE at' = "open"
    BY <1>1, <1>2, <1>3, <2>2
    DEF DiskInv, TypeInv, StageInv, ProtocolInv, Stages, Starting, Scanning
  <2>3. CASE at' = "list"
    BY <1>1, <1>2, <1>3, <2>3
    DEF DiskInv, TypeInv, StageInv, ProtocolInv, Stages, Starting, Scanning
  <2> QED BY <1>1, <2>1, <2>2, <2>3
<1> QED BY <1>4, <1>5, <1>6 DEF DiskInv

LEMMA AppendedElements ==
  ASSUME NEW S, NEW s \in Seq(S), NEW e \in S, NEW i \in DOMAIN Append(s, e)
  PROVE  (i \in DOMAIN s /\ Append(s, e)[i] = s[i]) \/ Append(s, e)[i] = e
<1> DEFINE n == Len(s)
<1>1. n \in Nat /\ DOMAIN s = 1 .. n /\ DOMAIN Append(s, e) = 1 .. n + 1
  OBVIOUS
<1>2. CASE i = n + 1
  BY <1>2
<1>3. CASE i \in 1 .. n
  BY <1>1, <1>3
<1>4. i \in 1 .. n \/ i = n + 1
  <2> HIDE DEF n
  <2> QED BY <1>1
<1> QED BY <1>2, <1>3, <1>4

LEMMA ListVolumeKeeps ==
  ASSUME DiskInv, ListVolume
  PROVE  DiskInv'
<1> DEFINE id == media[handles[index]]
<1>1. /\ at = "list" /\ at' \in {"list", "fs"} /\ enabled' = (at' = "fs")
      /\ boot' = boot /\ inserted' = inserted /\ media' = media /\ fresh' = fresh
      /\ handles' = handles /\ open' = open /\ scanned' = scanned /\ buffers' = buffers
      /\ status' = status
  BY DEF ListVolume, NextHandle, environment
<1>2. /\ boot = "Efi" /\ open = DOMAIN handles /\ scanned = 0 /\ status = "running"
      /\ index \in DOMAIN handles /\ Len(handles) \in Nat /\ index \in 1 .. Len(handles)
      /\ handles[index] # None
  <2>1. boot = "Efi" /\ scanned = 0 /\ status = "running" /\ index \in 1 .. Len(handles)
    BY <1>1 DEF DiskInv, TypeInv, StageInv, Starting, Scanning
  <2>2. open = DOMAIN handles
    BY <1>1, <2>1 DEF DiskInv, ProtocolInv
  <2>3. index \in DOMAIN handles /\ Len(handles) \in Nat
    BY <2>1 DEF DiskInv, TypeInv
  <2> QED BY <1>1, <2>1, <2>2, <2>3 DEF DiskInv, ProtocolInv
<1>3. id \in 0 .. MaxMedia /\ (id # None => id \in 1 .. MaxMedia /\ inserted[id] \in Discs)
  <2>1. handles[index] \in Devices
    BY <1>2 DEF DiskInv, TypeInv
  <2>2. id \in 0 .. MaxMedia
    BY <2>1 DEF DiskInv, TypeInv
  <2>3. MaxMedia \in Nat
    BY DeviceAssumption
  <2> HIDE DEF id
  <2> QED BY <2>2, <2>3 DEF DiskInv, TypeInv, None
<1>4. \/ volumes' = volumes
      \/ volumes' = Append(volumes, EfiVolume(index, id)) /\ Len(volumes) < VolumeLimit /\ id # None
  <2>1. Len(volumes) \in Nat /\ VolumeLimit \in Nat
    BY DeviceAssumption DEF DiskInv, TypeInv
  <2> QED BY <2>1 DEF ListVolume
<1>5. \/ at' = "fs" /\ index' = 1
      \/ at' = "list" /\ index' \in 1 .. Len(handles)
  <2>1. CASE index < Len(handles)
    <3>1. index + 1 \in 1 .. Len(handles)
      BY <1>2, <2>1
    <3> QED BY <1>1, <2>1, <3>1 DEF ListVolume, NextHandle
  <2>2. CASE ~(index < Len(handles))
    BY <1>1, <2>2 DEF ListVolume, NextHandle
  <2> QED BY <2>1, <2>2
<1> HIDE DEF id
<1>6. id # None => EfiVolume(index, id) \in VolumeRecord
  <2> SUFFICES ASSUME id # None PROVE EfiVolume(index, id) \in VolumeRecord
    OBVIOUS
  <2>1. inserted[id].LogicalPartition \in BOOLEAN /\ inserted[id].NumSectors \in Address
    BY <1>3, DiscsAssumption
  <2>2. index \in Nat /\ 0 \in Address
    BY <1>2, WordAssumption DEF Address
  <2> QED BY <1>3, <2>1, <2>2 DEF EfiVolume, VolumeRecord
<1>7. /\ volumes' \in Seq(VolumeRecord) /\ Len(volumes') <= VolumeLimit
      /\ \A v \in DOMAIN volumes' :
           \/ v \in DOMAIN volumes /\ volumes'[v] = volumes[v]
           \/ id # None /\ volumes'[v] = EfiVolume(index, id)
  <2>1. volumes \in Seq(VolumeRecord) /\ Len(volumes) <= VolumeLimit /\ VolumeLimit \in Nat
    BY DeviceAssumption DEF DiskInv, TypeInv
  <2>2. CASE volumes' = volumes
    BY <2>1, <2>2
  <2>3. CASE volumes' = Append(volumes, EfiVolume(index, id)) /\ Len(volumes) < VolumeLimit /\ id # None
    <3> DEFINE new == EfiVolume(index, id)
    <3>1. new \in VolumeRecord
      BY <1>6, <2>3
    <3> HIDE DEF new
    <3>2. volumes' = Append(volumes, new)
      BY <2>3 DEF new
    <3>3. volumes' \in Seq(VolumeRecord) /\ Len(volumes') = Len(volumes) + 1
      BY <2>1, <3>1, <3>2
    <3>4. \A v \in DOMAIN volumes' :
            (v \in DOMAIN volumes /\ volumes'[v] = volumes[v]) \/ volumes'[v] = new
      BY <2>1, <3>1, <3>2, AppendedElements
    <3> QED BY <2>1, <2>3, <3>3, <3>4 DEF new
  <2> QED BY <1>4, <2>2, <2>3
<1>8. TypeInv'
  <2>1. index' \in Nat \ {0} /\ enabled' \in BOOLEAN /\ at' \in Stages
    BY <1>1, <1>2, <1>5 DEF Stages, Starting
  <2> QED BY <1>1, <1>7, <2>1 DEF DiskInv, TypeInv
<1>9. StageInv' /\ ProtocolInv'
  <2>1. CASE at' = "fs"
    BY <1>1, <1>2, <1>5, <2>1 DEF DiskInv, StageInv, ProtocolInv, Starting, Scanning
  <2>2. CASE at' = "list" /\ index' \in 1 .. Len(handles)
    <3>1. ~enabled' /\ status' = "running" /\ scanned' = 0 /\ handles' = handles
          /\ open' = DOMAIN handles /\ boot' = "Efi"
      BY <1>1, <1>2, <2>2
    <3>2. StageInv'
      BY <2>2, <3>1 DEF StageInv, Starting, Scanning
    <3>3. ProtocolInv'
      BY <1>1, <1>2, <2>2, <3>1 DEF DiskInv, ProtocolInv, Starting, Scanning
    <3> QED BY <3>2, <3>3
  <2> QED BY <1>5, <2>1, <2>2
<1>10. PartitionsAreOfTheirMedium' /\ NoPartitionInPartition'
  BY <1>1, <1>2 DEF PartitionsAreOfTheirMedium, NoPartitionInPartition, FromMap
<1>11. VolumeInv'
  <2> SUFFICES ASSUME NEW v \in DOMAIN volumes'
               PROVE  /\ volumes'[v].Method = "Efi"
                      /\ volumes'[v].Drive \in DOMAIN handles /\ volumes'[v].MediaId # None
                      /\ volumes'[v].IsPartition = inserted[volumes'[v].MediaId].LogicalPartition
    BY <1>1, <1>2 DEF VolumeInv, DiscOfPartition
  <2>1. CASE v \in DOMAIN volumes /\ volumes'[v] = volumes[v]
    <3>1. v \notin FromMap
      BY <1>2 DEF FromMap
    <3> QED BY <1>2, <2>1, <3>1 DEF DiskInv, VolumeInv, DiscOfPartition
  <2>2. CASE id # None /\ volumes'[v] = EfiVolume(index, id)
    BY <1>2, <2>2 DEF EfiVolume
  <2> QED BY <1>7, <2>1, <2>2
<1>12. BufferInv'
  BY <1>1, BuffersOutside DEF DiskInv, Scanning
<1> QED BY <1>8, <1>9, <1>10, <1>11, <1>12 DEF DiskInv

LEMMA InitializeBiosKeeps ==
  ASSUME DiskInv, InitializeBios
  PROVE  DiskInv'
<1>1. /\ at = "bios" /\ at' \in {"fs", "returned"}
      /\ boot' = boot /\ inserted' = inserted /\ media' = media /\ fresh' = fresh
      /\ index' = index /\ handles' = handles /\ open' = open /\ scanned' = scanned
      /\ buffers' = buffers
  BY DEF InitializeBios, Fail, environment
<1>2. /\ boot = "Int13" /\ open = {} /\ volumes = <<>> /\ scanned = 0 /\ index = 1
      /\ status = "running" /\ enabled = FALSE
      /\ media[1] = 1 /\ ~inserted[1].LogicalPartition
  BY <1>1 DEF DiskInv, TypeInv, StageInv, ProtocolInv, VolumeInv, Starting, Scanning
<1>3. inserted[1] \in Discs
  BY DeviceAssumption DEF DiskInv, TypeInv
<1>4. \/ at' = "returned" /\ status' = "CouldntInitializeDisk" /\ volumes' = <<>> /\ enabled' = FALSE
      \/ /\ at' = "fs" /\ status' = "running" /\ enabled' = TRUE
         /\ \E n \in Address : volumes' = <<BiosVolume(n)>>
  <2>1. inserted[1].NumSectors \in Address /\ Word - 1 \in Address
    BY <1>3, DiscsAssumption, WordAssumption DEF Address
  <2> QED BY <1>2, <2>1 DEF InitializeBios, Fail
<1>5. CASE at' = "returned"
  <2>1. volumes' = <<>> /\ volumes' = volumes /\ enabled' = enabled
        /\ status' = "CouldntInitializeDisk"
    BY <1>2, <1>4, <1>5
  <2>2. TypeInv' /\ StageInv' /\ ProtocolInv'
    BY <1>1, <1>2, <1>5, <2>1
    DEF DiskInv, TypeInv, StageInv, ProtocolInv, Stages, Starting, Scanning
  <2>3. SameVolumes
    BY <1>1, <2>1 DEF SameVolumes
  <2>4. BufferInv'
    BY <1>1, <1>5, BuffersOutside DEF DiskInv, Scanning
  <2> QED BY <2>2, <2>3, <2>4, SameVolumesKeep DEF DiskInv
<1>6. CASE at' = "fs"
  <2>1. PICK n \in Address : volumes' = <<BiosVolume(n)>>
    BY <1>4, <1>6
  <2> DEFINE new == BiosVolume(n)
  <2>2. /\ new \in VolumeRecord /\ new.Method = "Int13" /\ new.IsPartition = FALSE
    BY WordAssumption, DeviceAssumption DEF BiosVolume, VolumeRecord, Address
  <2> HIDE DEF new
  <2>3. volumes' = <<new>> /\ status' = "running" /\ enabled' = TRUE
    BY <1>4, <1>6, <2>1 DEF new
  <2>4. volumes' \in Seq(VolumeRecord) /\ Len(volumes') = 1 /\ DOMAIN volumes' = {1}
        /\ volumes'[1] = new
    BY <2>2, <2>3
  <2>5. TypeInv'
    BY <1>1, <1>6, <2>3, <2>4, DeviceAssumption DEF DiskInv, TypeInv, Stages
  <2>6. StageInv' /\ ProtocolInv'
    BY <1>1, <1>2, <1>6, <2>3 DEF DiskInv, StageInv, ProtocolInv, Starting, Scanning
  <2>7. VolumeInv'
    <3>1. inserted[1].LogicalPartition = FALSE
      BY <1>2, <1>3, DiscsAssumption
    <3> QED BY <1>1, <1>2, <2>2, <2>4, <3>1 DEF VolumeInv, DiscOfPartition
  <2>8. PartitionsAreOfTheirMedium' /\ NoPartitionInPartition'
    BY <1>1, <1>2 DEF PartitionsAreOfTheirMedium, NoPartitionInPartition, FromMap
  <2>9. BufferInv'
    BY <1>1, <1>6, BuffersOutside DEF DiskInv, Scanning
  <2> QED BY <2>5, <2>6, <2>7, <2>8, <2>9 DEF DiskInv
<1> QED BY <1>1, <1>5, <1>6

LEMMA StartFsKeeps ==
  ASSUME DiskInv, StartFs
  PROVE  DiskInv'
<1>1. /\ at = "fs" /\ scanned' = Len(volumes)
      /\ at' \in {"terminate", "bootsector"} /\ (at' = "bootsector" => volumes # <<>>)
      /\ boot' = boot /\ inserted' = inserted /\ media' = media /\ fresh' = fresh
      /\ index' = index /\ handles' = handles /\ open' = open /\ volumes' = volumes
      /\ enabled' = enabled /\ buffers' = buffers /\ status' = status
  BY DEF StartFs, environment, lists
<1>2. scanned = 0 /\ index = 1 /\ status = "running" /\ volumes \in Seq(VolumeRecord)
  BY <1>1 DEF DiskInv, TypeInv, StageInv
<1>3. scanned' \in Nat /\ (at' = "bootsector" => 1 <= scanned')
  BY <1>1, <1>2
<1>4. TypeInv'
  BY <1>1, <1>3 DEF DiskInv, TypeInv, Stages, Scanning
<1>5. StageInv'
  BY <1>1, <1>2, <1>3 DEF DiskInv, StageInv, Starting, Scanning
<1>6. ProtocolInv'
  BY <1>1 DEF DiskInv, ProtocolInv, Scanning
<1>7. FromMap = {} /\ FromMap' = {}
  BY <1>1, <1>2, <1>3 DEF FromMap
<1>8. PartitionsAreOfTheirMedium' /\ NoPartitionInPartition'
  BY <1>7 DEF PartitionsAreOfTheirMedium, NoPartitionInPartition
<1>9. VolumeInv'
  BY <1>1, <1>7 DEF DiskInv, VolumeInv, DiscOfPartition
<1>10. BufferInv'
  BY <1>1, BuffersOutside DEF DiskInv, Scanning
<1> QED BY <1>4, <1>5, <1>6, <1>8, <1>9, <1>10 DEF DiskInv

\* What all steps of the scan leave alone.
ScanStep ==
  /\ at \in Scanning
  /\ boot' = boot /\ inserted' = inserted /\ media' = media /\ fresh' = fresh
  /\ handles' = handles /\ open' = open /\ enabled' = enabled /\ scanned' = scanned
  /\ status' = status

LEMMA ScannedVolume ==
  ASSUME DiskInv, at \in Scanning
  PROVE  /\ index \in DOMAIN volumes /\ index \in 1 .. scanned /\ index \notin FromMap
         /\ scanned \in Nat /\ scanned <= Len(volumes) /\ Len(volumes) \in Nat
         /\ Volume \in VolumeRecord
         /\ DiscOfPartition(index) \in Discs
         /\ Volume.IsPartition = DiscOfPartition(index).LogicalPartition
<1>1. /\ volumes \in Seq(VolumeRecord) /\ index \in Nat \ {0} /\ scanned \in Nat
      /\ index <= scanned /\ scanned <= Len(volumes)
  BY DEF DiskInv, TypeInv, StageInv
<1>2. index \in DOMAIN volumes /\ index \in 1 .. scanned /\ Len(volumes) \in Nat
  <2> DEFINE n == Len(volumes)
  <2>1. DOMAIN volumes = 1 .. n /\ n \in Nat
    BY <1>1
  <2>2. scanned <= n
    BY <1>1
  <2> HIDE DEF n
  <2> QED BY <1>1, <2>1, <2>2 DEF n
<1>3. index \notin FromMap
  BY <1>1, <1>2 DEF FromMap
<1>4. Volume \in VolumeRecord
  BY <1>1, <1>2 DEF Volume
<1>5. DiscOfPartition(index) \in Discs
  <2>1. MaxMedia \in Nat \ {0}
    BY DeviceAssumption
  <2>2. Volume.MediaId \in 0 .. MaxMedia
    BY <1>4 DEF VolumeRecord
  <2>3. boot = "Efi" => Volume.MediaId \in 1 .. MaxMedia
    BY <1>2, <2>1, <2>2 DEF DiskInv, VolumeInv, Volume, None
  <2>4. boot = "Int13" => media[1] \in 1 .. MaxMedia
    BY <2>1 DEF DiskInv, VolumeInv
  <2> QED BY <2>3, <2>4 DEF DiskInv, TypeInv, DiscOfPartition, Volume
<1> QED BY <1>1, <1>2, <1>3, <1>4, <1>5 DEF DiskInv, VolumeInv, Volume

\* Between two volumes, or after the last one.
LEMMA NextVolumeKeeps ==
  ASSUME DiskInv, ScanStep, NextVolume
  PROVE  /\ StageInv' \/ Len(volumes') < scanned
         /\ ProtocolInv' /\ BufferInv'
         /\ index' \in Nat \ {0} /\ at' \in Stages
<1>1. /\ index \in 1 .. scanned /\ scanned \in Nat
      /\ boot \in {"Efi", "Int13"} /\ status = "running"
  BY ScannedVolume DEF DiskInv, TypeInv, StageInv, ScanStep, Scanning
<1>2. buffers' = NoBuffers
  BY DEF NextVolume
<1>3. \/ at' = "bootsector" /\ index' = index + 1 /\ index + 1 <= scanned
      \/ at' = "terminate" /\ index' = 1
  <2>1. CASE index < scanned
    BY <1>1, <2>1 DEF NextVolume
  <2>2. CASE ~(index < scanned)
    BY <2>2 DEF NextVolume
  <2> QED BY <2>1, <2>2
<1>4. BufferInv'
  BY <1>2, <1>3 DEF BufferInv, NoBuffers, Scanning
<1>5. ProtocolInv'
  BY <1>3 DEF DiskInv, ProtocolInv, ScanStep, Scanning
<1>6. index' \in Nat \ {0} /\ at' \in Stages
  BY <1>1, <1>3 DEF Stages, Scanning
<1>7. StageInv' \/ Len(volumes') < scanned
  BY <1>1, <1>3 DEF DiskInv, StageInv, ScanStep, Starting, Scanning
<1> QED BY <1>4, <1>5, <1>6, <1>7

LEMMA ScanKeeps ==
  ASSUME DiskInv, ScanStep, volumes' = volumes, BufferInv',
         at' \in Scanning \cup {"terminate"},
         (at' \in Scanning /\ index' = index) \/ NextVolume
  PROVE  DiskInv'
<1>1. SameVolumes
  BY DEF SameVolumes, ScanStep
<1>2. VolumeInv' /\ PartitionsAreOfTheirMedium' /\ NoPartitionInPartition'
  BY <1>1, SameVolumesKeep
<1>3. scanned <= Len(volumes)
  BY ScannedVolume DEF ScanStep
<1>4. CASE at' \in Scanning /\ index' = index
  <2>1. TypeInv'
    BY <1>4 DEF DiskInv, TypeInv, ScanStep, Stages
  <2>2. StageInv'
    BY <1>4 DEF DiskInv, StageInv, ScanStep, Starting, Scanning
  <2>3. ProtocolInv'
    BY <1>4 DEF DiskInv, ProtocolInv, ScanStep, Scanning
  <2> QED BY <1>2, <2>1, <2>2, <2>3 DEF DiskInv
<1>5. CASE NextVolume
  <2>1. StageInv' /\ ProtocolInv' /\ index' \in Nat \ {0} /\ at' \in Stages
    <3>1. ~(Len(volumes') < scanned)
      BY ScannedVolume DEF ScanStep
    <3> QED BY <1>5, <3>1, NextVolumeKeeps
  <2>2. TypeInv'
    BY <2>1 DEF DiskInv, TypeInv, ScanStep
  <2> QED BY <1>2, <2>1, <2>2 DEF DiskInv
<1> QED BY <1>4, <1>5

\* A read that succeeds is a read of the medium that the volume names.
LEMMA ReadableMedium ==
  ASSUME DiskInv, at \in Scanning, NEW sector, Readable(Volume, sector)
  PROVE  DiscOf(Volume) = DiscOfPartition(index)
BY DEF DiskInv, TypeInv, Readable, DiscOf, DiscOfPartition, Volume

LEMMA SameDisc ==
  ASSUME ScanStep, volumes' = volumes, index' = index
  PROVE  DiscOfPartition(index)' = DiscOfPartition(index) /\ Volume' = Volume
BY DEF ScanStep, DiscOfPartition, Volume

LEMMA ReadBootsectorKeeps ==
  ASSUME DiskInv, ReadBootsector
  PROVE  DiskInv'
<1> DEFINE disc == DiscOfPartition(index)
<1>1. at = "bootsector" /\ ScanStep /\ volumes' = volumes
  BY DEF ReadBootsector, ScanStep, Scanning, environment, lists
<1>2. CASE NextVolume
  <2>1. BufferInv' /\ at' \in {"bootsector", "terminate"}
    BY <1>1, <1>2, NextVolumeKeeps DEF NextVolume
  <2> QED BY <1>1, <1>2, <2>1, ScanKeeps DEF Scanning
<1>3. CASE /\ Readable(Volume, 0)
           /\ ValidateMbrHeader(DiscOf(Volume).Mbr, Volume)
           /\ buffers' = [buffers EXCEPT !.mbr = DiscOf(Volume).Mbr]
           /\ at' = IF GptPartitionMap(buffers'.mbr) THEN "headers" ELSE "partitions"
           /\ UNCHANGED index
  <2>1. at \in Scanning /\ index' = index
    BY <1>1, <1>3 DEF ScanStep
  <2>2. DiscOf(Volume) = disc /\ disc' = disc
    BY <1>1, <1>3, <2>1, ReadableMedium, SameDisc
  <2>3. disc.LogicalPartition = FALSE
    <3>1. Volume.IsPartition = disc.LogicalPartition /\ disc \in Discs
      BY <2>1, ScannedVolume
    <3>2. ~Volume.IsPartition
      BY <1>3 DEF ValidateMbrHeader
    <3> QED BY <3>1, <3>2, DiscsAssumption
  <2> HIDE DEF disc
  <2>4. /\ buffers' = [mbr |-> disc.Mbr, primary |-> buffers.primary, backup |-> buffers.backup]
    BY <1>3, <2>2 DEF DiskInv, BufferInv
  <2>5. at' = (IF GptPartitionMap(disc.Mbr) THEN "headers" ELSE "partitions")
    BY <1>3, <2>4
  <2>6. /\ buffers' = [mbr |-> buffers'.mbr, primary |-> buffers'.primary, backup |-> buffers'.backup]
        /\ buffers'.mbr = disc.Mbr /\ buffers'.primary = Unread
    <3>1. buffers.primary = Unread
      BY <1>1 DEF DiskInv, BufferInv
    <3> QED BY <2>4, <3>1
  <2>7. BufferInv'
    <3>1. DiscOfPartition(index)' = disc
      BY <2>2 DEF disc
    <3>2. at' \in {"headers", "partitions"} /\ (GptPartitionMap(disc.Mbr) <=> at' # "partitions")
      BY <2>5
    <3>3. ~disc.LogicalPartition
      BY <2>3
    <3> HIDE DEF GptPartitionMap
    <3> QED BY <2>6, <3>1, <3>2, <3>3 DEF BufferInv, Scanning
  <2>8. at' \in Scanning
    BY <2>5 DEF Scanning
  <2> QED BY <1>1, <2>1, <2>7, <2>8, ScanKeeps
<1> QED BY <1>2, <1>3 DEF ReadBootsector

LEMMA ReadPrimaryKeeps ==
  ASSUME DiskInv, ReadPrimary
  PROVE  DiskInv'
<1> DEFINE disc == DiscOfPartition(index)
<1>1. at = "headers" /\ ScanStep /\ volumes' = volumes
  BY DEF ReadPrimary, ScanStep, Scanning, environment, lists
<1>2. CASE NextVolume
  <2>1. BufferInv' /\ at' \in {"bootsector", "terminate"}
    BY <1>1, <1>2, NextVolumeKeeps DEF NextVolume
  <2> QED BY <1>1, <1>2, <2>1, ScanKeeps DEF Scanning
<1>3. CASE /\ at' = "backup"
           /\ \/ Readable(Volume, 1) /\ buffers' = [buffers EXCEPT !.primary = DiscOf(Volume).Primary]
              \/ UNCHANGED buffers
           /\ UNCHANGED index
  <2>1. at \in Scanning /\ index' = index
    BY <1>1, <1>3 DEF ScanStep
  <2>2. disc' = disc
    BY <1>1, <2>1, SameDisc
  <2>3. /\ buffers = [mbr |-> disc.Mbr, primary |-> buffers.primary, backup |-> buffers.backup]
        /\ ~disc.LogicalPartition /\ GptPartitionMap(disc.Mbr)
    BY <1>1 DEF DiskInv, BufferInv, Scanning
  <2> HIDE DEF disc
  <2>4. CASE Readable(Volume, 1) /\ buffers' = [buffers EXCEPT !.primary = DiscOf(Volume).Primary]
    <3>1. buffers' = [buffers EXCEPT !.primary = disc.Primary]
      BY <2>1, <2>4, ReadableMedium DEF disc
    <3>2. buffers' = [mbr |-> disc.Mbr, primary |-> disc.Primary, backup |-> buffers.backup]
      BY <2>3, <3>1
    <3>3. BufferInv'
      BY <1>3, <2>2, <2>3, <3>2 DEF BufferInv, Scanning, disc
    <3> QED BY <1>1, <1>3, <2>1, <3>3, ScanKeeps DEF Scanning
  <2>5. CASE UNCHANGED buffers
    <3>1. buffers.primary = Unread
      BY <1>1 DEF DiskInv, BufferInv
    <3>2. BufferInv'
      BY <1>3, <2>2, <2>3, <2>5, <3>1 DEF BufferInv, Scanning, disc
    <3> QED BY <1>1, <1>3, <2>1, <3>2, ScanKeeps DEF Scanning
  <2> QED BY <1>3, <2>4, <2>5
<1> QED BY <1>2, <1>3 DEF ReadPrimary

LEMMA ReadBackupKeeps ==
  ASSUME DiskInv, ReadBackup
  PROVE  DiskInv'
<1> DEFINE disc == DiscOfPartition(index)
<1>1. at = "backup" /\ ScanStep /\ volumes' = volumes
  BY DEF ReadBackup, ScanStep, Scanning, environment, lists
<1>2. CASE NextVolume
  <2>1. BufferInv' /\ at' \in {"bootsector", "terminate"}
    BY <1>1, <1>2, NextVolumeKeeps DEF NextVolume
  <2> QED BY <1>1, <1>2, <2>1, ScanKeeps DEF Scanning
<1>3. CASE /\ Readable(Volume, Volume.NumSectors - 1)
           /\ buffers.primary # Unread
           /\ buffers' = [buffers EXCEPT !.backup = DiscOf(Volume).Backup]
           /\ at' = "choose"
           /\ UNCHANGED index
  <2>1. at \in Scanning /\ index' = index
    BY <1>1, <1>3 DEF ScanStep
  <2>2. disc' = disc /\ DiscOf(Volume) = disc
    BY <1>1, <1>3, <2>1, SameDisc, ReadableMedium
  <2>3. /\ buffers = [mbr |-> disc.Mbr, primary |-> disc.Primary, backup |-> buffers.backup]
        /\ ~disc.LogicalPartition /\ GptPartitionMap(disc.Mbr)
    BY <1>1, <1>3 DEF DiskInv, BufferInv, Scanning
  <2> HIDE DEF disc
  <2>4. buffers' = [mbr |-> disc.Mbr, primary |-> disc.Primary, backup |-> disc.Backup]
    BY <1>3, <2>2, <2>3
  <2>5. BufferInv'
    BY <1>3, <2>2, <2>3, <2>4 DEF BufferInv, Scanning, disc
  <2> QED BY <1>1, <1>3, <2>1, <2>5, ScanKeeps DEF Scanning
<1> QED BY <1>2, <1>3 DEF ReadBackup

LEMMA ChooseHeaderKeeps ==
  ASSUME DiskInv, ChooseHeader
  PROVE  DiskInv'
<1> DEFINE disc == DiscOfPartition(index)
<1>1. at = "choose" /\ ScanStep /\ volumes' = volumes
  BY DEF ChooseHeader, ScanStep, Scanning, environment, lists
<1>2. CASE NextVolume
  <2>1. BufferInv' /\ at' \in {"bootsector", "terminate"}
    BY <1>1, <1>2, NextVolumeKeeps DEF NextVolume
  <2> QED BY <1>1, <1>2, <2>1, ScanKeeps DEF Scanning
<1>3. CASE ValidateGptHeader(Header, Volume) /\ at' = "array" /\ UNCHANGED <<index, buffers>>
  <2>1. at \in Scanning /\ index' = index /\ buffers' = buffers
    BY <1>1, <1>3 DEF ScanStep
  <2>2. disc' = disc /\ Volume' = Volume
    BY <1>1, <2>1, SameDisc
  <2>3. Header' = Header
    BY <2>1, <2>2 DEF Header
  <2>4. BufferInv'
    <3>1. ValidateGptHeader(Header', Volume')
      BY <1>3, <2>2, <2>3
    <3> QED BY <1>1, <1>3, <2>1, <2>2, <3>1 DEF DiskInv, BufferInv, Scanning
  <2> QED BY <1>1, <1>3, <2>1, <2>4, ScanKeeps DEF Scanning
<1> QED BY <1>2, <1>3 DEF ChooseHeader

\* The volumes that are added for a map are those of the disc that it was read from.
LEMMA AddedKeep ==
  ASSUME DiskInv, at \in Scanning, ScanStep, NextVolume, ~DiscOfPartition(index).LogicalPartition,
         NEW old \in Seq(VolumeRecord), NEW new \in Seq(VolumeRecord),
         Len(old) = Len(volumes),
         \A v \in DOMAIN volumes : \E type : old[v] = [volumes[v] EXCEPT !.Type = type],
         \A k \in DOMAIN new : IsPartitionOf(new[k], Volume, DiscOfPartition(index)),
         volumes' = Added(old, new, VolumeLimit)
  PROVE  DiskInv'
<1> DEFINE n == Len(volumes)
           disc == DiscOfPartition(index)
<1>1. /\ n \in Nat /\ n <= VolumeLimit /\ DOMAIN volumes = 1 .. n /\ DOMAIN old = 1 .. n
  BY DEF DiskInv, TypeInv
<1>2. /\ volumes' \in Seq(VolumeRecord) /\ n <= Len(volumes') /\ Len(volumes') <= VolumeLimit
      /\ \A v \in DOMAIN old : volumes'[v] = old[v]
      /\ \A v \in DOMAIN volumes' : v > n => \E k \in DOMAIN new : volumes'[v] = new[k]
  BY <1>1, AddedVolumes
<1>3. /\ index \in 1 .. scanned /\ scanned \in Nat /\ scanned <= n /\ index \in DOMAIN volumes
      /\ Volume \in VolumeRecord
  BY ScannedVolume
<1> HIDE DEF n
<1>4. DOMAIN volumes' = 1 .. Len(volumes') /\ Len(volumes') \in Nat
  BY <1>2
<1>5. ASSUME NEW v \in DOMAIN volumes', v \in 1 .. n
      PROVE  /\ v \in DOMAIN volumes
             /\ volumes'[v].Method = volumes[v].Method /\ volumes'[v].Drive = volumes[v].Drive
             /\ volumes'[v].MediaId = volumes[v].MediaId
             /\ volumes'[v].IsPartition = volumes[v].IsPartition
             /\ volumes'[v].Partition = volumes[v].Partition
             /\ volumes'[v].PartitionOffset = volumes[v].PartitionOffset
             /\ volumes'[v].NumSectors = volumes[v].NumSectors
             /\ DiscOfPartition(v)' = DiscOfPartition(v)
             /\ v \in FromMap' <=> v \in FromMap
  <2>1. v \in DOMAIN volumes /\ volumes'[v] = old[v] /\ volumes[v] \in VolumeRecord
    BY <1>1, <1>2, <1>5 DEF DiskInv, TypeInv
  <2>2. PICK type : old[v] = [volumes[v] EXCEPT !.Type = type]
    BY <2>1
  <2>3. /\ volumes'[v].Method = volumes[v].Method /\ volumes'[v].Drive = volumes[v].Drive
        /\ volumes'[v].MediaId = volumes[v].MediaId
        /\ volumes'[v].IsPartition = volumes[v].IsPartition
        /\ volumes'[v].Partition = volumes[v].Partition
        /\ volumes'[v].PartitionOffset = volumes[v].PartitionOffset
        /\ volumes'[v].NumSectors = volumes[v].NumSectors
    BY <2>1, <2>2 DEF VolumeRecord
  <2>4. DiscOfPartition(v)' = DiscOfPartition(v)
    BY <2>3 DEF DiscOfPartition, ScanStep
  <2>5. v \in FromMap' <=> v \in FromMap
    BY <2>1 DEF FromMap, ScanStep
  <2> QED BY <2>1, <2>3, <2>4, <2>5
<1>6. ASSUME NEW v \in DOMAIN volumes', v \notin 1 .. n
      PROVE  /\ v \in FromMap'
             /\ volumes'[v].Method = Volume.Method /\ volumes'[v].Drive = Volume.Drive
             /\ volumes'[v].MediaId = Volume.MediaId
             /\ DiscOfPartition(v)' = disc
             /\ \/ Area(volumes'[v].PartitionOffset, volumes'[v].NumSectors) \in Areas(disc)
                \/ IsBeyondArray(disc, volumes'[v].Partition)
  <2>1. v \in Nat /\ v > n /\ v > scanned /\ scanned > 0
    BY <1>1, <1>3, <1>4, <1>6
  <2>2. PICK k \in DOMAIN new : volumes'[v] = new[k]
    BY <1>2, <2>1
  <2>3. /\ volumes'[v].Method = Volume.Method /\ volumes'[v].Drive = Volume.Drive
        /\ volumes'[v].MediaId = Volume.MediaId
        /\ \/ Area(volumes'[v].PartitionOffset, volumes'[v].NumSectors) \in Areas(disc)
           \/ IsBeyondArray(disc, volumes'[v].Partition)
    BY <2>2 DEF IsPartitionOf
  <2>4. DiscOfPartition(v)' = disc
    BY <2>3 DEF DiscOfPartition, ScanStep, Volume
  <2>5. v \in FromMap'
    BY <2>1 DEF FromMap, ScanStep
  <2> QED BY <2>3, <2>4, <2>5
<1>7. FromMap' \subseteq DOMAIN volumes'
  BY DEF FromMap
<1>8. PartitionsAreOfTheirMedium'
  <2> SUFFICES ASSUME NEW v \in FromMap'
               PROVE  \/ Area(volumes'[v].PartitionOffset, volumes'[v].NumSectors)
                           \in Areas(DiscOfPartition(v)')
                      \/ IsBeyondArray(DiscOfPartition(v)', volumes'[v].Partition)
    BY DEF PartitionsAreOfTheirMedium
  <2>1. v \in DOMAIN volumes'
    BY <1>7
  <2>2. CASE v \in 1 .. n
    BY <1>5, <2>1, <2>2 DEF DiskInv, PartitionsAreOfTheirMedium
  <2>3. CASE v \notin 1 .. n
    BY <1>6, <2>1, <2>3
  <2> QED BY <2>2, <2>3
<1>9. NoPartitionInPartition'
  <2> SUFFICES ASSUME NEW v \in FromMap'
               PROVE  ~DiscOfPartition(v)'.LogicalPartition
    BY DEF NoPartitionInPartition
  <2>1. v \in DOMAIN volumes'
    BY <1>7
  <2>2. CASE v \in 1 .. n
    BY <1>5, <2>1, <2>2 DEF DiskInv, NoPartitionInPartition
  <2>3. CASE v \notin 1 .. n
    BY <1>6, <2>1, <2>3
  <2> QED BY <2>2, <2>3
<1>10. VolumeInv'
  <2>1. ASSUME NEW v \in DOMAIN volumes'
        PROVE  /\ volumes'[v].Method = boot
               /\ boot = "Efi" => volumes'[v].Drive \in DOMAIN handles /\ volumes'[v].MediaId # None
               /\ v \notin FromMap' => volumes'[v].IsPartition = DiscOfPartition(v)'.LogicalPartition
    <3>1. CASE v \in 1 .. n
      BY <1>5, <2>1, <3>1 DEF DiskInv, VolumeInv
    <3>2. CASE v \notin 1 .. n
      BY <1>3, <1>6, <2>1, <3>2 DEF DiskInv, VolumeInv, Volume
    <3> QED BY <3>1, <3>2
  <2>2. boot = "Int13" => media[1] = 1 /\ ~inserted[1].LogicalPartition
    BY DEF DiskInv, VolumeInv
  <2> QED BY <2>1, <2>2 DEF VolumeInv, ScanStep
<1>11. /\ StageInv' /\ ProtocolInv' /\ BufferInv' /\ index' \in Nat \ {0} /\ at' \in Stages
  <2>1. ~(Len(volumes') < scanned)
    BY <1>1, <1>2, <1>3, <1>4
  <2> QED BY <2>1, NextVolumeKeeps
<1>12. TypeInv'
  BY <1>2, <1>11 DEF DiskInv, TypeInv, ScanStep
<1> QED BY <1>8, <1>9, <1>10, <1>11, <1>12 DEF DiskInv

LEMMA AddMbrPartitionsKeeps ==
  ASSUME DiskInv, AddMbrPartitions
  PROVE  DiskInv'
<1> DEFINE disc == DiscOfPartition(index)
           old == [volumes EXCEPT ![index].Type = "Mbr"]
<1>1. at = "partitions" /\ ScanStep /\ NextVolume
  BY DEF AddMbrPartitions, ScanStep, Scanning, environment
<1>2. at \in Scanning
  BY <1>1 DEF ScanStep
<1>3. buffers.mbr = disc.Mbr /\ ~disc.LogicalPartition /\ ~GptPartitionMap(disc.Mbr)
  BY <1>1 DEF DiskInv, BufferInv, Scanning
<1>4. disc \in Discs /\ Volume \in VolumeRecord /\ index \in DOMAIN volumes
  BY <1>2, ScannedVolume
<1>5. volumes \in Seq(VolumeRecord)
  BY DEF DiskInv, TypeInv
<1>6. /\ old \in Seq(VolumeRecord) /\ Len(old) = Len(volumes)
      /\ \A v \in DOMAIN volumes : \E type : old[v] = [volumes[v] EXCEPT !.Type = type]
  <2>1. [Volume EXCEPT !.Type = "Mbr"] \in VolumeRecord
    BY <1>4 DEF VolumeRecord
  <2>2. old = [volumes EXCEPT ![index] = [Volume EXCEPT !.Type = "Mbr"]]
    BY <1>4, <1>5 DEF Volume
  <2>3. ASSUME NEW v \in DOMAIN volumes
        PROVE  \E type : old[v] = [volumes[v] EXCEPT !.Type = type]
    <3>1. CASE v = index
      BY <1>4, <3>1 DEF Volume
    <3>2. CASE v # index
      <4>1. old[v] = volumes[v] /\ volumes[v] \in VolumeRecord
        BY <1>5, <3>2
      <4>2. volumes[v] = [volumes[v] EXCEPT !.Type = volumes[v].Type]
        BY <4>1 DEF VolumeRecord
      <4> QED BY <4>1, <4>2
    <3> QED BY <3>1, <3>2
  <2>4. old \in Seq(VolumeRecord) /\ Len(old) = Len(volumes)
    BY <1>4, <1>5, <2>1, <2>2
  <2> QED BY <2>3, <2>4
<1> DEFINE new == MbrVolumes(disc.Mbr, Volume)
<1>7. volumes' = Added(old, new, VolumeLimit)
  BY <1>3 DEF AddMbrPartitions
<1>8. /\ new \in Seq(VolumeRecord)
      /\ \A k \in DOMAIN new : IsPartitionOf(new[k], Volume, disc)
  BY <1>3, <1>4, MbrVolumesAreAreas
<1> HIDE DEF new, old
<1> QED BY <1>1, <1>2, <1>3, <1>6, <1>7, <1>8, AddedKeep

LEMMA AddGptPartitionsKeeps ==
  ASSUME DiskInv, AddGptPartitions
  PROVE  DiskInv'
<1> DEFINE disc == DiscOfPartition(index)
<1>1. at = "array" /\ ScanStep /\ NextVolume
  BY DEF AddGptPartitions, ScanStep, Scanning, environment
<1>2. at \in Scanning
  BY <1>1 DEF ScanStep
<1>3. CASE volumes' = volumes
  <2>1. BufferInv' /\ at' \in Scanning \cup {"terminate"}
    BY <1>1, NextVolumeKeeps DEF NextVolume, Scanning
  <2> QED BY <1>1, <1>3, <2>1, ScanKeeps
<1>4. CASE /\ ArraySize(Header) > 0
           /\ Readable(Volume, Header.PartitionLba)
           /\ IsIntact(DiscOf(Volume).Array, Header)
           /\ \E cells \in CellsRead(Header, DiscOf(Volume).Array) :
                volumes' = Added(volumes, GptVolumes(Header, cells, Volume), VolumeLimit)
  <2>1. DiscOf(Volume) = disc
    BY <1>2, <1>4, ReadableMedium
  <2>2. disc \in Discs /\ Volume \in VolumeRecord
    BY <1>2, ScannedVolume
  <2>3. /\ ~disc.LogicalPartition /\ GptPartitionMap(disc.Mbr)
        /\ Header \in {disc.Primary, disc.Backup} /\ ValidateGptHeader(Header, Volume)
    BY <1>1 DEF DiskInv, BufferInv, Scanning, Header
  <2>4. Header \in Headers(disc)
    BY <2>3 DEF ValidateGptHeader, Headers
  <2>5. PICK cells \in CellsRead(Header, disc.Array) :
          volumes' = Added(volumes, GptVolumes(Header, cells, Volume), VolumeLimit)
    BY <1>4, <2>1
  <2> DEFINE new == GptVolumes(Header, cells, Volume)
  <2>6. /\ new \in Seq(VolumeRecord)
        /\ \A k \in DOMAIN new : IsPartitionOf(new[k], Volume, disc)
    BY <1>4, <2>1, <2>2, <2>3, <2>4, GptVolumesAreAreas
  <2>7. volumes' = Added(volumes, new, VolumeLimit)
    BY <2>5
  <2> HIDE DEF new
  <2>8. volumes \in Seq(VolumeRecord)
    BY DEF DiskInv, TypeInv
  <2>9. \A v \in DOMAIN volumes : \E type : volumes[v] = [volumes[v] EXCEPT !.Type = type]
    <3> SUFFICES ASSUME NEW v \in DOMAIN volumes
                 PROVE  volumes[v] = [volumes[v] EXCEPT !.Type = volumes[v].Type]
      OBVIOUS
    <3>1. volumes[v] \in VolumeRecord
      BY <2>8
    <3> QED BY <3>1 DEF VolumeRecord
  <2> QED BY <1>1, <1>2, <2>3, <2>6, <2>7, <2>8, <2>9, AddedKeep
<1> QED BY <1>3, <1>4 DEF AddGptPartitions

LEMMA TerminateKeeps ==
  ASSUME DiskInv, Terminate
  PROVE  DiskInv'
<1>1. /\ at = "terminate" /\ enabled' = FALSE
      /\ boot' = boot /\ inserted' = inserted /\ media' = media /\ fresh' = fresh
      /\ index' = index /\ handles' = handles /\ open' = open /\ volumes' = volumes
      /\ scanned' = scanned /\ buffers' = buffers
      /\ \/ boot = "Efi" /\ at' = "close" /\ status' = status
         \/ boot = "Int13" /\ at' = "returned" /\ status' = "Success"
  BY DEF Terminate, environment, DiskInv, TypeInv
<1>2. TypeInv'
  BY <1>1 DEF DiskInv, TypeInv, Stages
<1>3. index = 1 /\ status = "running"
  BY <1>1 DEF DiskInv, StageInv
<1>4. StageInv' /\ ProtocolInv'
  <2>1. CASE boot = "Efi"
    <3>1. /\ open = DOMAIN handles /\ 1 <= Len(handles) /\ DOMAIN handles = 1 .. Len(handles)
          /\ \A i \in open : handles[i] # None
      BY <1>1, <2>1 DEF DiskInv, TypeInv, StageInv, ProtocolInv, Scanning
    <3>2. ProtocolInv'
      BY <1>1, <1>3, <2>1, <3>1 DEF ProtocolInv, Scanning
    <3>3. StageInv'
      BY <1>1, <1>3, <2>1, <3>1 DEF StageInv, Starting, Scanning
    <3> QED BY <3>2, <3>3
  <2>2. CASE boot = "Int13"
    <3>1. open = {} /\ handles = <<>>
      BY <2>2 DEF DiskInv, ProtocolInv
    <3> QED BY <1>1, <1>3, <2>2, <3>1 DEF StageInv, ProtocolInv, Starting, Scanning
  <2> QED BY <1>1, <2>1, <2>2
<1>5. VolumeInv' /\ PartitionsAreOfTheirMedium' /\ NoPartitionInPartition'
  <2>1. SameVolumes
    BY <1>1 DEF SameVolumes
  <2> QED BY <2>1, SameVolumesKeep
<1>6. BufferInv'
  BY <1>1, BuffersOutside DEF DiskInv, Scanning
<1> QED BY <1>2, <1>4, <1>5, <1>6 DEF DiskInv

LEMMA CloseProtocolKeeps ==
  ASSUME DiskInv, CloseProtocol
  PROVE  DiskInv'
<1> DEFINE n == Len(handles)
<1>1. /\ at = "close" /\ open' = open \ {index} /\ NextHandle("returned")
      /\ status' = (IF at' = "returned" THEN "Success" ELSE status)
      /\ boot' = boot /\ inserted' = inserted /\ media' = media /\ fresh' = fresh
      /\ handles' = handles /\ volumes' = volumes /\ enabled' = enabled
      /\ scanned' = scanned /\ buffers' = buffers
  BY DEF CloseProtocol, environment
<1>2. /\ boot = "Efi" /\ status = "running" /\ open = index .. n /\ index \in 1 .. n /\ n \in Nat
      /\ DOMAIN handles = 1 .. n /\ enabled = FALSE /\ \A i \in open : handles[i] # None
  BY <1>1 DEF DiskInv, TypeInv, StageInv, ProtocolInv, Starting, Scanning
<1>3. VolumeInv' /\ PartitionsAreOfTheirMedium' /\ NoPartitionInPartition'
  <2>1. SameVolumes
    BY <1>1 DEF SameVolumes
  <2> QED BY <2>1, SameVolumesKeep
<1>4. BufferInv'
  BY <1>1, BuffersOutside DEF DiskInv, Scanning, NextHandle
<1>5. CASE index < n
  <2>1. /\ index' = index + 1 /\ at' = "close" /\ status' = "running"
    BY <1>1, <1>2, <1>5 DEF NextHandle
  <2> HIDE DEF n
  <2>2. /\ open' = index + 1 .. n /\ index + 1 \in 1 .. n
    BY <1>1, <1>2, <1>5
  <2>3. TypeInv'
    BY <1>1, <2>1, <2>2 DEF DiskInv, TypeInv
  <2>4. StageInv'
    BY <1>1, <1>2, <2>1, <2>2 DEF StageInv, Starting, Scanning, n
  <2>5. ProtocolInv'
    BY <1>1, <1>2, <2>1, <2>2 DEF ProtocolInv, Scanning, n
  <2> QED BY <1>3, <1>4, <2>3, <2>4, <2>5 DEF DiskInv
<1>6. CASE ~(index < n)
  <2>1. /\ index' = 1 /\ at' = "returned" /\ status' = "Success"
    BY <1>1, <1>6 DEF NextHandle
  <2> HIDE DEF n
  <2>2. open' = {}
    BY <1>1, <1>2, <1>6
  <2>3. TypeInv'
    BY <1>1, <2>1, <2>2 DEF DiskInv, TypeInv, Stages
  <2>4. StageInv'
    BY <1>1, <1>2, <2>1, <2>2 DEF StageInv, Starting, Scanning
  <2>5. ProtocolInv'
    BY <1>1, <1>2, <2>1, <2>2 DEF ProtocolInv, Scanning
  <2> QED BY <1>3, <1>4, <2>3, <2>4, <2>5 DEF DiskInv
<1> QED BY <1>5, <1>6

LEMMA StutterKeeps ==
  ASSUME DiskInv, UNCHANGED vars
  PROVE  DiskInv'
<1>1. /\ boot' = boot /\ inserted' = inserted /\ media' = media /\ fresh' = fresh
      /\ at' = at /\ index' = index /\ handles' = handles /\ open' = open /\ volumes' = volumes
      /\ enabled' = enabled /\ scanned' = scanned /\ buffers' = buffers /\ status' = status
  BY DEF vars, environment, lists
<1>2. TypeInv' /\ StageInv' /\ ProtocolInv'
  BY <1>1 DEF DiskInv, TypeInv, StageInv, ProtocolInv
<1>3. VolumeInv' /\ PartitionsAreOfTheirMedium' /\ NoPartitionInPartition'
  <2>1. SameVolumes
    BY <1>1 DEF SameVolumes
  <2> QED BY <2>1, SameVolumesKeep
<1>4. BufferInv'
  <2>1. DiscOfPartition(index)' = DiscOfPartition(index) /\ Header' = Header /\ Volume' = Volume
    BY <1>1 DEF DiscOfPartition, Header, Volume
  <2> QED BY <1>1, <2>1 DEF DiskInv, BufferInv
<1> QED BY <1>2, <1>3, <1>4 DEF DiskInv

LEMMA NextKeeps ==
  ASSUME DiskInv, [Next]_vars
  PROVE  DiskInv'
<1>1. CASE KernelStep
  BY <1>1, CountHandlesKeeps, FillHandlesKeeps, OpenProtocolKeeps, ListVolumeKeeps,
     InitializeBiosKeeps, StartFsKeeps, ReadBootsectorKeeps, AddMbrPartitionsKeeps,
     ReadPrimaryKeeps, ReadBackupKeeps, ChooseHeaderKeeps, AddGptPartitionsKeeps,
     TerminateKeeps, CloseProtocolKeeps
  DEF KernelStep
<1>2. CASE RemoveMedium \/ ReplaceMedium
  BY <1>2, MediumStepKeeps
<1> QED BY <1>1, <1>2, StutterKeeps DEF Next

-----------------------------------------------------------------------------
(***************************************************************************)
(* The invariant holds from the entrypoint of the kernel to its return.    *)
(***************************************************************************)
THEOREM DiskInvariant == Spec => []DiskInv
BY InitKeeps, NextKeeps, PTL DEF Spec

(***************************************************************************)
(* Disk.c:152, Efi.c:126, Fs.c:573: the list of volumes never outgrows its *)
(* place, the protocol of every volume that may be read is open, and a     *)
(* kernel that succeeds has closed all of them.                            *)
(***************************************************************************)
THEOREM VolumesAlwaysKept == Spec => []VolumesAreKept
<1>1. DiskInv => VolumesAreKept
  <2> SUFFICES ASSUME DiskInv PROVE VolumesAreKept
    OBVIOUS
  <2>1. TypeOK
    <3>1. handles \in UNION {[1 .. n -> Devices \cup {None}] : n \in 0 .. NumDevices}
      <4>1. /\ handles \in [1 .. Len(handles) -> Devices \cup {None}]
            /\ Len(handles) \in 0 .. NumDevices
        BY DeviceAssumption DEF DiskInv, TypeInv
      <4> QED BY <4>1
    <3>2. ASSUME NEW v \in DOMAIN volumes
          PROVE  /\ volumes[v].NumSectors \in 0 .. Word - 1
                 /\ volumes[v].Method = boot
                 /\ boot = "Efi" => volumes[v].Drive \in DOMAIN handles
      <4>1. volumes[v] \in VolumeRecord
        BY DEF DiskInv, TypeInv
      <4> QED BY <4>1 DEF DiskInv, VolumeInv, VolumeRecord, Address
    <3>3. at \in Scanning => index \in 1 .. scanned /\ scanned <= Len(volumes)
      BY ScannedVolume
    <3> QED BY <3>1, <3>2, <3>3 DEF DiskInv, TypeInv, TypeOK, Scanning
  <2>2. VolumesHaveProtocols
    BY DEF DiskInv, StageInv, ProtocolInv, VolumeInv, VolumesHaveProtocols
  <2>3. SuccessClosesAll
    BY DEF DiskInv, ProtocolInv, SuccessClosesAll
  <2> QED BY <2>1, <2>2, <2>3 DEF VolumesAreKept
<1> QED BY <1>1, DiskInvariant, PTL

(***************************************************************************)
(* Fs.c:417: every partition is one of the very medium that its volume     *)
(* names, whenever media are replaced, and whatever is on them; unless it  *)
(* is made of what is behind an array whose size has wrapped.              *)
(***************************************************************************)
THEOREM PartitionsAlwaysOfTheirMedium == Spec => []PartitionsAreOfTheirMedium
<1>1. DiskInv => PartitionsAreOfTheirMedium
  BY DEF DiskInv
<1> QED BY <1>1, DiskInvariant, PTL

(***************************************************************************)
(* Fs.c:170: no partition is looked for in a volume that is one itself.    *)
(***************************************************************************)
THEOREM NeverAPartitionInPartition == Spec => []NoPartitionInPartition
<1>1. DiskInv => NoPartitionInPartition
  BY DEF DiskInv
<1> QED BY <1>1, DiskInvariant, PTL
=============================================================================
