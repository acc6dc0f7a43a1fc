---------------------------- MODULE DiskVolumes ----------------------------
(***************************************************************************)
(* The disk and filesystem subsystems from the entrypoint of the kernel to *)
(* its return: the protocols that are opened and closed, the list of       *)
(* volumes, and the partitions that are added to it.                       *)
(*                                                                         *)
(* Between any two steps a medium may be removed or replaced, which the    *)
(* firmware answers with a new media id.  Every call of the firmware and   *)
(* every allocation may fail.                                              *)
(***************************************************************************)
EXTENDS PartitionMap

CONSTANTS
  NumDevices,   \* How many devices the firmware may have handles of.
  VolumeLimit,  \* The number of elements of VolumeList.
  Discs,        \* What may be on a medium, see Disc.
  MaxMedia,     \* Bound: how many media are inserted.
  SectorSize

ASSUME DeviceAssumption ==
  /\ NumDevices \in Nat \ {0}
  /\ VolumeLimit \in Nat \ {0}
  /\ MaxMedia \in Nat /\ NumDevices <= MaxMedia
  /\ SectorSize \in Nat \ {0}

(***************************************************************************)
(* Every field of a table has its width.  The array of a disc is all that  *)
(* follows on it from PartitionLba on, in steps of sizeof(gptPartition).   *)
(***************************************************************************)
Address == 0 .. Word - 1

ASSUME DiscsAssumption ==
  \A disc \in Discs :
    /\ disc.LogicalPartition \in BOOLEAN
    /\ disc.NumSectors \in Address
    /\ Len(disc.Mbr.Entry) \in Nat
    /\ \A i \in DOMAIN disc.Mbr.Entry :
         /\ disc.Mbr.Entry[i].Lba \in Address /\ disc.Mbr.Entry[i].NumSectors \in Address
         /\ {disc.Mbr.Entry[i].ChsStart, disc.Mbr.Entry[i].ChsEnd} \subseteq
              [Cylinders : Nat, Heads : Nat, Sectors : Nat]
    /\ Len(disc.Array) \in Nat /\ DOMAIN disc.Array = 1 .. Len(disc.Array)
    /\ \A i \in DOMAIN disc.Array :
         disc.Array[i].StartingLba \in Address /\ disc.Array[i].EndingLba \in Address
    /\ \A header \in {disc.Primary, disc.Backup} :
         header.Sound => header.NumPartitions \in Nat /\ header.PartitionEntrySize \in Nat

ASSUME BeyondAssumption ==
  \A cell \in Beyond : cell.StartingLba \in Address /\ cell.EndingLba \in Address

Devices == 1 .. NumDevices

VARIABLES
  boot,      \* DiskInfo.BootMethod.
  inserted,  \* What is on the medium of each id.
  media,     \* The id of the medium in each device, or None.
  fresh,     \* The id of the next medium.
  at,        \* What the kernel does next.
  index,     \* Its loop counter: a handle, or a volume.
  handles,   \* EfiBlockIoHandles.
  open,      \* The indices of the handles whose protocols are open.
  volumes,   \* VolumeList, up to NumVolumes.
  enabled,   \* DiskInfo.IsEnabled.
  scanned,   \* The number of volumes to scan.
  buffers,   \* The boot sector and the GPT headers of the volume at hand.
  status     \* What the entrypoint returns.

environment == <<boot, inserted, media, fresh>>
lists == <<handles, open, volumes, enabled>>
vars == <<environment, at, index, lists, scanned, buffers, status>>

None == 0

Unread == [Sound |-> FALSE]

NoBuffers == [mbr |-> Unread, primary |-> Unread, backup |-> Unread]

Init ==
  /\ boot \in {"Efi", "Int13"}
  /\ inserted \in [1 .. MaxMedia -> Discs]
  /\ boot = "Int13" => ~inserted[1].LogicalPartition
  /\ media = [d \in Devices |-> d]
  /\ fresh = NumDevices + 1
  /\ at = IF boot = "Efi" THEN "count" ELSE "bios"
  /\ index = 1
  /\ handles = <<>> /\ open = {} /\ volumes = <<>> /\ enabled = FALSE
  /\ scanned = 0
  /\ buffers = NoBuffers
  /\ status = "running"

-----------------------------------------------------------------------------
\* The boot drive of int 13h stays in place.
RemoveMedium ==
  /\ boot = "Efi" /\ at # "returned"
  /\ \E d \in Devices : media[d] # None /\ media' = [media EXCEPT ![d] = None]
  /\ UNCHANGED <<boot, inserted, fresh, at, index, lists, scanned, buffers, status>>

ReplaceMedium ==
  /\ boot = "Efi" /\ at # "returned"
  /\ fresh <= MaxMedia
  /\ \E d \in Devices : media' = [media EXCEPT ![d] = fresh]
  /\ fresh' = fresh + 1
  /\ UNCHANGED <<boot, inserted, at, index, lists, scanned, buffers, status>>

-----------------------------------------------------------------------------
(***************************************************************************)
(* InitializeDiskSubsystem_Efi().                                          *)
(***************************************************************************)
\* The entrypoint gives up, and terminates nothing.
Fail == at' = "returned" /\ status' = "CouldntInitializeDisk"

CountHandles ==
  /\ at = "count"
  /\ \/ \E n \in Devices :
          /\ handles' = [i \in 1 .. n |-> None]
          /\ at' = "fill"
          /\ UNCHANGED status
     \/ Fail /\ UNCHANGED handles
  /\ UNCHANGED <<environment, index, open, volumes, enabled, scanned, buffers>>

\* The list may have become shorter in the meantime; a longer one is an error.
FillHandles ==
  /\ at = "fill"
  /\ \/ \E n \in 1 .. Len(handles) :
          /\ handles' = [i \in DOMAIN handles |-> IF i <= n THEN i ELSE None]
          /\ at' = "open"
          /\ UNCHANGED status
     \/ Fail /\ UNCHANGED handles
  /\ UNCHANGED <<environment, index, open, volumes, enabled, scanned, buffers>>

\* The next iteration of a loop over the handles, and what follows the last one.
NextHandle(after) ==
  IF index < Len(handles)
  THEN index' = index + 1 /\ UNCHANGED at
  ELSE index' = 1 /\ at' = after

\* A fault: a protocol that does not open is tried again.
OpenProtocolAgain ==
  /\ at = "open"
  /\ handles[index] # None
  /\ open' = open \cup {index}
  /\ NextHandle("list")
  /\ UNCHANGED <<environment, handles, volumes, enabled, scanned, buffers, status>>

OpenProtocol ==
  /\ at = "open"
  /\ \/ /\ handles[index] # None
        /\ open' = open \cup {index}
        /\ NextHandle("list")
        /\ UNCHANGED status
     \/ Fail /\ UNCHANGED <<open, index>>
  /\ UNCHANGED <<environment, handles, volumes, enabled, scanned, buffers>>

EfiVolume(i, id) ==
  [Method |-> "Efi", Drive |-> i, Partition |-> 0, Type |-> "Unknown",
   IsPartition |-> inserted[id].LogicalPartition, PartitionOffset |-> 0,
   BytesPerSector |-> SectorSize, MediaId |-> id, NumSectors |-> inserted[id].NumSectors]

ListVolume ==
  /\ at = "list"
  /\ LET id == media[handles[index]]
     IN  IF Len(volumes) >= VolumeLimit
         THEN index' = 1 /\ at' = "fs" /\ UNCHANGED volumes
         ELSE /\ volumes' = IF id = None THEN volumes ELSE Append(volumes, EfiVolume(index, id))
              /\ NextHandle("fs")
  /\ enabled' = (at' = "fs")
  /\ UNCHANGED <<environment, handles, open, scanned, buffers, status>>

(***************************************************************************)
(* InitializeDiskSubsystem_Bios().  Without EDD, the number of sectors is  *)
(* not known.                                                              *)
(***************************************************************************)
BiosVolume(n) ==
  [Method |-> "Int13", Drive |-> 1, Partition |-> 0, Type |-> "Unknown",
   IsPartition |-> FALSE, PartitionOffset |-> 0,
   BytesPerSector |-> SectorSize, MediaId |-> 0, NumSectors |-> n]

InitializeBios ==
  /\ at = "bios"
  /\ \/ /\ \E n \in {inserted[media[1]].NumSectors, Word - 1} : volumes' = <<BiosVolume(n)>>
        /\ enabled' = TRUE
        /\ at' = "fs"
        /\ UNCHANGED status
     \/ Fail /\ UNCHANGED <<volumes, enabled>>
  /\ UNCHANGED <<environment, index, handles, open, scanned, buffers>>

-----------------------------------------------------------------------------
(***************************************************************************)
(* ReadDisk() of whole sectors.  It succeeds only when the medium is the   *)
(* one that the volume was listed with.                                    *)
(***************************************************************************)
\* A fault: whatever medium is in the device is read.
ReadableFromAny(volume, sector) ==
  /\ sector < volume.NumSectors
  /\ LET id == media[IF boot = "Efi" THEN handles[volume.Drive] ELSE 1]
     IN  id # None /\ sector < inserted[id].NumSectors

Readable(volume, sector) ==
  /\ enabled
  /\ sector + (IF volume.IsPartition THEN volume.PartitionOffset ELSE 0) < volume.NumSectors
  /\ LET id == media[IF boot = "Efi" THEN handles[volume.Drive] ELSE 1]
     IN  /\ id # None
         /\ boot = "Efi" => id = volume.MediaId
         /\ sector < inserted[id].NumSectors

\* What is on the medium in the device of a volume.
DiscOf(volume) == inserted[media[IF boot = "Efi" THEN handles[volume.Drive] ELSE 1]]

Volume == volumes[index]

NextVolume ==
  /\ buffers' = NoBuffers
  /\ IF index < scanned
     THEN index' = index + 1 /\ at' = "bootsector"
     ELSE index' = 1 /\ at' = "terminate"

\* InitializeFsSubsystem() remembers how many volumes there are before it adds any.
StartFs ==
  /\ at = "fs"
  /\ scanned' = Len(volumes)
  /\ at' = IF volumes = <<>> THEN "terminate" ELSE "bootsector"
  /\ UNCHANGED <<environment, index, lists, buffers, status>>

ReadBootsector ==
  /\ at = "bootsector"
  /\ \/ /\ Readable(Volume, 0)
        /\ ValidateMbrHeader(DiscOf(Volume).Mbr, Volume)
        /\ buffers' = [buffers EXCEPT !.mbr = DiscOf(Volume).Mbr]
        /\ at' = IF GptPartitionMap(buffers'.mbr) THEN "headers" ELSE "partitions"
        /\ UNCHANGED index
     \/ NextVolume
  /\ UNCHANGED <<environment, lists, scanned, status>>

-----------------------------------------------------------------------------
(***************************************************************************)
(* DetectPartitionMap().                                                   *)
(***************************************************************************)
AddMbrPartitions ==
  /\ at = "partitions"
  /\ volumes' = Added([volumes EXCEPT ![index].Type = "Mbr"],
                      MbrVolumes(buffers.mbr, Volume), VolumeLimit)
  /\ NextVolume
  /\ UNCHANGED <<environment, handles, open, enabled, scanned, status>>

\* Both headers are allocated, and then the primary one is read.
ReadPrimary ==
  /\ at = "headers"
  /\ \/ /\ at' = "backup"
        /\ \/ Readable(Volume, 1) /\ buffers' = [buffers EXCEPT !.primary = DiscOf(Volume).Primary]
           \/ UNCHANGED buffers
        /\ UNCHANGED index
     \/ NextVolume
  /\ UNCHANGED <<environment, lists, scanned, status>>

ReadBackup ==
  /\ at = "backup"
  /\ \/ /\ Readable(Volume, Volume.NumSectors - 1)
        /\ buffers.primary # Unread
        /\ buffers' = [buffers EXCEPT !.backup = DiscOf(Volume).Backup]
        /\ at' = "choose"
        /\ UNCHANGED index
     \/ NextVolume
  /\ UNCHANGED <<environment, lists, scanned, status>>

Header ==
  IF ValidateGptHeader(buffers.primary, Volume) THEN buffers.primary ELSE buffers.backup

ChooseHeader ==
  /\ at = "choose"
  /\ IF ValidateGptHeader(Header, Volume)
     THEN at' = "array" /\ UNCHANGED <<index, buffers>>
     ELSE NextVolume
  /\ UNCHANGED <<environment, lists, scanned, status>>

\* The first n entries are intact: a medium has them, and their checksum is that of the header.
IsIntact(array, header) ==
  /\ ArraySize(header) <= Len(array)
  /\ SubSeq(array, 1, ArraySize(header)) = header.PartitionCrc32

\* The array is allocated (Allocate() refuses a size of 0), read, and checked against its
\* checksum; the loop then goes over NumPartitions entries, however many were read.
AddGptPartitions ==
  /\ at = "array"
  /\ \/ /\ ArraySize(Header) > 0
        /\ Readable(Volume, Header.PartitionLba)
        /\ IsIntact(DiscOf(Volume).Array, Header)
        /\ \E cells \in CellsRead(Header, DiscOf(Volume).Array) :
             volumes' = Added(volumes, GptVolumes(Header, cells, Volume), VolumeLimit)
     \/ UNCHANGED volumes
  /\ NextVolume
  /\ UNCHANGED <<environment, handles, open, enabled, scanned, status>>

-----------------------------------------------------------------------------
(***************************************************************************)
(* TerminateDiskSubsystem(), after KernelCore() has returned.              *)
(***************************************************************************)
Terminate ==
  /\ at = "terminate"
  /\ enabled' = FALSE
  /\ IF boot = "Efi"
     THEN at' = "close" /\ UNCHANGED status
     ELSE at' = "returned" /\ status' = "Success"
  /\ UNCHANGED <<environment, index, handles, open, volumes, scanned, buffers>>

\* A fault: the protocols of the volumes are closed, not those of the handles.
CloseListedProtocol ==
  /\ at = "close"
  /\ open' = open \ {volumes[i].Drive : i \in DOMAIN volumes}
  /\ at' = "returned"
  /\ status' = "Success"
  /\ UNCHANGED <<environment, index, handles, volumes, enabled, scanned, buffers>>

CloseProtocol ==
  /\ at = "close"
  /\ open' = open \ {index}
  /\ NextHandle("returned")
  /\ status' = IF at' = "returned" THEN "Success" ELSE status
  /\ UNCHANGED <<environment, handles, volumes, enabled, scanned, buffers>>

KernelStep ==
  \/ CountHandles \/ FillHandles \/ OpenProtocol \/ ListVolume \/ InitializeBios
  \/ StartFs \/ ReadBootsector \/ AddMbrPartitions
  \/ ReadPrimary \/ ReadBackup \/ ChooseHeader \/ AddGptPartitions
  \/ Terminate \/ CloseProtocol

Next == KernelStep \/ RemoveMedium \/ ReplaceMedium

\* The kernel runs; nothing makes anyone remove a medium.
Spec == Init /\ [][Next]_vars /\ WF_vars(KernelStep)

-----------------------------------------------------------------------------
TypeOK ==
  /\ media \in [Devices -> 0 .. MaxMedia]
  /\ fresh \in 1 .. MaxMedia + 1
  /\ handles \in UNION {[1 .. n -> Devices \cup {None}] : n \in 0 .. NumDevices}
  /\ open \subseteq DOMAIN handles
  /\ Len(volumes) <= VolumeLimit
  /\ \A v \in DOMAIN volumes :
       /\ volumes[v].NumSectors \in 0 .. Word - 1
       /\ volumes[v].Method = boot
       /\ boot = "Efi" => volumes[v].Drive \in DOMAIN handles
  /\ enabled \in BOOLEAN
  /\ at \in {"bootsector", "partitions", "headers", "backup", "choose", "array"} =>
       index \in 1 .. scanned /\ scanned <= Len(volumes)
  /\ status \in {"running", "Success", "CouldntInitializeDisk"}

(***************************************************************************)
(* While the disk subsystem is enabled, the protocol of every volume that  *)
(* may be read is open: reads and the two ends of its life do not overlap. *)
(***************************************************************************)
VolumesHaveProtocols ==
  enabled /\ boot = "Efi" => \A v \in DOMAIN volumes : volumes[v].Drive \in open

(***************************************************************************)
(* Entry.c:623: a kernel that succeeds has closed every protocol that it   *)
(* opened, also those that no volume uses.                                 *)
(***************************************************************************)
SuccessClosesAll == status = "Success" => open = {}

(***************************************************************************)
(* The areas of a disc that its own, intact tables say are partitions: of  *)
(* an array, those that the checksum of a header of the same disc covers.  *)
(***************************************************************************)
Area(first, n) == [first |-> first, n |-> n]

Headers(disc) == {header \in {disc.Primary, disc.Backup} : header.Sound}

Areas(disc) ==
  IF ~GptPartitionMap(disc.Mbr)
  THEN {Area(CalculateMbrOffset(disc.Mbr.Entry[i]), CalculateMbrSize(disc.Mbr.Entry[i])) :
          i \in Used(disc.Mbr)}
  ELSE {Area(disc.Array[i].StartingLba,
             (disc.Array[i].EndingLba - disc.Array[i].StartingLba + 1) % Word) :
          i \in {j \in DOMAIN disc.Array :
                   /\ disc.Array[j].Type # "None"
                   /\ \E header \in Headers(disc) :
                        IsIntact(disc.Array, header) /\ j <= ArraySize(header)}}

FromMap == {v \in DOMAIN volumes : v > scanned /\ scanned > 0}

DiscOfPartition(v) ==
  inserted[IF boot = "Efi" THEN volumes[v].MediaId ELSE media[1]]

\* The number of an entry of a disc's array that was not read, as the size of the array wraps.
IsBeyondArray(disc, partition) ==
  /\ GptPartitionMap(disc.Mbr)
  /\ \E header \in Headers(disc) :
       /\ ArraySize(header) < header.NumPartitions
       /\ partition \in ArraySize(header) .. header.NumPartitions - 1

(***************************************************************************)
(* Every partition is one of the very medium that its volume names: what   *)
(* was read before a medium was replaced is never mixed with what was read *)
(* after that, and no table with a wrong checksum is believed.  The        *)
(* exception are volumes that Fs.c:557 makes of what is behind an array    *)
(* whose size has wrapped at Fs.c:526, although the comment before it says *)
(* "Now that we *know* we have a valid partition table array" (:554).      *)
(***************************************************************************)
PartitionsAreOfTheirMedium ==
  \A v \in FromMap :
    \/ Area(volumes[v].PartitionOffset, volumes[v].NumSectors) \in Areas(DiscOfPartition(v))
    \/ IsBeyondArray(DiscOfPartition(v), volumes[v].Partition)

(***************************************************************************)
(* Fs.c:170: only a volume that does not represent a partition has an MBR. *)
(* No partition is found in a partition, although the boot sector of a FAT *)
(* filesystem has the same signature.                                      *)
(***************************************************************************)
NoPartitionInPartition == \A v \in FromMap : ~DiscOfPartition(v).LogicalPartition

(***************************************************************************)
(* Whatever is removed, replaced or refused, the kernel returns to its     *)
(* bootloader.                                                             *)
(***************************************************************************)
KernelReturns == <>(at = "returned")

(***************************************************************************)
(* The life of the volumes: their list never outgrows its place, a volume  *)
(* that may be read can be read, and a kernel that succeeds leaves nothing *)
(* open.  (Disk.c:152, Efi.c:126, Fs.c:573)                                *)
(***************************************************************************)
VolumesAreKept == TypeOK /\ VolumesHaveProtocols /\ SuccessClosesAll
=============================================================================
