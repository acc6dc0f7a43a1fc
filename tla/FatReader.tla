----------------------------- MODULE FatReader ------------------------------
(***************************************************************************)
(* Boot/Legacy/Shared/Disk/Disk.c, as the second and third stages use it:  *)
(* they look up the folders of a path and then its file, one after the     *)
(* other, with FindDirectory(), and read the file with ReadFile().  Both   *)
(* follow the cluster chains of the FAT with GetFatEntry(), and read the   *)
(* drive with ReadFatSector(), which may fail at any time.                 *)
(*                                                                         *)
(* A logical sector is represented by its number, the first one of the     *)
(* data section being 0, modulo 2^32 (Top), as in the code: no drive that  *)
(* the BIOS boots this way has more, and a read that crosses it fails.     *)
(* Garbage stands for what was not read from the drive.  Sizes are in      *)
(* logical sectors, rounded up.                                            *)
(*                                                                         *)
(* Both functions look for the outcome of a read in realModeTable.  It is  *)
(* never put there, as ReadSector() passes its packet in another segment   *)
(* (see ModeSwitch): they find the carry flag of an earlier BIOS service,  *)
(* the same one after every read.                                          *)
(***************************************************************************)
EXTENDS Integers, Sequences

CONSTANTS
  Names,            \* Of files and folders, and their extensions.
  NullName,         \* Of no file.
  Path,             \* What the callers look up: its folders, then its file.
  RootCluster,
  Limit,            \* From here on, an entry of the FAT ends its chain.
  Reserved,         \* 2^28: the bits from here on up do not belong to an entry.
  Top,              \* 2^32: what entries, clusters and sectors are less than.
  SectorReadLimit,  \* What ReadFile() reads at once, in sectors.
  MaxFailures,      \* Bounds how many reads fail.
  Disks,            \* The drives, see Disk.
  Entries,          \* What is in their folders: entries, by layout and sector.
  RootEntries       \* What is in the root directory of FAT16, which is not in the data section.

File == [Name : Names, Extension : Names]

Entry == [Id : File, Kind : {"file", "folder", "long"}, Cluster : 0 .. Top - 1, Size : Nat]

(***************************************************************************)
(* fat[c] is what GetFatEntry() finds for c, also for a c that has no      *)
(* entry: the sectors that follow the FAT are then taken for one, or those *)
(* where 32 bits end up.  It may have reserved bits, unless it has 16.     *)
(* PerPhysical is the number of logical sectors in a physical one.         *)
(***************************************************************************)
Disk ==
  {d \in [fat : [0 .. Top - 1 -> 0 .. Top - 1], layout : DOMAIN Entries, IsFat32 : BOOLEAN,
          SectorsPerCluster : Nat \ {0}, DataOffset : Nat,
          PerPhysical : {n \in Nat \ {0} : Top % n = 0}] :
     ~d.IsFat32 => \A c \in 0 .. Top - 1 : d.fat[c] < Reserved}

ASSUME NumbersAssumption ==
  /\ SectorReadLimit \in Nat \ {0}
  /\ MaxFailures \in Nat
  /\ Limit \in Nat /\ RootCluster \in 2 .. Limit - 1
  /\ Reserved \in Nat /\ Limit < Reserved
  /\ Top \in Nat /\ Reserved <= Top

\* The callers ask for names of their own, none of which is blank.
ASSUME PathAssumption ==
  /\ NullName \in Names
  /\ Path \in Seq([Id : File, Kind : {"file", "folder"}]) /\ Path # <<>>
  /\ \A i \in DOMAIN Path : Path[i].Id.Name # NullName

ASSUME DisksAssumption == Disks \subseteq Disk

\* Every sector holds entries.
ASSUME EntriesAssumption ==
  /\ DOMAIN RootEntries = DOMAIN Entries
  /\ \A l \in DOMAIN Entries : \A entries \in {Entries[l], RootEntries[l]} :
       DOMAIN entries = 0 .. Top - 1 /\ \A s \in 0 .. Top - 1 : entries[s] \in Seq(Entry)

VARIABLES
  disk,
  at,      \* What is about to be done.
  search,  \* FindDirectory(): the element of the path, the first cluster, and where it is.
  entry,   \* What FindDirectory() returned.
  file,    \* ReadFile(): where it is, and what it has read.
  carry,   \* The carry flag in realModeTable.
  failures \* How many reads failed.

vars == <<disk, at, search, entry, file, carry, failures>>

Garbage == -1

\* Where FindDirectory() searches.  The root directory of FAT16 is taken for cluster 2 of
\* its own region, and the chain of cluster 2 is followed.
EntriesAt ==
  IF search.wanted = 1 /\ ~disk.IsFat32 THEN RootEntries[disk.layout] ELSE Entries[disk.layout]

NullEntry == [Id |-> [Name |-> NullName, Extension |-> NullName], Kind |-> "file", Cluster |-> Top - 1, Size |-> 0]

\* A fault: the limit itself is taken for a cluster.
BeyondLimit(cluster) == cluster % Reserved > Limit

\* The reserved bits do not count here, while they stay in the cluster.
ExceedsLimit(cluster) == cluster % Reserved >= Limit

ClusterOffset(cluster) == (cluster - 2) * disk.SectorsPerCluster

SectorOfCluster(cluster, sector) == (ClusterOffset(cluster) + sector) % Top

-----------------------------------------------------------------------------
(***************************************************************************)
(* ReadFatSector(): n logical sectors, by way of the physical ones.  What  *)
(* is copied from beyond the physical sectors that were read is Garbage.   *)
(***************************************************************************)
\* A fault: the offset of the logical sector within the physical one is forgotten.
ReadWithoutOffset(sector, n) ==
  [i \in 0 .. n - 1 |->
     (sector + i - ((disk.DataOffset + sector) % disk.PerPhysical)) % Top]

ReadFatSector(sector, n) ==
  LET first == (disk.DataOffset + sector) % disk.PerPhysical
      NumSectors == ((n - 1) \div disk.PerPhysical) + 1
  IN [i \in 0 .. n - 1 |->
        IF first + i < NumSectors * disk.PerPhysical THEN (sector + i) % Top ELSE Garbage]

\* The entries of a sector up to the first that is free.
\* FatNameIsEqual() compares no extensions of folders.
FatNameIsEqual(id, wanted) ==
  /\ id.Name = wanted.Id.Name
  /\ wanted.Kind = "file" => id.Extension = wanted.Id.Extension

Matches(entries, wanted) ==
  {i \in DOMAIN entries : entries[i].Kind = wanted.Kind /\ FatNameIsEqual(entries[i].Id, wanted)}

IsFirst(i, matches) == i \in matches /\ \A j \in matches : i <= j

-----------------------------------------------------------------------------
StartSearch(wanted, cluster) ==
  [wanted |-> wanted, first |-> cluster, cluster |-> cluster, current |-> cluster, sector |-> 0]

Init ==
  /\ disk \in Disks
  /\ at = "search"
  /\ search = StartSearch(1, RootCluster)
  /\ entry = NullEntry
  /\ file = [cluster |-> 0, sector |-> 0, offset |-> 0, buffer |-> <<>>]
  /\ carry \in BOOLEAN
  /\ failures = 0

Counted(ok) ==
  /\ ok \/ failures < MaxFailures
  /\ failures' = failures + (IF ok THEN 0 ELSE 1)

\* A read that fails leaves any entries.
EntriesRead(ok) ==
  IF ok THEN {EntriesAt[SectorOfCluster(search.cluster, search.sector)]}
  ELSE {EntriesAt[s] : s \in 0 .. Top - 1}

\* Scans one sector.
SearchSector ==
  /\ at = "search"
  /\ \E ok \in BOOLEAN : \E entries \in EntriesRead(ok) :
       LET matches == Matches(entries, Path[search.wanted])
       IN /\ Counted(ok)
          /\ \/ /\ matches = {}
                /\ at' = "advance"
                /\ UNCHANGED entry
             \/ /\ at' = "found"
                /\ \E i \in matches : IsFirst(i, matches) /\ entry' = entries[i]
  /\ UNCHANGED <<disk, search, file, carry>>

(***************************************************************************)
(* Follows the chain, which is done once for each sector, while the        *)
(* cluster that is read only changes once all its sectors were.            *)
(***************************************************************************)
\* A fault: the last sector of a cluster is not searched.
ClusterSearchedTooSoon == search.sector + 2 >= disk.SectorsPerCluster

ClusterSearched == search.sector + 1 >= disk.SectorsPerCluster

\* What GetFatEntry() may return: a read that fails leaves any entry, of 32 bits or 16.
FatEntries(cluster, ok) ==
  IF carry THEN {0} ELSE IF ok THEN {disk.fat[cluster]}
  ELSE IF disk.IsFat32 THEN 0 .. Top - 1 ELSE 0 .. Reserved - 1

Advance ==
  /\ at = "advance"
  /\ \E ok \in BOOLEAN : \E next \in FatEntries(search.current, ok) :
       /\ Counted(ok)
       /\ search' =
            IF ClusterSearched
            THEN [search EXCEPT !.cluster = next, !.current = next, !.sector = 0]
            ELSE [search EXCEPT !.current = next, !.sector = @ + 1]
       /\ at' = IF ClusterSearched /\ ExceedsLimit(next) THEN "found" ELSE "search"
       /\ entry' = IF ClusterSearched /\ ExceedsLimit(next) THEN NullEntry ELSE entry
  /\ UNCHANGED <<disk, file, carry>>

\* The callers: panic, look up the rest of the path, or read the file.
Found ==
  /\ at = "found"
  /\ IF ExceedsLimit(entry.Cluster)
     THEN /\ at' = "panic"
          /\ UNCHANGED <<search, file>>
     ELSE IF search.wanted < Len(Path)
     THEN /\ at' = "search"
          /\ search' = StartSearch(search.wanted + 1, entry.Cluster)
          /\ UNCHANGED file
     ELSE /\ at' = "read"
          /\ file' = [file EXCEPT !.cluster = entry.Cluster]
          /\ UNCHANGED search
  /\ UNCHANGED <<disk, entry, carry, failures>>

-----------------------------------------------------------------------------
SectorsToRead ==
  IF disk.SectorsPerCluster - file.sector < SectorReadLimit
  THEN disk.SectorsPerCluster - file.sector
  ELSE SectorReadLimit

\* A fault: only a read that goes beyond the end of the file is the last.
ReadBeyondEndOfFile(offset) == offset > entry.Size

EndOfFile(offset) == offset >= entry.Size

OffsetAfter(n) == file.offset + n

\* Reads the sectors, or whatever the stack held, and looks at the table.
ReadChunk ==
  /\ at = "read"
  /\ LET offset == OffsetAfter(SectorsToRead)
         next == file.sector + SectorsToRead
         sectors == ReadFatSector(ClusterOffset(file.cluster) + file.sector, SectorsToRead)
     IN \E ok \in BOOLEAN :
          /\ file' = [file EXCEPT !.offset = offset, !.sector = next,
               !.buffer = [i \in 0 .. offset - 1 |->
                             IF i < file.offset THEN @[i]
                             ELSE IF ok THEN sectors[i - file.offset] ELSE Garbage]]
          /\ Counted(ok)
  /\ at' = CASE carry -> "failure"
             [] ~carry /\ EndOfFile(file'.offset) -> "success"
             [] ~carry /\ ~EndOfFile(file'.offset) /\ file'.sector < disk.SectorsPerCluster -> "read"
             [] OTHER -> "follow"
  /\ UNCHANGED <<disk, search, entry, carry>>

AfterCluster(next) ==
  IF next = 0 THEN "failure" ELSE IF ExceedsLimit(next) THEN "success" ELSE "read"

Follow ==
  /\ at = "follow"
  /\ \E ok \in BOOLEAN : \E next \in FatEntries(file.cluster, ok) :
       /\ file' = [file EXCEPT !.cluster = next, !.sector = 0]
       /\ at' = AfterCluster(next)
       /\ Counted(ok)
  /\ UNCHANGED <<disk, search, entry, carry>>

Next == SearchSector \/ Advance \/ Found \/ ReadChunk \/ Follow

\* Nothing else runs.
Spec == Init /\ [][Next]_vars /\ WF_vars(Next)

-----------------------------------------------------------------------------
(***************************************************************************)
(* Properties.  Chain(c) is the reference that both functions should       *)
(* follow: the clusters from c on, by number, of which "only the bottom 28 *)
(* bits actually matter" (Stage2/Bootloader.c:283).  Links(c) is what      *)
(* GetFatEntry() finds from c on.                                          *)
(***************************************************************************)
TypeOK ==
  /\ at \in {"search", "advance", "found", "read", "follow", "success", "failure", "panic"}
  /\ search \in [wanted : DOMAIN Path, first : 0 .. Top - 1, cluster : 0 .. Top - 1,
                 current : 0 .. Top - 1, sector : 0 .. disk.SectorsPerCluster - 1]
  /\ file \in [cluster : 0 .. Top - 1, sector : 0 .. disk.SectorsPerCluster, offset : Nat,
               buffer : [0 .. file.offset - 1 -> Int]]
  /\ entry \in Entry
  /\ carry \in BOOLEAN /\ failures \in 0 .. MaxFailures

EndsChain(c) == c % Reserved >= Limit

Chain(c) ==
  LET link[k \in Nat] == (IF k = 0 THEN c ELSE disk.fat[link[k - 1]]) % Reserved IN link

Links(c) ==
  LET link[k \in Nat] == IF k = 0 THEN c ELSE disk.fat[link[k - 1]] IN link

\* Neither the first cluster nor any that an entry of the FAT goes on with has reserved bits.
Unreserved(c) ==
  /\ c < Reserved
  /\ \A d \in 0 .. Limit - 1 : ~EndsChain(disk.fat[d]) => disk.fat[d] < Reserved

\* The i-th sector of the file that starts at cluster c.
SectorOfFile(c, i) ==
  SectorOfCluster(Chain(c)[i \div disk.SectorsPerCluster], i % disk.SectorsPerCluster)

\* No read crosses from one physical sector into another that it does not begin with.
Aligned ==
  \/ disk.SectorsPerCluster = 1
  \/ /\ disk.DataOffset % disk.PerPhysical = 0
     /\ disk.SectorsPerCluster % disk.PerPhysical = 0
     /\ SectorReadLimit % disk.PerPhysical = 0

\* Unless a read fails, the i-th sector of the buffer is the i-th sector of the chain.
InChainOrder ==
  at \in {"read", "follow", "success"} /\ Aligned /\ failures = 0 /\ entry.Cluster < Reserved =>
    \A i \in 0 .. file.offset - 1 : file.buffer[i] = SectorOfFile(entry.Cluster, i)

(***************************************************************************)
(* As long as the drive can be read and no reserved bit is set, what       *)
(* ReadFile() has put at the i-th sector of the buffer is the i-th sector  *)
(* of the chain, also when a cluster takes several reads, when the drive   *)
(* has larger sectors than the file system, as long as they do not         *)
(* straddle its clusters, and when the chain is damaged.                   *)
(* (Disk.c:435, ReadFile)                                                  *)
(*                                                                         *)
(* Stage2/Bootloader.c:283 says that the reserved bits do not matter.      *)
(* They do: ExceedsLimit() ignores them, but the sector and the next entry *)
(* are computed with them (Disk.c:465, :508), so that the file is not read *)
(* in the order of its chain if one of them is set.                        *)
(***************************************************************************)
BufferIsTheFile == Unreserved(entry.Cluster) => InChainOrder

(***************************************************************************)
(* No more is written to the caller's memory than up to the end of the     *)
(* read that reaches the end of the file: the memory behind it may be less *)
(* than a cluster, or SectorReadLimit sectors, if that is less, and need   *)
(* not be more.  (Disk.c:486, ReadFile)                                    *)
(***************************************************************************)
OverrunIsBounded ==
  LET largest == IF disk.SectorsPerCluster < SectorReadLimit
                 THEN disk.SectorsPerCluster ELSE SectorReadLimit
  IN file.offset < largest + entry.Size \/ file.offset <= largest

(***************************************************************************)
(* As long as the drive can be read and no reserved bit is set, a file     *)
(* that ReadFile() reports as read is complete, or its chain ends too      *)
(* soon; a free cluster in the middle of it is reported.                   *)
(* (Disk.c:507, ReadFile)                                                  *)
(***************************************************************************)
SuccessIsComplete ==
  at = "success" /\ failures = 0 /\ Unreserved(entry.Cluster) =>
    \/ file.offset >= entry.Size
    \/ EndsChain(disk.fat[Chain(entry.Cluster)[(file.offset - 1) \div disk.SectorsPerCluster]])

\* Whatever FindDirectory() starts with, it gets to an end, also where it reads on behind
\* the end of a chain, as it does if clusters have several sectors.
Sound ==
  /\ \A c \in 0 .. Top - 1 : \E k \in 1 .. Top : EndsChain(Links(c)[k])
  /\ disk.SectorsPerCluster = 1
       \/ \A c \in 0 .. Top - 1 : EndsChain(c) => EndsChain(disk.fat[c])

\* The sectors that FindDirectory() is sure to search.
FirstCluster(c) == {SectorOfCluster(c, s) : s \in 0 .. disk.SectorsPerCluster - 1}

Visited(c) ==
  IF disk.SectorsPerCluster = 1 /\ (disk.IsFat32 \/ search.wanted > 1)
  THEN {SectorOfCluster(Chain(c)[k], 0) : k \in {j \in 0 .. Limit : \A l \in 0 .. j : Chain(c)[l] < Limit}}
  ELSE FirstCluster(c)

(***************************************************************************)
(* As long as the drive can be read, what FindDirectory() returns has the  *)
(* name and the kind that was asked for, and if no reserved bit is set, an *)
(* entry in the first cluster of a folder, or anywhere in it if clusters   *)
(* are sectors, is found (in the root directory of FAT16: in as many       *)
(* sectors as a cluster has).  (Disk.c:308, FindDirectory)                 *)
(***************************************************************************)
SearchFinds ==
  at = "found" /\ failures = 0 =>
    /\ entry # NullEntry =>
         /\ entry.Kind = Path[search.wanted].Kind
         /\ FatNameIsEqual(entry.Id, Path[search.wanted])
    /\ entry = NullEntry /\ Unreserved(search.first) =>
         \A s \in Visited(search.first) :
            Matches(EntriesAt[s], Path[search.wanted]) = {}

(***************************************************************************)
(* ReadFile() always returns, even if the chain is a cycle, and            *)
(* FindDirectory() does if the drive can be read, every chain ends and the *)
(* last BIOS service that left its outcome had none to report: with its    *)
(* carry flag set, the entry of every cluster is 0.  (Disk.c:366 and :452) *)
(***************************************************************************)
ReadFileReturns == at = "read" ~> at \in {"success", "failure"}

SearchReturns == (at = "search" /\ Sound /\ ~carry) ~> (at = "found" \/ failures > 0)

(***************************************************************************)
(* What ReadFile() is called for: the file is in memory, in order, and all *)
(* of it if it says so, as long as its entries have no reserved bits and   *)
(* the drive can be read.  (Disk.c:435-520)                                *)
(***************************************************************************)
FileIsRead == TypeOK /\ BufferIsTheFile /\ SuccessIsComplete

(***************************************************************************)
(* Both functions return, under the conditions that each of them needs.    *)
(* (Disk.c:324 and :457)                                                   *)
(***************************************************************************)
CallsReturn == ReadFileReturns /\ SearchReturns
=============================================================================
