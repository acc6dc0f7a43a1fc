-------------------------- MODULE FatReaderProofs ---------------------------
(***************************************************************************)
(* Proofs about FatReader, for all drives: its type invariant, how far     *)
(* ReadFile() writes behind the end of a file, that what it reads is the   *)
(* file, and what FindDirectory() finds.                                   *)
(***************************************************************************)
EXTENDS FatReader, InductionLemmas

\* No sector is read before the file is found, nor after its end is reached.
ReadsOn ==
  /\ at \in {"search", "advance", "found"} => file.offset = 0
  /\ at \in {"read", "follow"} => file.offset = 0 \/ file.offset < entry.Size

IInv ==
  /\ disk \in Disks
  /\ TypeOK
  /\ at \in {"search", "advance", "found", "read"} => file.sector < disk.SectorsPerCluster
  /\ ReadsOn
  /\ OverrunIsBounded

LEMMA DiskType ==
  ASSUME disk \in Disks
  PROVE  /\ disk.fat \in [0 .. Top - 1 -> 0 .. Top - 1]
         /\ disk.layout \in DOMAIN Entries
         /\ disk.SectorsPerCluster \in Nat \ {0}
         /\ disk.DataOffset \in Nat
         /\ disk.PerPhysical \in Nat \ {0}
  BY DisksAssumption DEF Disk

LEMMA Numbers ==
  /\ Limit \in Nat /\ Reserved \in Nat \ {0} /\ Top \in Nat \ {0}
  /\ Limit < Reserved /\ Reserved <= Top /\ RootCluster \in 0 .. Top - 1 /\ RootCluster < Limit
BY NumbersAssumption

\* A sector of a cluster has a number of 32 bits.
LEMMA SectorType ==
  ASSUME disk \in Disks, NEW cluster \in Int, NEW sector \in Int
  PROVE  SectorOfCluster(cluster, sector) \in 0 .. Top - 1
<1> DEFINE number == ClusterOffset(cluster) + sector
<1>1. number \in Int
  BY DiskType DEF ClusterOffset
<1>2. number % Top \in 0 .. Top - 1
  <2> HIDE DEF number
  <2> QED BY <1>1, Numbers
<1> QED BY <1>2 DEF SectorOfCluster

\* What is read of a folder are entries, whether the drive can be read or not.
LEMMA EntriesType ==
  ASSUME disk \in Disks, TypeOK, NEW ok \in BOOLEAN, NEW entries \in EntriesRead(ok)
  PROVE  entries \in Seq(Entry)
<1>1. EntriesAt \in {Entries[disk.layout], RootEntries[disk.layout]}
  BY DEF EntriesAt
<1>2. disk.layout \in DOMAIN Entries
  BY DiskType
<1>3. \A s \in 0 .. Top - 1 : EntriesAt[s] \in Seq(Entry)
  BY <1>1, <1>2, EntriesAssumption
<1>4. SectorOfCluster(search.cluster, search.sector) \in 0 .. Top - 1
  <2>1. search.cluster \in Int /\ search.sector \in Int
    BY Numbers DEF TypeOK
  <2> QED BY <2>1, SectorType
<1>5. \E s \in 0 .. Top - 1 : entries = EntriesAt[s]
  BY <1>4 DEF EntriesRead
<1> QED
  BY <1>3, <1>5

\* An entry of the FAT is a cluster.
LEMMA FatEntriesType ==
  ASSUME disk \in Disks, NEW cluster \in 0 .. Top - 1, NEW ok \in BOOLEAN
  PROVE  FatEntries(cluster, ok) \subseteq 0 .. Top - 1
<1>1. disk.fat[cluster] \in 0 .. Top - 1 /\ 0 \in 0 .. Top - 1 /\ 0 .. Reserved - 1 \subseteq 0 .. Top - 1
  BY DiskType, Numbers
<1> QED
  BY <1>1 DEF FatEntries

\* A read goes no further than the cluster or the limit.
LEMMA SectorsToReadType ==
  ASSUME disk \in Disks, file.sector \in Nat, file.sector < disk.SectorsPerCluster
  PROVE  /\ SectorsToRead \in Nat \ {0}
         /\ SectorsToRead <= SectorReadLimit
         /\ file.sector + SectorsToRead <= disk.SectorsPerCluster
<1>1. disk.SectorsPerCluster \in Nat \ {0} /\ SectorReadLimit \in Nat \ {0}
  BY DiskType, NumbersAssumption
<1> QED
  BY <1>1 DEF SectorsToRead

\* What is copied from the physical sectors is sectors, or garbage.
LEMMA ReadFatSectorType ==
  ASSUME disk \in Disks, NEW sector \in Int, NEW n \in Nat, NEW i \in 0 .. n - 1
  PROVE  ReadFatSector(sector, n)[i] \in Int
<1> DEFINE first == (disk.DataOffset + sector) % disk.PerPhysical
           NumSectors == ((n - 1) \div disk.PerPhysical) + 1
<1>1. ReadFatSector(sector, n)[i] = IF first + i < NumSectors * disk.PerPhysical THEN (sector + i) % Top ELSE Garbage
  BY DEF ReadFatSector
<1>2. (sector + i) % Top \in Int
  BY Numbers
<1> QED
  BY <1>1, <1>2 DEF Garbage

LEMMA NullEntryType == NullEntry \in Entry
<1>1. [Name |-> NullName, Extension |-> NullName] \in File
  BY PathAssumption DEF File
<1> QED
  BY <1>1, Numbers DEF NullEntry, Entry

LEMMA FailuresType ==
  ASSUME TypeOK, NEW ok \in BOOLEAN, Counted(ok)
  PROVE  failures' \in 0 .. MaxFailures
BY NumbersAssumption DEF Counted, TypeOK

LEMMA InitIInv == Init => IInv
<1> SUFFICES ASSUME Init
             PROVE  IInv
  OBVIOUS
<1>1. /\ disk.SectorsPerCluster \in Nat \ {0}
      /\ disk \in Disks
  BY DiskType DEF Init
<1>3. 1 \in DOMAIN Path
  BY PathAssumption
<1>4. TypeOK
  <2>1. search \in [wanted : DOMAIN Path, first : 0 .. Top - 1, cluster : 0 .. Top - 1,
                    current : 0 .. Top - 1, sector : 0 .. disk.SectorsPerCluster - 1]
    BY <1>1, <1>3, NumbersAssumption DEF Init, StartSearch
  <2>2. file \in [cluster : 0 .. Top - 1, sector : 0 .. disk.SectorsPerCluster, offset : Nat,
                  buffer : [0 .. file.offset - 1 -> Int]]
    BY <1>1, NumbersAssumption DEF Init
  <2> QED
    BY <2>1, <2>2, NullEntryType, NumbersAssumption DEF Init, TypeOK
<1>5. ReadsOn /\ OverrunIsBounded
  BY <1>1, NumbersAssumption DEF Init, ReadsOn, OverrunIsBounded
<1>6. file.sector < disk.SectorsPerCluster
  BY <1>1 DEF Init
<1> QED
  BY <1>1, <1>4, <1>5, <1>6 DEF IInv

LEMMA SearchSectorIInv == IInv /\ SearchSector => IInv'
<1> SUFFICES ASSUME IInv, SearchSector
             PROVE  IInv'
  OBVIOUS
<1>1. PICK ok \in BOOLEAN : \E entries \in EntriesRead(ok) :
        LET matches == Matches(entries, Path[search.wanted])
        IN /\ Counted(ok)
           /\ \/ /\ matches = {}
                 /\ at' = "advance"
                 /\ UNCHANGED entry
              \/ /\ at' = "found"
                 /\ \E i \in matches : IsFirst(i, matches) /\ entry' = entries[i]
  BY DEF SearchSector
<1>2. PICK entries \in EntriesRead(ok) :
        LET matches == Matches(entries, Path[search.wanted])
        IN /\ Counted(ok)
           /\ \/ /\ matches = {}
                 /\ at' = "advance"
                 /\ UNCHANGED entry
              \/ /\ at' = "found"
                 /\ \E i \in matches : IsFirst(i, matches) /\ entry' = entries[i]
  BY <1>1
<1>3. entries \in Seq(Entry)
  BY EntriesType DEF IInv
<1>4. at' \in {"advance", "found"} /\ entry' \in Entry
  <2>1. CASE UNCHANGED entry /\ at' = "advance"
    BY <2>1 DEF IInv, TypeOK
  <2>2. CASE /\ at' = "found"
             /\ \E i \in Matches(entries, Path[search.wanted]) : entry' = entries[i]
    <3>1. PICK i \in DOMAIN entries : entry' = entries[i]
      BY <2>2 DEF Matches
    <3> QED
      BY <1>3, <2>2, <3>1
  <2> QED
    BY <1>2, <2>1, <2>2
<1>5. failures' \in 0 .. MaxFailures
  BY <1>2, FailuresType DEF IInv
<1>6. UNCHANGED <<disk, search, file, carry>> /\ file.offset = 0 /\ file.sector < disk.SectorsPerCluster
  BY DEF SearchSector, IInv, ReadsOn, TypeOK
<1>7. TypeOK'
  BY <1>4, <1>5, <1>6 DEF IInv, TypeOK
<1>8. OverrunIsBounded'
  BY <1>6, DiskType, NumbersAssumption DEF OverrunIsBounded, IInv
<1> QED
  BY <1>4, <1>6, <1>7, <1>8 DEF IInv, ReadsOn

LEMMA AdvanceIInv == IInv /\ Advance => IInv'
<1> SUFFICES ASSUME IInv, Advance
             PROVE  IInv'
  OBVIOUS
<1>1. PICK ok \in BOOLEAN : \E next \in FatEntries(search.current, ok) :
        /\ Counted(ok)
        /\ search' =
             IF ClusterSearched
             THEN [search EXCEPT !.cluster = next, !.current = next, !.sector = 0]
             ELSE [search EXCEPT !.current = next, !.sector = @ + 1]
        /\ at' = IF ClusterSearched /\ ExceedsLimit(next) THEN "found" ELSE "search"
        /\ entry' = IF ClusterSearched /\ ExceedsLimit(next) THEN NullEntry ELSE entry
  BY DEF Advance
<1>2. PICK next \in FatEntries(search.current, ok) :
        /\ Counted(ok)
        /\ search' =
             IF ClusterSearched
             THEN [search EXCEPT !.cluster = next, !.current = next, !.sector = 0]
             ELSE [search EXCEPT !.current = next, !.sector = @ + 1]
        /\ at' = IF ClusterSearched /\ ExceedsLimit(next) THEN "found" ELSE "search"
        /\ entry' = IF ClusterSearched /\ ExceedsLimit(next) THEN NullEntry ELSE entry
  BY <1>1
<1>3. next \in 0 .. Top - 1
  BY FatEntriesType DEF IInv, TypeOK
<1>4. at' \in {"search", "found"} /\ entry' \in Entry
  BY <1>2, NullEntryType DEF IInv, TypeOK
<1>5. failures' \in 0 .. MaxFailures
  BY <1>2, FailuresType DEF IInv
<1>6. UNCHANGED <<disk, file, carry>> /\ file.offset = 0 /\ file.sector < disk.SectorsPerCluster
  BY DEF Advance, IInv, ReadsOn, TypeOK
<1>7. search' \in [wanted : DOMAIN Path, first : 0 .. Top - 1, cluster : 0 .. Top - 1,
                   current : 0 .. Top - 1, sector : 0 .. disk.SectorsPerCluster - 1]
  <2>1. disk.SectorsPerCluster \in Nat \ {0}
    BY DiskType DEF IInv
  <2>2. CASE ClusterSearched
    <3>1. 0 \in 0 .. disk.SectorsPerCluster - 1
      BY <2>1
    <3> QED
      BY <1>2, <1>3, <2>2, <3>1 DEF IInv, TypeOK
  <2>3. CASE ~ClusterSearched
    <3>1. search.sector + 1 \in 0 .. disk.SectorsPerCluster - 1
      BY <2>1, <2>3 DEF ClusterSearched, IInv, TypeOK
    <3> QED
      BY <1>2, <1>3, <2>3, <3>1 DEF IInv, TypeOK
  <2> QED
    BY <2>2, <2>3
<1>8. TypeOK'
  BY <1>4, <1>5, <1>6, <1>7 DEF IInv, TypeOK
<1>9. OverrunIsBounded'
  BY <1>6, DiskType, NumbersAssumption DEF OverrunIsBounded, IInv
<1> QED
  BY <1>4, <1>6, <1>8, <1>9 DEF IInv, ReadsOn

LEMMA FoundIInv == IInv /\ Found => IInv'
<1> SUFFICES ASSUME IInv, Found
             PROVE  IInv'
  OBVIOUS
<1>1. disk.SectorsPerCluster \in Nat \ {0}
  BY DiskType DEF IInv
<1>2. /\ UNCHANGED <<disk, entry, carry, failures>> /\ file.offset = 0 /\ file'.offset = 0
      /\ file.sector < disk.SectorsPerCluster
  BY DEF Found, IInv, ReadsOn, TypeOK
<1>3. entry.Cluster \in 0 .. Top - 1
  BY DEF IInv, TypeOK, Entry
<1>4. /\ at' \in {"panic", "search", "read"}
      /\ search' \in [wanted : DOMAIN Path, first : 0 .. Top - 1, cluster : 0 .. Top - 1,
                      current : 0 .. Top - 1, sector : 0 .. disk.SectorsPerCluster - 1]
      /\ file' \in [cluster : 0 .. Top - 1, sector : 0 .. disk.SectorsPerCluster, offset : Nat,
                    buffer : [0 .. file'.offset - 1 -> Int]]
      /\ file'.sector = file.sector
  <2>1. CASE ExceedsLimit(entry.Cluster)
    BY <1>2, <2>1 DEF Found, IInv, TypeOK
  <2>2. CASE ~ExceedsLimit(entry.Cluster) /\ search.wanted < Len(Path)
    <3>1. search.wanted + 1 \in DOMAIN Path
      BY <2>2, PathAssumption DEF IInv, TypeOK
    <3>2. 0 \in 0 .. disk.SectorsPerCluster - 1
      BY <1>1
    <3>3. at' = "search" /\ search' = StartSearch(search.wanted + 1, entry.Cluster) /\ UNCHANGED file
      BY <2>2 DEF Found
    <3> QED
      BY <1>2, <1>3, <3>1, <3>2, <3>3 DEF IInv, TypeOK, StartSearch
  <2>3. CASE ~ExceedsLimit(entry.Cluster) /\ ~(search.wanted < Len(Path))
    <3>1. at' = "read" /\ file' = [file EXCEPT !.cluster = entry.Cluster] /\ UNCHANGED search
      BY <2>3 DEF Found
    <3> QED
      BY <1>2, <1>3, <3>1 DEF IInv, TypeOK
  <2> QED
    BY <2>1, <2>2, <2>3
<1>5. TypeOK'
  BY <1>2, <1>4 DEF IInv, TypeOK
<1>6. OverrunIsBounded'
  BY <1>1, <1>2, NumbersAssumption DEF OverrunIsBounded, IInv
<1> QED
  BY <1>2, <1>4, <1>5, <1>6 DEF IInv, ReadsOn

LEMMA ReadChunkIInv == IInv /\ ReadChunk => IInv'
<1> SUFFICES ASSUME IInv, ReadChunk
             PROVE  IInv'
  OBVIOUS
<1> DEFINE n == SectorsToRead
           offset == OffsetAfter(n)
           sectors == ReadFatSector(ClusterOffset(file.cluster) + file.sector, n)
<1>1. /\ disk.SectorsPerCluster \in Nat \ {0}
      /\ SectorReadLimit \in Nat \ {0}
      /\ disk \in Disks
      /\ entry.Size \in Nat
  BY DiskType, NumbersAssumption DEF IInv, TypeOK, Entry
<1>2. /\ file.offset \in Nat /\ file.sector \in Nat /\ file.sector < disk.SectorsPerCluster
      /\ file.cluster \in Int
  BY <1>1, Numbers DEF IInv, TypeOK, ReadChunk
<1>3. n \in Nat \ {0} /\ n <= SectorReadLimit /\ file.sector + n <= disk.SectorsPerCluster
  BY <1>1, <1>2, SectorsToReadType
<1>4. offset = file.offset + n /\ offset \in Nat
  BY <1>2, <1>3 DEF OffsetAfter
<1>5. PICK ok \in BOOLEAN :
        /\ file' = [file EXCEPT !.offset = offset, !.sector = file.sector + n,
             !.buffer = [i \in 0 .. offset - 1 |->
                           IF i < file.offset THEN @[i]
                           ELSE IF ok THEN sectors[i - file.offset] ELSE Garbage]]
        /\ Counted(ok)
  BY DEF ReadChunk
<1>6. file'.offset = offset /\ file'.sector = file.sector + n
  BY <1>5 DEF IInv, TypeOK
<1>7. file' \in [cluster : 0 .. Top - 1, sector : 0 .. disk.SectorsPerCluster, offset : Nat,
                 buffer : [0 .. file'.offset - 1 -> Int]]
  <2>1. ClusterOffset(file.cluster) + file.sector \in Int
    BY <1>1, <1>2 DEF ClusterOffset
  <2>2. ASSUME NEW i \in 0 .. offset - 1
        PROVE  (IF i < file.offset THEN file.buffer[i]
                ELSE IF ok THEN sectors[i - file.offset] ELSE Garbage) \in Int
    <3>1. CASE i < file.offset
      <4>1. file.buffer \in [0 .. file.offset - 1 -> Int]
        BY DEF IInv, TypeOK
      <4>2. i \in 0 .. file.offset - 1
        BY <1>2, <1>4, <3>1
      <4> HIDE DEF n, offset, sectors
      <4> QED
        BY <3>1, <4>1, <4>2
    <3>2. CASE ~(i < file.offset)
      <4>1. i - file.offset \in 0 .. n - 1
        BY <1>2, <1>3, <1>4, <3>2
      <4> QED
        BY <1>1, <1>3, <2>1, <3>2, <4>1, ReadFatSectorType DEF Garbage
    <3> QED
      BY <3>1, <3>2
  <2>3. file'.buffer \in [0 .. offset - 1 -> Int]
    BY <1>5, <2>2 DEF IInv, TypeOK
  <2>4. file.sector + n \in 0 .. disk.SectorsPerCluster
    BY <1>1, <1>2, <1>3
  <2> HIDE DEF n, offset, sectors
  <2> QED
    BY <1>4, <1>5, <1>6, <2>3, <2>4 DEF IInv, TypeOK
<1>8. failures' \in 0 .. MaxFailures
  BY <1>5, FailuresType DEF IInv
<1>9. UNCHANGED <<disk, search, entry, carry>>
  BY DEF ReadChunk
<1>10. /\ at' \in {"failure", "success", "read", "follow"}
       /\ at' \in {"read", "follow"} => ~EndOfFile(offset)
       /\ at' = "read" => file'.sector < disk.SectorsPerCluster
  <2> HIDE DEF n, offset
  <2> QED
    BY <1>6 DEF ReadChunk
<1>11. TypeOK'
  BY <1>7, <1>8, <1>9, <1>10 DEF IInv, TypeOK
<1>12. ReadsOn'
  <2> HIDE DEF offset
  <2> QED
    BY <1>1, <1>4, <1>6, <1>9, <1>10 DEF ReadsOn, EndOfFile
<1>13. OverrunIsBounded'
  <2> HIDE DEF n, offset
  <2> QED
    BY <1>1, <1>2, <1>3, <1>4, <1>6, <1>9 DEF OverrunIsBounded, IInv, ReadsOn, ReadChunk
<1> QED
  BY <1>9, <1>10, <1>11, <1>12, <1>13 DEF IInv

LEMMA FollowIInv == IInv /\ Follow => IInv'
<1> SUFFICES ASSUME IInv, Follow
             PROVE  IInv'
  OBVIOUS
<1>1. PICK ok \in BOOLEAN : \E next \in FatEntries(file.cluster, ok) :
        /\ file' = [file EXCEPT !.cluster = next, !.sector = 0]
        /\ at' = AfterCluster(next)
        /\ Counted(ok)
  BY DEF Follow
<1>2. PICK next \in FatEntries(file.cluster, ok) :
        /\ file' = [file EXCEPT !.cluster = next, !.sector = 0]
        /\ at' = AfterCluster(next)
        /\ Counted(ok)
  BY <1>1
<1>3. next \in 0 .. Top - 1
  BY FatEntriesType DEF IInv, TypeOK
<1>4. disk.SectorsPerCluster \in Nat \ {0}
  BY DiskType DEF IInv
<1>5. /\ file'.offset = file.offset /\ file'.sector = 0
      /\ file' \in [cluster : 0 .. Top - 1, sector : 0 .. disk.SectorsPerCluster, offset : Nat,
                    buffer : [0 .. file'.offset - 1 -> Int]]
  <2>1. file'.offset = file.offset /\ file'.sector = 0
    BY <1>2 DEF IInv, TypeOK
  <2>2. 0 \in 0 .. disk.SectorsPerCluster
    BY <1>4
  <2> QED
    BY <1>2, <1>3, <2>1, <2>2 DEF IInv, TypeOK
<1>6. at' \in {"failure", "success", "read"}
  BY <1>2 DEF AfterCluster
<1>7. failures' \in 0 .. MaxFailures
  BY <1>2, FailuresType DEF IInv
<1>8. UNCHANGED <<disk, search, entry, carry>> /\ at = "follow"
  BY DEF Follow
<1>9. TypeOK'
  BY <1>5, <1>6, <1>7, <1>8 DEF IInv, TypeOK
<1>10. ReadsOn' /\ OverrunIsBounded'
  BY <1>5, <1>6, <1>8 DEF IInv, ReadsOn, OverrunIsBounded
<1> QED
  BY <1>4, <1>5, <1>8, <1>9, <1>10 DEF IInv

LEMMA NextIInv == IInv /\ [Next]_vars => IInv'
<1> SUFFICES ASSUME IInv, [Next]_vars
             PROVE  IInv'
  OBVIOUS
<1>1. CASE SearchSector
  BY <1>1, SearchSectorIInv
<1>2. CASE Advance
  BY <1>2, AdvanceIInv
<1>3. CASE Found
  BY <1>3, FoundIInv
<1>4. CASE ReadChunk
  BY <1>4, ReadChunkIInv
<1>5. CASE Follow
  BY <1>5, FollowIInv
<1>6. CASE UNCHANGED vars
  BY <1>6 DEF vars, IInv, TypeOK, ReadsOn, OverrunIsBounded
<1> QED
  BY <1>1, <1>2, <1>3, <1>4, <1>5, <1>6 DEF Next

-----------------------------------------------------------------------------
(***************************************************************************)
(* The chain of a cluster is what its definition says, on every FAT,       *)
(* cyclic ones included.                                                   *)
(***************************************************************************)
LEMMA ChainFacts ==
  ASSUME disk \in Disks, NEW c \in 0 .. Top - 1
  PROVE  /\ Chain(c)[0] = c % Reserved
         /\ \A k \in Nat : /\ Chain(c)[k] \in 0 .. Reserved - 1
                         /\ Chain(c)[k + 1] = disk.fat[Chain(c)[k]] % Reserved
<1> DEFINE fat == disk.fat
           link == Chain(c)
           Clusters == 0 .. Reserved - 1
           step == [d \in Clusters |-> fat[d] % Reserved]
           start == c % Reserved
<1>1. start \in Clusters /\ step \in [Clusters -> Clusters]
  <2>1. \A n \in Nat : n % Reserved \in Clusters
    BY Numbers
  <2>2. \A d \in Clusters : fat[d] \in Nat
    BY DiskType, Numbers
  <2> QED BY <2>1, <2>2
<1>2. link = CHOOSE g : g = [k \in Nat |-> (IF k = 0 THEN c ELSE fat[g[k - 1]]) % Reserved]
  BY DEF Chain
<1>3. \A d \in Clusters : step[d] = fat[d] % Reserved
  OBVIOUS
<1>4. start = c % Reserved
  OBVIOUS
<1> HIDE DEF fat, link, Clusters, step, start
<1>5. PICK g \in [Nat -> Clusters] : Iterated(start, step, g)
  BY <1>1, Iteration
<1>6. link = [k \in Nat |-> (IF k = 0 THEN c ELSE fat[link[k - 1]]) % Reserved]
  <2>1. \A k \in Nat : k # 0 => k - 1 \in Nat /\ (k - 1) + 1 = k
    OBVIOUS
  <2>2. g[0] = c % Reserved /\ \A k \in Nat : g[k + 1] = fat[g[k]] % Reserved
    BY <1>3, <1>4, <1>5 DEF Iterated
  <2>3. \A k \in Nat : g[k] = (IF k = 0 THEN c ELSE fat[g[k - 1]]) % Reserved
    <3>1. ASSUME NEW k \in Nat, k # 0 PROVE g[k] = fat[g[k - 1]] % Reserved
      <4>1. k - 1 \in Nat /\ (k - 1) + 1 = k
        BY <2>1, <3>1
      <4>2. g[(k - 1) + 1] = fat[g[k - 1]] % Reserved
        BY <2>2, <4>1, Zenon
      <4> QED BY <4>1, <4>2, Zenon
    <3> QED BY <2>2, <3>1
  <2>4. g = [k \in Nat |-> (IF k = 0 THEN c ELSE fat[g[k - 1]]) % Reserved]
    BY <2>3
  <2> QED BY <1>2, <2>4
<1>7. link[0] = c % Reserved /\ \A k \in Nat : link[k + 1] = fat[link[k]] % Reserved
  <2>1. link[0] = c % Reserved
    BY <1>6
  <2>2. ASSUME NEW k \in Nat PROVE link[k + 1] = fat[link[k]] % Reserved
    <3>1. k + 1 \in Nat /\ k + 1 # 0 /\ (k + 1) - 1 = k
      OBVIOUS
    <3>2. link[k + 1] = (IF k + 1 = 0 THEN c ELSE fat[link[(k + 1) - 1]]) % Reserved
      BY <1>6, <3>1, Zenon
    <3> QED BY <3>1, <3>2, Zenon
  <2> QED BY <2>1, <2>2
<1> DEFINE S == {k \in Nat : link[k] \in Clusters}
<1>8. 0 \in S
  BY <1>1, <1>4, <1>7
<1>9. ASSUME NEW k \in Nat, k \in S PROVE k + 1 \in S
  <2>1. link[k] \in Clusters /\ link[k + 1] = fat[link[k]] % Reserved
    BY <1>7, <1>9
  <2>2. step[link[k]] \in Clusters
    BY <1>1, <2>1
  <2>3. link[k + 1] \in Clusters /\ k + 1 \in Nat
    BY <1>3, <2>1, <2>2
  <2> QED BY <2>3
<1> HIDE DEF S
<1>10. Nat \subseteq S
  BY <1>8, <1>9, SetInduction
<1>11. \A k \in Nat : link[k] \in Clusters
  BY <1>10 DEF S
<1> QED BY <1>7, <1>11 DEF link, fat, Clusters

(***************************************************************************)
(* Without reserved bits, what is found in the FAT for a cluster that ends *)
(* no chain is what comes next in the chain.                               *)
(***************************************************************************)
LEMMA BitsCleared ==
  ASSUME NEW n \in 0 .. Top - 1
  PROVE  /\ ExceedsLimit(n) <=> EndsChain(n)
         /\ n % Reserved \in 0 .. Reserved - 1
         /\ n < Reserved => n % Reserved = n
         /\ n < Reserved => (ExceedsLimit(n) <=> n >= Limit)
<1>1. /\ n % Reserved \in 0 .. Reserved - 1
      /\ n < Reserved => n % Reserved = n
  BY Numbers
<1> QED BY <1>1 DEF ExceedsLimit, EndsChain

LEMMA NextInChain ==
  ASSUME disk \in Disks, NEW c \in 0 .. Top - 1, Unreserved(c), NEW k \in Nat,
         NEW cluster \in 0 .. Top - 1, ~ExceedsLimit(cluster), cluster = Chain(c)[k],
         NEW next, next = disk.fat[cluster]
  PROVE  /\ next = disk.fat[Chain(c)[k]]
         /\ Chain(c)[k + 1] = next % Reserved
         /\ ~ExceedsLimit(next) => Chain(c)[k + 1] = next
<1>1. next \in 0 .. Top - 1 /\ Chain(c)[k] \in 0 .. Reserved - 1
      /\ Chain(c)[k + 1] = disk.fat[Chain(c)[k]] % Reserved
  BY DiskType, ChainFacts
<1>2. cluster \in 0 .. Limit - 1
  <2>1. cluster < Reserved /\ cluster \in Nat
    BY <1>1, Numbers
  <2>2. cluster < Limit
    BY <2>1, BitsCleared, Numbers
  <2> QED BY <2>1, <2>2, Numbers
<1>3. ~ExceedsLimit(next) => next < Reserved
  BY <1>1, <1>2, BitsCleared DEF Unreserved
<1>4. next < Reserved => next % Reserved = next
  BY <1>1, BitsCleared
<1> QED BY <1>1, <1>3, <1>4

-----------------------------------------------------------------------------
(***************************************************************************)
(* Reading a file: as many clusters were passed as the offset says, unless *)
(* a reserved bit is set, and the reads in a cluster begin with a physical *)
(* sector.                                                                 *)
(***************************************************************************)
InPlace == disk.SectorsPerCluster = 1 \/ file.sector % disk.PerPhysical = 0

PassedClusters(k) == file.offset = k * disk.SectorsPerCluster + file.sector

ReadingInv ==
  /\ at \in {"search", "advance", "found"} => file.sector = 0
  /\ at \in {"read", "follow"} => ~ExceedsLimit(file.cluster)
  /\ at \in {"read", "follow"} /\ failures = 0 /\ Unreserved(entry.Cluster) =>
       \E k \in Nat : PassedClusters(k) /\ file.cluster = Chain(entry.Cluster)[k]
  /\ at = "read" /\ Aligned => InPlace
  /\ at = "follow" => ~carry /\ file.sector = disk.SectorsPerCluster
  /\ BufferIsTheFile
  /\ SuccessIsComplete

(***************************************************************************)
(* Searching a folder: the first cluster is searched from its first sector *)
(* on, and then was searched as a whole; and where a cluster is a sector,  *)
(* all of the chain that was passed.                                       *)
(***************************************************************************)
None(c, s) == Matches(EntriesAt[SectorOfCluster(c, s)], Path[search.wanted]) = {}

FirstSearched(sectors) ==
  \/ \A s \in 0 .. disk.SectorsPerCluster - 1 : None(search.first, s)
  \/ /\ search.cluster = search.first
     /\ \A s \in 0 .. sectors - 1 : None(search.first, s)

ChainSearched(clusters) ==
  \E k \in Nat :
    /\ search.cluster = Chain(search.first)[k] /\ search.current = search.cluster
    /\ \A j \in 0 .. k + clusters - 1 : None(Chain(search.first)[j], 0)

FollowsChain == disk.SectorsPerCluster = 1 /\ ~carry /\ Unreserved(search.first)

SearchInv ==
  /\ at \in {"search", "advance"} /\ disk.SectorsPerCluster = 1 => ~ExceedsLimit(search.current)
  /\ at = "search" /\ failures = 0 =>
       /\ FirstSearched(search.sector)
       /\ FollowsChain => ChainSearched(0)
  /\ at = "advance" /\ failures = 0 =>
       /\ FirstSearched(search.sector + 1)
       /\ FollowsChain => ChainSearched(1)
  /\ SearchFinds

FatInv == IInv /\ ReadingInv /\ SearchInv

-----------------------------------------------------------------------------
(***************************************************************************)
(* Arithmetic: positions in clusters, and in physical sectors.             *)
(***************************************************************************)
LEMMA Position ==
  ASSUME NEW k \in Nat, NEW b \in Nat \ {0}, NEW t \in 0 .. b - 1
  PROVE  /\ (k * b + t) \div b = k /\ (k * b + t) % b = t
         /\ k * b \in Nat
OBVIOUS

LEMMA NextMultiple ==
  ASSUME NEW k \in Nat, NEW b \in Nat
  PROVE  (k + 1) * b = k * b + b
OBVIOUS

LEMMA IsMultiple ==
  ASSUME NEW n \in Nat, NEW b \in Nat \ {0}, n % b = 0
  PROVE  \E k \in Nat : n = k * b
<1>1. n \div b \in Nat /\ n = (n \div b) * b + (n % b)
  OBVIOUS
<1>2. (n \div b) * b \in Nat
  BY <1>1
<1> QED BY <1>1, <1>2

LEMMA MultipleOf ==
  ASSUME NEW k \in Int, NEW b \in Nat \ {0}
  PROVE  (k * b) % b = 0
OBVIOUS

LEMMA Distributes ==
  ASSUME NEW k \in Int, NEW l \in Int, NEW b \in Int
  PROVE  (k + l) * b = k * b + l * b /\ (k - l) * b = k * b - l * b
OBVIOUS

LEMMA Associates ==
  ASSUME NEW k \in Int, NEW l \in Int, NEW b \in Int
  PROVE  (k * l) * b = k * (l * b) /\ k * l \in Int
OBVIOUS

\* Sums and differences of multiples.
LEMMA MultiplesAdd ==
  ASSUME NEW m \in Nat, NEW n \in Nat, NEW b \in Nat \ {0}, m % b = 0, n % b = 0
  PROVE  (m + n) % b = 0 /\ (m - n) % b = 0
<1>1. PICK k \in Nat : m = k * b
  BY IsMultiple
<1>2. PICK l \in Nat : n = l * b
  BY IsMultiple
<1>3. m + n = (k + l) * b /\ m - n = (k - l) * b
  BY <1>1, <1>2, Distributes
<1>4. k + l \in Int /\ k - l \in Int
  OBVIOUS
<1>5. ((k + l) * b) % b = 0 /\ ((k - l) * b) % b = 0
  BY <1>4, MultipleOf
<1> QED BY <1>3, <1>5

\* The clusters begin with physical sectors if the data section does.
BeginsAligned(offset, cluster, n, sector, b) == (offset + (cluster * n + sector)) % b = 0

LEMMA ClusterIsAligned ==
  ASSUME NEW offset \in Nat, NEW cluster \in Int, NEW n \in Nat, NEW sector \in Nat,
         NEW b \in Nat \ {0}, offset % b = 0, n % b = 0, sector % b = 0
  PROVE  BeginsAligned(offset, cluster, n, sector, b)
<1>1. PICK k \in Nat : offset = k * b
  BY IsMultiple
<1>2. PICK l \in Nat : n = l * b
  BY IsMultiple
<1>3. PICK m \in Nat : sector = m * b
  BY IsMultiple
<1> DEFINE p == cluster * l
<1>4. cluster * n = p * b /\ p \in Int
  <2>1. p * b = cluster * (l * b) /\ p \in Int
    BY Associates
  <2> QED BY <1>2, <2>1
<1> HIDE DEF p
<1>5. p * b + m * b = (p + m) * b /\ p + m \in Int
  BY <1>4, Distributes
<1>6. k * b + (p + m) * b = (k + (p + m)) * b /\ k + (p + m) \in Int
  BY <1>5, Distributes
<1>7. offset + (cluster * n + sector) = (k + (p + m)) * b
  BY <1>1, <1>3, <1>4, <1>5, <1>6
<1>8. ((k + (p + m)) * b) % b = 0
  BY <1>6, MultipleOf
<1> QED BY <1>7, <1>8 DEF BeginsAligned

\* As many physical sectors as are read hold all of the logical ones.
LEMMA EnoughSectors ==
  ASSUME NEW n \in Nat \ {0}, NEW b \in Nat \ {0}
  PROVE  n <= ((n - 1) \div b + 1) * b
<1> DEFINE q == (n - 1) \div b
<1>1. n - 1 \in Nat
  OBVIOUS
<1>2. q \in Nat /\ n - 1 = q * b + ((n - 1) % b) /\ (n - 1) % b \in 0 .. b - 1
  BY <1>1
<1>3. (q + 1) * b = q * b + b /\ q * b \in Nat
  BY <1>2, NextMultiple
<1> HIDE DEF q
<1>4. n <= (q + 1) * b
  BY <1>2, <1>3
<1> QED BY <1>4 DEF q

-----------------------------------------------------------------------------
(***************************************************************************)
(* What ReadFile() puts into the buffer.                                   *)
(***************************************************************************)
\* The first sector of a read is the first of a physical one.
LEMMA StartIsAligned ==
  ASSUME IInv, Aligned, disk.SectorsPerCluster # 1, InPlace
  PROVE  (disk.DataOffset + (ClusterOffset(file.cluster) + file.sector)) % disk.PerPhysical = 0
<1>1. /\ disk.DataOffset \in Nat /\ file.cluster - 2 \in Int /\ file.sector \in Nat
      /\ disk.SectorsPerCluster \in Nat /\ disk.PerPhysical \in Nat \ {0}
  BY DiskType DEF IInv, TypeOK
<1>2. /\ disk.DataOffset % disk.PerPhysical = 0 /\ disk.SectorsPerCluster % disk.PerPhysical = 0
      /\ file.sector % disk.PerPhysical = 0
  BY DEF Aligned, InPlace
<1>3. PICK offset \in Nat, cluster \in Int, sector \in Nat, n \in Nat, b \in Nat \ {0} :
        /\ offset = disk.DataOffset /\ cluster = file.cluster - 2 /\ sector = file.sector
        /\ n = disk.SectorsPerCluster /\ b = disk.PerPhysical
        /\ offset % b = 0 /\ n % b = 0 /\ sector % b = 0
  BY <1>1, <1>2
<1>4. BeginsAligned(offset, cluster, n, sector, b)
  <2>1. offset % b = 0 /\ n % b = 0 /\ sector % b = 0
    BY <1>3
  <2> QED BY <2>1, ClusterIsAligned
<1> QED BY <1>3, <1>4 DEF BeginsAligned, ClusterOffset

\* A read that begins with a physical sector gets every logical one.
LEMMA ChunkIsExact ==
  ASSUME IInv, Aligned, file.sector < disk.SectorsPerCluster, InPlace,
         NEW j \in 0 .. SectorsToRead - 1
  PROVE  ReadFatSector(ClusterOffset(file.cluster) + file.sector, SectorsToRead)[j]
           = SectorOfCluster(file.cluster, file.sector + j)
<1> DEFINE n == SectorsToRead
           S == disk.SectorsPerCluster
           b == disk.PerPhysical
           start == ClusterOffset(file.cluster) + file.sector
           first == (disk.DataOffset + start) % b
           NumSectors == ((n - 1) \div b) + 1
<1>1. /\ S \in Nat \ {0} /\ b \in Nat \ {0} /\ disk.DataOffset \in Nat
      /\ file.cluster \in Int /\ file.sector \in Nat /\ disk \in Disks
  BY DiskType DEF IInv, TypeOK
<1>2. n \in Nat \ {0} /\ file.sector + n <= S
  BY <1>1, SectorsToReadType
<1>3. ClusterOffset(file.cluster) \in Int /\ start \in Int
  BY <1>1 DEF ClusterOffset
<1>4. ReadFatSector(start, n)[j] = IF first + j < NumSectors * b THEN (start + j) % Top ELSE Garbage
  BY DEF ReadFatSector
<1>5. first + j < NumSectors * b
  <2>1. n <= NumSectors * b /\ NumSectors * b \in Nat
    <3>1. n <= NumSectors * b
      BY <1>1, <1>2, EnoughSectors
    <3>2. (n - 1) \div b \in Nat
      BY <1>1, <1>2
    <3>3. NumSectors \in Nat
      BY <3>2
    <3> HIDE DEF NumSectors
    <3> QED BY <1>1, <3>1, <3>3
  <2>2. CASE S = 1
    <3>1. n = 1 /\ j = 0
      BY <1>1, <1>2, <2>2
    <3>2. (n - 1) \div b = 0
      BY <1>1, <3>1
    <3>3. NumSectors * b = b
      BY <1>1, <3>2
    <3>4. first < b /\ first \in Nat
      BY <1>1, <1>3
    <3> HIDE DEF first, NumSectors, n, b, S, start
    <3> QED BY <1>1, <3>1, <3>3, <3>4
  <2>3. CASE S # 1
    <3>3. first = 0
      BY <2>3, StartIsAligned DEF InPlace
    <3>4. j < n
      BY <1>2
    <3> HIDE DEF first, NumSectors, n
    <3> QED BY <1>2, <2>1, <3>3, <3>4
  <2> QED BY <2>2, <2>3
<1>6. start + j = ClusterOffset(file.cluster) + (file.sector + j)
  BY <1>1, <1>3
<1> HIDE DEF start, first, NumSectors, n, b, S
<1>7. ReadFatSector(start, SectorsToRead)[j] = (ClusterOffset(file.cluster) + (file.sector + j)) % Top
  BY <1>4, <1>5, <1>6, Zenon DEF n
<1> QED BY <1>7, Zenon DEF SectorOfCluster, start

\* The next read in the cluster begins with a physical sector as well.
LEMMA NextIsAligned ==
  ASSUME IInv, Aligned, file.sector < disk.SectorsPerCluster, InPlace
  PROVE  disk.SectorsPerCluster = 1 \/ (file.sector + SectorsToRead) % disk.PerPhysical = 0
<1> DEFINE S == disk.SectorsPerCluster
           b == disk.PerPhysical
<1>1. S \in Nat \ {0} /\ b \in Nat \ {0} /\ file.sector \in Nat /\ SectorReadLimit \in Nat
  BY DiskType, NumbersAssumption DEF IInv, TypeOK
<1>2. SUFFICES ASSUME S # 1
               PROVE  (file.sector + SectorsToRead) % b = 0
  OBVIOUS
<1>3. S % b = 0 /\ SectorReadLimit % b = 0 /\ file.sector % b = 0
  BY <1>2 DEF Aligned, InPlace
<1>4. CASE S - file.sector < SectorReadLimit
  <2>1. file.sector + SectorsToRead = S
    BY <1>1, <1>4 DEF SectorsToRead
  <2> QED BY <1>3, <2>1
<1>5. CASE ~(S - file.sector < SectorReadLimit)
  <2>1. SectorsToRead = SectorReadLimit
    BY <1>5 DEF SectorsToRead
  <2> QED BY <1>1, <1>3, <2>1, MultiplesAdd
<1> QED BY <1>4, <1>5

\* The position of a sector in the file and in its chain.
LEMMA SectorInCluster ==
  ASSUME IInv, NEW k \in Nat, NEW t \in 0 .. disk.SectorsPerCluster - 1
  PROVE  SectorOfFile(entry.Cluster, k * disk.SectorsPerCluster + t)
           = SectorOfCluster(Chain(entry.Cluster)[k], t)
<1>1. disk.SectorsPerCluster \in Nat \ {0}
  BY DiskType DEF IInv
<1>2. /\ (k * disk.SectorsPerCluster + t) \div disk.SectorsPerCluster = k
      /\ (k * disk.SectorsPerCluster + t) % disk.SectorsPerCluster = t
  BY <1>1, Position
<1> QED BY <1>2 DEF SectorOfFile

\* A read that is not counted as failed has not failed.
LEMMA NoneFailed ==
  ASSUME IInv, NEW ok \in BOOLEAN, Counted(ok), failures' = 0
  PROVE  ok = TRUE /\ failures = 0
BY DEF Counted, IInv, TypeOK


-----------------------------------------------------------------------------
(***************************************************************************)
(* ReadFile() follows the chain, one read after the other.                 *)
(***************************************************************************)
LEMMA Passed ==
  ASSUME disk \in Disks, NEW k \in Nat, PassedClusters(k)
  PROVE  file.offset = k * disk.SectorsPerCluster + file.sector /\ k * disk.SectorsPerCluster \in Nat
<1>1. disk.SectorsPerCluster \in Nat
  BY DiskType
<1>2. k * disk.SectorsPerCluster \in Nat
  BY <1>1
<1> QED BY <1>2 DEF PassedClusters

\* The reads before this one have left their sectors, and this one adds its own.
LEMMA BufferGrows ==
  ASSUME IInv, BufferIsTheFile, Aligned, at = "read", failures = 0, InPlace,
         file.sector < disk.SectorsPerCluster,
         NEW k \in Nat, PassedClusters(k), file.cluster = Chain(entry.Cluster)[k],
         Unreserved(entry.Cluster), NEW i \in 0 .. OffsetAfter(SectorsToRead) - 1
  PROVE  SectorOfFile(entry.Cluster, i) =
           IF i < file.offset THEN file.buffer[i]
           ELSE ReadFatSector(ClusterOffset(file.cluster) + file.sector, SectorsToRead)[i - file.offset]
<1>1. /\ disk \in Disks /\ disk.SectorsPerCluster \in Nat \ {0}
      /\ file.offset \in Nat /\ file.sector \in Nat
  BY DiskType DEF IInv, TypeOK
<1>2. SectorsToRead \in Nat \ {0} /\ file.sector + SectorsToRead <= disk.SectorsPerCluster
  BY <1>1, SectorsToReadType
<1>3. CASE i < file.offset
  BY <1>1, <1>3 DEF BufferIsTheFile, InChainOrder, Unreserved
<1>4. CASE ~(i < file.offset)
  <2> DEFINE j == i - file.offset
             t == file.sector + j
  <2>1. j \in 0 .. SectorsToRead - 1 /\ t \in 0 .. disk.SectorsPerCluster - 1
    BY <1>1, <1>2, <1>4 DEF OffsetAfter
  <2>2. i = k * disk.SectorsPerCluster + t
    <3> DEFINE passed == k * disk.SectorsPerCluster
    <3>1. file.offset = passed + file.sector /\ passed \in Nat
      BY <1>1, Passed
    <3>2. i \in Int
      OBVIOUS
    <3> HIDE DEF passed
    <3>3. i = passed + t
      BY <1>1, <3>1, <3>2
    <3> QED BY <3>3 DEF passed
  <2>3. SectorOfFile(entry.Cluster, i) = SectorOfCluster(file.cluster, t)
    <3> HIDE DEF t, j
    <3>1. SectorOfFile(entry.Cluster, k * disk.SectorsPerCluster + t)
            = SectorOfCluster(Chain(entry.Cluster)[k], t)
      BY <2>1, SectorInCluster
    <3> QED BY <2>2, <3>1
  <2>4. ReadFatSector(ClusterOffset(file.cluster) + file.sector, SectorsToRead)[j]
          = SectorOfCluster(file.cluster, file.sector + j)
    <3> HIDE DEF j
    <3> QED BY <2>1, ChunkIsExact
  <2> QED BY <1>4, <2>3, <2>4
<1> QED BY <1>3, <1>4

LEMMA ReadChunkReads == IInv /\ ReadingInv /\ ReadChunk => ReadingInv'
<1> SUFFICES ASSUME IInv, ReadingInv, ReadChunk
             PROVE  ReadingInv'
  OBVIOUS
<1> DEFINE n == SectorsToRead
           offset == OffsetAfter(n)
           sectors == ReadFatSector(ClusterOffset(file.cluster) + file.sector, n)
<1>1. PICK ok \in BOOLEAN :
        /\ file' = [file EXCEPT !.offset = offset, !.sector = file.sector + n,
             !.buffer = [i \in 0 .. offset - 1 |->
                           IF i < file.offset THEN @[i]
                           ELSE IF ok THEN sectors[i - file.offset] ELSE Garbage]]
        /\ Counted(ok)
  BY DEF ReadChunk
<1>2. /\ at = "read" /\ UNCHANGED <<disk, search, entry, carry>>
      /\ at' = CASE carry -> "failure"
                 [] ~carry /\ EndOfFile(file'.offset) -> "success"
                 [] ~carry /\ ~EndOfFile(file'.offset) /\ file'.sector < disk.SectorsPerCluster -> "read"
                 [] OTHER -> "follow"
  BY DEF ReadChunk
<1>3. /\ file'.offset = offset /\ file'.sector = file.sector + n /\ file'.cluster = file.cluster
      /\ file'.buffer = [i \in 0 .. offset - 1 |->
                           IF i < file.offset THEN file.buffer[i]
                           ELSE IF ok THEN sectors[i - file.offset] ELSE Garbage]
  <2> HIDE DEF offset, sectors, n
  <2> QED BY <1>1 DEF IInv, TypeOK
<1>4. /\ disk \in Disks /\ disk.SectorsPerCluster \in Nat \ {0}
      /\ file.offset \in Nat /\ file.sector \in Nat /\ file.sector < disk.SectorsPerCluster
  BY <1>2, DiskType DEF IInv, TypeOK
<1>5. n \in Nat \ {0} /\ file.sector + n <= disk.SectorsPerCluster
  BY <1>4, SectorsToReadType
<1>6. offset = file.offset + n /\ offset \in Nat
  BY <1>4, <1>5 DEF OffsetAfter
<1>7. /\ ~ExceedsLimit(file.cluster) /\ (Aligned => InPlace)
      /\ Unreserved(entry.Cluster)' = Unreserved(entry.Cluster)
  BY <1>2 DEF ReadingInv, Unreserved, EndsChain, ExceedsLimit
<1> HIDE DEF n, offset, sectors
<1>8. /\ at' \in {"failure", "success", "read", "follow"}
      /\ at' = "follow" => ~carry /\ ~(file'.sector < disk.SectorsPerCluster)
      /\ at' = "success" => EndOfFile(file'.offset)
  BY <1>2
<1>9. failures' = 0 => ok = TRUE /\ failures = 0
  BY <1>1, NoneFailed
<1>10. ASSUME failures' = 0, Unreserved(entry.Cluster)
       PROVE  \E k \in Nat : PassedClusters(k)' /\ file'.cluster = Chain(entry.Cluster)'[k]
  <2>1. PICK k \in Nat : PassedClusters(k) /\ file.cluster = Chain(entry.Cluster)[k]
    BY <1>2, <1>9, <1>10 DEF ReadingInv
  <2>2. Chain(entry.Cluster)' = Chain(entry.Cluster)
    BY <1>2 DEF Chain
  <2>3. PassedClusters(k)'
    <3> DEFINE passed == k * disk.SectorsPerCluster
    <3>1. file.offset = passed + file.sector /\ passed \in Nat
      BY <1>4, <2>1, Passed
    <3> HIDE DEF passed
    <3>2. file'.offset = passed + file'.sector
      BY <1>3, <1>4, <1>5, <1>6, <3>1
    <3> QED BY <1>2, <3>2 DEF PassedClusters, passed
  <2> QED BY <1>3, <2>1, <2>2, <2>3
<1>11. (at = "follow" => ~carry /\ file.sector = disk.SectorsPerCluster)'
  BY <1>2, <1>3, <1>4, <1>5, <1>8
<1>12. (at = "read" /\ Aligned => InPlace)'
  <2>1. ASSUME Aligned' PROVE InPlace'
    <3>1. Aligned
      BY <1>2, <2>1 DEF Aligned
    <3>2. disk.SectorsPerCluster = 1 \/ (file.sector + n) % disk.PerPhysical = 0
      BY <1>4, <1>7, <3>1, NextIsAligned DEF n
    <3> QED BY <1>2, <1>3, <3>2 DEF InPlace
  <2> QED BY <2>1
<1>13. BufferIsTheFile'
  <2>1. SUFFICES ASSUME Aligned', failures' = 0, Unreserved(entry.Cluster)', NEW i \in 0 .. file'.offset - 1
                 PROVE  file'.buffer[i] = SectorOfFile(entry.Cluster, i)'
    BY DEF BufferIsTheFile, InChainOrder
  <2>2. Aligned /\ failures = 0 /\ ok = TRUE /\ Unreserved(entry.Cluster)
    BY <1>2, <1>7, <1>9, <2>1 DEF Aligned
  <2>3. PICK k \in Nat : PassedClusters(k) /\ file.cluster = Chain(entry.Cluster)[k]
    BY <1>2, <2>2 DEF ReadingInv
  <2>4. SectorOfFile(entry.Cluster, i)' = SectorOfFile(entry.Cluster, i)
    BY <1>2 DEF SectorOfFile, SectorOfCluster, ClusterOffset, Chain
  <2>5. BufferIsTheFile
    BY DEF ReadingInv
  <2>6. i \in 0 .. offset - 1
    BY <1>3
  <2>7. SectorOfFile(entry.Cluster, i) = IF i < file.offset THEN file.buffer[i] ELSE sectors[i - file.offset]
    <3>1. i \in 0 .. OffsetAfter(SectorsToRead) - 1
      BY <2>6 DEF offset, n
    <3> QED BY <1>2, <1>4, <1>7, <2>2, <2>3, <2>5, <3>1, BufferGrows DEF sectors, n
  <2> QED BY <1>3, <2>2, <2>4, <2>6, <2>7
<1>14. SuccessIsComplete'
  <2>1. ASSUME at' = "success" PROVE file'.offset >= entry'.Size
    BY <1>2, <1>8, <2>1 DEF EndOfFile
  <2> QED BY <2>1 DEF SuccessIsComplete
<1>15. ~ExceedsLimit(file'.cluster)
  BY <1>3, <1>7
<1> QED BY <1>7, <1>8, <1>10, <1>11, <1>12, <1>13, <1>14, <1>15 DEF ReadingInv, ExceedsLimit

LEMMA FollowReads == IInv /\ ReadingInv /\ Follow => ReadingInv'
<1> SUFFICES ASSUME IInv, ReadingInv, Follow
             PROVE  ReadingInv'
  OBVIOUS
<1>1. PICK ok \in BOOLEAN : \E next \in FatEntries(file.cluster, ok) :
        /\ file' = [file EXCEPT !.cluster = next, !.sector = 0]
        /\ at' = AfterCluster(next)
        /\ Counted(ok)
  BY DEF Follow
<1>2. PICK next \in FatEntries(file.cluster, ok) :
        /\ file' = [file EXCEPT !.cluster = next, !.sector = 0]
        /\ at' = AfterCluster(next)
        /\ Counted(ok)
  BY <1>1
<1>3. at = "follow" /\ UNCHANGED <<disk, search, entry, carry>>
  BY DEF Follow
<1>4. /\ file'.offset = file.offset /\ file'.sector = 0 /\ file'.cluster = next
      /\ file'.buffer = file.buffer
  BY <1>2 DEF IInv, TypeOK
<1>5. /\ disk \in Disks /\ disk.SectorsPerCluster \in Nat \ {0} /\ disk.PerPhysical \in Nat \ {0}
      /\ file.offset \in Nat
  BY DiskType DEF IInv, TypeOK
<1>6. /\ ~carry /\ file.sector = disk.SectorsPerCluster /\ ~ExceedsLimit(file.cluster)
      /\ entry.Cluster \in 0 .. Top - 1 /\ file.cluster \in 0 .. Top - 1
  BY <1>3 DEF ReadingInv, IInv, TypeOK, Entry
<1>7. /\ at' \in {"failure", "success", "read"}
      /\ at' = "success" => ExceedsLimit(next)
      /\ at' = "read" => ~ExceedsLimit(next)
  BY <1>2 DEF AfterCluster
<1>8. /\ Chain(entry.Cluster)' = Chain(entry.Cluster)
      /\ Unreserved(entry.Cluster)' = Unreserved(entry.Cluster)
  BY <1>3 DEF Chain, Unreserved, EndsChain
<1>9. ASSUME failures' = 0, Unreserved(entry.Cluster)
      PROVE  /\ failures = 0
             /\ \E k \in Nat :
                  /\ ~ExceedsLimit(next) => next = Chain(entry.Cluster)[k + 1]
                  /\ next = disk.fat[Chain(entry.Cluster)[k]]
                  /\ file.offset = k * disk.SectorsPerCluster + disk.SectorsPerCluster
  <2>1. ok = TRUE /\ failures = 0
    BY <1>2, <1>9, NoneFailed
  <2>2. PICK k \in Nat : PassedClusters(k) /\ file.cluster = Chain(entry.Cluster)[k]
    BY <1>3, <1>9, <2>1 DEF ReadingInv
  <2>3. next = disk.fat[file.cluster]
    BY <1>2, <1>6, <2>1 DEF FatEntries
  <2>4. /\ ~ExceedsLimit(next) => next = Chain(entry.Cluster)[k + 1]
        /\ next = disk.fat[Chain(entry.Cluster)[k]]
    BY <1>5, <1>6, <1>9, <2>2, <2>3, NextInChain
  <2>5. file.offset = k * disk.SectorsPerCluster + disk.SectorsPerCluster
    BY <1>6, <2>2 DEF PassedClusters
  <2> QED BY <2>1, <2>2, <2>4, <2>5
<1>10. ASSUME failures' = 0, Unreserved(entry.Cluster), at' = "read"
       PROVE  \E k \in Nat : PassedClusters(k)' /\ file'.cluster = Chain(entry.Cluster)'[k]
  <2>1. PICK k \in Nat :
          /\ next = Chain(entry.Cluster)[k + 1]
          /\ file.offset = k * disk.SectorsPerCluster + disk.SectorsPerCluster
    BY <1>7, <1>9, <1>10
  <2>2. (k + 1) * disk.SectorsPerCluster = k * disk.SectorsPerCluster + disk.SectorsPerCluster
    BY <1>5, NextMultiple
  <2>3. PassedClusters(k + 1)'
    <3> DEFINE passed == (k + 1) * disk.SectorsPerCluster
    <3>1. file.offset = passed /\ passed + 0 = passed
      BY <1>5, <2>1, <2>2
    <3> HIDE DEF passed
    <3>2. file'.offset = passed + file'.sector
      BY <1>4, <3>1
    <3> QED BY <1>3, <3>2 DEF PassedClusters, passed
  <2>4. k + 1 \in Nat
    OBVIOUS
  <2>5. file'.cluster = Chain(entry.Cluster)'[k + 1]
    BY <1>3, <1>4, <1>8, <2>1
  <2> QED BY <2>3, <2>4, <2>5
<1>11. (at = "read" /\ Aligned => InPlace)'
  <2>1. 0 % disk.PerPhysical = 0
    BY <1>5
  <2> QED BY <1>3, <1>4, <2>1 DEF InPlace
<1>12. BufferIsTheFile'
  <2>1. SUFFICES ASSUME Aligned', failures' = 0, Unreserved(entry.Cluster)', NEW i \in 0 .. file'.offset - 1
                 PROVE  file'.buffer[i] = SectorOfFile(entry.Cluster, i)'
    BY DEF BufferIsTheFile, InChainOrder
  <2>2. SectorOfFile(entry.Cluster, i)' = SectorOfFile(entry.Cluster, i)
    BY <1>3 DEF SectorOfFile, SectorOfCluster, ClusterOffset, Chain
  <2>3. Aligned
    BY <1>3, <2>1 DEF Aligned
  <2> QED BY <1>3, <1>4, <1>8, <1>9, <2>1, <2>2, <2>3
          DEF ReadingInv, BufferIsTheFile, InChainOrder, Unreserved
<1>13. SuccessIsComplete'
  <2>1. SUFFICES ASSUME at' = "success", failures' = 0, Unreserved(entry.Cluster)'
                 PROVE  EndsChain(disk.fat[Chain(entry.Cluster)
                                    [(file.offset - 1) \div disk.SectorsPerCluster]])
    BY <1>3, <1>4, <1>8 DEF SuccessIsComplete, EndsChain
  <2>2. PICK k \in Nat :
          /\ next = disk.fat[Chain(entry.Cluster)[k]]
          /\ file.offset = k * disk.SectorsPerCluster + disk.SectorsPerCluster
    BY <1>8, <1>9, <2>1
  <2> DEFINE S == disk.SectorsPerCluster
  <2>3. (k * S + (S - 1)) \div S = k /\ k * S \in Nat
    <3>1. S \in Nat \ {0} /\ S - 1 \in 0 .. S - 1
      BY <1>5
    <3> HIDE DEF S
    <3> QED BY <3>1, Position
  <2>4. file.offset - 1 = k * S + (S - 1)
    <3> DEFINE passed == k * S
    <3>1. file.offset = passed + S /\ passed \in Nat /\ S \in Nat
      BY <1>5, <2>2, <2>3
    <3> HIDE DEF passed, S
    <3>2. file.offset - 1 = passed + (S - 1)
      BY <3>1
    <3> QED BY <3>2 DEF passed
  <2>5. (file.offset - 1) \div S = k
    BY <2>3, <2>4
  <2>6. EndsChain(next)
    BY <1>7, <2>1 DEF ExceedsLimit, EndsChain
  <2> QED BY <2>2, <2>5, <2>6
<1>14. at' # "follow" /\ (at' = "read" => ~ExceedsLimit(file'.cluster))
  BY <1>4, <1>7
<1> QED BY <1>7, <1>8, <1>10, <1>11, <1>12, <1>13, <1>14 DEF ReadingInv, ExceedsLimit

\* Before the file is found, nothing is read.
LEMMA FoundReads == IInv /\ ReadingInv /\ Found => ReadingInv'
<1> SUFFICES ASSUME IInv, ReadingInv, Found
             PROVE  ReadingInv'
  OBVIOUS
<1>1. /\ UNCHANGED <<disk, entry, carry, failures>>
      /\ at = "found" /\ at' \in {"panic", "search", "read"}
  BY DEF Found
<1>2. file.offset = 0 /\ file.sector = 0 /\ file'.offset = 0 /\ file'.sector = 0
  BY <1>1 DEF Found, IInv, ReadsOn, TypeOK, ReadingInv
<1>3. /\ disk.SectorsPerCluster \in Nat \ {0} /\ disk.PerPhysical \in Nat \ {0}
      /\ disk \in Disks
  BY DiskType DEF IInv
<1>4. ASSUME at' = "read"
      PROVE  file'.cluster = entry.Cluster /\ ~ExceedsLimit(entry.Cluster)
  <2>1. file' = [file EXCEPT !.cluster = entry.Cluster] /\ ~ExceedsLimit(entry.Cluster)
    BY <1>4 DEF Found
  <2> QED BY <2>1 DEF IInv, TypeOK
<1>5. ASSUME at' = "read", Unreserved(entry.Cluster)'
      PROVE  \E k \in Nat : PassedClusters(k)' /\ file'.cluster = Chain(entry.Cluster)'[k]
  <2>1. entry.Cluster \in 0 .. Top - 1 /\ entry.Cluster < Reserved
    BY <1>1, <1>5 DEF IInv, TypeOK, Entry, Unreserved
  <2>2. Chain(entry.Cluster)[0] = entry.Cluster
    BY <1>3, <2>1, BitsCleared, ChainFacts
  <2>3. Chain(entry.Cluster)' = Chain(entry.Cluster)
    BY <1>1 DEF Chain
  <2>4. 0 * disk.SectorsPerCluster + 0 = 0
    BY <1>3
  <2>5. PassedClusters(0)'
    BY <1>1, <1>2, <2>4 DEF PassedClusters
  <2> QED BY <1>4, <1>5, <2>2, <2>3, <2>5
<1>6. InPlace'
  <2>1. 0 % disk.PerPhysical = 0
    BY <1>3
  <2> QED BY <1>1, <1>2, <2>1 DEF InPlace
<1>7. BufferIsTheFile' /\ SuccessIsComplete'
  BY <1>1, <1>2 DEF BufferIsTheFile, InChainOrder, SuccessIsComplete
<1> QED BY <1>1, <1>2, <1>4, <1>5, <1>6, <1>7 DEF ReadingInv, ExceedsLimit

LEMMA InitReads == Init => ReadingInv
BY DEF Init, ReadingInv, BufferIsTheFile, InChainOrder, SuccessIsComplete

\* Searching leaves the file alone.
LEMMA SearchingReads == IInv /\ ReadingInv /\ (SearchSector \/ Advance) => ReadingInv'
<1> SUFFICES ASSUME IInv, ReadingInv, SearchSector \/ Advance
             PROVE  ReadingInv'
  OBVIOUS
<1>1. file' = file /\ at \in {"search", "advance"} /\ at' \in {"search", "advance", "found"}
  BY DEF SearchSector, Advance
<1> QED BY <1>1 DEF ReadingInv, BufferIsTheFile, InChainOrder, SuccessIsComplete

LEMMA NextReads == IInv /\ ReadingInv /\ [Next]_vars => ReadingInv'
<1> SUFFICES ASSUME IInv, ReadingInv, [Next]_vars
             PROVE  ReadingInv'
  OBVIOUS
<1>1. CASE SearchSector \/ Advance
  BY <1>1, SearchingReads
<1>2. CASE Found
  BY <1>2, FoundReads
<1>3. CASE ReadChunk
  BY <1>3, ReadChunkReads
<1>4. CASE Follow
  BY <1>4, FollowReads
<1>5. CASE UNCHANGED vars
  <2>1. /\ UNCHANGED <<disk, at, search, entry, file, carry, failures>>
        /\ \A c : Chain(c)' = Chain(c) /\ Unreserved(c)' = Unreserved(c)
    BY <1>5 DEF vars, Chain, Unreserved, EndsChain
  <2>2. /\ (\A k : PassedClusters(k)' = PassedClusters(k)) /\ Aligned' = Aligned /\ InPlace' = InPlace
        /\ BufferIsTheFile' = BufferIsTheFile /\ SuccessIsComplete' = SuccessIsComplete
    BY <2>1 DEF PassedClusters, Aligned, InPlace, BufferIsTheFile, InChainOrder, SectorOfFile,
                SectorOfCluster, ClusterOffset, SuccessIsComplete, EndsChain
  <2> QED BY <2>1, <2>2 DEF ReadingInv, ExceedsLimit
<1> QED BY <1>1, <1>2, <1>3, <1>4, <1>5 DEF Next

-----------------------------------------------------------------------------
(***************************************************************************)
(* FindDirectory() searches one sector after the other.                    *)
(***************************************************************************)
\* What is found is not what stands for nothing.
LEMMA MatchIsNotNull ==
  ASSUME NEW wanted \in DOMAIN Path, NEW entries, NEW i \in Matches(entries, Path[wanted])
  PROVE  /\ entries[i].Kind = Path[wanted].Kind /\ FatNameIsEqual(entries[i].Id, Path[wanted])
         /\ entries[i] # NullEntry
<1>1. entries[i].Kind = Path[wanted].Kind /\ FatNameIsEqual(entries[i].Id, Path[wanted])
  BY DEF Matches
<1>2. entries[i].Id.Name # NullName
  BY <1>1, PathAssumption DEF FatNameIsEqual
<1> QED BY <1>1, <1>2 DEF NullEntry

LEMMA InitSearches == Init => SearchInv
<1> SUFFICES ASSUME Init
             PROVE  SearchInv
  OBVIOUS
<1>1. /\ at = "search" /\ search.sector = 0 /\ search.cluster = search.first
      /\ search.current = search.first /\ search.first = RootCluster /\ disk \in Disks
  BY DEF Init, StartSearch
<1>2. FirstSearched(search.sector)
  BY <1>1 DEF FirstSearched
<1>3. Chain(search.first)[0] = search.first /\ ~ExceedsLimit(search.current)
  <2>1. search.first \in 0 .. Top - 1 /\ search.first < Limit /\ search.first < Reserved
    BY <1>1, Numbers
  <2> QED BY <1>1, <2>1, BitsCleared, ChainFacts, Numbers
<1>4. ChainSearched(0)
  BY <1>1, <1>3 DEF ChainSearched
<1> QED BY <1>1, <1>2, <1>3, <1>4 DEF SearchInv, SearchFinds

LEMMA SearchSectorSearches == IInv /\ SearchInv /\ SearchSector => SearchInv'
<1> SUFFICES ASSUME IInv, SearchInv, SearchSector
             PROVE  SearchInv'
  OBVIOUS
<1>1. PICK ok \in BOOLEAN : \E entries \in EntriesRead(ok) :
        LET matches == Matches(entries, Path[search.wanted])
        IN /\ Counted(ok)
           /\ \/ /\ matches = {}
                 /\ at' = "advance"
                 /\ UNCHANGED entry
              \/ /\ at' = "found"
                 /\ \E i \in matches : IsFirst(i, matches) /\ entry' = entries[i]
  BY DEF SearchSector
<1>2. PICK entries \in EntriesRead(ok) :
        LET matches == Matches(entries, Path[search.wanted])
        IN /\ Counted(ok)
           /\ \/ /\ matches = {}
                 /\ at' = "advance"
                 /\ UNCHANGED entry
              \/ /\ at' = "found"
                 /\ \E i \in matches : IsFirst(i, matches) /\ entry' = entries[i]
  BY <1>1
<1>3. UNCHANGED <<disk, search, file, carry>> /\ at = "search"
  BY DEF SearchSector
<1>4. search.wanted \in DOMAIN Path /\ search.sector \in 0 .. disk.SectorsPerCluster - 1
  BY DEF IInv, TypeOK
<1>5. CASE at' = "found"
  <2>1. PICK i \in Matches(entries, Path[search.wanted]) : entry' = entries[i]
    BY <1>2, <1>5
  <2>2. /\ entry'.Kind = Path[search.wanted].Kind /\ FatNameIsEqual(entry'.Id, Path[search.wanted])
        /\ entry' # NullEntry
    BY <1>4, <2>1, MatchIsNotNull
  <2>3. SearchFinds'
    BY <1>3, <2>2 DEF SearchFinds, NullEntry, FatNameIsEqual
  <2> QED BY <1>5, <2>3 DEF SearchInv
<1>6. CASE at' = "advance"
  <2>0. FollowsChain' = FollowsChain
    BY <1>3 DEF FollowsChain, Unreserved, EndsChain
  <2>1. SUFFICES ASSUME failures' = 0
                 PROVE  FirstSearched(search.sector + 1)' /\ (FollowsChain => ChainSearched(1)')
    BY <1>3, <1>6, <2>0 DEF SearchInv, SearchFinds, ExceedsLimit
  <2>2. ok = TRUE /\ failures = 0
    BY <1>2, <2>1, NoneFailed
  <2>3. None(search.cluster, search.sector)
    <3>1. entries = EntriesAt[SectorOfCluster(search.cluster, search.sector)]
      BY <2>2 DEF EntriesRead
    <3>2. Matches(entries, Path[search.wanted]) = {}
      BY <1>2, <1>6
    <3> QED BY <3>1, <3>2 DEF None
  <2>4. FirstSearched(search.sector + 1)
    <3>1. FirstSearched(search.sector)
      BY <1>3, <2>2 DEF SearchInv
    <3>2. 0 .. (search.sector + 1) - 1 = (0 .. search.sector - 1) \cup {search.sector}
      BY <1>4
    <3> QED BY <2>3, <3>1, <3>2 DEF FirstSearched
  <2>5. ASSUME FollowsChain
        PROVE  ChainSearched(1)
    <3>1. search.sector = 0
      BY <1>4, <2>5 DEF FollowsChain
    <3>2. ChainSearched(0)
      BY <1>3, <2>2, <2>5 DEF SearchInv
    <3>3. PICK k \in Nat :
            /\ search.cluster = Chain(search.first)[k] /\ search.current = search.cluster
            /\ \A j \in 0 .. k + 0 - 1 : None(Chain(search.first)[j], 0)
      BY <3>2 DEF ChainSearched
    <3>4. 0 .. k + 1 - 1 = (0 .. k + 0 - 1) \cup {k}
      OBVIOUS
    <3>5. \A j \in 0 .. k + 1 - 1 : None(Chain(search.first)[j], 0)
      BY <2>3, <3>1, <3>3, <3>4
    <3> QED BY <3>3, <3>5 DEF ChainSearched
  <2>6. /\ FirstSearched(search.sector + 1)' = FirstSearched(search.sector + 1)
        /\ ChainSearched(1)' = ChainSearched(1)
    BY <1>3 DEF FirstSearched, ChainSearched, None, SectorOfCluster, ClusterOffset, EntriesAt, Chain
  <2> QED BY <2>4, <2>5, <2>6
<1> QED BY <1>2, <1>5, <1>6

\* What was searched when the chain ended.
LEMMA SearchedAll ==
  ASSUME IInv, NEW next \in 0 .. Top - 1, ExceedsLimit(next), FirstSearched(search.sector + 1),
         ClusterSearched, Unreserved(search.first),
         disk.SectorsPerCluster = 1 =>
           ChainSearched(1) /\ next = disk.fat[search.current] /\ ~ExceedsLimit(search.current),
         NEW s \in Visited(search.first)
  PROVE  \E c, t : s = SectorOfCluster(c, t) /\ None(c, t)
<1>1. /\ disk \in Disks /\ disk.SectorsPerCluster \in Nat \ {0}
      /\ search.first \in 0 .. Top - 1 /\ search.sector \in 0 .. disk.SectorsPerCluster - 1
      /\ search.current \in 0 .. Top - 1
  BY DiskType DEF IInv, TypeOK
<1>2. CASE s \in FirstCluster(search.first)
  <2>1. PICK t \in 0 .. disk.SectorsPerCluster - 1 : s = SectorOfCluster(search.first, t)
    BY <1>2 DEF FirstCluster
  <2>2. t \in 0 .. (search.sector + 1) - 1
    BY <1>1 DEF ClusterSearched
  <2> QED BY <2>1, <2>2 DEF FirstSearched
<1>3. CASE s \notin FirstCluster(search.first)
  <2>1. /\ disk.SectorsPerCluster = 1
        /\ \E j \in 0 .. Limit : /\ s = SectorOfCluster(Chain(search.first)[j], 0)
                                 /\ \A l \in 0 .. j : Chain(search.first)[l] < Limit
    BY <1>3 DEF Visited
  <2>2. PICK j \in 0 .. Limit : /\ s = SectorOfCluster(Chain(search.first)[j], 0)
                                /\ \A l \in 0 .. j : Chain(search.first)[l] < Limit
    BY <2>1
  <2>3. PICK k \in Nat :
          /\ search.cluster = Chain(search.first)[k] /\ search.current = search.cluster
          /\ \A i \in 0 .. k + 1 - 1 : None(Chain(search.first)[i], 0)
    BY <2>1 DEF ChainSearched
  <2>4. Chain(search.first)[k + 1] = next % Reserved
    BY <1>1, <2>1, <2>3, NextInChain
  <2>5. ~(Chain(search.first)[k + 1] < Limit)
    <3>1. next % Reserved \in 0 .. Reserved - 1
      BY BitsCleared
    <3> QED BY <2>4, <3>1, Numbers DEF ExceedsLimit
  <2>6. j <= k
    <3>1. ~(k + 1 \in 0 .. j)
      BY <2>2, <2>5
    <3> QED BY <3>1, Numbers
  <2>7. j \in 0 .. k + 1 - 1
    BY <2>6, Numbers
  <2> QED BY <2>2, <2>3, <2>7
<1> QED BY <1>2, <1>3

LEMMA AdvanceSearches == IInv /\ SearchInv /\ Advance => SearchInv'
<1> SUFFICES ASSUME IInv, SearchInv, Advance
             PROVE  SearchInv'
  OBVIOUS
<1>1. PICK ok \in BOOLEAN : \E next \in FatEntries(search.current, ok) :
        /\ Counted(ok)
        /\ search' =
             IF ClusterSearched
             THEN [search EXCEPT !.cluster = next, !.current = next, !.sector = 0]
             ELSE [search EXCEPT !.current = next, !.sector = @ + 1]
        /\ at' = IF ClusterSearched /\ ExceedsLimit(next) THEN "found" ELSE "search"
        /\ entry' = IF ClusterSearched /\ ExceedsLimit(next) THEN NullEntry ELSE entry
  BY DEF Advance
<1>2. PICK next \in FatEntries(search.current, ok) :
        /\ Counted(ok)
        /\ search' =
             IF ClusterSearched
             THEN [search EXCEPT !.cluster = next, !.current = next, !.sector = 0]
             ELSE [search EXCEPT !.current = next, !.sector = @ + 1]
        /\ at' = IF ClusterSearched /\ ExceedsLimit(next) THEN "found" ELSE "search"
        /\ entry' = IF ClusterSearched /\ ExceedsLimit(next) THEN NullEntry ELSE entry
  BY <1>1
<1>3. UNCHANGED <<disk, file, carry>> /\ at = "advance" /\ at' \in {"found", "search"}
  BY <1>2 DEF Advance
<1>4. next \in 0 .. Top - 1
  BY FatEntriesType DEF IInv, TypeOK
<1>5. /\ search'.wanted = search.wanted /\ search'.first = search.first
      /\ search'.current = next
      /\ ClusterSearched => search'.cluster = next /\ search'.sector = 0
      /\ ~ClusterSearched => search'.cluster = search.cluster /\ search'.sector = search.sector + 1
  BY <1>2 DEF IInv, TypeOK
<1>6. /\ disk \in Disks /\ disk.SectorsPerCluster \in Nat \ {0}
      /\ search.first \in 0 .. Top - 1 /\ search.sector \in 0 .. disk.SectorsPerCluster - 1
      /\ search.current \in 0 .. Top - 1
  BY DiskType DEF IInv, TypeOK
<1>7. FollowsChain' = FollowsChain /\ Unreserved(search.first)' = Unreserved(search.first)
  BY <1>3, <1>5 DEF FollowsChain, Unreserved, EndsChain
<1>8. disk.SectorsPerCluster = 1 => ClusterSearched /\ ~ExceedsLimit(search.current)
  BY <1>3, <1>6 DEF SearchInv, ClusterSearched
<1>9. at' = "search" /\ disk.SectorsPerCluster = 1 => ~ExceedsLimit(search.current)'
  BY <1>2, <1>5, <1>8 DEF ExceedsLimit
<1>10. SUFFICES ASSUME failures' = 0
               PROVE  /\ at' = "search" =>
                           /\ FirstSearched(search.sector)'
                           /\ FollowsChain => ChainSearched(0)'
                      /\ SearchFinds'
  BY <1>3, <1>7, <1>9 DEF SearchInv, SearchFinds
<1>11. ok = TRUE /\ failures = 0
  BY <1>2, <1>10, NoneFailed
<1>12. /\ FirstSearched(search.sector + 1)
       /\ FollowsChain => ChainSearched(1)
  BY <1>3, <1>11 DEF SearchInv
<1>13. next = IF carry THEN 0 ELSE disk.fat[search.current]
  BY <1>11 DEF FatEntries
<1>14. /\ \A c, s : None(c, s)' = None(c, s)
       /\ \A c : Chain(c)' = Chain(c)
  BY <1>3, <1>5 DEF None, SectorOfCluster, ClusterOffset, EntriesAt, Chain
<1>15. FirstSearched(search.sector)'
  <2>1. CASE ClusterSearched
    <3>1. 0 .. (search.sector + 1) - 1 = 0 .. disk.SectorsPerCluster - 1
      BY <1>6, <2>1 DEF ClusterSearched
    <3>2. \A s \in 0 .. disk.SectorsPerCluster - 1 : None(search.first, s)
      BY <1>12, <3>1 DEF FirstSearched
    <3> QED BY <1>3, <1>5, <1>14, <3>2 DEF FirstSearched
  <2>2. CASE ~ClusterSearched
    BY <1>3, <1>5, <1>12, <1>14, <2>2 DEF FirstSearched
  <2> QED BY <2>1, <2>2
<1>16. ASSUME FollowsChain, at' = "search"
       PROVE  ChainSearched(0)'
  <2>1. PICK k \in Nat :
          /\ search.cluster = Chain(search.first)[k] /\ search.current = search.cluster
          /\ \A j \in 0 .. k + 1 - 1 : None(Chain(search.first)[j], 0)
    BY <1>12, <1>16 DEF ChainSearched
  <2>2. search'.cluster = next
    BY <1>5, <1>16, <1>8 DEF FollowsChain
  <2>3. next = Chain(search.first)[k + 1]
    <3>1. ~ExceedsLimit(next) /\ next = disk.fat[search.current]
      BY <1>2, <1>13, <1>16, <1>8 DEF FollowsChain
    <3> QED BY <1>6, <1>16, <1>8, <2>1, <3>1, NextInChain DEF FollowsChain
  <2>4. k + 1 \in Nat /\ 0 .. k + 1 - 1 = 0 .. (k + 1) + 0 - 1
    OBVIOUS
  <2> QED BY <1>5, <1>14, <2>1, <2>2, <2>3, <2>4 DEF ChainSearched
<1>17. ASSUME at' = "found"
       PROVE  SearchFinds'
  <2>1. ClusterSearched /\ ExceedsLimit(next) /\ entry' = NullEntry
    BY <1>2, <1>17
  <2>2. ~carry
    <3>1. 0 \in 0 .. Top - 1 /\ 0 < Reserved /\ ~(0 >= Limit)
      BY Numbers
    <3>2. ~ExceedsLimit(0)
      BY <3>1, BitsCleared
    <3> QED BY <1>13, <2>1, <3>2
  <2>3. Visited(search.first)' = Visited(search.first) /\ EntriesAt' = EntriesAt
    BY <1>3, <1>5, <1>14 DEF Visited, FirstCluster, SectorOfCluster, ClusterOffset, EntriesAt
  <2>4. SUFFICES ASSUME Unreserved(search.first), NEW s \in Visited(search.first)
                 PROVE  Matches(EntriesAt[s], Path[search.wanted]) = {}
    BY <1>5, <1>7, <2>1, <2>3 DEF SearchFinds, NullEntry, Matches, FatNameIsEqual
  <2>5. disk.SectorsPerCluster = 1 =>
          ChainSearched(1) /\ next = disk.fat[search.current] /\ ~ExceedsLimit(search.current)
    BY <1>12, <1>13, <1>8, <2>2, <2>4 DEF FollowsChain
  <2>6. PICK c, t : s = SectorOfCluster(c, t) /\ None(c, t)
    BY <1>4, <1>12, <2>1, <2>4, <2>5, SearchedAll
  <2> QED BY <2>6 DEF None
<1> QED BY <1>3, <1>15, <1>16, <1>17 DEF SearchFinds

\* The next element of the path is searched from the start.
LEMMA FoundSearches == IInv /\ SearchInv /\ Found => SearchInv'
<1> SUFFICES ASSUME IInv, SearchInv, Found
             PROVE  SearchInv'
  OBVIOUS
<1>1. UNCHANGED <<disk, entry, carry, failures>> /\ at' \in {"panic", "search", "read"}
  BY DEF Found
<1>2. SUFFICES ASSUME at' = "search"
               PROVE  /\ ~ExceedsLimit(search'.current)
                      /\ FirstSearched(search.sector)'
                      /\ FollowsChain' => ChainSearched(0)'
  BY <1>1 DEF SearchInv, SearchFinds, ExceedsLimit
<1>3. search' = StartSearch(search.wanted + 1, entry.Cluster) /\ ~ExceedsLimit(entry.Cluster)
  BY <1>2 DEF Found
<1>4. /\ search'.sector = 0 /\ search'.cluster = entry.Cluster
      /\ search'.current = entry.Cluster /\ search'.first = entry.Cluster
  BY <1>3 DEF StartSearch
<1>5. entry.Cluster \in 0 .. Top - 1 /\ disk \in Disks
  BY DEF IInv, TypeOK, Entry
<1>6. ASSUME FollowsChain'
      PROVE  Chain(search.first)'[0] = entry.Cluster
  <2>1. Chain(search.first)' = Chain(entry.Cluster)
    BY <1>1, <1>4 DEF Chain
  <2>2. entry.Cluster < Reserved
    BY <1>4, <1>6 DEF FollowsChain, Unreserved
  <2> QED BY <1>5, <2>1, <2>2, BitsCleared, ChainFacts
<1> QED BY <1>3, <1>4, <1>6 DEF FirstSearched, ChainSearched, ExceedsLimit

\* Reading the file searches nothing.
LEMMA NextSearches == IInv /\ SearchInv /\ [Next]_vars => SearchInv'
<1> SUFFICES ASSUME IInv, SearchInv, [Next]_vars
             PROVE  SearchInv'
  OBVIOUS
<1>1. CASE SearchSector
  BY <1>1, SearchSectorSearches
<1>2. CASE Advance
  BY <1>2, AdvanceSearches
<1>3. CASE Found
  BY <1>3, FoundSearches
<1>4. CASE ReadChunk \/ Follow
  <2>1. at' \in {"failure", "success", "read", "follow"}
    BY <1>4 DEF ReadChunk, Follow, AfterCluster
  <2> QED BY <2>1 DEF SearchInv, SearchFinds
<1>5. CASE UNCHANGED vars
  <2>1. UNCHANGED <<disk, at, search, entry, file, carry, failures>>
    BY <1>5 DEF vars
  <2>2. /\ \A c : Chain(c)' = Chain(c) /\ \A s : None(c, s)' = None(c, s)
        /\ EntriesAt' = EntriesAt /\ Visited(search.first)' = Visited(search.first)
        /\ FollowsChain' = FollowsChain /\ Unreserved(search.first)' = Unreserved(search.first)
    BY <2>1 DEF Chain, None, SectorOfCluster, ClusterOffset, EntriesAt, Visited, FirstCluster,
                FollowsChain, Unreserved, EndsChain
  <2>3. /\ FirstSearched(search.sector)' = FirstSearched(search.sector)
        /\ FirstSearched(search.sector + 1)' = FirstSearched(search.sector + 1)
        /\ ChainSearched(0)' = ChainSearched(0) /\ ChainSearched(1)' = ChainSearched(1)
        /\ SearchFinds' = SearchFinds
    BY <2>1, <2>2 DEF FirstSearched, ChainSearched, SearchFinds, Matches, FatNameIsEqual, NullEntry
  <2> QED BY <2>1, <2>2, <2>3 DEF SearchInv, ExceedsLimit
<1> QED BY <1>1, <1>2, <1>3, <1>4, <1>5 DEF Next


-----------------------------------------------------------------------------
(***************************************************************************)
(* The variables of the reader keep their types on every drive, however    *)
(* damaged, and with every read that fails: clusters are any 32 bits, and  *)
(* sectors stay within their cluster.  (Disk.c:308, FindDirectory, and     *)
(* :435, ReadFile)                                                         *)
(***************************************************************************)
THEOREM FatTypeCorrect == Spec => []TypeOK
<1>1. IInv => TypeOK
  BY DEF IInv
<1> QED
  BY <1>1, InitIInv, NextIInv, PTL DEF Spec

(***************************************************************************)
(* Whatever the chain of a file, ReadFile() writes less than a cluster, or *)
(* SectorReadLimit sectors if that is less, behind its end.                *)
(* (Disk.c:476, ReadFile)                                                  *)
(***************************************************************************)
THEOREM OverrunBounded == Spec => []OverrunIsBounded
<1>1. IInv => OverrunIsBounded
  BY DEF IInv
<1> QED
  BY <1>1, InitIInv, NextIInv, PTL DEF Spec

LEMMA NextFatInv == FatInv /\ [Next]_vars => FatInv'
BY NextIInv, NextReads, NextSearches DEF FatInv

(***************************************************************************)
(* What ReadFile() and FindDirectory() rely on between their steps holds   *)
(* throughout, on every drive and along every chain.                       *)
(* (Disk.c:308, FindDirectory, and :435, ReadFile)                         *)
(***************************************************************************)
THEOREM FatInvariant == Spec => []FatInv
<1>1. Init => FatInv
  BY InitIInv, InitReads, InitSearches DEF FatInv
<1> QED
  BY <1>1, NextFatInv, PTL DEF Spec

(***************************************************************************)
(* As long as the drive can be read and no entry has reserved bits, every  *)
(* sector that ReadFile() has put into the buffer is the one that the      *)
(* chain has there, and a file that it reports as read is complete, or its *)
(* chain ends too soon: for files and clusters of every size, cyclic       *)
(* chains, and physical sectors of every size that the clusters consist    *)
(* of.  (Disk.c:435-520)                                                   *)
(***************************************************************************)
THEOREM FileAlwaysRead == Spec => []FileIsRead
<1>1. FatInv => FileIsRead
  BY DEF FatInv, IInv, ReadingInv, FileIsRead
<1> QED
  BY <1>1, FatInvariant, PTL

(***************************************************************************)
(* As long as the drive can be read, FindDirectory() returns an entry of   *)
(* the name and kind that was asked for; if no entry of the FAT has        *)
(* reserved bits, it finds one that is in the first cluster, or anywhere   *)
(* in the folder if its clusters are sectors.  (Disk.c:308, FindDirectory) *)
(***************************************************************************)
THEOREM SearchAlwaysFinds == Spec => []SearchFinds
<1>1. FatInv => SearchFinds
  BY DEF FatInv, SearchInv
<1> QED
  BY <1>1, FatInvariant, PTL
=============================================================================
