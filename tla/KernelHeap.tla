----------------------------- MODULE KernelHeap -----------------------------
(***************************************************************************)
(* The kernel as the client of its memory allocator: the allocations and   *)
(* frees of the entrypoint, the graphics subsystem, the disk subsystem and *)
(* the partition detection, in the order in which the code makes them.     *)
(*                                                                         *)
(* The order and the sizes matter: MergeBlock() does not merge soundly for *)
(* all of them (MergesAreSound), and not always for those of the kernel.   *)
(***************************************************************************)
EXTENDS MmProperties

CONSTANTS
  Page,         \* SystemPageSize.
  BufferSizes,  \* The sizes that the graphics buffer may have.
  ListSize,     \* The size of the list of EFI handles.
  Volumes       \* The sizes of sectors, alignments and partition arrays of volumes.

ASSUME VolumeAssumption ==
  Volumes \subseteq [sector : Nat \ {0}, alignment : Nat \ {0}, array : Nat \ {0}]

\* What ReadDisk() allocates for less than three sectors.
SectorBuffer(v) == v.alignment + v.sector

\* What it allocates for the array.  Three sectors or more are read straight to a buffer that
\* is aligned, as the start of a page is.
ArrayBuffers(v) ==
  LET sectors == (v.array + v.sector - 1) \div v.sector
      direct  == sectors >= 3 /\ Page % v.alignment = 0
  IN  IF direct THEN {} ELSE {v.alignment + v.sector * sectors}

\* The sizes that the kernel asks for are among those of the clients of MmAllocator.
ASSUME RequestAssumption ==
  /\ {Page \div 2, Page, 2 * Page, ListSize} \cup BufferSizes \subseteq Sizes
  /\ \A v \in Volumes : {v.sector, v.array, SectorBuffer(v)} \cup ArrayBuffers(v) \subseteq Sizes

VARIABLES
  at,      \* The place in the kernel, which is about to make a call or has made it.
  busy,    \* Whether it has made it.
  names,   \* What the kernel uses the live blocks for.
  volume,  \* The volume at hand.
  lost     \* History: the blocks that Free() has refused.

kernelVars == <<at, busy, names, volume, lost>>

-----------------------------------------------------------------------------
(***************************************************************************)
(* A place in the kernel allocates or frees a block, and goes on at one of *)
(* the places of ok when that works and of bad when it does not.  Which of *)
(* them depends on the firmware, and on what the disks hold.               *)
(***************************************************************************)
Allocates(block, sizes, ok, bad) ==
  [does |-> "allocate", block |-> block, sizes |-> sizes, ok |-> ok, bad |-> bad]

Frees(block, ok, bad) == [does |-> "free", block |-> block, ok |-> ok, bad |-> bad]

\* VerifyMemoryManagementSubsystem(), on half a page, one page and two pages.
Verify ==
  [testHalf |-> Allocates("test", {Page \div 2}, {"freeHalf"}, {"stop"}),
   freeHalf |-> Frees("test", {"testOne"}, {"stop"}),
   testOne  |-> Allocates("test", {Page}, {"freeOne"}, {"stop"}),
   freeOne  |-> Frees("test", {"testTwo"}, {"stop"}),
   testTwo  |-> Allocates("test", {2 * Page}, {"freeTwo"}, {"stop"}),
   freeTwo  |-> Frees("test", {"buffer", "handles", "bootsector"}, {"stop"})]

\* InitializeGraphicsSubsystem().
Graphics == [buffer |-> Allocates("buffer", BufferSizes, {"handles", "bootsector"}, {"stop"})]

\* InitializeDiskSubsystem_Efi().
Disk ==
  [handles   |-> Allocates("handles", {ListSize}, {"protocols", "stop"}, {"stop"}),
   protocols |-> Allocates("protocols", {ListSize}, {"bootsector", "stop"}, {"stop"})]

NextVolume == {"bootsector", "stop"}

\* InitializeFsSubsystem() reads the boot sector of each volume.
Filesystem ==
  [bootsector |-> Allocates("temp", {SectorBuffer(volume)}, {"sectorRead"}, NextVolume),
   sectorRead |-> Frees("temp", {"primary"} \cup NextVolume, NextVolume)]

\* The array is read with a buffer or without one, or not at all.
ReadsArray(v) == IF ArrayBuffers(v) = {} THEN {"freeArray"} ELSE {"readArray", "freeArray"}

(***************************************************************************)
(* DetectPartitionMap() of a GPT volume.  The backup header is read even   *)
(* when the primary one could not be; then, the array is not.              *)
(***************************************************************************)
Detect ==
  [primary     |-> Allocates("primary", {volume.sector}, {"backup"}, {"backupOnly"}),
   backup      |-> Allocates("backup", {volume.sector}, {"readPrimary"}, {"freeOnly"}),
   backupOnly  |-> Allocates("backup", {volume.sector}, {"freeBackup"}, NextVolume),
   freeOnly    |-> Frees("primary", NextVolume, NextVolume),
   readPrimary |-> Allocates("temp", {SectorBuffer(volume)}, {"primaryRead"}, {"readInVain"}),
   primaryRead |-> Frees("temp", {"readBackup", "readInVain"}, {"readInVain"}),
   readBackup  |-> Allocates("temp", {SectorBuffer(volume)}, {"backupRead"}, {"freePrimary"}),
   backupRead  |-> Frees("temp", {"array", "freePrimary"}, {"freePrimary"}),
   readInVain  |-> Allocates("temp", {SectorBuffer(volume)}, {"vainRead"}, {"freePrimary"}),
   vainRead    |-> Frees("temp", {"freePrimary"}, {"freePrimary"}),
   array       |-> Allocates("array", {volume.array}, ReadsArray(volume), {"freePrimary"}),
   readArray   |-> Allocates("temp", ArrayBuffers(volume), {"arrayRead"}, {"freeArray"}),
   arrayRead   |-> Frees("temp", {"freeArray"}, {"freeArray"}),
   freeArray   |-> Frees("array", {"freePrimary"}, {"freePrimary"}),
   freePrimary |-> Frees("primary", {"freeBackup"}, {"freeBackup"}),
   freeBackup  |-> Frees("backup", NextVolume, NextVolume)]

Places ==
  DOMAIN Verify \cup DOMAIN Graphics \cup DOMAIN Disk \cup DOMAIN Filesystem \cup DOMAIN Detect

\* A fault: an array that could not be allocated leaves the headers behind.
KernelKeepsHeaders ==
  [place \in Places |->
     CASE place \in DOMAIN Verify     -> Verify[place]
       [] place \in DOMAIN Graphics   -> Graphics[place]
       [] place \in DOMAIN Disk       -> Disk[place]
       [] place \in DOMAIN Filesystem -> Filesystem[place]
       [] place \in DOMAIN Detect     ->
            IF place = "array" THEN [Detect.array EXCEPT !.bad = NextVolume] ELSE Detect[place]]

Kernel ==
  [place \in Places |->
     CASE place \in DOMAIN Verify     -> Verify[place]
       [] place \in DOMAIN Graphics   -> Graphics[place]
       [] place \in DOMAIN Disk       -> Disk[place]
       [] place \in DOMAIN Filesystem -> Filesystem[place]
       [] place \in DOMAIN Detect     -> Detect[place]]

-----------------------------------------------------------------------------
KernelInit ==
  /\ Init
  /\ at = "testHalf"
  /\ busy = FALSE
  /\ names = <<>>
  /\ volume \in Volumes
  /\ lost = {}

Starts ==
  /\ Carve
  /\ UNCHANGED kernelVars

Named == names' = IF Len(live') > Len(live) THEN Append(names, Kernel[at].block) ELSE names

CallsAllocate ==
  /\ IsEnabled /\ ~busy /\ at # "stop"
  /\ Kernel[at].does = "allocate"
  /\ \E size \in Kernel[at].sizes : AllocatePop(size) \/ AllocateDivide(size)
  /\ Named
  /\ busy' = TRUE
  /\ UNCHANGED <<at, volume, lost>>

CallsFree ==
  /\ IsEnabled /\ ~busy /\ at # "stop"
  /\ Kernel[at].does = "free"
  /\ \E i \in DOMAIN names :
       /\ names[i] = Kernel[at].block
       /\ Free(i)
       /\ names' = SubSeq(names, 1, i - 1) \o SubSeq(names, i + 1, Len(names))
       /\ lost' = IF call'.op = "false" THEN lost \cup {live[i]} ELSE lost
  /\ busy' = TRUE
  /\ UNCHANGED <<at, volume>>

\* The rest of Allocate() or Free().
Works ==
  /\ busy
  /\ DividePush \/ DivideLast \/ DividePop \/ MergeBlock
  /\ Named
  /\ UNCHANGED <<at, busy, volume, lost>>

GoesOn(places) ==
  /\ at' \in places
  /\ volume' \in IF at' = "bootsector" THEN Volumes ELSE {volume}
  /\ busy' = FALSE
  /\ UNCHANGED <<names, lost>>

Returns ==
  /\ busy
  /\ \/ call = Idle /\ GoesOn(Kernel[at].ok) /\ UNCHANGED vars
     \/ (NullSeen \/ FalseSeen) /\ GoesOn(Kernel[at].bad)

KernelNext == Starts \/ CallsAllocate \/ CallsFree \/ Works \/ Returns

\* One thread, which nothing interrupts for good.
KernelSpec ==
  KernelInit /\ [][KernelNext]_<<vars, kernelVars>> /\ WF_<<vars, kernelVars>>(KernelNext)

(***************************************************************************)
(* The behaviours up to the first merge that is not sound, if there is one *)
(* at all.                                                                 *)
(***************************************************************************)
SoundKernelNext == MergesAreSound /\ KernelNext

SoundKernelSpec ==
  KernelInit /\ [][SoundKernelNext]_<<vars, kernelVars>>

-----------------------------------------------------------------------------
(***************************************************************************)
(* Whatever the kernel allocates and frees, and in which order, the first  *)
(* merge that is not of two buddies can only be one of the buffer with     *)
(* which an array of less than three sectors is read, but more than a      *)
(* page: the kernel frees that buffer while the array is in use.  Longer   *)
(* arrays are read without one.  (Disk.c:284-290, Fs.c:526-540)            *)
(***************************************************************************)
OnlyArrayBuffersMergeUnsoundly == MergesAreSound \/ (at = "arrayRead" /\ volume.array > Page)

(***************************************************************************)
(* Every page is in exactly one block, free or in use, unless it is in one *)
(* that Free() refused: nothing but an unsound merge makes the kernel lose *)
(* memory, or use it twice.                                                *)
(***************************************************************************)
LostExtent(b) == b.ptr .. b.ptr + BlockSize(SizeLevel(b.size)) - 1

EveryPageAccounted ==
  call = Idle => \A pointer \in DataPointers :
    LET owners == Owners(pointer)
                    \cup {<<"lost", b>> : b \in {c \in lost : pointer \in LostExtent(c)}}
    IN  \E owner \in owners : owners = {owner}

(***************************************************************************)
(* Fs.c:691: "No matter what, we *have* to free what we allocated".  On    *)
(* every path, the detection of a volume keeps nothing.                    *)
(***************************************************************************)
NothingKept ==
  ~busy /\ at \in NextVolume =>
    \A i \in DOMAIN names : names[i] \in {"test", "buffer", "handles", "protocols"}
=============================================================================
