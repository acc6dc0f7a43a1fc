--------------------------- MODULE EfiBootProofs ----------------------------
(***************************************************************************)
(* The three invariants of EfiBoot, for every firmware: what the kernel is *)
(* told, the memory it is given, and what the loader leaves behind.        *)
(*                                                                         *)
(* The inductive invariant has three layers.  MapInv is about the memory   *)
(* map while it is sorted and used up, ResourceInv about what is held at   *)
(* each step and what the flags say of it, and ChoiceInv about the loops   *)
(* over modes and tables.  Each layer rests on the ones before it.         *)
(***************************************************************************)
EXTENDS EfiBoot, InductionLemmas, FiniteSetTheorems, SequenceTheorems

-----------------------------------------------------------------------------
(***************************************************************************)
(* The steps in their order.                                               *)
(***************************************************************************)
BeforeGop == {"tables", "text", "gop"}

BeforeFs == BeforeGop \cup {"gop handle", "edid", "mode", "acpi"}

LoadSteps == {"info size", "info pool", "info", "kernel pages", "read", "stack", "headers", "area",
              "relocate", "map size", "map pool", "usable pool", "map"}

BeforeSort == BeforeFs \cup {"volume", "returned"} \cup LoadSteps

EndSteps == {"set mode", "kernel"}

AfterVolume == LoadSteps \cup {"sort", "entries"} \cup EndSteps

AfterInfoPool == AfterVolume \ {"info size", "info pool"}

AfterPages == AfterInfoPool \ {"info", "kernel pages"}

AfterStack == AfterPages \ {"read", "stack"}

AfterArea == AfterStack \ {"headers", "area"}

AfterMapPool == AfterArea \ {"relocate", "map size", "map pool"}

AfterUsablePool == AfterMapPool \ {"usable pool"}

\* The kernel's file is open from the moment its volume is found until it is read.
FileOpen == {"info size", "info pool", "info", "kernel pages", "read"}

Leaving == {"exit", "free pages"}

Closed == {"close gop", "free pools", "exited"}

Released == {"close files"} \cup Closed

Cleanup == Leaving \cup Released

\* The steps that may give up.
GivesUp == {"acpi", "volume", "entries", "kernel"} \cup LoadSteps

\* The step that was reached, which the cleanup still depends on.
Here == IF at \in Cleanup THEN left ELSE at

-----------------------------------------------------------------------------
(***************************************************************************)
(* The types of all variables but `scan' and `held'.                       *)
(***************************************************************************)
FlagNames ==
  {"SupportsConIn", "SupportsConOut", "SupportsGop", "SupportsEdid",
   "HasOpenedGopHandles", "HasOpenedGopProtocols", "HasOpenedEdidProtocols",
   "HasOpenedFsHandles", "HasOpenedFsProtocols",
   "HasAllocatedKernel", "HasAllocatedStack", "HasAllocatedKernelArea", "HasAllocatedMemory"}

FlowInv ==
  /\ at \in Cleanup => left \in GivesUp
  /\ at \in LoadSteps => index = 1
  /\ at = "kernel pages" => KernelSize = KernelPages

TypeInv ==
  /\ fw \in Firmwares
  /\ AppStatus \in {"Success", "Error"}
  /\ display \in {"Gop", "EfiText", "Unknown"}
  /\ KernelSize \in 0 .. KernelPages
  /\ DOMAIN held = {"pools", "protocols", "files", "free", "pages", "sse"}

-----------------------------------------------------------------------------
(***************************************************************************)
(* The memory map.                                                         *)
(***************************************************************************)
UsablePages == UNION {PagesOf(scan.usable[i].Base, scan.usable[i].Limit) : i \in DOMAIN scan.usable}

FreeAtFirst == PagesOfType({Conventional}) \ (PagesOfType(Nat \ {Conventional}) \cup fw.taken)

ScanType ==
  scan \in [mmap : Seq(MmapEntry), threshold : Nat \ {0}, usable : Seq([Base : Nat, Limit : Nat]),
            FirmwareMemory : 0 .. MinFirmwareMemory, UsableOffset : Nat]

\* The entries are those of the firmware, in some order.
EntriesKnown ==
  /\ Len(scan.mmap) \in {0, Len(fw.map)}
  /\ \A i \in DOMAIN scan.mmap : \E j \in DOMAIN fw.map : scan.mmap[i] = fw.map[j]

\* Up to the threshold, all are in order but the one that is being moved down.
SortInv ==
  /\ index <= scan.threshold /\ (scan.threshold > 1 => scan.threshold <= Len(scan.mmap))
  /\ \A i, j \in DOMAIN scan.mmap :
       i < j /\ j <= scan.threshold /\ j # index =>
         scan.mmap[i].PhysicalStart <= scan.mmap[j].PhysicalStart

Sorted ==
  \A i, j \in DOMAIN scan.mmap : i < j => scan.mmap[i].PhysicalStart <= scan.mmap[j].PhysicalStart

\* What was kept for the firmware is free and below what is yet to be looked at.
Kept(pages) ==
  /\ IsFiniteSet(pages)
  /\ Cardinality(pages) = MinFirmwareMemory - scan.FirmwareMemory

NothingTaken == fw.taken = {} /\ PagesOfType({Conventional}) \cap PagesOfType(Nat \ {Conventional}) = {}

EntriesInv ==
  /\ index <= Len(scan.mmap) + 1
  /\ scan.FirmwareMemory > 0 => scan.usable = <<>> /\ scan.UsableOffset = 0
  /\ index <= Len(scan.mmap) =>
       /\ scan.UsableOffset <= scan.mmap[index].PhysicalStart
       /\ \A i \in DOMAIN scan.usable :
            scan.usable[i].Base + scan.usable[i].Limit <= scan.mmap[index].PhysicalStart
  /\ NothingTaken =>
       \E pages \in SUBSET held.free :
         /\ Kept(pages)
         /\ index <= Len(scan.mmap) => \A page \in pages : page < scan.mmap[index].PhysicalStart

MapInv ==
  /\ index \in Nat \ {0} /\ ScanType /\ EntriesKnown
  /\ held.free \subseteq Nat
  /\ at \in BeforeSort => scan = [mmap |-> <<>>, threshold |-> 1, usable |-> <<>>,
                                  FirmwareMemory |-> MinFirmwareMemory, UsableOffset |-> 0]
  /\ at = "sort" => /\ SortInv /\ scan.usable = <<>>
                    /\ scan.FirmwareMemory = MinFirmwareMemory /\ scan.UsableOffset = 0
  /\ at = "entries" => Sorted /\ EntriesInv
  /\ at \in EndSteps => /\ scan.usable # <<>>
                        /\ NothingTaken => \E pages \in SUBSET held.free : Kept(pages) /\ scan.FirmwareMemory = 0
  /\ UsableMapIsOrdered
  /\ \A i \in DOMAIN scan.usable : scan.UsableOffset <= scan.usable[i].Base
  /\ at \in Cleanup /\ scan.usable # <<>> => left = "kernel"
  /\ IF at \in Released THEN UsablePages \subseteq held.free ELSE held.free = FreeAtFirst \ UsablePages

-----------------------------------------------------------------------------
(***************************************************************************)
(* What is held, and what the loader knows of it.                          *)
(***************************************************************************)
FlagInv ==
  /\ flags \subseteq FlagNames
  /\ Here \in BeforeGop \cup {"returned"} => flags \subseteq {"SupportsConIn", "SupportsConOut"}
  /\ Here = "gop handle" =>
       Is("HasOpenedGopHandles") /\ flags \cap {"SupportsGop", "SupportsEdid", "HasOpenedGopProtocols",
       "HasOpenedEdidProtocols"} = {}
  /\ Here = "edid" => Is("HasOpenedGopProtocols") /\ ~Is("HasOpenedEdidProtocols") /\ ~Is("SupportsEdid")
  /\ Is("HasOpenedEdidProtocols") \/ Is("SupportsGop") \/ Is("SupportsEdid") => Is("HasOpenedGopProtocols")
  /\ Is("HasOpenedGopProtocols") => Is("HasOpenedGopHandles")
  /\ Is("HasOpenedFsHandles") <=> Here \in {"volume"} \cup AfterVolume
  /\ Is("HasOpenedFsProtocols") <=> Here \in AfterVolume
  /\ Is("HasAllocatedKernel") <=> Here \in AfterPages
  /\ Is("HasAllocatedStack") <=> Here \in AfterStack
  /\ Is("HasAllocatedKernelArea") <=> Here \in AfterArea
  /\ Is("HasAllocatedMemory") <=> Here \in EndSteps

PtrInv ==
  /\ ptr \in [Gop : Nat, SimpleFs : Nat, File : Nat, KernelInfo : {"NULL", "pool"},
              Mmap : {"NULL", "stack", "pool"}, UsableMmap : {"NULL", "pool"}]
  /\ ptr.KernelInfo = "pool" <=> Here \in AfterInfoPool
  /\ ptr.Mmap = "pool" <=> Here \in AfterMapPool
  /\ ptr.Mmap = "stack" <=> Here = "map pool" \/ (at \in Cleanup /\ left = "map size")
  /\ ptr.UsableMmap = "pool" <=> Here \in AfterUsablePool
  /\ Here \in BeforeFs \cup {"returned"} => ptr.File = 0
  /\ Here \in AfterVolume =>
       ptr.File = ptr.SimpleFs /\ ptr.File \in DOMAIN fw.volumes /\ fw.volumes[ptr.File] = "kernel"

PoolInv ==
  /\ held.pools \subseteq {"GopHandles", "FsHandles", "KernelInfo", "Mmap", "UsableMmap"}
  /\ "GopHandles" \in held.pools <=> Is("HasOpenedGopHandles") /\ at \notin {"free pools", "exited"}
  /\ "FsHandles" \in held.pools <=> Is("HasOpenedFsHandles") /\ at \notin Closed
  /\ "KernelInfo" \in held.pools <=> ptr.KernelInfo = "pool" /\ at # "exited"
  /\ "Mmap" \in held.pools <=> ptr.Mmap = "pool" /\ at # "exited"
  /\ "UsableMmap" \in held.pools <=> ptr.UsableMmap = "pool" /\ at # "exited"

ProtocolsHeld ==
  (IF Is("HasOpenedGopProtocols") /\ at \notin {"free pools", "exited"} THEN {<<"Gop", ptr.Gop>>} ELSE {})
    \cup (IF Is("HasOpenedEdidProtocols") /\ at \notin {"free pools", "exited"}
          THEN {<<"Edid", ptr.Gop>>} ELSE {})
    \cup (IF Is("HasOpenedFsProtocols") /\ at \notin Closed THEN {<<"Fs", ptr.SimpleFs>>} ELSE {})

\* Volumes without a kernel stay open; the kernel's is closed with the pointer to it.
FilesKnown ==
  \A file \in held.files :
    \/ file[1] = "Volume" /\ file[2] \in DOMAIN fw.volumes /\ fw.volumes[file[2]] = "other"
    \/ file = <<"Volume", ptr.File>> /\ Here \in AfterVolume /\ at \notin Closed
    \/ file = <<"Kernel", ptr.File>> /\ Here \in FileOpen

\* Pages that the loader took for NULL have no flag, and stay.
MaybeLost(step) == at \in Cleanup /\ left = step

PagesHeld(name, flag, number, step) ==
  ~MaybeLost(step) =>
    /\ at \notin Released => held.pages[name] = IF Is(flag) THEN number ELSE 0
    /\ at \in Released => held.pages[name] = IF Is(flag) /\ name = "Kernel" THEN number - KernelSize ELSE 0

FilesInv ==
  /\ held.files \subseteq {"Volume", "Kernel"} \X Nat
  /\ FilesKnown
  /\ ptr.File # 0 /\ at \notin Closed => <<"Volume", ptr.File>> \in held.files

PagesInv ==
  /\ held.pages \in [Kernel : Nat, KernelStack : Nat, KernelArea : Nat]
  /\ PagesHeld("Kernel", "HasAllocatedKernel", KernelPages, "kernel pages")
  /\ PagesHeld("KernelStack", "HasAllocatedStack", 1, "stack")
  /\ PagesHeld("KernelArea", "HasAllocatedKernelArea", 1, "area")

SseInv == at \in {"tables", "returned", "exited"} => held.sse = FALSE

HeldInv == PoolInv /\ held.protocols = ProtocolsHeld /\ FilesInv /\ PagesInv /\ SseInv

BadInv == bad = IF at = "exited" /\ ptr.Mmap = "stack" THEN {<<"pool", "Mmap">>} ELSE {}

StatusInv ==
  at \in Cleanup /\ AppStatus = "Success" =>
    left \in {"kernel", "acpi", "volume", "info size", "info", "kernel pages", "stack", "headers",
             "area", "relocate", "map size"}

ResourceInv == FlagInv /\ PtrInv /\ HeldInv /\ BadInv /\ StatusInv

-----------------------------------------------------------------------------
(***************************************************************************)
(* What the kernel is told.                                                *)
(***************************************************************************)
Maximal(number) ==
  \A m \in 1 .. number : Eligible(fw.modes[m]) => NoBetter(fw.modes[m], best.graphics)

ModeRecord == [Mode : Nat, ColorDepth : Nat, HRes : Nat, VRes : Nat]

AcpiOf(number) ==
  \A i \in 1 .. number :
    /\ fw.tables[i] = "Acpi2" => tables.Acpi = "Acpi2"
    /\ fw.tables[i] = "Acpi" => tables.Acpi # "none"

ChoiceInv ==
  /\ DOMAIN best = {"text", "graphics"} /\ best.graphics \in ModeRecord
  /\ tables.Acpi \in {"none", "Acpi", "Acpi2"}
  /\ at \in {"gop", "edid"} => index = 1
  /\ at = "mode" => index <= MaxMode + 1 /\ Maximal(index - 1)
  /\ at \in {"acpi", "volume"} \cup AfterVolume /\ Is("SupportsGop") => Maximal(MaxMode)
  /\ at = "acpi" => index <= Len(fw.tables) + 1 /\ AcpiOf(index - 1)
  /\ at \in {"volume"} \cup AfterVolume =>
       /\ AcpiOf(Len(fw.tables))
       /\ display = "Gop" => Is("SupportsGop")
       /\ display = "EfiText" => Is("SupportsConOut")

\* The inductive invariant.
EfiInv == TypeInv /\ FlowInv /\ MapInv /\ ResourceInv /\ ChoiceInv

-----------------------------------------------------------------------------
(***************************************************************************)
(* Types, and the order of the steps.  Each lemma about a step has one     *)
(* case for each action.                                                   *)
(***************************************************************************)
LEMMA TypeInit == Init => TypeInv
  BY SizesAssumption DEF Init, TypeInv

\* Every action keeps the types.
LEMMA TypeStep == TypeInv /\ [Next]_vars => TypeInv'
<1> SUFFICES ASSUME TypeInv, [Next]_vars PROVE TypeInv'
  OBVIOUS
<1> USE SizesAssumption DEF TypeInv, Statuses
<1>1. CASE CheckTables
  BY <1>1 DEF CheckTables, Go
<1>2. CASE QueryTextMode
  BY <1>2 DEF QueryTextMode
<1>3. CASE TextModesQueried
  BY <1>3 DEF TextModesQueried, Go
<1>4. CASE LocateGopHandles
  BY <1>4 DEF LocateGopHandles, Go
<1>5. CASE OpenGop
  BY <1>5 DEF OpenGop, Go
<1>6. CASE NoGop
  BY <1>6 DEF NoGop, Go
<1>7. CASE OpenEdid
  BY <1>7 DEF OpenEdid, Go
<1>8. CASE QueryGraphicsMode
  BY <1>8 DEF QueryGraphicsMode
<1>9. CASE GraphicsModesQueried
  BY <1>9 DEF GraphicsModesQueried, Go
<1>10. CASE ScanConfigurationTable
  BY <1>10 DEF ScanConfigurationTable
<1>11. CASE LocateFsHandles
  BY <1>11 DEF LocateFsHandles, Go, GiveUp
<1>12. CASE OpenVolume
  BY <1>12 DEF OpenVolume, FlagsAfterVolume, NextHandle, OpenAfterVolume, Go
<1>13. CASE KernelNotFound
  BY <1>13 DEF KernelNotFound, GiveUp
<1>14. CASE GetInfoSize
  BY <1>14 DEF GetInfoSize, FailsAnyhow, GiveUp, Go, Rest
<1>15. CASE AllocatePool("info pool", "KernelInfo", "info")
  BY <1>15 DEF AllocatePool, Fails, GiveUp, Go, Rest
<1>16. CASE GetInfo
  <2>1. UNCHANGED <<fw, display, held>> /\ KernelSize' \in {KernelPages, KernelSize}
    BY <1>16 DEF GetInfo, FailsAnyhow, Rest
  <2>2. AppStatus' \in {"Success", "Error"}
    BY <1>16 DEF GetInfo, FailsAnyhow
  <2> QED
    BY <2>1, <2>2
<1>17. CASE AllocatePages("kernel pages", "Kernel", KernelSize, "HasAllocatedKernel", "read")
  BY <1>17 DEF AllocatePages, AtAddressZero, Flagged, Fails, GiveUp, Go, Rest
<1>18. CASE ReadKernel
  BY <1>18 DEF ReadKernel, Fails, GiveUp, Go, Rest
<1>19. CASE AllocatePages("stack", "KernelStack", 1, "HasAllocatedStack", "headers")
  BY <1>19 DEF AllocatePages, AtAddressZero, Flagged, Fails, GiveUp, Go, Rest
<1>20. CASE CheckHeaders
  BY <1>20 DEF CheckHeaders, Fails, FailsSilently, GiveUp, Go, Rest
<1>21. CASE AllocatePages("area", "KernelArea", 1, "HasAllocatedKernelArea", "relocate")
  BY <1>21 DEF AllocatePages, AtAddressZero, Flagged, Fails, GiveUp, Go, Rest
<1>22. CASE CopyAndRelocate
  BY <1>22 DEF CopyAndRelocate, FailsSilently, GiveUp, Go, Rest
<1>23. CASE GetMemoryMapSize
  BY <1>23 DEF GetMemoryMapSize, GiveUp, Go, Rest
<1>24. CASE AllocatePool("map pool", "Mmap", "usable pool")
  BY <1>24 DEF AllocatePool, Fails, GiveUp, Go, Rest
<1>25. CASE AllocatePool("usable pool", "UsableMmap", "map")
  BY <1>25 DEF AllocatePool, Fails, GiveUp, Go, Rest
<1>26. CASE GetMemoryMap
  BY <1>26 DEF GetMemoryMap, Fails, GiveUp, Go, Rest
<1>27. CASE NextThreshold
  BY <1>27 DEF NextThreshold
<1>28. CASE ComparePosition
  BY <1>28 DEF ComparePosition
<1>29. CASE MapSorted
  BY <1>29 DEF MapSorted, Go
<1>30. CASE ProcessEntry
  BY <1>30 DEF ProcessEntry
<1>31. CASE OutOfResources
  BY <1>31 DEF OutOfResources, StatusWithoutMemory, GiveUp, Rest
<1>32. CASE TrimMap
  BY <1>32 DEF TrimMap, Go
<1>33. CASE SetGraphicsMode
  BY <1>33 DEF SetGraphicsMode, Go
<1>34. CASE KernelReturns
  BY <1>34 DEF KernelReturns, GiveUp, Rest
<1>35. CASE PressKey
  BY <1>35 DEF PressKey, Go, Rest
<1>36. CASE FreeAllPages
  BY <1>36 DEF FreeAllPages, Go
<1>37. CASE CloseFiles
  BY <1>37 DEF CloseFiles, Go
<1>38. CASE CloseGop
  BY <1>38 DEF CloseGop, Go
<1>39. CASE FreePools
  BY <1>39 DEF FreePools, Go
<1>40. CASE UNCHANGED vars
  BY <1>40 DEF vars
<1> QED
  BY <1>1, <1>2, <1>3, <1>4, <1>5, <1>6, <1>7, <1>8, <1>9, <1>10, <1>11, <1>12, <1>13, <1>14, <1>15, <1>16, <1>17,
     <1>18, <1>19, <1>20, <1>21, <1>22, <1>23, <1>24, <1>25, <1>26, <1>27, <1>28, <1>29, <1>30, <1>31, <1>32,
     <1>33, <1>34, <1>35, <1>36, <1>37, <1>38, <1>39, <1>40 DEF Next, LoadKernel

LEMMA FlowInit == Init => FlowInv
  BY DEF Init, FlowInv, LoadSteps, Cleanup, Leaving, Released, Closed

\* Whoever enters the cleanup has said where it comes from.
LEMMA FlowStep == FlowInv /\ [Next]_vars => FlowInv'
<1> SUFFICES ASSUME FlowInv, [Next]_vars PROVE FlowInv'
  OBVIOUS
<1> USE DEF FlowInv, LoadSteps, Cleanup, Leaving, Released, Closed, GivesUp
<1>1. CASE CheckTables
  BY <1>1 DEF CheckTables, Go
<1>2. CASE QueryTextMode
  BY <1>2 DEF QueryTextMode
<1>3. CASE TextModesQueried
  BY <1>3 DEF TextModesQueried, Go
<1>4. CASE LocateGopHandles
  BY <1>4 DEF LocateGopHandles, Go
<1>5. CASE OpenGop
  BY <1>5 DEF OpenGop, Go
<1>6. CASE NoGop
  BY <1>6 DEF NoGop, Go
<1>7. CASE OpenEdid
  BY <1>7 DEF OpenEdid, Go
<1>8. CASE QueryGraphicsMode
  BY <1>8 DEF QueryGraphicsMode
<1>9. CASE GraphicsModesQueried
  BY <1>9 DEF GraphicsModesQueried, Go
<1>10. CASE ScanConfigurationTable
  BY <1>10 DEF ScanConfigurationTable
<1>11. CASE LocateFsHandles
  BY <1>11 DEF LocateFsHandles, Go, GiveUp
<1>12. CASE OpenVolume
  BY <1>12 DEF OpenVolume, FlagsAfterVolume, NextHandle, OpenAfterVolume, Go
<1>13. CASE KernelNotFound
  BY <1>13 DEF KernelNotFound, GiveUp
<1>14. CASE GetInfoSize
  BY <1>14 DEF GetInfoSize, FailsAnyhow, GiveUp, Go, Rest
<1>15. CASE AllocatePool("info pool", "KernelInfo", "info")
  BY <1>15 DEF AllocatePool, Fails, GiveUp, Go, Rest
<1>16. CASE GetInfo
  BY <1>16 DEF GetInfo, FailsAnyhow, GiveUp, Go, Rest
<1>17. CASE AllocatePages("kernel pages", "Kernel", KernelSize, "HasAllocatedKernel", "read")
  BY <1>17 DEF AllocatePages, AtAddressZero, Flagged, Fails, GiveUp, Go, Rest
<1>18. CASE ReadKernel
  BY <1>18 DEF ReadKernel, Fails, GiveUp, Go, Rest
<1>19. CASE AllocatePages("stack", "KernelStack", 1, "HasAllocatedStack", "headers")
  BY <1>19 DEF AllocatePages, AtAddressZero, Flagged, Fails, GiveUp, Go, Rest
<1>20. CASE CheckHeaders
  BY <1>20 DEF CheckHeaders, Fails, FailsSilently, GiveUp, Go, Rest
<1>21. CASE AllocatePages("area", "KernelArea", 1, "HasAllocatedKernelArea", "relocate")
  BY <1>21 DEF AllocatePages, AtAddressZero, Flagged, Fails, GiveUp, Go, Rest
<1>22. CASE CopyAndRelocate
  BY <1>22 DEF CopyAndRelocate, FailsSilently, GiveUp, Go, Rest
<1>23. CASE GetMemoryMapSize
  BY <1>23 DEF GetMemoryMapSize, GiveUp, Go, Rest
<1>24. CASE AllocatePool("map pool", "Mmap", "usable pool")
  BY <1>24 DEF AllocatePool, Fails, GiveUp, Go, Rest
<1>25. CASE AllocatePool("usable pool", "UsableMmap", "map")
  BY <1>25 DEF AllocatePool, Fails, GiveUp, Go, Rest
<1>26. CASE GetMemoryMap
  BY <1>26 DEF GetMemoryMap, Fails, GiveUp, Go, Rest
<1>27. CASE NextThreshold
  BY <1>27 DEF NextThreshold
<1>28. CASE ComparePosition
  BY <1>28 DEF ComparePosition
<1>29. CASE MapSorted
  BY <1>29 DEF MapSorted, Go
<1>30. CASE ProcessEntry
  BY <1>30 DEF ProcessEntry
<1>31. CASE OutOfResources
  BY <1>31 DEF OutOfResources, StatusWithoutMemory, GiveUp, Rest
<1>32. CASE TrimMap
  BY <1>32 DEF TrimMap, Go
<1>33. CASE SetGraphicsMode
  BY <1>33 DEF SetGraphicsMode, Go
<1>34. CASE KernelReturns
  BY <1>34 DEF KernelReturns, GiveUp, Rest
<1>35. CASE PressKey
  BY <1>35 DEF PressKey, Go, Rest
<1>36. CASE FreeAllPages
  BY <1>36 DEF FreeAllPages, Go
<1>37. CASE CloseFiles
  BY <1>37 DEF CloseFiles, Go
<1>38. CASE CloseGop
  BY <1>38 DEF CloseGop, Go
<1>39. CASE FreePools
  BY <1>39 DEF FreePools, Go
<1>40. CASE UNCHANGED vars
  BY <1>40 DEF vars
<1> QED
  BY <1>1, <1>2, <1>3, <1>4, <1>5, <1>6, <1>7, <1>8, <1>9, <1>10, <1>11, <1>12, <1>13, <1>14, <1>15, <1>16, <1>17,
     <1>18, <1>19, <1>20, <1>21, <1>22, <1>23, <1>24, <1>25, <1>26, <1>27, <1>28, <1>29, <1>30, <1>31, <1>32,
     <1>33, <1>34, <1>35, <1>36, <1>37, <1>38, <1>39, <1>40 DEF Next, LoadKernel

-----------------------------------------------------------------------------
(***************************************************************************)
(* The flags.  What is true of them depends on the step that was reached.  *)
(***************************************************************************)
LEMMA FlagInit == Init => FlagInv
  BY DEF Init, FlagInv, FlagNames, Here, Is, Cleanup, Leaving, Released, Closed, AfterVolume, LoadSteps,
         EndSteps, AfterInfoPool, AfterPages, AfterStack, AfterArea

\* Steps that neither get any further nor change a flag.
LEMMA FlagsAsBefore == FlagInv /\ Here' = Here /\ flags' = flags => FlagInv'
  BY DEF FlagInv, Is

\* Every action keeps the flags in accord with the step that is reached.
LEMMA FlagStep == FlowInv /\ FlagInv /\ [Next]_vars => FlagInv'
<1> SUFFICES ASSUME FlowInv, FlagInv, [Next]_vars PROVE FlagInv'
  OBVIOUS
<1>1. CASE CheckTables
  BY <1>1 DEF CheckTables, Go, FlagInv, FlagNames, Here, Is, Cleanup, Leaving, Released, Closed, AfterVolume,
     LoadSteps, EndSteps, AfterInfoPool, AfterPages, AfterStack, AfterArea, BeforeGop
<1>2. CASE QueryTextMode
  BY <1>2, FlagsAsBefore DEF QueryTextMode, Here, Cleanup, Leaving, Released, Closed
<1>3. CASE TextModesQueried
  BY <1>3 DEF TextModesQueried, Go, FlagInv, FlagNames, Here, Is, Cleanup, Leaving, Released, Closed, AfterVolume,
     LoadSteps, EndSteps, AfterInfoPool, AfterPages, AfterStack, AfterArea, BeforeGop
<1>4. CASE LocateGopHandles
  <2>1. at = "gop" /\ Here = "gop"
    BY <1>4 DEF LocateGopHandles, Here, Cleanup, Leaving, Released, Closed
  <2>2. flags \subseteq {"SupportsConIn", "SupportsConOut"}
    BY <2>1 DEF FlagInv, BeforeGop
  <2>3. CASE fw.gop # <<>>
    <3>1. Here' = "gop handle" /\ flags' = flags \cup {"HasOpenedGopHandles"}
      BY <1>4, <2>3 DEF LocateGopHandles, Go, Here, Cleanup, Leaving, Released, Closed
    <3> QED
      BY <2>1, <2>2, <3>1 DEF FlagInv, FlagNames, Here, Is, Cleanup, Leaving, Released, Closed, AfterVolume,
         LoadSteps, EndSteps, AfterInfoPool, AfterPages, AfterStack, AfterArea, BeforeGop
  <2>4. CASE fw.gop = <<>>
    <3>1. Here' = "acpi" /\ flags' = flags
      BY <1>4, <2>4 DEF LocateGopHandles, Go, Here, Cleanup, Leaving, Released, Closed
    <3> QED
      BY <2>1, <2>2, <3>1 DEF FlagInv, FlagNames, Here, Is, Cleanup, Leaving, Released, Closed, AfterVolume,
         LoadSteps, EndSteps, AfterInfoPool, AfterPages, AfterStack, AfterArea, BeforeGop
  <2> QED
    BY <2>3, <2>4
<1>5. CASE OpenGop
  <2>1. at = "gop handle" /\ Here = "gop handle"
    BY <1>5 DEF OpenGop, Here, Cleanup, Leaving, Released, Closed
  <2>2. CASE fw.gop[index]
    <3>1. Here' = "edid" /\ flags' = flags \cup {"HasOpenedGopProtocols", "SupportsGop"}
      BY <1>5, <2>2 DEF OpenGop, Go, Here, Cleanup, Leaving, Released, Closed
    <3> QED
      BY <2>1, <3>1 DEF FlagInv, FlagNames, Here, Is, Cleanup, Leaving, Released, Closed, AfterVolume, LoadSteps,
         EndSteps, AfterInfoPool, AfterPages, AfterStack, AfterArea, BeforeGop
  <2>3. CASE ~fw.gop[index]
    <3>1. Here' = Here /\ flags' = flags
      BY <1>5, <2>3 DEF OpenGop, Go, Here, Cleanup, Leaving, Released, Closed
    <3> QED
      BY <3>1, FlagsAsBefore
  <2> QED
    BY <2>2, <2>3
<1>6. CASE NoGop
  BY <1>6 DEF NoGop, Go, FlagInv, FlagNames, Here, Is, Cleanup, Leaving, Released, Closed, AfterVolume, LoadSteps,
     EndSteps, AfterInfoPool, AfterPages, AfterStack, AfterArea, BeforeGop
<1>7. CASE OpenEdid
  BY <1>7 DEF OpenEdid, Go, FlagInv, FlagNames, Here, Is, Cleanup, Leaving, Released, Closed, AfterVolume,
     LoadSteps, EndSteps, AfterInfoPool, AfterPages, AfterStack, AfterArea, BeforeGop
<1>8. CASE QueryGraphicsMode
  BY <1>8, FlagsAsBefore DEF QueryGraphicsMode, Here, Cleanup, Leaving, Released, Closed
<1>9. CASE GraphicsModesQueried
  BY <1>9 DEF GraphicsModesQueried, Go, FlagInv, FlagNames, Here, Is, Cleanup, Leaving, Released, Closed,
     AfterVolume, LoadSteps, EndSteps, AfterInfoPool, AfterPages, AfterStack, AfterArea, BeforeGop
<1>10. CASE ScanConfigurationTable
  BY <1>10, FlagsAsBefore DEF ScanConfigurationTable, Here, Cleanup, Leaving, Released, Closed
<1>11. CASE LocateFsHandles
  <2>1. at = "acpi" /\ Here = "acpi"
    BY <1>11 DEF LocateFsHandles, Here, Cleanup, Leaving, Released, Closed
  <2>2. CASE fw.volumes # <<>>
    <3>1. Here' = "volume" /\ flags' = flags \cup {"HasOpenedFsHandles"}
      BY <1>11, <2>2 DEF LocateFsHandles, Go, Here, Cleanup, Leaving, Released, Closed
    <3> QED
      BY <2>1, <3>1 DEF FlagInv, FlagNames, Here, Is, Cleanup, Leaving, Released, Closed, AfterVolume, LoadSteps,
         EndSteps, AfterInfoPool, AfterPages, AfterStack, AfterArea, BeforeGop
  <2>3. CASE fw.volumes = <<>>
    <3>1. Here' = Here /\ flags' = flags
      BY <1>11, <2>1, <2>3 DEF LocateFsHandles, GiveUp, Here, Cleanup, Leaving, Released, Closed
    <3> QED
      BY <3>1, FlagsAsBefore
  <2> QED
    BY <2>2, <2>3
<1>12. CASE OpenVolume
  BY <1>12 DEF OpenVolume, FlagsAfterVolume, NextHandle, OpenAfterVolume, Go, FlagInv, FlagNames, Here, Is,
     Cleanup, Leaving, Released, Closed, AfterVolume, LoadSteps, EndSteps, AfterInfoPool, AfterPages, AfterStack,
     AfterArea, BeforeGop
<1>13. CASE KernelNotFound
  BY <1>13, FlagsAsBefore DEF KernelNotFound, GiveUp, Here, Cleanup, Leaving, Released, Closed
<1>14. CASE GetInfoSize
  BY <1>14 DEF GetInfoSize, FailsAnyhow, GiveUp, Go, Rest, FlagInv, FlagNames, Here, Is, Cleanup, Leaving, Released,
     Closed, AfterVolume, LoadSteps, EndSteps, AfterInfoPool, AfterPages, AfterStack, AfterArea, BeforeGop
<1>15. CASE AllocatePool("info pool", "KernelInfo", "info")
  BY <1>15 DEF AllocatePool, Fails, GiveUp, Go, Rest, FlagInv, FlagNames, Here, Is, Cleanup, Leaving, Released,
     Closed, AfterVolume, LoadSteps, EndSteps, AfterInfoPool, AfterPages, AfterStack, AfterArea, BeforeGop
<1>16. CASE GetInfo
  BY <1>16 DEF GetInfo, FailsAnyhow, GiveUp, Go, Rest, FlagInv, FlagNames, Here, Is, Cleanup, Leaving,
     Released, Closed, AfterVolume, LoadSteps, EndSteps, AfterInfoPool, AfterPages, AfterStack, AfterArea, BeforeGop
<1>17. CASE AllocatePages("kernel pages", "Kernel", KernelSize, "HasAllocatedKernel", "read")
  BY <1>17 DEF AllocatePages, AtAddressZero, Flagged, Fails, GiveUp, Go, Rest, FlagInv, FlagNames, Here, Is, Cleanup, Leaving,
     Released, Closed, AfterVolume, LoadSteps, EndSteps, AfterInfoPool, AfterPages, AfterStack, AfterArea, BeforeGop
<1>18. CASE ReadKernel
  BY <1>18 DEF ReadKernel, Fails, GiveUp, Go, Rest, FlagInv, FlagNames, Here, Is, Cleanup, Leaving, Released,
     Closed, AfterVolume, LoadSteps, EndSteps, AfterInfoPool, AfterPages, AfterStack, AfterArea, BeforeGop
<1>19. CASE AllocatePages("stack", "KernelStack", 1, "HasAllocatedStack", "headers")
  BY <1>19 DEF AllocatePages, AtAddressZero, Flagged, Fails, GiveUp, Go, Rest, FlagInv, FlagNames, Here, Is, Cleanup, Leaving,
     Released, Closed, AfterVolume, LoadSteps, EndSteps, AfterInfoPool, AfterPages, AfterStack, AfterArea, BeforeGop
<1>20. CASE CheckHeaders
  BY <1>20 DEF CheckHeaders, Fails, FailsSilently, GiveUp, Go, Rest, FlagInv, FlagNames, Here, Is, Cleanup,
     Leaving, Released, Closed, AfterVolume, LoadSteps, EndSteps, AfterInfoPool, AfterPages, AfterStack, AfterArea,
     BeforeGop
<1>21. CASE AllocatePages("area", "KernelArea", 1, "HasAllocatedKernelArea", "relocate")
  BY <1>21 DEF AllocatePages, AtAddressZero, Flagged, Fails, GiveUp, Go, Rest, FlagInv, FlagNames, Here, Is, Cleanup, Leaving,
     Released, Closed, AfterVolume, LoadSteps, EndSteps, AfterInfoPool, AfterPages, AfterStack, AfterArea, BeforeGop
<1>22. CASE CopyAndRelocate
  BY <1>22 DEF CopyAndRelocate, FailsSilently, GiveUp, Go, Rest, FlagInv, FlagNames, Here, Is, Cleanup, Leaving,
     Released, Closed, AfterVolume, LoadSteps, EndSteps, AfterInfoPool, AfterPages, AfterStack, AfterArea, BeforeGop
<1>23. CASE GetMemoryMapSize
  BY <1>23 DEF GetMemoryMapSize, GiveUp, Go, Rest, FlagInv, FlagNames, Here, Is, Cleanup, Leaving, Released,
     Closed, AfterVolume, LoadSteps, EndSteps, AfterInfoPool, AfterPages, AfterStack, AfterArea, BeforeGop
<1>24. CASE AllocatePool("map pool", "Mmap", "usable pool")
  BY <1>24 DEF AllocatePool, Fails, GiveUp, Go, Rest, FlagInv, FlagNames, Here, Is, Cleanup, Leaving, Released,
     Closed, AfterVolume, LoadSteps, EndSteps, AfterInfoPool, AfterPages, AfterStack, AfterArea, BeforeGop
<1>25. CASE AllocatePool("usable pool", "UsableMmap", "map")
  BY <1>25 DEF AllocatePool, Fails, GiveUp, Go, Rest, FlagInv, FlagNames, Here, Is, Cleanup, Leaving, Released,
     Closed, AfterVolume, LoadSteps, EndSteps, AfterInfoPool, AfterPages, AfterStack, AfterArea, BeforeGop
<1>26. CASE GetMemoryMap
  BY <1>26 DEF GetMemoryMap, Fails, GiveUp, Go, Rest, FlagInv, FlagNames, Here, Is, Cleanup, Leaving, Released,
     Closed, AfterVolume, LoadSteps, EndSteps, AfterInfoPool, AfterPages, AfterStack, AfterArea, BeforeGop
<1>27. CASE NextThreshold
  BY <1>27, FlagsAsBefore DEF NextThreshold, Here, Cleanup, Leaving, Released, Closed
<1>28. CASE ComparePosition
  BY <1>28, FlagsAsBefore DEF ComparePosition, Here, Cleanup, Leaving, Released, Closed
<1>29. CASE MapSorted
  BY <1>29 DEF MapSorted, Go, FlagInv, FlagNames, Here, Is, Cleanup, Leaving, Released, Closed, AfterVolume,
     LoadSteps, EndSteps, AfterInfoPool, AfterPages, AfterStack, AfterArea, BeforeGop
<1>30. CASE ProcessEntry
  BY <1>30, FlagsAsBefore DEF ProcessEntry, Here, Cleanup, Leaving, Released, Closed
<1>31. CASE OutOfResources
  BY <1>31, FlagsAsBefore DEF OutOfResources, StatusWithoutMemory, GiveUp, Rest, Here, Cleanup, Leaving, Released,
     Closed
<1>32. CASE TrimMap
  BY <1>32 DEF TrimMap, Go, FlagInv, FlagNames, Here, Is, Cleanup, Leaving, Released, Closed, AfterVolume,
     LoadSteps, EndSteps, AfterInfoPool, AfterPages, AfterStack, AfterArea, BeforeGop
<1>33. CASE SetGraphicsMode
  BY <1>33 DEF SetGraphicsMode, Go, FlagInv, FlagNames, Here, Is, Cleanup, Leaving, Released, Closed, AfterVolume,
     LoadSteps, EndSteps, AfterInfoPool, AfterPages, AfterStack, AfterArea, BeforeGop
<1>34. CASE KernelReturns
  BY <1>34, FlagsAsBefore DEF KernelReturns, GiveUp, Rest, Here, Cleanup, Leaving, Released, Closed
<1>35. CASE PressKey
  BY <1>35, FlagsAsBefore DEF PressKey, Go, Rest, Here, Cleanup, Leaving, Released, Closed
<1>36. CASE FreeAllPages
  BY <1>36, FlagsAsBefore DEF FreeAllPages, Go, Here, Cleanup, Leaving, Released, Closed
<1>37. CASE CloseFiles
  BY <1>37, FlagsAsBefore DEF CloseFiles, Go, Here, Cleanup, Leaving, Released, Closed
<1>38. CASE CloseGop
  BY <1>38, FlagsAsBefore DEF CloseGop, Go, Here, Cleanup, Leaving, Released, Closed
<1>39. CASE FreePools
  BY <1>39, FlagsAsBefore DEF FreePools, Go, Here, Cleanup, Leaving, Released, Closed
<1>40. CASE UNCHANGED vars
  BY <1>40, FlagsAsBefore DEF vars, Here
<1> QED
  BY <1>1, <1>2, <1>3, <1>4, <1>5, <1>6, <1>7, <1>8, <1>9, <1>10, <1>11, <1>12, <1>13, <1>14, <1>15, <1>16, <1>17,
     <1>18, <1>19, <1>20, <1>21, <1>22, <1>23, <1>24, <1>25, <1>26, <1>27, <1>28, <1>29, <1>30, <1>31, <1>32,
     <1>33, <1>34, <1>35, <1>36, <1>37, <1>38, <1>39, <1>40 DEF Next, LoadKernel

-----------------------------------------------------------------------------
(***************************************************************************)
(* Most steps leave the memory map and the free pages as they are.         *)
(***************************************************************************)
MapQuiet ==
  /\ UNCHANGED <<fw, scan>> /\ held'.free = held.free
  /\ index' \in {1, index, index + 1}
  /\ \/ at \in BeforeSort /\ at' \in BeforeSort
     \/ at \in EndSteps /\ at' \in EndSteps
     \/ at \in BeforeSort \cup {"kernel"} /\ at' = "exit" /\ left' = at
     \/ at = "entries" /\ scan.usable = <<>> /\ at' = "exit"
     \/ at \in Leaving /\ at' \in Leaving /\ left' = left
     \/ at \in Released /\ at' \in Released /\ left' = left
     \/ UNCHANGED <<at, left, index>>

MapStep == GetMemoryMap \/ NextThreshold \/ ComparePosition \/ MapSorted \/ ProcessEntry \/ TrimMap \/ FreeAllPages

\* All other steps leave the map alone and do not enter a part of the loader that says more of it.
LEMMA OtherStepsQuiet ==
  ASSUME TypeInv, [Next]_vars, ~MapStep
  PROVE  MapQuiet
<1> USE DEF TypeInv, MapQuiet, BeforeSort, BeforeFs, BeforeGop, LoadSteps, EndSteps, Leaving, Released, Closed
<1>1. CASE CheckTables
  BY <1>1 DEF CheckTables, Go
<1>2. CASE QueryTextMode
  BY <1>2 DEF QueryTextMode
<1>3. CASE TextModesQueried
  BY <1>3 DEF TextModesQueried, Go
<1>4. CASE LocateGopHandles
  BY <1>4 DEF LocateGopHandles, Go
<1>5. CASE OpenGop
  BY <1>5 DEF OpenGop, Go
<1>6. CASE NoGop
  BY <1>6 DEF NoGop, Go
<1>7. CASE OpenEdid
  BY <1>7 DEF OpenEdid, Go
<1>8. CASE QueryGraphicsMode
  BY <1>8 DEF QueryGraphicsMode
<1>9. CASE GraphicsModesQueried
  BY <1>9 DEF GraphicsModesQueried, Go
<1>10. CASE ScanConfigurationTable
  BY <1>10 DEF ScanConfigurationTable
<1>11. CASE LocateFsHandles
  BY <1>11 DEF LocateFsHandles, Go, GiveUp
<1>12. CASE OpenVolume
  BY <1>12 DEF OpenVolume, FlagsAfterVolume, NextHandle, OpenAfterVolume, Go
<1>13. CASE KernelNotFound
  BY <1>13 DEF KernelNotFound, GiveUp
<1>14. CASE GetInfoSize
  BY <1>14 DEF GetInfoSize, FailsAnyhow, GiveUp, Go, Rest
<1>15. CASE AllocatePool("info pool", "KernelInfo", "info")
  BY <1>15 DEF AllocatePool, Fails, GiveUp, Go, Rest
<1>16. CASE GetInfo
  BY <1>16 DEF GetInfo, FailsAnyhow, GiveUp, Go, Rest
<1>17. CASE AllocatePages("kernel pages", "Kernel", KernelSize, "HasAllocatedKernel", "read")
  BY <1>17 DEF AllocatePages, AtAddressZero, Flagged, Fails, GiveUp, Go, Rest
<1>18. CASE ReadKernel
  BY <1>18 DEF ReadKernel, Fails, GiveUp, Go, Rest
<1>19. CASE AllocatePages("stack", "KernelStack", 1, "HasAllocatedStack", "headers")
  BY <1>19 DEF AllocatePages, AtAddressZero, Flagged, Fails, GiveUp, Go, Rest
<1>20. CASE CheckHeaders
  BY <1>20 DEF CheckHeaders, Fails, FailsSilently, GiveUp, Go, Rest
<1>21. CASE AllocatePages("area", "KernelArea", 1, "HasAllocatedKernelArea", "relocate")
  BY <1>21 DEF AllocatePages, AtAddressZero, Flagged, Fails, GiveUp, Go, Rest
<1>22. CASE CopyAndRelocate
  BY <1>22 DEF CopyAndRelocate, FailsSilently, GiveUp, Go, Rest
<1>23. CASE GetMemoryMapSize
  BY <1>23 DEF GetMemoryMapSize, GiveUp, Go, Rest
<1>24. CASE AllocatePool("map pool", "Mmap", "usable pool")
  BY <1>24 DEF AllocatePool, Fails, GiveUp, Go, Rest
<1>25. CASE AllocatePool("usable pool", "UsableMmap", "map")
  BY <1>25 DEF AllocatePool, Fails, GiveUp, Go, Rest
<1>26. CASE OutOfResources
  BY <1>26 DEF OutOfResources, GiveUp, Rest
<1>27. CASE SetGraphicsMode
  BY <1>27 DEF SetGraphicsMode, Go
<1>28. CASE KernelReturns
  BY <1>28 DEF KernelReturns, GiveUp, Rest
<1>29. CASE PressKey
  BY <1>29 DEF PressKey, Go, Rest
<1>30. CASE CloseFiles
  BY <1>30 DEF CloseFiles, Go
<1>31. CASE CloseGop
  BY <1>31 DEF CloseGop, Go
<1>32. CASE FreePools
  BY <1>32 DEF FreePools, Go
<1>33. CASE UNCHANGED vars
  BY <1>33 DEF vars
<1> QED
  BY <1>1, <1>2, <1>3, <1>4, <1>5, <1>6, <1>7, <1>8, <1>9, <1>10, <1>11, <1>12, <1>13, <1>14, <1>15, <1>16, <1>17,
     <1>18, <1>19, <1>20, <1>21, <1>22, <1>23, <1>24, <1>25, <1>26, <1>27, <1>28, <1>29, <1>30, <1>31, <1>32,
     <1>33 DEF Next, LoadKernel, MapStep

\* And so they keep what is known of the map.
LEMMA MapQuietKeeps ==
  ASSUME MapInv, MapQuiet
  PROVE  MapInv'
<1>1. UNCHANGED scan /\ fw' = fw /\ held'.free = held.free
  BY DEF MapQuiet
<1>2. index' \in Nat \ {0}
  BY DEF MapQuiet, MapInv
<1>3. (ScanType /\ EntriesKnown /\ UsableMapIsOrdered)'
  BY <1>1 DEF MapInv, ScanType, EntriesKnown, UsableMapIsOrdered
<1>4. UsablePages' = UsablePages /\ FreeAtFirst' = FreeAtFirst /\ NothingTaken' = NothingTaken
  BY <1>1 DEF UsablePages, FreeAtFirst, NothingTaken, PagesOfType
<1>5. \A pages : Kept(pages)' <=> Kept(pages)
  BY <1>1 DEF Kept
<1>6. (at \in BeforeSort)' => at \in BeforeSort
  BY DEF MapQuiet, BeforeSort, BeforeFs, BeforeGop, LoadSteps, EndSteps, Leaving, Released, Closed
<1>7. (at \in {"sort", "entries"})' => UNCHANGED <<at, index>>
  BY DEF MapQuiet, BeforeSort, BeforeFs, BeforeGop, LoadSteps, EndSteps, Leaving, Released, Closed
<1>8. (at \in EndSteps)' => at \in EndSteps
  BY DEF MapQuiet, BeforeSort, BeforeFs, BeforeGop, LoadSteps, EndSteps, Leaving, Released, Closed
<1>9. (at \in Released)' <=> at \in Released
  BY DEF MapQuiet, BeforeSort, BeforeFs, BeforeGop, LoadSteps, EndSteps, Leaving, Released, Closed
<1>10. (at = "sort" => /\ SortInv /\ scan.usable = <<>>
                       /\ scan.FirmwareMemory = MinFirmwareMemory /\ scan.UsableOffset = 0)'
  BY <1>1, <1>7 DEF MapInv, SortInv
<1>11. (at = "entries" => Sorted /\ EntriesInv)'
  <2>1. SUFFICES ASSUME at' = "entries" PROVE (Sorted /\ EntriesInv)'
    OBVIOUS
  <2>2. at = "entries" /\ index' = index /\ Sorted /\ EntriesInv
    BY <1>7, <2>1 DEF MapInv
  <2>3. Sorted'
    BY <1>1, <2>2 DEF Sorted
  <2>4. EntriesInv'
    BY <1>1, <1>4, <1>5, <2>2 DEF EntriesInv
  <2> QED
    BY <2>3, <2>4
<1>12. (at \in EndSteps => /\ scan.usable # <<>>
                           /\ NothingTaken => \E pages \in SUBSET held.free : Kept(pages) /\ scan.FirmwareMemory = 0)'
  BY <1>1, <1>4, <1>5, <1>8 DEF MapInv
<1>13. (at \in Cleanup /\ scan.usable # <<>> => left = "kernel")'
  <2>1. SUFFICES ASSUME at' \in Cleanup, scan.usable # <<>> PROVE left' = "kernel"
    BY <1>1
  <2>2. at \notin BeforeSort
    BY <2>1 DEF MapInv
  <2> QED
    BY <2>1, <2>2 DEF MapQuiet, MapInv, BeforeSort, BeforeFs, BeforeGop, LoadSteps, EndSteps, Cleanup, Leaving,
       Released, Closed
<1>14. (at \in BeforeSort => scan = [mmap |-> <<>>, threshold |-> 1, usable |-> <<>>,
                                     FirmwareMemory |-> MinFirmwareMemory, UsableOffset |-> 0])'
  BY <1>1, <1>6 DEF MapInv
<1>15. (held.free \subseteq Nat /\ \A i \in DOMAIN scan.usable : scan.UsableOffset <= scan.usable[i].Base)'
  BY <1>1 DEF MapInv
<1>16. (IF at \in Released THEN UsablePages \subseteq held.free ELSE held.free = FreeAtFirst \ UsablePages)'
  BY <1>1, <1>4, <1>9 DEF MapInv
<1> QED
  BY <1>2, <1>3, <1>10, <1>11, <1>12, <1>13, <1>14, <1>15, <1>16 DEF MapInv

-----------------------------------------------------------------------------
(***************************************************************************)
(* The memory map: the actions that change it, one after the other.        *)
(***************************************************************************)
LEMMA AppendedEntries ==
  ASSUME NEW S, NEW s \in Seq(S), NEW e \in S
  PROVE  /\ Append(s, e) \in Seq(S)
         /\ DOMAIN Append(s, e) = 1 .. Len(s) + 1
         /\ DOMAIN s = 1 .. Len(s)
         /\ Append(s, e) # <<>>
         /\ \A i \in 1 .. Len(s) : Append(s, e)[i] = s[i]
         /\ Append(s, e)[Len(s) + 1] = e
  OBVIOUS

\* The elements of a sequence are of its type.
LEMMA Elements ==
  ASSUME NEW S, NEW s \in Seq(S)
  PROVE  DOMAIN s = 1 .. Len(s) /\ Len(s) \in Nat /\ \A i \in DOMAIN s : s[i] \in S
  OBVIOUS

\* The usable pages are page numbers.
LEMMA UsableIsNat == ASSUME ScanType PROVE UsablePages \subseteq Nat
<1>1. \A i \in DOMAIN scan.usable : scan.usable[i].Base \in Nat /\ scan.usable[i].Limit \in Nat
  <2>1. scan.usable \in Seq([Base : Nat, Limit : Nat])
    BY DEF ScanType
  <2>2. \A i \in DOMAIN scan.usable : scan.usable[i] \in [Base : Nat, Limit : Nat]
    BY <2>1, Elements
  <2> QED
    BY <2>2
<1>2. \A i \in DOMAIN scan.usable : PagesOf(scan.usable[i].Base, scan.usable[i].Limit) \subseteq Nat
  BY <1>1 DEF PagesOf
<1> QED
  BY <1>2 DEF UsablePages

\* The map of the firmware is what is then sorted.
LEMMA GetMemoryMapKeeps ==
  ASSUME TypeInv, FlowInv, MapInv, GetMemoryMap
  PROVE  MapInv'
<1>1. CASE Fails("map")
  <2>1. MapQuiet
    BY <1>1 DEF Fails, GiveUp, Rest, MapQuiet, BeforeSort, LoadSteps
  <2> QED
    BY <2>1, MapQuietKeeps
<1>2. CASE ~Fails("map")
  <2>1. /\ at = "map" /\ at' = "sort" /\ index' = index /\ held' = held /\ fw' = fw
        /\ scan' = [scan EXCEPT !.mmap = fw.map]
    BY <1>2 DEF GetMemoryMap, Go
  <2>2. scan = [mmap |-> <<>>, threshold |-> 1, usable |-> <<>>,
                FirmwareMemory |-> MinFirmwareMemory, UsableOffset |-> 0]
    BY <2>1 DEF MapInv, BeforeSort, LoadSteps
  <2>3. scan' = [mmap |-> fw.map, threshold |-> 1, usable |-> <<>>,
                 FirmwareMemory |-> MinFirmwareMemory, UsableOffset |-> 0]
    BY <2>1, <2>2
  <2>4. fw.map \in Seq(MmapEntry)
    BY FirmwaresAssumption DEF TypeInv, Firmware
  <2>5. ScanType'
    BY <2>3, <2>4, SizesAssumption DEF ScanType
  <2>6. EntriesKnown'
    BY <2>1, <2>3, <2>4 DEF EntriesKnown
  <2>7. index = 1
    BY <2>1 DEF FlowInv, LoadSteps
  <2>8. SortInv'
    BY <2>1, <2>3, <2>4, <2>7 DEF SortInv
  <2>9. UsablePages' = {} /\ UsablePages = {} /\ FreeAtFirst' = FreeAtFirst
    BY <2>1, <2>2, <2>3 DEF UsablePages, FreeAtFirst, PagesOfType
  <2>10. held.free' = FreeAtFirst'
    BY <2>1, <2>9 DEF MapInv, Released, Closed
  <2>11. UsableMapIsOrdered' /\ \A i \in DOMAIN scan'.usable : scan'.UsableOffset <= scan'.usable[i].Base
    BY <2>3 DEF UsableMapIsOrdered
  <2>12. at' \notin BeforeSort \cup {"entries"} \cup EndSteps \cup Cleanup
    BY <2>1 DEF BeforeSort, BeforeFs, BeforeGop, LoadSteps, EndSteps, Cleanup, Leaving, Released, Closed
  <2>13. at' \notin Released
    BY <2>12 DEF Cleanup
  <2> QED
    BY <2>1, <2>3, <2>5, <2>6, <2>8, <2>9, <2>10, <2>11, <2>12, <2>13 DEF MapInv
<1> QED
  BY <1>1, <1>2

\* What the steps of the sort leave alone.
SortStep ==
  /\ at = "sort" /\ UNCHANGED <<held, fw>>
  /\ scan'.usable = <<>> /\ scan'.FirmwareMemory = MinFirmwareMemory /\ scan'.UsableOffset = 0

\* A step of the sort keeps the entries and the order that it has established.
LEMMA SortStepKeeps ==
  ASSUME MapInv, SortStep, at' \in {"sort", "entries"}, index' \in Nat \ {0}, ScanType', EntriesKnown',
         (at = "sort" => SortInv)', (at = "entries" => Sorted /\ EntriesInv)'
  PROVE  MapInv'
<1>1. scan.usable = <<>>
  BY DEF MapInv, SortStep
<1>2. UsablePages' = {} /\ UsablePages = {} /\ FreeAtFirst' = FreeAtFirst
  BY <1>1 DEF UsablePages, FreeAtFirst, PagesOfType, SortStep
<1>3. at' \notin BeforeSort \cup EndSteps \cup Cleanup /\ at' \notin Released /\ at \notin Released
  BY DEF BeforeSort, BeforeFs, BeforeGop, LoadSteps, EndSteps, Cleanup, Leaving, Released, Closed, SortStep
<1>4. UsableMapIsOrdered' /\ \A i \in DOMAIN scan'.usable : scan'.UsableOffset <= scan'.usable[i].Base
  BY DEF UsableMapIsOrdered, SortStep
<1>5. (held.free \subseteq Nat)' /\ (held.free = FreeAtFirst \ UsablePages)'
  BY <1>2, <1>3 DEF MapInv, SortStep
<1> QED
  BY <1>2, <1>3, <1>4, <1>5 DEF MapInv, SortStep

\* The entry at the next threshold is moved down from there.
LEMMA NextThresholdKeeps ==
  ASSUME MapInv, NextThreshold
  PROVE  MapInv'
<1>1. /\ at = "sort" /\ index = 1 /\ scan.threshold < Len(scan.mmap) /\ at' = "sort" /\ held' = held /\ fw' = fw
      /\ index' = scan.threshold + 1
      /\ scan' = [scan EXCEPT !.threshold = scan.threshold + 1]
  BY DEF NextThreshold
<1>2. ScanType /\ scan.threshold \in Nat \ {0}
  BY DEF MapInv, ScanType
<1>3. /\ scan'.mmap = scan.mmap /\ scan'.usable = scan.usable /\ scan'.FirmwareMemory = scan.FirmwareMemory
      /\ scan'.UsableOffset = scan.UsableOffset /\ scan'.threshold = scan.threshold + 1
  BY <1>1, <1>2 DEF ScanType
<1>4. ScanType'
  BY <1>1, <1>2 DEF ScanType
<1>5. EntriesKnown'
  BY <1>1, <1>3 DEF MapInv, EntriesKnown
<1>6. SortInv /\ SortStep
  BY <1>1, <1>3 DEF MapInv, SortStep
<1>7. SortInv'
  BY <1>1, <1>2, <1>3, <1>6 DEF SortInv
<1> QED
  BY <1>1, <1>2, <1>4, <1>5, <1>6, <1>7, SortStepKeeps

\* Where the entry that is moved down is compared with the one before it, all others are in order.
LEMMA ComparePositionKeeps ==
  ASSUME MapInv, ComparePosition
  PROVE  MapInv'
<1> DEFINE s == scan.mmap
           swapped == [s EXCEPT ![index] = s[index - 1], ![index - 1] = s[index]]
           t == IF Later(s, index) THEN swapped ELSE s
<1>1. /\ at = "sort" /\ index > 1 /\ at' = "sort" /\ held' = held /\ fw' = fw
      /\ index' = index - 1
      /\ scan' = IF Later(s, index) THEN [scan EXCEPT !.mmap = swapped] ELSE scan
  BY DEF ComparePosition
<1>2. ScanType /\ index \in Nat /\ scan.threshold \in Nat \ {0} /\ s \in Seq(MmapEntry) /\ EntriesKnown
  BY DEF MapInv, ScanType
<1>3. SortInv
  BY <1>1 DEF MapInv
<1>4. index <= scan.threshold /\ scan.threshold <= Len(s) /\ index \in 1 .. Len(s) /\ index - 1 \in 1 .. Len(s)
  BY <1>1, <1>2, <1>3 DEF SortInv
<1>5. s[index] \in MmapEntry /\ s[index - 1] \in MmapEntry
  BY <1>2, <1>4
<1>6. t \in Seq(MmapEntry) /\ Len(t) = Len(s) /\ DOMAIN t = 1 .. Len(s) /\ DOMAIN s = 1 .. Len(s)
  BY <1>2, <1>4, <1>5
<1>7. /\ scan'.mmap = t /\ scan'.usable = scan.usable /\ scan'.FirmwareMemory = scan.FirmwareMemory
      /\ scan'.UsableOffset = scan.UsableOffset /\ scan'.threshold = scan.threshold
  BY <1>1, <1>2 DEF ScanType
<1>8. ScanType'
  BY <1>1, <1>2, <1>6 DEF ScanType
<1>9. /\ Later(s, index) => t[index] = s[index - 1] /\ t[index - 1] = s[index]
      /\ ~Later(s, index) => t[index] = s[index] /\ t[index - 1] = s[index - 1]
      /\ \A k \in 1 .. Len(s) : k # index /\ k # index - 1 => t[k] = s[k]
  BY <1>4, <1>6
<1> HIDE DEF t
<1>10. EntriesKnown'
  <2>1. \A i \in 1 .. Len(s) : \E k \in 1 .. Len(s) : t[i] = s[k]
    BY <1>4, <1>9
  <2> DEFINE n == Len(s)
  <2>2. n \in {0, Len(fw.map)} /\ \A i \in 1 .. n : \E j \in DOMAIN fw.map : s[i] = fw.map[j]
    BY <1>2, <1>6 DEF EntriesKnown
  <2>3. /\ Len(scan'.mmap) = n /\ DOMAIN scan'.mmap = 1 .. n /\ scan'.mmap = t /\ fw' = fw
        /\ \A i \in 1 .. n : \E k \in 1 .. n : t[i] = s[k]
    BY <1>1, <1>6, <1>7, <2>1
  <2>4. \A i \in 1 .. n : \E j \in DOMAIN fw.map : t[i] = fw.map[j]
    <3> HIDE DEF n, s
    <3> TAKE i \in 1 .. n
    <3>1. PICK k \in 1 .. n : t[i] = s[k]
      BY <2>3
    <3> QED
      BY <2>2, <3>1
  <2> HIDE DEF n, s
  <2> QED
    BY <2>2, <2>3, <2>4 DEF EntriesKnown
<1>11. \A k \in 1 .. Len(s) : s[k].PhysicalStart \in Nat
  <2>1. \A k \in 1 .. Len(s) : s[k] \in MmapEntry
    BY <1>2, Elements
  <2> HIDE DEF s
  <2> QED
    BY <2>1 DEF MmapEntry
<1>12. /\ t[index - 1].PhysicalStart <= t[index].PhysicalStart
       /\ t[index - 1].PhysicalStart <= s[index - 1].PhysicalStart
       /\ t[index - 1].PhysicalStart <= s[index].PhysicalStart
       /\ s[index - 1].PhysicalStart <= t[index].PhysicalStart
       /\ t[index] \in {s[index], s[index - 1]}
  BY <1>4, <1>9, <1>11 DEF Later
<1>13. SortInv'
  <2> DEFINE n == Len(s)
             threshold == scan.threshold
  <2>1. \A k, m \in 1 .. n : k < m /\ m <= threshold /\ m # index =>
          s[k].PhysicalStart <= s[m].PhysicalStart
    BY <1>3, <1>6 DEF SortInv
  <2>2. /\ n \in Nat /\ threshold \in Nat /\ index \in Nat /\ index \in 2 .. threshold /\ threshold <= n
        /\ DOMAIN scan'.mmap = 1 .. n /\ Len(scan'.mmap) = n /\ scan'.mmap = t
        /\ scan'.threshold = threshold /\ index' = index - 1
    BY <1>1, <1>2, <1>4, <1>6, <1>7
  <2>3. ASSUME NEW i \in 1 .. n, NEW j \in 1 .. n, i < j, j <= threshold, j # index - 1
        PROVE  t[i].PhysicalStart <= t[j].PhysicalStart
    <3>1. CASE j = index /\ i = index - 1
      BY <1>12, <3>1
    <3>2. CASE j = index /\ i # index - 1
      <4>1. s[i].PhysicalStart <= s[index - 1].PhysicalStart /\ t[i] = s[i]
        BY <1>9, <2>1, <2>2, <2>3, <3>2
      <4>2. /\ t[i].PhysicalStart <= s[index - 1].PhysicalStart
            /\ s[index - 1].PhysicalStart <= t[j].PhysicalStart
        BY <4>1, <1>12, <3>2
      <4>3. s[i].PhysicalStart \in Nat /\ s[index - 1].PhysicalStart \in Nat /\ t[j].PhysicalStart \in Nat
        BY <1>4, <1>11, <1>12, <2>3, <3>2
      <4> HIDE DEF s
      <4> QED
        BY <4>1, <4>2, <4>3
    <3>3. CASE j # index /\ i \in {index - 1, index}
      <4>1. /\ s[index].PhysicalStart <= s[j].PhysicalStart
            /\ s[index - 1].PhysicalStart <= s[j].PhysicalStart
            /\ t[j] = s[j]
        BY <1>9, <2>1, <2>2, <2>3, <3>3
      <4>2. t[i].PhysicalStart \in {s[index].PhysicalStart, s[index - 1].PhysicalStart}
        BY <1>9, <3>3
      <4> QED
        BY <4>1, <4>2, <2>3
    <3>4. CASE j # index /\ i \notin {index - 1, index}
      BY <1>9, <2>1, <2>3, <3>4
    <3> QED
      BY <3>1, <3>2, <3>3, <3>4
  <2> HIDE DEF n, threshold, s
  <2> QED
    BY <2>2, <2>3 DEF SortInv
<1>14. SortStep
  BY <1>1, <1>7 DEF MapInv, SortStep
<1>15. index' \in Nat \ {0}
  BY <1>1, <1>2
<1> QED
  BY <1>1, <1>8, <1>10, <1>13, <1>14, <1>15, SortStepKeeps

\* After the last threshold everything is in order, and all conventional memory is free.
LEMMA MapSortedKeeps ==
  ASSUME MapInv, MapSorted
  PROVE  MapInv'
<1>1. /\ at = "sort" /\ at' = "entries" /\ UNCHANGED <<held, fw, scan>> /\ index = 1 /\ index' = 1
      /\ scan.threshold >= Len(scan.mmap)
  BY DEF MapSorted, Go
<1>2. /\ ScanType /\ EntriesKnown /\ SortInv /\ scan.usable = <<>>
      /\ scan.FirmwareMemory = MinFirmwareMemory /\ scan.UsableOffset = 0
  BY <1>1 DEF MapInv
<1>3. /\ scan.mmap \in Seq(MmapEntry) /\ scan.threshold \in Nat
      /\ \A i \in DOMAIN scan.mmap : scan.mmap[i].PhysicalStart \in Nat
  <2>1. scan.mmap \in Seq(MmapEntry) /\ scan.threshold \in Nat
    BY <1>2 DEF ScanType
  <2>2. \A i \in DOMAIN scan.mmap : scan.mmap[i] \in MmapEntry
    BY <2>1, Elements
  <2> QED
    BY <2>1, <2>2 DEF MmapEntry
<1>4. Sorted'
  BY <1>1, <1>2, <1>3 DEF SortInv, Sorted
<1>5. Kept({})'
  BY <1>1, <1>2, FS_EmptySet, SizesAssumption DEF Kept
<1>6. EntriesInv'
  BY <1>1, <1>2, <1>3, <1>5 DEF EntriesInv
<1>7. SortStep
  BY <1>1, <1>2 DEF SortStep
<1> QED
  BY <1>1, <1>2, <1>4, <1>6, <1>7, SortStepKeeps DEF ScanType, EntriesKnown

\* What is cut away from the map lies below UsableOffset, and no entry does.
LEMMA TrimMapKeeps ==
  ASSUME MapInv, TrimMap
  PROVE  MapInv'
<1>1. /\ at = "entries" /\ at' = "set mode" /\ held' = held /\ fw' = fw /\ index' = index
      /\ scan.usable # <<>>
  BY DEF TrimMap, Go
<1>2. ScanType /\ EntriesInv /\ \A i \in DOMAIN scan.usable : scan.UsableOffset <= scan.usable[i].Base
  BY <1>1 DEF MapInv
<1>3. scan' = scan
  <2> DEFINE within == {i \in DOMAIN scan.usable :
                          /\ scan.usable[i].Base + scan.usable[i].Limit >= scan.UsableOffset
                          /\ scan.usable[i].Base < scan.UsableOffset}
  <2>1. scan.UsableOffset \in Nat /\ \A i \in DOMAIN scan.usable : scan.usable[i].Base \in Nat
    <3>1. scan.usable \in Seq([Base : Nat, Limit : Nat]) /\ scan.UsableOffset \in Nat
      BY <1>2 DEF ScanType
    <3>2. \A i \in DOMAIN scan.usable : scan.usable[i] \in [Base : Nat, Limit : Nat]
      BY <3>1, Elements
    <3> QED
      BY <3>1, <3>2
  <2>2. within = {}
    BY <1>2, <2>1
  <2> QED
    BY <2>2 DEF TrimMap
<1>4. scan.FirmwareMemory = 0
  <2>1. scan.FirmwareMemory \in 0 .. MinFirmwareMemory
    BY <1>2 DEF ScanType
  <2>2. ~(scan.FirmwareMemory > 0)
    BY <1>1, <1>2 DEF EntriesInv
  <2> QED
    BY <2>1, <2>2, SizesAssumption
<1>5. UsablePages' = UsablePages /\ FreeAtFirst' = FreeAtFirst /\ NothingTaken' = NothingTaken
  <2>1. fw' = fw
    BY <1>1
  <2> QED
    BY <2>1, <1>3 DEF UsablePages, FreeAtFirst, NothingTaken, PagesOfType
<1>6. \A pages : Kept(pages)' <=> Kept(pages)
  BY <1>1, <1>3 DEF Kept
<1>7. NothingTaken' => \E pages \in SUBSET held'.free : Kept(pages)' /\ scan'.FirmwareMemory = 0
  BY <1>1, <1>2, <1>3, <1>4, <1>5, <1>6 DEF EntriesInv
<1>8. (ScanType /\ EntriesKnown /\ UsableMapIsOrdered)'
  BY <1>1, <1>3 DEF MapInv, ScanType, EntriesKnown, UsableMapIsOrdered
<1>9. at' \notin BeforeSort \cup {"sort", "entries"} \cup Cleanup /\ at' \notin Released /\ at \notin Released
  BY <1>1 DEF BeforeSort, BeforeFs, BeforeGop, LoadSteps, EndSteps, Cleanup, Leaving, Released, Closed
<1> QED
  BY <1>1, <1>3, <1>5, <1>7, <1>8, <1>9 DEF MapInv

\* The cleanup gives all usable pages back.
LEMMA FreeAllPagesKeeps ==
  ASSUME TypeInv, FlagInv, MapInv, FreeAllPages
  PROVE  MapInv'
<1> DEFINE mine == IF Is("HasAllocatedMemory") THEN UsablePages ELSE {}
<1>1. /\ at = "free pages" /\ at' = "close files" /\ UNCHANGED <<fw, scan, index, left>>
      /\ held'.free = held.free \cup mine
  BY DEF FreeAllPages, Go, UsablePages, TypeInv
<1>2. UsablePages' = UsablePages
  BY <1>1 DEF UsablePages
<1>3. UsablePages \subseteq mine
  <2>1. CASE scan.usable = <<>>
    BY <2>1 DEF UsablePages
  <2>2. CASE scan.usable # <<>>
    <3>1. left = "kernel"
      BY <1>1, <2>2 DEF MapInv, Cleanup, Leaving
    <3>2. Is("HasAllocatedMemory")
      BY <1>1, <3>1 DEF FlagInv, Here, Cleanup, Leaving, EndSteps
    <3> QED
      BY <3>2
  <2> QED
    BY <2>1, <2>2
<1>4. (ScanType /\ EntriesKnown /\ UsableMapIsOrdered)'
  BY <1>1 DEF MapInv, ScanType, EntriesKnown, UsableMapIsOrdered
<1>5. UsablePages' \subseteq held'.free /\ held'.free \subseteq Nat
  BY <1>1, <1>2, <1>3, UsableIsNat DEF MapInv
<1>6. at' \notin BeforeSort \cup {"sort", "entries"} \cup EndSteps /\ at' \in Released /\ at \in Cleanup
  BY <1>1 DEF BeforeSort, BeforeFs, BeforeGop, LoadSteps, EndSteps, Cleanup, Leaving, Released, Closed
<1>7. (at \in Cleanup /\ scan.usable # <<>> => left = "kernel")'
  BY <1>1, <1>6 DEF MapInv
<1>8. (\A i \in DOMAIN scan.usable : scan.UsableOffset <= scan.usable[i].Base)' /\ (index \in Nat \ {0})'
  BY <1>1 DEF MapInv
<1> HIDE DEF mine
<1> QED
  BY <1>4, <1>5, <1>6, <1>7, <1>8 DEF MapInv

\* The pages from a start up to an end, and how many they are.
LEMMA PagesOfCount ==
  ASSUME NEW start \in Nat, NEW number \in Nat
  PROVE  /\ IsFiniteSet(PagesOf(start, number)) /\ Cardinality(PagesOf(start, number)) = number
         /\ \A page \in PagesOf(start, number) : page \in Nat /\ start <= page /\ page < start + number
         /\ \A page \in Nat : start <= page /\ page < start + number => page \in PagesOf(start, number)
  BY FS_Interval DEF PagesOf

\* What an entry has before the next one begins.
LEMMA EntrySizeFits ==
  ASSUME ScanType, Sorted, index \in DOMAIN scan.mmap
  PROVE  /\ scan.mmap[index] \in MmapEntry
         /\ EntrySize(index) \in 0 .. scan.mmap[index].NumberOfPages
         /\ index + 1 \in DOMAIN scan.mmap =>
              /\ scan.mmap[index + 1].PhysicalStart \in Nat
              /\ scan.mmap[index].PhysicalStart + EntrySize(index) <= scan.mmap[index + 1].PhysicalStart
<1>1. scan.mmap \in Seq(MmapEntry)
  BY DEF ScanType
<1>2. DOMAIN scan.mmap = 1 .. Len(scan.mmap) /\ Len(scan.mmap) \in Nat /\ \A i \in DOMAIN scan.mmap : scan.mmap[i] \in MmapEntry
  BY <1>1, Elements
<1>3. \A i \in DOMAIN scan.mmap : scan.mmap[i].PhysicalStart \in Nat /\ scan.mmap[i].NumberOfPages \in Nat
  BY <1>2 DEF MmapEntry
<1>4. index + 1 \in DOMAIN scan.mmap => scan.mmap[index].PhysicalStart <= scan.mmap[index + 1].PhysicalStart
  BY <1>2 DEF Sorted
<1>5. index \in 1 .. Len(scan.mmap) /\ (index < Len(scan.mmap) <=> index + 1 \in DOMAIN scan.mmap)
  BY <1>2
<1> DEFINE start == scan.mmap[index].PhysicalStart
           number == scan.mmap[index].NumberOfPages
           next == scan.mmap[index + 1].PhysicalStart
<1>6. start \in Nat /\ number \in Nat /\ (index + 1 \in DOMAIN scan.mmap => next \in Nat)
  BY <1>3
<1>7. EntrySize(index) = IF index + 1 \in DOMAIN scan.mmap /\ next < start + number THEN next - start ELSE number
  BY <1>5 DEF EntrySize
<1>8. EntrySize(index) \in 0 .. number /\ (index + 1 \in DOMAIN scan.mmap => start + EntrySize(index) <= next)
  <2> HIDE DEF start, number, next
  <2> QED
    BY <1>4, <1>6, <1>7 DEF start, next
<1> QED
  BY <1>2, <1>6, <1>8

\* More memory is reserved.
LEMMA KeptGrows ==
  ASSUME NEW pages, IsFiniteSet(pages), NEW start \in Nat, NEW number \in Nat, \A page \in pages : page < start
  PROVE  /\ IsFiniteSet(pages \cup PagesOf(start, number))
         /\ Cardinality(pages \cup PagesOf(start, number)) = Cardinality(pages) + number
<1>1. pages \cap PagesOf(start, number) = {}
  BY PagesOfCount
<1>2. IsFiniteSet(PagesOf(start, number)) /\ Cardinality(PagesOf(start, number)) = number
  BY PagesOfCount
<1>3. Cardinality(pages) \in Nat /\ Cardinality({}) = 0
  BY FS_CardinalityType, FS_EmptySet
<1> DEFINE more == PagesOf(start, number)
<1>4. /\ IsFiniteSet(pages \cup more)
      /\ Cardinality(pages \cup more) = Cardinality(pages) + Cardinality(more) - Cardinality(pages \cap more)
  <2> HIDE DEF more
  <2>1. IsFiniteSet(more)
    BY <1>2 DEF more
  <2> QED
    BY <2>1, FS_Union
<1> DEFINE c == Cardinality(pages)
<1>5. Cardinality(pages \cup more) = c + number - 0
  BY <1>1, <1>2, <1>3, <1>4
<1>6. c \in Nat
  BY <1>3
<1> HIDE DEF c
<1>7. c + number - 0 = c + number
  BY <1>6
<1> QED
  BY <1>4, <1>5, <1>7 DEF c

\* What processing an entry comes to.
EntryStep(entry, size, kept, start, number, got) ==
  /\ at = "entries" /\ at' = at /\ left' = left /\ fw' = fw /\ index' = index + 1
  /\ index \in DOMAIN scan.mmap /\ entry = scan.mmap[index] /\ entry \in MmapEntry
  /\ size = EntrySize(index) /\ size \in 0 .. entry.NumberOfPages
  /\ kept = IF size < scan.FirmwareMemory THEN size ELSE scan.FirmwareMemory
  /\ start = entry.PhysicalStart + kept /\ number = size - kept
  /\ got => /\ entry.Type = Conventional /\ number >= MmapEntryMemoryLimit
            /\ PagesOf(start, number) \subseteq held.free
  /\ scan'.mmap = scan.mmap /\ ScanType'
  /\ entry.Type # Conventional => scan' = scan
  /\ entry.Type = Conventional =>
       /\ scan'.FirmwareMemory = scan.FirmwareMemory - kept
       /\ scan'.UsableOffset = IF 0 < scan.FirmwareMemory /\ scan.FirmwareMemory <= size
                               THEN start ELSE scan.UsableOffset
  /\ scan'.usable = IF got THEN Append(scan.usable, [Base |-> start, Limit |-> number]) ELSE scan.usable
  /\ held'.free = IF got THEN held.free \ PagesOf(start, number) ELSE held.free

\* An entry is cut by the next one and by what is kept for the firmware.
LEMMA ProcessEntryIs ==
  ASSUME TypeInv, MapInv, ProcessEntry,
         NEW entry, entry = scan.mmap[index],
         NEW size, size = EntrySize(index),
         NEW kept, kept = IF size < scan.FirmwareMemory THEN size ELSE scan.FirmwareMemory,
         NEW start, start = entry.PhysicalStart + kept,
         NEW number, number = size - kept,
         NEW got, got = (/\ entry.Type = Conventional /\ number >= MmapEntryMemoryLimit
                         /\ PagesOf(start, number) \subseteq held.free)
  PROVE  EntryStep(entry, size, kept, start, number, got)
<1>1. at = "entries" /\ index <= Len(scan.mmap) /\ index \in Nat \ {0} /\ ScanType /\ Sorted
  BY DEF ProcessEntry, MapInv
<1>2. scan.mmap \in Seq(MmapEntry) /\ scan.usable \in Seq([Base : Nat, Limit : Nat])
      /\ scan.FirmwareMemory \in 0 .. MinFirmwareMemory /\ scan.UsableOffset \in Nat
  BY <1>1 DEF ScanType
<1>3. index \in DOMAIN scan.mmap
  BY <1>1, <1>2, Elements
<1>4. entry \in MmapEntry /\ size \in 0 .. entry.NumberOfPages
  BY <1>1, <1>3, EntrySizeFits
<1>5. entry.PhysicalStart \in Nat /\ entry.NumberOfPages \in Nat
  BY <1>4 DEF MmapEntry
<1>6. kept \in Nat /\ kept <= scan.FirmwareMemory /\ start \in Nat /\ number \in Nat
  <2> DEFINE memory == scan.FirmwareMemory
             first == entry.PhysicalStart
  <2>1. size \in Nat /\ memory \in Nat /\ first \in Nat /\ start = first + kept
        /\ kept = IF size < memory THEN size ELSE memory
    BY <1>2, <1>4, <1>5, SizesAssumption
  <2> HIDE DEF memory, first
  <2> QED
    BY <2>1 DEF memory
<1>7. /\ at' = at /\ left' = left /\ fw' = fw /\ index' = index + 1
      /\ held' = IF got THEN [held EXCEPT !.free = held.free \ PagesOf(start, number)] ELSE held
  BY DEF ProcessEntry, SizeLeft
<1>8. scan' = IF entry.Type # Conventional THEN scan
              ELSE [scan EXCEPT
                !.FirmwareMemory = IF scan.FirmwareMemory <= kept THEN 0 ELSE scan.FirmwareMemory - kept,
                !.UsableOffset = IF 0 < scan.FirmwareMemory /\ scan.FirmwareMemory <= size
                                 THEN start ELSE scan.UsableOffset,
                !.usable = IF got THEN Append(scan.usable, [Base |-> start, Limit |-> number]) ELSE scan.usable]
  BY DEF ProcessEntry, SizeLeft, Reserved
<1>9. held'.free = IF got THEN held.free \ PagesOf(start, number) ELSE held.free
  BY <1>7 DEF TypeInv
<1>10. got => entry.Type = Conventional /\ number >= MmapEntryMemoryLimit
              /\ PagesOf(start, number) \subseteq held.free
  OBVIOUS
<1> DEFINE longer == Append(scan.usable, [Base |-> start, Limit |-> number])
<1>11. longer \in Seq([Base : Nat, Limit : Nat])
  BY <1>2, <1>6, AppendedEntries
<1> HIDE DEF longer
<1>12. CASE entry.Type # Conventional
  <2>1. scan' = scan /\ ~got
    BY <1>8, <1>10, <1>12
  <2>2. ScanType'
    BY <1>1, <2>1 DEF ScanType
  <2> QED
    BY <1>1, <1>3, <1>4, <1>7, <1>9, <1>12, <2>1, <2>2 DEF EntryStep
<1>13. CASE entry.Type = Conventional
  <2> DEFINE memory == scan.FirmwareMemory - kept
             offset == IF 0 < scan.FirmwareMemory /\ scan.FirmwareMemory <= size THEN start ELSE scan.UsableOffset
             usable == IF got THEN longer ELSE scan.usable
  <2>1. (IF scan.FirmwareMemory <= kept THEN 0 ELSE scan.FirmwareMemory - kept) = memory
        /\ memory \in 0 .. MinFirmwareMemory
    BY <1>2, <1>6, SizesAssumption
  <2>2. offset \in Nat /\ usable \in Seq([Base : Nat, Limit : Nat])
    BY <1>2, <1>6, <1>11
  <2>3. scan' = [scan EXCEPT !.FirmwareMemory = memory, !.UsableOffset = offset, !.usable = usable]
    BY <1>8, <1>13, <2>1 DEF longer
  <2> HIDE DEF memory, offset, usable
  <2>4. /\ scan'.FirmwareMemory = memory /\ scan'.UsableOffset = offset /\ scan'.usable = usable
        /\ scan'.mmap = scan.mmap /\ ScanType'
    BY <1>1, <2>1, <2>2, <2>3 DEF ScanType
  <2> QED
    BY <1>1, <1>3, <1>4, <1>7, <1>9, <1>10, <1>13, <2>4 DEF EntryStep, memory, offset, usable, longer
<1> QED
  BY <1>12, <1>13

\* Fewer pages from the same start.
LEMMA PagesWithin ==
  ASSUME NEW a \in Nat, NEW m \in Nat, NEW b \in Nat, NEW number \in Nat, a <= b, b + number <= a + m
  PROVE  PagesOf(b, number) \subseteq PagesOf(a, m)
  BY DEF PagesOf

\* An entry that is appended follows the last one, was free, and what is reserved of it stays free.
LEMMA EntryStepKeeps ==
  ASSUME TypeInv, MapInv,
         NEW entry, NEW size, NEW kept, NEW start, NEW number, NEW got \in BOOLEAN,
         EntryStep(entry, size, kept, start, number, got)
  PROVE  MapInv'
<1> DEFINE first == entry.PhysicalStart
           memory == scan.FirmwareMemory
           offset == scan.UsableOffset
           n == Len(scan.mmap)
           u == scan.usable
           k == Len(u)
           End(i) == u[i].Base + u[i].Limit
\* What is known of the numbers.
<1>1. /\ at = "entries" /\ ScanType /\ Sorted /\ EntriesInv /\ UsableMapIsOrdered /\ EntriesKnown
      /\ \A i \in DOMAIN u : offset <= u[i].Base
      /\ index \in Nat \ {0} /\ held.free \subseteq Nat
  BY DEF MapInv, EntryStep
<1>2. at \notin Released /\ at' = "entries"
      /\ at' \notin BeforeSort \cup {"sort"} \cup EndSteps \cup Cleanup /\ at' \notin Released
  BY <1>1 DEF EntryStep, BeforeSort, BeforeFs, BeforeGop, LoadSteps, EndSteps, Cleanup, Leaving, Released, Closed
<1>3. /\ scan.mmap \in Seq(MmapEntry) /\ u \in Seq([Base : Nat, Limit : Nat])
      /\ memory \in 0 .. MinFirmwareMemory /\ offset \in Nat
  BY <1>1 DEF ScanType
<1>4. /\ n \in Nat /\ DOMAIN scan.mmap = 1 .. n /\ \A i \in 1 .. n : scan.mmap[i] \in MmapEntry
      /\ k \in Nat /\ DOMAIN u = 1 .. k /\ \A i \in 1 .. k : u[i] \in [Base : Nat, Limit : Nat]
      /\ \A i \in 1 .. n : scan.mmap[i].PhysicalStart \in Nat
      /\ \A i \in 1 .. k : u[i].Base \in Nat /\ u[i].Limit \in Nat
  <2>1. /\ n \in Nat /\ DOMAIN scan.mmap = 1 .. n /\ \A i \in 1 .. n : scan.mmap[i] \in MmapEntry
        /\ k \in Nat /\ DOMAIN u = 1 .. k /\ \A i \in 1 .. k : u[i] \in [Base : Nat, Limit : Nat]
    BY <1>3, Elements
  <2>2. \A i \in 1 .. n : scan.mmap[i].PhysicalStart \in Nat
    BY <2>1 DEF MmapEntry
  <2> QED
    BY <2>1, <2>2
<1>5. /\ index \in 1 .. n /\ entry = scan.mmap[index] /\ entry \in MmapEntry
      /\ size \in 0 .. entry.NumberOfPages /\ entry.NumberOfPages \in Nat /\ first \in Nat /\ memory \in Nat
  <2>1. index \in DOMAIN scan.mmap /\ entry = scan.mmap[index] /\ entry \in MmapEntry
        /\ size \in 0 .. entry.NumberOfPages
    BY DEF EntryStep
  <2>2. entry.NumberOfPages \in Nat /\ first \in Nat
    BY <2>1 DEF MmapEntry
  <2>3. memory \in Nat
    BY <1>3, SizesAssumption
  <2> QED
    BY <1>4, <2>1, <2>2, <2>3
<1>6. /\ size \in Nat /\ kept \in Nat /\ kept <= memory /\ start = first + kept /\ start \in Nat
      /\ number = size - kept /\ number \in Nat
      /\ kept = IF size < memory THEN size ELSE memory
      /\ start + number = first + size /\ start + number \in Nat /\ kept <= size /\ first <= start
  <2>1. size \in Nat /\ kept = (IF size < memory THEN size ELSE memory) /\ start = first + kept /\ number = size - kept
    BY <1>5 DEF EntryStep
  <2> HIDE DEF first, memory
  <2> QED
    BY <1>5, <2>1
<1>7. index + 1 <= n => /\ scan.mmap[index + 1].PhysicalStart \in Nat
                        /\ first + size <= scan.mmap[index + 1].PhysicalStart
  BY <1>1, <1>4, <1>5, EntrySizeFits DEF EntryStep
<1>8. /\ memory > 0 => u = <<>> /\ offset = 0
      /\ offset <= first /\ \A i \in 1 .. k : End(i) <= first
      /\ NothingTaken => \E pages \in SUBSET held.free : Kept(pages) /\ \A page \in pages : page < first
  <2>1. index <= n
    BY <1>4, <1>5
  <2>2. memory > 0 => u = <<>> /\ offset = 0
    BY <1>1 DEF EntriesInv
  <2>3. offset <= first /\ \A i \in 1 .. k : End(i) <= first
    BY <1>1, <1>4, <1>5, <2>1 DEF EntriesInv
  <2>4. NothingTaken => \E pages \in SUBSET held.free : Kept(pages) /\ \A page \in pages : page < first
    BY <1>1, <1>5, <2>1 DEF EntriesInv
  <2> QED
    BY <2>2, <2>3, <2>4
<1>9. index' = index + 1 /\ fw' = fw /\ scan'.mmap = scan.mmap /\ ScanType'
  BY DEF EntryStep
\* Whatever the entry is, what has been passed stays below the next one.
<1>10. EntriesKnown' /\ Sorted' /\ NothingTaken' = NothingTaken /\ FreeAtFirst' = FreeAtFirst
  <2>1. fw' = fw /\ scan'.mmap = scan.mmap
    BY <1>9
  <2>2. EntriesKnown' /\ Sorted'
    BY <1>1, <2>1 DEF EntriesKnown, Sorted
  <2> QED
    BY <2>1, <2>2 DEF NothingTaken, FreeAtFirst, PagesOfType
<1>11. index' \in Nat \ {0} /\ index' <= n + 1 /\ index' \in Nat /\ Len(scan'.mmap) = n
  BY <1>4, <1>5, <1>9
<1>12. (entry.Type # Conventional) => MapInv'
  <2> SUFFICES ASSUME entry.Type # Conventional PROVE MapInv'
    OBVIOUS
  <2>1. ~got /\ scan' = scan /\ held'.free = held.free
    BY DEF EntryStep
  <2>2. UsablePages' = UsablePages /\ UsableMapIsOrdered'
    BY <1>1, <2>1 DEF UsablePages, UsableMapIsOrdered
  <2>3. \A pages : Kept(pages)' <=> Kept(pages)
    BY <2>1 DEF Kept
  <2>4. index' <= n => /\ first <= scan.mmap[index'].PhysicalStart /\ scan.mmap[index'].PhysicalStart \in Nat
    <3>1. SUFFICES ASSUME index + 1 <= n PROVE first <= scan.mmap[index + 1].PhysicalStart
      BY <1>7, <1>9
    <3> DEFINE next == scan.mmap[index + 1].PhysicalStart
    <3>2. next \in Nat /\ first + size <= next
      BY <1>7, <3>1
    <3> HIDE DEF next, first
    <3>3. first <= next
      BY <3>2, <1>5, <1>6
    <3> QED
      BY <3>3 DEF next, first
  <2>5. (NothingTaken => \E pages \in SUBSET held.free :
           /\ Kept(pages)
           /\ index <= Len(scan.mmap) => \A page \in pages : page < scan.mmap[index].PhysicalStart)'
    <3>1. SUFFICES ASSUME NothingTaken
                   PROVE  \E pages \in SUBSET held.free :
                            /\ Kept(pages)
                            /\ index' <= n => \A page \in pages : page < scan.mmap[index'].PhysicalStart
      BY <1>10, <1>11, <2>1, <2>3
    <3>2. PICK pages \in SUBSET held.free : Kept(pages) /\ \A page \in pages : page < first
      BY <1>8, <3>1
    <3>3. \A page \in pages : page \in Nat
      BY <1>1, <3>2
    <3>4. index' <= n => \A page \in pages : page < scan.mmap[index'].PhysicalStart
      BY <1>5, <2>4, <3>2, <3>3
    <3> QED
      BY <3>2, <3>4
  <2>6. index' <= n => /\ offset <= scan.mmap[index'].PhysicalStart
                       /\ \A i \in DOMAIN u : End(i) <= scan.mmap[index'].PhysicalStart
    <3>1. \A i \in 1 .. k : End(i) \in Nat
      BY <1>4
    <3>2. SUFFICES ASSUME index' <= n
                   PROVE  /\ offset <= scan.mmap[index'].PhysicalStart
                          /\ \A i \in 1 .. k : End(i) <= scan.mmap[index'].PhysicalStart
      BY <1>4
    <3> DEFINE next == scan.mmap[index'].PhysicalStart
    <3>3. next \in Nat /\ first <= next
      BY <2>4, <3>2
    <3> HIDE DEF End, first, offset, next
    <3>4. offset <= next /\ \A i \in 1 .. k : End(i) <= next
      BY <1>3, <1>5, <1>8, <3>1, <3>3
    <3> QED
      BY <3>4 DEF next
  <2>7. EntriesInv'
    BY <1>8, <1>11, <2>1, <2>5, <2>6 DEF EntriesInv
  <2>8. (\A i \in DOMAIN scan.usable : scan.UsableOffset <= scan.usable[i].Base)' /\ (held.free \subseteq Nat)'
        /\ (held.free = FreeAtFirst \ UsablePages)'
    BY <1>1, <1>2, <1>10, <2>1, <2>2 DEF MapInv
  <2> QED
    BY <1>2, <1>9, <1>10, <1>11, <2>2, <2>7, <2>8 DEF MapInv
<1>13. (entry.Type = Conventional) => MapInv'
  <2> SUFFICES ASSUME entry.Type = Conventional PROVE MapInv'
    OBVIOUS
  <2> DEFINE new == [Base |-> start, Limit |-> number]
             v == scan'.usable
             below == scan'.UsableOffset
             more == PagesOf(start, number)
  <2>1. /\ scan'.FirmwareMemory = memory - kept
        /\ below = IF 0 < memory /\ memory <= size THEN start ELSE offset
        /\ v = IF got THEN Append(u, new) ELSE u
        /\ held'.free = IF got THEN held.free \ more ELSE held.free
        /\ got => number >= MmapEntryMemoryLimit /\ more \subseteq held.free
    BY DEF EntryStep
  <2>2. /\ DOMAIN v = IF got THEN 1 .. k + 1 ELSE 1 .. k
        /\ \A i \in 1 .. k : v[i] = u[i]
        /\ got => v[k + 1] = new
    <3>1. CASE got
      <4>1. v = Append(u, new)
        BY <2>1, <3>1
      <4>2. new \in [Base : Nat, Limit : Nat]
        BY <1>6
      <4> HIDE DEF new
      <4> QED
        BY <1>3, <3>1, <4>1, <4>2, AppendedEntries
    <3>2. CASE ~got
      BY <1>4, <2>1, <3>2
    <3> QED
      BY <3>1, <3>2
  <2>3. got => number > 0 /\ kept = memory /\ memory <= size
    <3> HIDE DEF memory
    <3> QED
      BY <1>5, <1>6, <2>1, SizesAssumption
  <2>4. /\ below \in Nat /\ below <= start
        /\ k > 0 => memory = 0 /\ kept = 0 /\ start = first /\ below = offset
    <3>1. k > 0 => memory = 0
      BY <1>5, <1>8
    <3>2. offset \in Nat
      BY <1>3
    <3> HIDE DEF memory, offset, first, below, k
    <3> QED
      BY <1>5, <1>6, <1>8, <2>1, <3>1, <3>2
  <2>5. (\A i \in DOMAIN scan.usable : scan.UsableOffset <= scan.usable[i].Base)'
    <3>1. SUFFICES ASSUME NEW i \in DOMAIN v PROVE below <= v[i].Base
      OBVIOUS
    <3>2. CASE i \in 1 .. k
      BY <1>1, <1>4, <2>2, <2>4, <3>2
    <3>3. CASE got /\ i = k + 1
      BY <2>2, <2>4, <3>3
    <3> QED
      BY <1>4, <2>2, <3>2, <3>3
  <2>6. UsableMapIsOrdered'
    <3>1. SUFFICES ASSUME NEW i \in DOMAIN v
                   PROVE  /\ v[i].Limit >= MmapEntryMemoryLimit
                          /\ \E j \in DOMAIN scan.mmap :
                               /\ scan.mmap[j].Type = Conventional
                               /\ PagesOf(v[i].Base, v[i].Limit)
                                    \subseteq PagesOf(scan.mmap[j].PhysicalStart, scan.mmap[j].NumberOfPages)
                          /\ i > 1 => v[i - 1].Base + v[i - 1].Limit <= v[i].Base
      BY <1>9 DEF UsableMapIsOrdered
    <3>2. CASE i \in 1 .. k
      <4>1. v[i] = u[i] /\ (i > 1 => v[i - 1] = u[i - 1])
        <5>1. k \in Nat /\ \A m \in 1 .. k : v[m] = u[m]
          BY <1>4, <2>2
        <5> HIDE DEF k, v, u
        <5> QED
          BY <3>2, <5>1
      <4> QED
        BY <1>1, <1>4, <3>2, <4>1 DEF UsableMapIsOrdered
    <3>3. CASE got /\ i = k + 1
      <4>1. v[i].Base = start /\ v[i].Limit = number /\ number >= MmapEntryMemoryLimit
        BY <2>1, <2>2, <3>3
      <4>2. more \subseteq PagesOf(first, entry.NumberOfPages)
        <5> DEFINE pages == entry.NumberOfPages
        <5>1. pages \in Nat /\ size <= pages
          BY <1>5
        <5> HIDE DEF first, pages
        <5>2. start + number <= first + pages
          BY <1>5, <1>6, <5>1
        <5> HIDE DEF more
        <5>3. first \in Nat /\ start \in Nat /\ number \in Nat /\ pages \in Nat /\ first <= start
          BY <1>5, <1>6, <5>1
        <5>4. PagesOf(start, number) \subseteq PagesOf(first, pages)
          BY <5>2, <5>3, PagesWithin
        <5> QED
          BY <5>4 DEF pages, more
      <4>3. i > 1 => v[i - 1].Base + v[i - 1].Limit <= start
        <5>1. SUFFICES ASSUME k > 0 PROVE u[k].Base + u[k].Limit <= start
          BY <1>4, <2>2, <3>3
        <5>2. End(k) <= first /\ start = first
          BY <1>4, <1>8, <2>4, <5>1
        <5> QED
          BY <5>2
      <4> QED
        BY <1>4, <1>5, <4>1, <4>2, <4>3
    <3> QED
      BY <1>4, <2>2, <3>2, <3>3
  <2>7. (scan.FirmwareMemory > 0 => scan.usable = <<>> /\ scan.UsableOffset = 0)'
    <3>1. SUFFICES ASSUME memory - kept > 0 PROVE v = <<>> /\ below = 0
      BY <2>1
    <3>2. memory > 0 /\ ~(memory <= size) /\ kept # memory
      <4> HIDE DEF memory
      <4> QED
        BY <1>5, <1>6, <3>1
    <3>3. ~got
      BY <2>3, <3>2
    <3>4. u = <<>> /\ offset = 0
      BY <1>8, <3>2
    <3> HIDE DEF u, memory
    <3> QED
      BY <2>1, <3>2, <3>3, <3>4
  <2>8. \A i \in DOMAIN v : v[i].Base + v[i].Limit \in Nat /\ v[i].Base + v[i].Limit <= first + size
    <3>1. SUFFICES ASSUME NEW i \in DOMAIN v
                   PROVE  v[i].Base + v[i].Limit \in Nat /\ v[i].Base + v[i].Limit <= first + size
      OBVIOUS
    <3>2. CASE i \in 1 .. k
      <4>1. v[i] = u[i] /\ End(i) \in Nat /\ End(i) <= first
        BY <1>4, <1>8, <2>2, <3>2
      <4>2. End(i) <= first + size
        <5> HIDE DEF End, first
        <5> QED
          BY <1>5, <1>6, <4>1
      <4> QED
        BY <4>1, <4>2
    <3>3. CASE got /\ i = k + 1
      <4>1. v[i].Base = start /\ v[i].Limit = number
        BY <2>2, <3>3
      <4>2. start + number = first + size /\ start + number \in Nat
        BY <1>6
      <4>3. first + size <= first + size
        BY <1>5, <1>6
      <4> QED
        BY <4>1, <4>2, <4>3
    <3> QED
      BY <1>4, <2>2, <3>2, <3>3
  <2>9. index' <= n => /\ below <= scan.mmap[index'].PhysicalStart
                       /\ \A i \in DOMAIN v : v[i].Base + v[i].Limit <= scan.mmap[index'].PhysicalStart
    <3>1. SUFFICES ASSUME index + 1 <= n
                   PROVE  /\ below <= scan.mmap[index + 1].PhysicalStart
                          /\ \A i \in DOMAIN v : v[i].Base + v[i].Limit <= scan.mmap[index + 1].PhysicalStart
      BY <1>9
    <3> DEFINE next == scan.mmap[index + 1].PhysicalStart
               VEnd(i) == v[i].Base + v[i].Limit
    <3>2. next \in Nat /\ first + size <= next
      BY <1>7, <3>1
    <3>3. \A i \in DOMAIN v : VEnd(i) \in Nat /\ VEnd(i) <= first + size
      BY <2>8
    <3>4. below <= next
      <4> HIDE DEF next, first, below
      <4> QED
        <5>1. /\ below \in Nat /\ below <= start /\ start \in Nat /\ next \in Nat /\ start = first + kept
              /\ first \in Nat /\ size \in Nat /\ kept \in Nat /\ kept <= size /\ first + size <= next
          BY <1>5, <1>6, <2>4, <3>2
        <5> QED
          BY <5>1
    <3>5. \A i \in DOMAIN v : VEnd(i) <= next
      <4> HIDE DEF next, first, VEnd
      <4> QED
        BY <1>5, <1>6, <3>2, <3>3
    <3> QED
      BY <3>4, <3>5
  <2>10. UsablePages' = IF got THEN UsablePages \cup more ELSE UsablePages
    <3>1. CASE got
      <4>1. DOMAIN v = 1 .. k + 1 /\ v[k + 1].Base = start /\ v[k + 1].Limit = number
        BY <2>2, <3>1
      <4>2. UsablePages' = UNION {PagesOf(v[i].Base, v[i].Limit) : i \in 1 .. k + 1}
        BY <4>1 DEF UsablePages
      <4>3. UsablePages = UNION {PagesOf(v[i].Base, v[i].Limit) : i \in 1 .. k}
        BY <1>4, <2>2 DEF UsablePages
      <4>4. 1 .. k + 1 = (1 .. k) \cup {k + 1}
        <5>1. k \in Nat
          BY <1>4
        <5> HIDE DEF k
        <5> QED
          BY <5>1
      <4> HIDE DEF k, v
      <4> QED
        BY <3>1, <4>1, <4>2, <4>3, <4>4
    <3>2. CASE ~got
      BY <2>1, <3>2 DEF UsablePages
    <3> QED
      BY <3>1, <3>2
  <2>11. (held.free = FreeAtFirst \ UsablePages)' /\ (held.free \subseteq Nat)'
    <3>1. held.free = FreeAtFirst \ UsablePages
      BY <1>2 DEF MapInv
    <3> QED
      BY <1>1, <1>10, <2>1, <2>10, <3>1
  <2>12. (NothingTaken => \E pages \in SUBSET held.free :
            /\ Kept(pages)
            /\ index <= Len(scan.mmap) => \A page \in pages : page < scan.mmap[index].PhysicalStart)'
    <3>1. SUFFICES ASSUME NothingTaken
                   PROVE  \E pages \in SUBSET held'.free :
                            /\ Kept(pages)'
                            /\ index' <= n => \A page \in pages : page < scan.mmap[index'].PhysicalStart
      BY <1>9, <1>10, <1>11
    <3>2. PICK pages \in SUBSET held.free : Kept(pages) /\ \A page \in pages : page < first
      BY <1>8, <3>1
    <3> DEFINE all == pages \cup PagesOf(first, kept)
    <3>3. \A page \in all : page \in Nat /\ page < start
      <4>1. \A page \in pages : page \in Nat /\ page < start
        <5>1. \A page \in pages : page \in Nat /\ page < first
          BY <1>1, <3>2
        <5> HIDE DEF first
        <5> QED
          BY <1>5, <1>6, <5>1
      <4>2. \A page \in PagesOf(first, kept) : page \in Nat /\ page < start
        <5> HIDE DEF first
        <5>1. \A page \in PagesOf(first, kept) : page \in Nat /\ page < first + kept
          BY <1>5, <1>6, PagesOfCount
        <5> QED
          BY <1>6, <5>1
      <4> QED
        BY <4>1, <4>2
    <3>4. all \subseteq held.free
      <4>1. CASE memory = 0
        <5>1. PagesOf(first, kept) = {}
          <6>1. kept = 0
            BY <1>5, <1>6, <4>1
          <6> HIDE DEF first
          <6> QED
            BY <1>5, <6>1 DEF PagesOf
        <5> QED
          BY <3>2, <5>1
      <4>2. CASE memory # 0
        <5>1. held.free = PagesOfType({Conventional})
          <6>1. u = <<>>
            BY <1>5, <1>8, <4>2
          <6>2. held.free = FreeAtFirst \ UsablePages
            BY <1>2 DEF MapInv
          <6>3. UsablePages = {}
            BY <6>1 DEF UsablePages
          <6> QED
            BY <3>1, <6>2, <6>3 DEF NothingTaken, FreeAtFirst
        <5>2. PICK j \in DOMAIN fw.map : scan.mmap[index] = fw.map[j]
          BY <1>1, <1>4, <1>5 DEF EntriesKnown
        <5>3. PagesOf(first, entry.NumberOfPages) \subseteq PagesOfType({Conventional})
          BY <1>5, <5>2 DEF PagesOfType
        <5>4. PagesOf(first, kept) \subseteq PagesOf(first, entry.NumberOfPages)
          <6> DEFINE number2 == entry.NumberOfPages
          <6>1. number2 \in Nat /\ kept <= number2
            <7>1. number2 \in Nat /\ size \in 0 .. number2
              BY <1>5
            <7>2. kept \in Nat /\ kept <= size
              BY <1>6
            <7> HIDE DEF number2
            <7> QED
              BY <7>1, <7>2
          <6> HIDE DEF number2, first
          <6>2. PagesOf(first, kept) \subseteq PagesOf(first, number2)
            <7>1. first \in Nat /\ kept \in Nat
              BY <1>5, <1>6
            <7> QED
              BY <6>1, <7>1, PagesWithin
          <6> QED
            BY <6>2 DEF number2
        <5> QED
          BY <3>2, <5>1, <5>3, <5>4
      <4> QED
        BY <4>1, <4>2
    <3>5. all \subseteq held'.free
      <4>1. \A page \in more : start <= page /\ page \in Nat
        BY <1>6, PagesOfCount
      <4>2. all \cap more = {}
        BY <1>6, <3>3, <4>1
      <4> QED
        BY <2>1, <3>4, <4>2
    <3>6. Kept(all)'
      <4>1. IsFiniteSet(all) /\ Cardinality(all) = Cardinality(pages) + kept
        <5>1. IsFiniteSet(pages) /\ \A page \in pages : page < first
          BY <3>2 DEF Kept
        <5>2. first \in Nat /\ kept \in Nat
          BY <1>5, <1>6
        <5> HIDE DEF first
        <5> QED
          BY <5>1, <5>2, KeptGrows
      <4>2. Cardinality(pages) = MinFirmwareMemory - memory
        BY <3>2 DEF Kept
      <4>3. MinFirmwareMemory - memory + kept = MinFirmwareMemory - (memory - kept)
        <5> HIDE DEF memory
        <5> QED
          BY <1>5, <1>6, SizesAssumption
      <4> HIDE DEF all, memory
      <4> QED
        BY <2>1, <4>1, <4>2, <4>3 DEF Kept
    <3>7. index' <= n => \A page \in all : page < scan.mmap[index'].PhysicalStart
      <4>1. SUFFICES ASSUME index + 1 <= n PROVE \A page \in all : page < scan.mmap[index + 1].PhysicalStart
        BY <1>9
      <4> DEFINE next == scan.mmap[index + 1].PhysicalStart
      <4>2. next \in Nat /\ first + size <= next
        BY <1>7, <4>1
      <4>3. start <= next
        <5> HIDE DEF first, next
        <5>1. /\ start = first + kept /\ first \in Nat /\ kept \in Nat /\ size \in Nat /\ kept <= size
              /\ next \in Nat /\ first + size <= next
          BY <1>5, <1>6, <4>2
        <5> QED
          BY <5>1
      <4> HIDE DEF next, all
      <4>4. \A page \in all : page < next
        BY <1>6, <3>3, <4>2, <4>3
      <4> QED
        BY <4>4 DEF next
    <3> QED
      BY <3>5, <3>6, <3>7
  <2>13. EntriesInv'
    BY <1>9, <1>11, <2>7, <2>9, <2>12 DEF EntriesInv
  <2> QED
    BY <1>2, <1>9, <1>10, <1>11, <2>5, <2>6, <2>11, <2>13 DEF MapInv
<1> QED
  BY <1>12, <1>13

LEMMA ProcessEntryKeeps ==
  ASSUME TypeInv, MapInv, ProcessEntry
  PROVE  MapInv'
<1> DEFINE entry == scan.mmap[index]
           size == EntrySize(index)
           kept == IF size < scan.FirmwareMemory THEN size ELSE scan.FirmwareMemory
           start == entry.PhysicalStart + kept
           number == size - kept
           got == /\ entry.Type = Conventional /\ number >= MmapEntryMemoryLimit
                  /\ PagesOf(start, number) \subseteq held.free
<1>1. EntryStep(entry, size, kept, start, number, got)
  <2> HIDE DEF entry
  <2>1. entry = scan.mmap[index]
    BY DEF entry
  <2> QED
    BY <2>1, ProcessEntryIs
<1>2. got \in BOOLEAN
  OBVIOUS
<1> HIDE DEF entry, size, kept, start, number, got
<1> QED
  BY <1>1, <1>2, EntryStepKeeps

LEMMA MapInit == Init => MapInv
<1> SUFFICES ASSUME Init PROVE MapInv
  OBVIOUS
<1>1. /\ at = "tables" /\ index = 1 /\ fw \in Firmwares
      /\ scan = [mmap |-> <<>>, threshold |-> 1, usable |-> <<>>,
                 FirmwareMemory |-> MinFirmwareMemory, UsableOffset |-> 0]
      /\ held.free = FreeAtFirst
  BY DEF Init, FreeAtFirst
<1>2. ScanType
  BY <1>1, SizesAssumption DEF ScanType
<1>3. EntriesKnown /\ UsableMapIsOrdered /\ UsablePages = {}
  BY <1>1 DEF EntriesKnown, UsableMapIsOrdered, UsablePages
<1>4. FreeAtFirst \subseteq Nat
  <2>1. fw.map \in Seq(MmapEntry)
    BY <1>1, FirmwaresAssumption DEF Firmware
  <2>2. \A i \in DOMAIN fw.map : fw.map[i] \in MmapEntry
    BY <2>1, Elements
  <2>3. \A i \in DOMAIN fw.map : fw.map[i].PhysicalStart \in Nat /\ fw.map[i].NumberOfPages \in Nat
    BY <2>2 DEF MmapEntry
  <2>4. \A i \in DOMAIN fw.map : PagesOf(fw.map[i].PhysicalStart, fw.map[i].NumberOfPages) \subseteq Nat
    BY <2>3 DEF PagesOf
  <2> QED
    BY <2>4 DEF FreeAtFirst, PagesOfType
<1>5. at \notin {"sort", "entries"} \cup EndSteps \cup Cleanup /\ at \notin Released
  BY <1>1 DEF EndSteps, Cleanup, Leaving, Released, Closed
<1> QED
  BY <1>1, <1>2, <1>3, <1>4, <1>5 DEF MapInv

\* Every action keeps the map right.
LEMMA MapKeeps == TypeInv /\ FlowInv /\ FlagInv /\ MapInv /\ [Next]_vars => MapInv'
<1> SUFFICES ASSUME TypeInv, FlowInv, FlagInv, MapInv, [Next]_vars PROVE MapInv'
  OBVIOUS
<1>1. CASE ~MapStep
  BY <1>1, OtherStepsQuiet, MapQuietKeeps
<1>2. CASE MapStep
  BY <1>2, GetMemoryMapKeeps, NextThresholdKeeps, ComparePositionKeeps, MapSortedKeeps, ProcessEntryKeeps,
     TrimMapKeeps, FreeAllPagesKeeps DEF MapStep
<1> QED
  BY <1>1, <1>2

\* There is only so much memory.
LEMMA FiniteMemory ==
  ASSUME fw \in Firmwares, NEW types
  PROVE  IsFiniteSet(PagesOfType(types))
<1>1. fw.map \in Seq(MmapEntry)
  BY FirmwaresAssumption DEF Firmware
<1> DEFINE n == Len(fw.map)
           Area(i) == PagesOf(fw.map[i].PhysicalStart, fw.map[i].NumberOfPages)
           UpTo(m) == UNION {Area(i) : i \in {j \in DOMAIN fw.map : j <= m /\ fw.map[j].Type \in types}}
           Good == {m \in Nat : IsFiniteSet(UpTo(m))}
<1>2. n \in Nat /\ DOMAIN fw.map = 1 .. n /\ \A i \in 1 .. n : IsFiniteSet(Area(i))
  <2>1. n \in Nat /\ DOMAIN fw.map = 1 .. n /\ \A i \in 1 .. n : fw.map[i] \in MmapEntry
    BY <1>1, Elements
  <2>2. \A i \in 1 .. n : fw.map[i].PhysicalStart \in Nat /\ fw.map[i].NumberOfPages \in Nat
    BY <2>1 DEF MmapEntry
  <2>3. \A i \in 1 .. n : IsFiniteSet(Area(i))
    BY <2>2, PagesOfCount
  <2> QED
    BY <2>1, <2>3
<1> HIDE DEF n, Area
<1>3. 0 \in Good
  <2>1. UpTo(0) = {}
    BY <1>2
  <2> QED
    BY <2>1, FS_EmptySet
<1>4. ASSUME NEW m \in 0 .. n - 1, m \in Good PROVE m + 1 \in Good
  <2>1. m + 1 \in 1 .. n /\ m + 1 \in Nat
    BY <1>2
  <2>2. UpTo(m + 1) = UpTo(m) \cup (IF fw.map[m + 1].Type \in types THEN Area(m + 1) ELSE {})
    <3>1. {j \in 1 .. n : j <= m + 1 /\ fw.map[j].Type \in types}
            = {j \in 1 .. n : j <= m /\ fw.map[j].Type \in types}
                \cup (IF fw.map[m + 1].Type \in types THEN {m + 1} ELSE {})
      BY <1>2, <2>1
    <3> QED
      BY <1>2, <3>1
  <2> DEFINE more == IF fw.map[m + 1].Type \in types THEN Area(m + 1) ELSE {}
  <2>3. IsFiniteSet(more)
    BY <1>2, <2>1, FS_EmptySet
  <2>4. IsFiniteSet(UpTo(m))
    BY <1>4
  <2> HIDE DEF UpTo, more
  <2>5. IsFiniteSet(UpTo(m) \cup more)
    BY <2>3, <2>4, FS_Union
  <2> QED
    BY <2>1, <2>2, <2>5 DEF more
<1>5. n \in Good
  <2> HIDE DEF Good
  <2>1. 0 .. n \subseteq Good
    BY <1>2, <1>3, <1>4, BoundedInduction
  <2> QED
    BY <1>2, <2>1
<1>6. UpTo(n) = PagesOfType(types)
  BY <1>2 DEF PagesOfType, Area
<1> QED
  BY <1>5, <1>6

\* What the kernel is given follows: also that no loop over the map in the kernel refuses it.
LEMMA MapIsRight == TypeInv /\ MapInv => UsableMapIsRight
<1> SUFFICES ASSUME TypeInv, MapInv PROVE UsableMapIsRight
  OBVIOUS
<1>1. UsableMapIsOrdered
  BY DEF MapInv
<1>2. FirmwareKeepsMemory
  <2> SUFFICES ASSUME at = "kernel", NothingTaken PROVE Cardinality(held.free) >= MinFirmwareMemory
    BY DEF FirmwareKeepsMemory, NothingTaken
  <2>1. PICK pages \in SUBSET held.free : Kept(pages) /\ scan.FirmwareMemory = 0
    BY DEF MapInv, EndSteps
  <2>2. IsFiniteSet(held.free)
    <3>1. held.free \subseteq PagesOfType({Conventional})
      BY DEF MapInv, Released, Closed, FreeAtFirst
    <3>2. IsFiniteSet(PagesOfType({Conventional}))
      BY FiniteMemory DEF TypeInv
    <3> QED
      BY <3>1, <3>2, FS_Subset
  <2>3. Cardinality(pages) <= Cardinality(held.free) /\ Cardinality(held.free) \in Nat
    BY <2>2, FS_Subset, FS_CardinalityType
  <2> QED
    BY <2>1, <2>3, SizesAssumption DEF Kept
<1>3. KernelAcceptsMap
  <2> SUFFICES ASSUME at = "kernel" 
               PROVE MemoryMapStatus(scan.usable, 1, MmapEntryMemoryLimit) \in {"Success", "MemoryUnderLimit"}
    BY DEF KernelAcceptsMap
  <2> DEFINE u == scan.usable
             wrong == {i \in DOMAIN u : NotAligned(u[i], 1) \/ u[i].Limit < MmapEntryMemoryLimit}
  <2>1. u # <<>> /\ ScanType
    BY DEF MapInv, EndSteps
  <2>2. u \in Seq([Base : Nat, Limit : Nat])
    BY <2>1 DEF ScanType
  <2>3. DOMAIN u = 1 .. Len(u) /\ Len(u) \in Nat /\ \A i \in DOMAIN u : u[i].Base \in Nat /\ u[i].Limit \in Nat
    <3>1. DOMAIN u = 1 .. Len(u) /\ Len(u) \in Nat /\ \A i \in DOMAIN u : u[i] \in [Base : Nat, Limit : Nat]
      BY <2>2, Elements
    <3> HIDE DEF u
    <3> QED
      BY <3>1
  <2>4. ~Overlapping(u)
    <3>1. SUFFICES ASSUME NEW i \in 2 .. Len(u) PROVE ~(u[i].Base < u[i - 1].Base + u[i - 1].Limit)
      BY DEF Overlapping
    <3>2. i \in DOMAIN u /\ i > 1 /\ i - 1 \in DOMAIN u
      BY <2>3
    <3>3. u[i - 1].Base + u[i - 1].Limit <= u[i].Base
      BY <1>1, <3>2 DEF UsableMapIsOrdered
    <3> QED
      BY <2>3, <3>2, <3>3
  <2>5. wrong = {}
    <3>1. \A i \in DOMAIN u : ~(u[i].Limit < MmapEntryMemoryLimit)
      BY <1>1, <2>3, SizesAssumption DEF UsableMapIsOrdered
    <3>2. \A m \in Nat : m % 1 = 0
      OBVIOUS
    <3>3. \A i \in DOMAIN u : ~NotAligned(u[i], 1)
      BY <2>3, <3>2 DEF NotAligned
    <3> QED
      BY <3>1, <3>3
  <2> QED
    BY <2>1, <2>4, <2>5 DEF MemoryMapStatus
<1> QED
  BY <1>1, <1>2, <1>3 DEF UsableMapIsRight

-----------------------------------------------------------------------------
(***************************************************************************)
(* What is held.  The flags and the pointers determine it, so that the     *)
(* layers before come first.                                               *)
(***************************************************************************)
LEMMA PtrInit == Init => PtrInv
  BY DEF Init, PtrInv, Here, Cleanup, Leaving, Released, Closed, AfterVolume, LoadSteps, EndSteps, AfterInfoPool,
     AfterPages, AfterStack, AfterArea, AfterMapPool, AfterUsablePool, BeforeGop, BeforeFs

\* Steps that neither get any further nor change a pointer.
LEMMA PtrAsBefore ==
  /\ PtrInv /\ UNCHANGED <<ptr, fw>> /\ Here' = Here
  /\ (at \in Cleanup <=> at' \in Cleanup) \/ Here # "map size"
  => PtrInv'
  BY DEF PtrInv, Here

\* Every action keeps the pointers in accord with the step that is reached.
LEMMA PtrStep == TypeInv /\ FlowInv /\ MapInv /\ PtrInv /\ [Next]_vars => PtrInv'
<1> SUFFICES ASSUME TypeInv, FlowInv, MapInv, PtrInv, [Next]_vars PROVE PtrInv'
  OBVIOUS
<1>1. CASE CheckTables
  BY <1>1 DEF CheckTables, Go, PtrInv, Here, Cleanup, Leaving, Released, Closed, AfterVolume, LoadSteps, EndSteps,
     AfterInfoPool, AfterPages, AfterStack, AfterArea, AfterMapPool, AfterUsablePool, BeforeGop, BeforeFs
<1>2. CASE QueryTextMode
  BY <1>2, PtrAsBefore DEF QueryTextMode, Here, Cleanup, Leaving, Released, Closed
<1>3. CASE TextModesQueried
  BY <1>3 DEF TextModesQueried, Go, PtrInv, Here, Cleanup, Leaving, Released, Closed, AfterVolume, LoadSteps,
     EndSteps, AfterInfoPool, AfterPages, AfterStack, AfterArea, AfterMapPool, AfterUsablePool, BeforeGop, BeforeFs
<1>4. CASE LocateGopHandles
  <2>1. at = "gop" /\ at' \in {"gop handle", "acpi"} /\ left' \in {left, at} /\ (at' = "exit" => left' = at) /\ UNCHANGED <<ptr, fw>>
    BY <1>4 DEF LocateGopHandles, Go
  <2> QED
    BY <2>1 DEF PtrInv, Here, Cleanup, Leaving, Released, Closed, AfterVolume, LoadSteps, EndSteps, AfterInfoPool,
       AfterPages, AfterStack, AfterArea, AfterMapPool, AfterUsablePool, BeforeGop, BeforeFs
<1>5. CASE OpenGop
  <2>1. index \in Nat
    BY DEF MapInv
  <2> QED
    BY <1>5, <2>1 DEF OpenGop, Go, PtrInv, Here, Cleanup, Leaving, Released, Closed, AfterVolume, LoadSteps,
       EndSteps, AfterInfoPool, AfterPages, AfterStack, AfterArea, AfterMapPool, AfterUsablePool, BeforeGop, BeforeFs
<1>6. CASE NoGop
  BY <1>6 DEF NoGop, Go, PtrInv, Here, Cleanup, Leaving, Released, Closed, AfterVolume, LoadSteps, EndSteps,
     AfterInfoPool, AfterPages, AfterStack, AfterArea, AfterMapPool, AfterUsablePool, BeforeGop, BeforeFs
<1>7. CASE OpenEdid
  BY <1>7 DEF OpenEdid, Go, PtrInv, Here, Cleanup, Leaving, Released, Closed, AfterVolume, LoadSteps, EndSteps,
     AfterInfoPool, AfterPages, AfterStack, AfterArea, AfterMapPool, AfterUsablePool, BeforeGop, BeforeFs
<1>8. CASE QueryGraphicsMode
  BY <1>8, PtrAsBefore DEF QueryGraphicsMode, Here, Cleanup, Leaving, Released, Closed
<1>9. CASE GraphicsModesQueried
  BY <1>9 DEF GraphicsModesQueried, Go, PtrInv, Here, Cleanup, Leaving, Released, Closed, AfterVolume, LoadSteps,
     EndSteps, AfterInfoPool, AfterPages, AfterStack, AfterArea, AfterMapPool, AfterUsablePool, BeforeGop, BeforeFs
<1>10. CASE ScanConfigurationTable
  BY <1>10, PtrAsBefore DEF ScanConfigurationTable, Here, Cleanup, Leaving, Released, Closed
<1>11. CASE LocateFsHandles
  <2>1. at = "acpi" /\ at' \in {"volume", "exit"} /\ left' \in {left, at} /\ (at' = "exit" => left' = at) /\ UNCHANGED <<ptr, fw>>
    BY <1>11 DEF LocateFsHandles, Go, GiveUp
  <2> QED
    BY <2>1 DEF PtrInv, Here, Cleanup, Leaving, Released, Closed, AfterVolume, LoadSteps, EndSteps, AfterInfoPool,
       AfterPages, AfterStack, AfterArea, AfterMapPool, AfterUsablePool, BeforeGop, BeforeFs
<1>12. CASE OpenVolume
  <2> DEFINE volume == fw.volumes[index]
             opened == IF volume \in {"other", "kernel"} THEN index ELSE 0
             protocol == IF volume = "closed" THEN 0 ELSE index
  <2>1. /\ at = "volume" /\ fw' = fw
        /\ ptr' = [ptr EXCEPT !.SimpleFs = protocol, !.File = opened]
        /\ at' = IF volume = "kernel" THEN "info size" ELSE at
    BY <1>12 DEF OpenVolume, Go
  <2>2. index \in Nat /\ index \in DOMAIN fw.volumes
    <3>1. index \in Nat \ {0} /\ index <= Len(fw.volumes)
      BY <1>12 DEF OpenVolume, MapInv
    <3>2. fw.volumes \in Seq({"closed", "unreadable", "other", "kernel"})
      BY FirmwaresAssumption DEF TypeInv, Firmware
    <3> QED
      BY <3>1, <3>2
  <2>3. opened \in Nat /\ protocol \in Nat
    BY <2>2
  <2>4. volume = "kernel" => opened = index /\ protocol = index
    OBVIOUS
  <2> HIDE DEF opened, protocol
  <2> QED
    BY <2>1, <2>2, <2>3, <2>4 DEF PtrInv, Here, Cleanup, Leaving, Released, Closed, AfterVolume, LoadSteps,
       EndSteps, AfterInfoPool, AfterPages, AfterStack, AfterArea, AfterMapPool, AfterUsablePool, BeforeGop, BeforeFs
<1>13. CASE KernelNotFound
  BY <1>13, PtrAsBefore DEF KernelNotFound, GiveUp, Here, Cleanup, Leaving, Released, Closed
<1>14. CASE GetInfoSize
  BY <1>14 DEF GetInfoSize, FailsAnyhow, GiveUp, Go, Rest, PtrInv, Here, Cleanup, Leaving, Released, Closed, AfterVolume,
     LoadSteps, EndSteps, AfterInfoPool, AfterPages, AfterStack, AfterArea, AfterMapPool, AfterUsablePool,
     BeforeGop, BeforeFs
<1>15. CASE AllocatePool("info pool", "KernelInfo", "info")
  BY <1>15 DEF AllocatePool, Fails, GiveUp, Go, Rest, PtrInv, Here, Cleanup, Leaving, Released, Closed,
     AfterVolume, LoadSteps, EndSteps, AfterInfoPool, AfterPages, AfterStack, AfterArea, AfterMapPool,
     AfterUsablePool, BeforeGop, BeforeFs
<1>16. CASE GetInfo
  BY <1>16 DEF GetInfo, FailsAnyhow, GiveUp, Go, Rest, PtrInv, Here, Cleanup, Leaving, Released, Closed,
     AfterVolume, LoadSteps, EndSteps, AfterInfoPool, AfterPages, AfterStack, AfterArea, AfterMapPool,
     AfterUsablePool, BeforeGop, BeforeFs
<1>17. CASE AllocatePages("kernel pages", "Kernel", KernelSize, "HasAllocatedKernel", "read")
  BY <1>17 DEF AllocatePages, AtAddressZero, Flagged, Fails, GiveUp, Go, Rest, PtrInv, Here, Cleanup, Leaving, Released, Closed,
     AfterVolume, LoadSteps, EndSteps, AfterInfoPool, AfterPages, AfterStack, AfterArea, AfterMapPool,
     AfterUsablePool, BeforeGop, BeforeFs
<1>18. CASE ReadKernel
  BY <1>18 DEF ReadKernel, Fails, GiveUp, Go, Rest, PtrInv, Here, Cleanup, Leaving, Released, Closed, AfterVolume,
     LoadSteps, EndSteps, AfterInfoPool, AfterPages, AfterStack, AfterArea, AfterMapPool, AfterUsablePool,
     BeforeGop, BeforeFs
<1>19. CASE AllocatePages("stack", "KernelStack", 1, "HasAllocatedStack", "headers")
  BY <1>19 DEF AllocatePages, AtAddressZero, Flagged, Fails, GiveUp, Go, Rest, PtrInv, Here, Cleanup, Leaving, Released, Closed,
     AfterVolume, LoadSteps, EndSteps, AfterInfoPool, AfterPages, AfterStack, AfterArea, AfterMapPool,
     AfterUsablePool, BeforeGop, BeforeFs
<1>20. CASE CheckHeaders
  BY <1>20 DEF CheckHeaders, Fails, FailsSilently, GiveUp, Go, Rest, PtrInv, Here, Cleanup, Leaving, Released,
     Closed, AfterVolume, LoadSteps, EndSteps, AfterInfoPool, AfterPages, AfterStack, AfterArea, AfterMapPool,
     AfterUsablePool, BeforeGop, BeforeFs
<1>21. CASE AllocatePages("area", "KernelArea", 1, "HasAllocatedKernelArea", "relocate")
  BY <1>21 DEF AllocatePages, AtAddressZero, Flagged, Fails, GiveUp, Go, Rest, PtrInv, Here, Cleanup, Leaving, Released, Closed,
     AfterVolume, LoadSteps, EndSteps, AfterInfoPool, AfterPages, AfterStack, AfterArea, AfterMapPool,
     AfterUsablePool, BeforeGop, BeforeFs
<1>22. CASE CopyAndRelocate
  BY <1>22 DEF CopyAndRelocate, FailsSilently, GiveUp, Go, Rest, PtrInv, Here, Cleanup, Leaving, Released, Closed,
     AfterVolume, LoadSteps, EndSteps, AfterInfoPool, AfterPages, AfterStack, AfterArea, AfterMapPool,
     AfterUsablePool, BeforeGop, BeforeFs
<1>23. CASE GetMemoryMapSize
  BY <1>23 DEF GetMemoryMapSize, GiveUp, Go, Rest, PtrInv, Here, Cleanup, Leaving, Released, Closed, AfterVolume,
     LoadSteps, EndSteps, AfterInfoPool, AfterPages, AfterStack, AfterArea, AfterMapPool, AfterUsablePool,
     BeforeGop, BeforeFs
<1>24. CASE AllocatePool("map pool", "Mmap", "usable pool")
  BY <1>24 DEF AllocatePool, Fails, GiveUp, Go, Rest, PtrInv, Here, Cleanup, Leaving, Released, Closed,
     AfterVolume, LoadSteps, EndSteps, AfterInfoPool, AfterPages, AfterStack, AfterArea, AfterMapPool,
     AfterUsablePool, BeforeGop, BeforeFs
<1>25. CASE AllocatePool("usable pool", "UsableMmap", "map")
  BY <1>25 DEF AllocatePool, Fails, GiveUp, Go, Rest, PtrInv, Here, Cleanup, Leaving, Released, Closed,
     AfterVolume, LoadSteps, EndSteps, AfterInfoPool, AfterPages, AfterStack, AfterArea, AfterMapPool,
     AfterUsablePool, BeforeGop, BeforeFs
<1>26. CASE GetMemoryMap
  BY <1>26 DEF GetMemoryMap, Fails, GiveUp, Go, Rest, PtrInv, Here, Cleanup, Leaving, Released, Closed,
     AfterVolume, LoadSteps, EndSteps, AfterInfoPool, AfterPages, AfterStack, AfterArea, AfterMapPool,
     AfterUsablePool, BeforeGop, BeforeFs
<1>27. CASE NextThreshold
  BY <1>27, PtrAsBefore DEF NextThreshold, Here, Cleanup, Leaving, Released, Closed
<1>28. CASE ComparePosition
  BY <1>28, PtrAsBefore DEF ComparePosition, Here, Cleanup, Leaving, Released, Closed
<1>29. CASE MapSorted
  BY <1>29 DEF MapSorted, Go, PtrInv, Here, Cleanup, Leaving, Released, Closed, AfterVolume, LoadSteps, EndSteps,
     AfterInfoPool, AfterPages, AfterStack, AfterArea, AfterMapPool, AfterUsablePool, BeforeGop, BeforeFs
<1>30. CASE ProcessEntry
  BY <1>30, PtrAsBefore DEF ProcessEntry, Here, Cleanup, Leaving, Released, Closed
<1>31. CASE OutOfResources
  BY <1>31, PtrAsBefore DEF OutOfResources, StatusWithoutMemory, GiveUp, Rest, Here, Cleanup, Leaving, Released,
     Closed
<1>32. CASE TrimMap
  BY <1>32 DEF TrimMap, Go, PtrInv, Here, Cleanup, Leaving, Released, Closed, AfterVolume, LoadSteps, EndSteps,
     AfterInfoPool, AfterPages, AfterStack, AfterArea, AfterMapPool, AfterUsablePool, BeforeGop, BeforeFs
<1>33. CASE SetGraphicsMode
  BY <1>33 DEF SetGraphicsMode, Go, PtrInv, Here, Cleanup, Leaving, Released, Closed, AfterVolume, LoadSteps,
     EndSteps, AfterInfoPool, AfterPages, AfterStack, AfterArea, AfterMapPool, AfterUsablePool, BeforeGop, BeforeFs
<1>34. CASE KernelReturns
  BY <1>34, PtrAsBefore DEF KernelReturns, GiveUp, Rest, Here, Cleanup, Leaving, Released, Closed
<1>35. CASE PressKey
  BY <1>35, PtrAsBefore DEF PressKey, Go, Rest, Here, Cleanup, Leaving, Released, Closed
<1>36. CASE FreeAllPages
  BY <1>36, PtrAsBefore DEF FreeAllPages, Go, Here, Cleanup, Leaving, Released, Closed
<1>37. CASE CloseFiles
  BY <1>37, PtrAsBefore DEF CloseFiles, Go, Here, Cleanup, Leaving, Released, Closed
<1>38. CASE CloseGop
  BY <1>38, PtrAsBefore DEF CloseGop, Go, Here, Cleanup, Leaving, Released, Closed
<1>39. CASE FreePools
  BY <1>39, PtrAsBefore DEF FreePools, Go, Here, Cleanup, Leaving, Released, Closed
<1>40. CASE UNCHANGED vars
  BY <1>40, PtrAsBefore DEF vars, Here
<1> QED
  BY <1>1, <1>2, <1>3, <1>4, <1>5, <1>6, <1>7, <1>8, <1>9, <1>10, <1>11, <1>12, <1>13, <1>14, <1>15, <1>16, <1>17,
     <1>18, <1>19, <1>20, <1>21, <1>22, <1>23, <1>24, <1>25, <1>26, <1>27, <1>28, <1>29, <1>30, <1>31, <1>32,
     <1>33, <1>34, <1>35, <1>36, <1>37, <1>38, <1>39, <1>40 DEF Next, LoadKernel

LEMMA PoolInit == Init => PoolInv
  BY DEF Init, PoolInv, Is, Closed

\* A pool is held as long as its flag is set or its pointer is not NULL.
LEMMA PoolStep == TypeInv /\ FlowInv /\ MapInv /\ FlagInv /\ PtrInv /\ PoolInv /\ [Next]_vars => PoolInv'
<1> SUFFICES ASSUME TypeInv, FlowInv, MapInv, FlagInv, PtrInv, PoolInv, [Next]_vars PROVE PoolInv'
  OBVIOUS
<1>0. /\ DOMAIN held = {"pools", "protocols", "files", "free", "pages", "sse"}
      /\ ptr \in [Gop : Nat, SimpleFs : Nat, File : Nat, KernelInfo : {"NULL", "pool"},
                  Mmap : {"NULL", "stack", "pool"}, UsableMmap : {"NULL", "pool"}]
  BY DEF TypeInv, PtrInv
<1>1. CASE CheckTables
  <2>1. flags \subseteq {"SupportsConIn", "SupportsConOut"} /\ flags' \subseteq {"SupportsConIn", "SupportsConOut"}
    BY <1>1 DEF CheckTables, FlagInv, Here, BeforeGop, Cleanup, Leaving, Released, Closed
  <2>2. at = "tables" /\ at' \in {"text", "returned"} /\ held'.pools = held.pools /\ ptr' = ptr
    BY <1>1, <1>0 DEF CheckTables, Go
  <2> QED
    BY <2>1, <2>2 DEF PoolInv, Is, Closed
<1>2. CASE QueryTextMode
  BY <1>2, <1>0 DEF QueryTextMode, PoolInv, Is, Closed
<1>3. CASE TextModesQueried
  BY <1>3, <1>0 DEF TextModesQueried, Go, PoolInv, Is, Closed
<1>4. CASE LocateGopHandles
  <2>1. at = "gop" /\ at' \in {"gop handle", "acpi"} /\ ptr' = ptr
    BY <1>4 DEF LocateGopHandles, Go
  <2>2. CASE fw.gop # <<>>
    <3>1. held'.pools = held.pools \cup {"GopHandles"} /\ flags' = flags \cup {"HasOpenedGopHandles"}
      BY <1>4, <1>0, <2>2 DEF LocateGopHandles
    <3> QED
      BY <2>1, <3>1 DEF PoolInv, Is, Closed
  <2>3. CASE fw.gop = <<>>
    <3>1. held'.pools = held.pools /\ flags' = flags
      BY <1>4, <2>3 DEF LocateGopHandles
    <3> QED
      BY <2>1, <3>1 DEF PoolInv, Is, Closed
  <2> QED
    BY <2>2, <2>3
<1>5. CASE OpenGop
  <2>1. /\ at = "gop handle" /\ at' \in {"gop handle", "edid"} /\ held'.pools = held.pools
        /\ flags' \in {flags, flags \cup {"HasOpenedGopProtocols", "SupportsGop"}}
        /\ ptr' = [ptr EXCEPT !.Gop = index]
    BY <1>5, <1>0 DEF OpenGop, Go
  <2>2. ptr'.KernelInfo = ptr.KernelInfo /\ ptr'.Mmap = ptr.Mmap /\ ptr'.UsableMmap = ptr.UsableMmap
    BY <1>0, <2>1
  <2> QED
    BY <2>1, <2>2 DEF PoolInv, Is, Closed
<1>6. CASE NoGop
  BY <1>6, <1>0 DEF NoGop, Go, PoolInv, Is, Closed
<1>7. CASE OpenEdid
  BY <1>7, <1>0 DEF OpenEdid, Go, PoolInv, Is, Closed
<1>8. CASE QueryGraphicsMode
  BY <1>8, <1>0 DEF QueryGraphicsMode, PoolInv, Is, Closed
<1>9. CASE GraphicsModesQueried
  BY <1>9, <1>0 DEF GraphicsModesQueried, Go, PoolInv, Is, Closed
<1>10. CASE ScanConfigurationTable
  BY <1>10, <1>0 DEF ScanConfigurationTable, PoolInv, Is, Closed
<1>11. CASE LocateFsHandles
  <2>1. at = "acpi" /\ at' \in {"volume", "exit"} /\ ptr' = ptr
    BY <1>11 DEF LocateFsHandles, Go, GiveUp
  <2>2. CASE fw.volumes # <<>>
    <3>1. held'.pools = held.pools \cup {"FsHandles"} /\ flags' = flags \cup {"HasOpenedFsHandles"}
      BY <1>11, <1>0, <2>2 DEF LocateFsHandles
    <3> QED
      BY <2>1, <3>1 DEF PoolInv, Is, Closed
  <2>3. CASE fw.volumes = <<>>
    <3>1. held'.pools = held.pools /\ flags' = flags
      BY <1>11, <2>3 DEF LocateFsHandles
    <3> QED
      BY <2>1, <3>1 DEF PoolInv, Is, Closed
  <2> QED
    BY <2>2, <2>3
<1>12. CASE OpenVolume
  BY <1>12, <1>0 DEF OpenVolume, FlagsAfterVolume, NextHandle, OpenAfterVolume, Go, PoolInv, Is, Closed
<1>13. CASE KernelNotFound
  BY <1>13, <1>0 DEF KernelNotFound, GiveUp, PoolInv, Is, Closed
<1>14. CASE GetInfoSize
  BY <1>14, <1>0 DEF GetInfoSize, FailsAnyhow, GiveUp, Go, Rest, PoolInv, Is, Closed
<1>15. CASE AllocatePool("info pool", "KernelInfo", "info")
  <2>1. at = "info pool" /\ at' \in {"info", "exit"} /\ flags' = flags
    BY <1>15 DEF AllocatePool, Fails, Go, GiveUp
  <2>2. CASE Fails("info pool")
    BY <2>1, <2>2 DEF Fails, PoolInv, Is, Closed
  <2>3. CASE ~Fails("info pool")
    <3>1. held'.pools = held.pools \cup {"KernelInfo"} /\ ptr' = [ptr EXCEPT !.KernelInfo = "pool"]
      BY <1>15, <1>0, <2>3 DEF AllocatePool
    <3> QED
      BY <1>0, <2>1, <3>1 DEF PoolInv, Is, Closed
  <2> QED
    BY <2>2, <2>3
<1>16. CASE GetInfo
  BY <1>16, <1>0 DEF GetInfo, FailsAnyhow, GiveUp, Go, Rest, PoolInv, Is, Closed
<1>17. CASE AllocatePages("kernel pages", "Kernel", KernelSize, "HasAllocatedKernel", "read")
  BY <1>17, <1>0 DEF AllocatePages, AtAddressZero, Flagged, Fails, GiveUp, Go, Rest, PoolInv, Is, Closed
<1>18. CASE ReadKernel
  BY <1>18, <1>0 DEF ReadKernel, Fails, GiveUp, Go, Rest, PoolInv, Is, Closed
<1>19. CASE AllocatePages("stack", "KernelStack", 1, "HasAllocatedStack", "headers")
  BY <1>19, <1>0 DEF AllocatePages, AtAddressZero, Flagged, Fails, GiveUp, Go, Rest, PoolInv, Is, Closed
<1>20. CASE CheckHeaders
  BY <1>20, <1>0 DEF CheckHeaders, Fails, FailsSilently, GiveUp, Go, Rest, PoolInv, Is, Closed
<1>21. CASE AllocatePages("area", "KernelArea", 1, "HasAllocatedKernelArea", "relocate")
  BY <1>21, <1>0 DEF AllocatePages, AtAddressZero, Flagged, Fails, GiveUp, Go, Rest, PoolInv, Is, Closed
<1>22. CASE CopyAndRelocate
  BY <1>22, <1>0 DEF CopyAndRelocate, FailsSilently, GiveUp, Go, Rest, PoolInv, Is, Closed
<1>23. CASE GetMemoryMapSize
  <2>1. /\ at = "map size" /\ at' \in {"map pool", "exit"} /\ flags' = flags /\ held' = held
        /\ ptr' = [ptr EXCEPT !.Mmap = "stack"]
    BY <1>23 DEF GetMemoryMapSize, Go, GiveUp
  <2>2. ptr.Mmap # "pool"
    BY <2>1 DEF PtrInv, Here, Cleanup, Leaving, Released, Closed, AfterMapPool
  <2> QED
    BY <1>0, <2>1, <2>2 DEF PoolInv, Is, Closed
<1>24. CASE AllocatePool("map pool", "Mmap", "usable pool")
  <2>1. at = "map pool" /\ at' \in {"usable pool", "exit"} /\ flags' = flags
    BY <1>24 DEF AllocatePool, Fails, Go, GiveUp
  <2>2. CASE Fails("map pool")
    BY <2>1, <2>2 DEF Fails, PoolInv, Is, Closed
  <2>3. CASE ~Fails("map pool")
    <3>1. held'.pools = held.pools \cup {"Mmap"} /\ ptr' = [ptr EXCEPT !.Mmap = "pool"]
      BY <1>24, <1>0, <2>3 DEF AllocatePool
    <3> QED
      BY <1>0, <2>1, <3>1 DEF PoolInv, Is, Closed
  <2> QED
    BY <2>2, <2>3
<1>25. CASE AllocatePool("usable pool", "UsableMmap", "map")
  <2>1. at = "usable pool" /\ at' \in {"map", "exit"} /\ flags' = flags
    BY <1>25 DEF AllocatePool, Fails, Go, GiveUp
  <2>2. CASE Fails("usable pool")
    BY <2>1, <2>2 DEF Fails, PoolInv, Is, Closed
  <2>3. CASE ~Fails("usable pool")
    <3>1. held'.pools = held.pools \cup {"UsableMmap"} /\ ptr' = [ptr EXCEPT !.UsableMmap = "pool"]
      BY <1>25, <1>0, <2>3 DEF AllocatePool
    <3> QED
      BY <1>0, <2>1, <3>1 DEF PoolInv, Is, Closed
  <2> QED
    BY <2>2, <2>3
<1>26. CASE GetMemoryMap
  BY <1>26, <1>0 DEF GetMemoryMap, Fails, GiveUp, Go, Rest, PoolInv, Is, Closed
<1>27. CASE NextThreshold
  BY <1>27, <1>0 DEF NextThreshold, PoolInv, Is, Closed
<1>28. CASE ComparePosition
  BY <1>28, <1>0 DEF ComparePosition, PoolInv, Is, Closed
<1>29. CASE MapSorted
  BY <1>29, <1>0 DEF MapSorted, Go, PoolInv, Is, Closed
<1>30. CASE ProcessEntry
  BY <1>30, <1>0 DEF ProcessEntry, PoolInv, Is, Closed
<1>31. CASE OutOfResources
  BY <1>31, <1>0 DEF OutOfResources, StatusWithoutMemory, GiveUp, Rest, PoolInv, Is, Closed
<1>32. CASE TrimMap
  BY <1>32, <1>0 DEF TrimMap, Go, PoolInv, Is, Closed
<1>33. CASE SetGraphicsMode
  BY <1>33, <1>0 DEF SetGraphicsMode, Go, PoolInv, Is, Closed
<1>34. CASE KernelReturns
  BY <1>34, <1>0 DEF KernelReturns, GiveUp, Rest, PoolInv, Is, Closed
<1>35. CASE PressKey
  BY <1>35, <1>0 DEF PressKey, Go, Rest, PoolInv, Is, Closed
<1>36. CASE FreeAllPages
  BY <1>36, <1>0 DEF FreeAllPages, Go, PoolInv, Is, Closed
<1>37. CASE CloseFiles
  <2>1. at = "close files" /\ at' = "close gop" /\ UNCHANGED <<flags, ptr>>
    BY <1>37 DEF CloseFiles, Go
  <2>2. held'.pools = held.pools \ {"FsHandles"}
    <3>1. CASE Is("HasOpenedFsHandles")
      BY <1>37, <1>0, <3>1 DEF CloseFiles
    <3>2. CASE ~Is("HasOpenedFsHandles")
      BY <1>37, <3>2 DEF CloseFiles, PoolInv
    <3> QED
      BY <3>1, <3>2
  <2> QED
    BY <2>1, <2>2 DEF PoolInv, Is, Closed
<1>38. CASE CloseGop
  <2>1. at = "close gop" /\ at' = "free pools" /\ UNCHANGED <<flags, ptr>>
    BY <1>38 DEF CloseGop, Go
  <2>2. held'.pools = held.pools \ {"GopHandles"}
    <3>1. CASE Is("HasOpenedGopHandles")
      BY <1>38, <1>0, <3>1 DEF CloseGop
    <3>2. CASE ~Is("HasOpenedGopHandles")
      BY <1>38, <3>2 DEF CloseGop, PoolInv
    <3> QED
      BY <3>1, <3>2
  <2> QED
    BY <2>1, <2>2 DEF PoolInv, Is, Closed
<1>39. CASE FreePools
  BY <1>39, <1>0 DEF FreePools, Go, PoolInv, Is, Closed
<1>40. CASE UNCHANGED vars
  BY <1>40, <1>0 DEF vars, PoolInv, Is, Closed
<1> QED
  BY <1>1, <1>2, <1>3, <1>4, <1>5, <1>6, <1>7, <1>8, <1>9, <1>10, <1>11, <1>12, <1>13, <1>14, <1>15, <1>16, <1>17,
     <1>18, <1>19, <1>20, <1>21, <1>22, <1>23, <1>24, <1>25, <1>26, <1>27, <1>28, <1>29, <1>30, <1>31, <1>32,
     <1>33, <1>34, <1>35, <1>36, <1>37, <1>38, <1>39, <1>40 DEF Next, LoadKernel

LEMMA ProtocolInit == Init => held.protocols = ProtocolsHeld
  BY DEF Init, ProtocolsHeld, Is, Closed

\* A protocol is open as long as its flag is set, with the handle that the pointer names.
LEMMA ProtocolStep ==
  TypeInv /\ FlowInv /\ MapInv /\ FlagInv /\ PtrInv /\ held.protocols = ProtocolsHeld /\ [Next]_vars
  => held'.protocols = ProtocolsHeld'
<1> SUFFICES ASSUME TypeInv, FlowInv, MapInv, FlagInv, PtrInv, held.protocols = ProtocolsHeld, [Next]_vars
             PROVE  held'.protocols = ProtocolsHeld'
  OBVIOUS
<1>0. /\ DOMAIN held = {"pools", "protocols", "files", "free", "pages", "sse"}
      /\ ptr \in [Gop : Nat, SimpleFs : Nat, File : Nat, KernelInfo : {"NULL", "pool"},
                  Mmap : {"NULL", "stack", "pool"}, UsableMmap : {"NULL", "pool"}]
  BY DEF TypeInv, PtrInv
<1>1. CASE CheckTables
  <2>1. flags \subseteq {"SupportsConIn", "SupportsConOut"} /\ flags' \subseteq {"SupportsConIn", "SupportsConOut"}
    BY <1>1 DEF CheckTables, FlagInv, Here, BeforeGop, Cleanup, Leaving, Released, Closed
  <2>2. at = "tables" /\ at' \in {"text", "returned"} /\ held'.protocols = held.protocols /\ ptr' = ptr
    BY <1>1, <1>0 DEF CheckTables, Go
  <2> QED
    BY <2>1, <2>2 DEF ProtocolsHeld, Is, Closed
<1>2. CASE QueryTextMode
  BY <1>2, <1>0 DEF QueryTextMode, ProtocolsHeld, Is, Closed
<1>3. CASE TextModesQueried
  BY <1>3, <1>0 DEF TextModesQueried, Go, ProtocolsHeld, Is, Closed
<1>4. CASE LocateGopHandles
  BY <1>4, <1>0 DEF LocateGopHandles, Go, ProtocolsHeld, Is, Closed
<1>5. CASE OpenGop
  <2>1. at = "gop handle" /\ ptr' = [ptr EXCEPT !.Gop = index] /\ index \in Nat
    BY <1>5 DEF OpenGop, MapInv
  <2>2. ptr'.Gop = index /\ ptr'.SimpleFs = ptr.SimpleFs
    BY <1>0, <2>1
  <2>3. ~Is("HasOpenedGopProtocols") /\ ~Is("HasOpenedEdidProtocols") /\ ~Is("HasOpenedFsProtocols")
    BY <2>1 DEF FlagInv, Here, Is, Cleanup, Leaving, Released, Closed, AfterVolume, LoadSteps, EndSteps
  <2>4. held.protocols = {}
    BY <2>3 DEF ProtocolsHeld
  <2>5. CASE fw.gop[index]
    <3>1. flags' = flags \cup {"HasOpenedGopProtocols", "SupportsGop"} /\ at' = "edid"
      BY <1>5, <2>5 DEF OpenGop, Go
    <3>2. held' = [held EXCEPT !.protocols = @ \cup {<<"Gop", index>>}]
      BY <1>5, <2>5 DEF OpenGop
    <3>3. held'.protocols = {<<"Gop", index>>}
      BY <1>0, <2>4, <3>2
    <3>4. ProtocolsHeld' = ({<<"Gop", index>>} \cup {}) \cup {}
      <4>1. Is("HasOpenedGopProtocols")' /\ ~Is("HasOpenedEdidProtocols")' /\ ~Is("HasOpenedFsProtocols")'
        BY <2>3, <3>1 DEF Is
      <4> QED
        BY <2>2, <3>1, <4>1 DEF ProtocolsHeld
    <3> QED
      BY <3>3, <3>4
  <2>6. CASE ~fw.gop[index]
    <3>1. held'.protocols = {} /\ flags' = flags
      BY <1>5, <2>4, <2>6 DEF OpenGop
    <3> QED
      BY <2>3, <3>1 DEF ProtocolsHeld, Is, Closed
  <2> QED
    BY <2>5, <2>6
<1>6. CASE NoGop
  BY <1>6, <1>0 DEF NoGop, Go, ProtocolsHeld, Is, Closed
<1>7. CASE OpenEdid
  BY <1>7, <1>0 DEF OpenEdid, Go, ProtocolsHeld, Is, Closed
<1>8. CASE QueryGraphicsMode
  BY <1>8, <1>0 DEF QueryGraphicsMode, ProtocolsHeld, Is, Closed
<1>9. CASE GraphicsModesQueried
  BY <1>9, <1>0 DEF GraphicsModesQueried, Go, ProtocolsHeld, Is, Closed
<1>10. CASE ScanConfigurationTable
  BY <1>10, <1>0 DEF ScanConfigurationTable, ProtocolsHeld, Is, Closed
<1>11. CASE LocateFsHandles
  BY <1>11, <1>0 DEF LocateFsHandles, Go, GiveUp, ProtocolsHeld, Is, Closed
<1>12. CASE OpenVolume
  <2> DEFINE volume == fw.volumes[index]
             opened == IF volume \in {"other", "kernel"} THEN index ELSE 0
             protocol == IF volume = "closed" THEN 0 ELSE index
  <2>1. /\ at = "volume" /\ at' \in {"volume", "info size"}
        /\ ptr' = [ptr EXCEPT !.SimpleFs = protocol, !.File = opened]
        /\ flags' = IF volume = "kernel" THEN flags \cup {"HasOpenedFsProtocols"}
                    ELSE flags \ {"HasOpenedFsProtocols"}
        /\ held'.protocols = held.protocols \cup (IF volume = "kernel" THEN {<<"Fs", index>>} ELSE {})
    BY <1>12, <1>0 DEF OpenVolume, Go, FlagsAfterVolume, OpenAfterVolume
  <2>2. ~Is("HasOpenedFsProtocols")
    BY <2>1 DEF FlagInv, Here, Is, Cleanup, Leaving, Released, Closed, AfterVolume, LoadSteps, EndSteps
  <2>3. ptr'.Gop = ptr.Gop /\ ptr'.SimpleFs = protocol /\ (volume = "kernel" => protocol = index)
    BY <1>0, <2>1
  <2> HIDE DEF protocol, opened, volume
  <2> QED
    BY <2>1, <2>2, <2>3 DEF ProtocolsHeld, Is, Closed
<1>13. CASE KernelNotFound
  BY <1>13, <1>0 DEF KernelNotFound, GiveUp, ProtocolsHeld, Is, Closed
<1>14. CASE GetInfoSize
  BY <1>14, <1>0 DEF GetInfoSize, FailsAnyhow, GiveUp, Go, Rest, ProtocolsHeld, Is, Closed
<1>15. CASE AllocatePool("info pool", "KernelInfo", "info")
  BY <1>15, <1>0 DEF AllocatePool, Fails, GiveUp, Go, Rest, ProtocolsHeld, Is, Closed
<1>16. CASE GetInfo
  BY <1>16, <1>0 DEF GetInfo, FailsAnyhow, GiveUp, Go, Rest, ProtocolsHeld, Is, Closed
<1>17. CASE AllocatePages("kernel pages", "Kernel", KernelSize, "HasAllocatedKernel", "read")
  BY <1>17, <1>0 DEF AllocatePages, AtAddressZero, Flagged, Fails, GiveUp, Go, Rest, ProtocolsHeld, Is, Closed
<1>18. CASE ReadKernel
  BY <1>18, <1>0 DEF ReadKernel, Fails, GiveUp, Go, Rest, ProtocolsHeld, Is, Closed
<1>19. CASE AllocatePages("stack", "KernelStack", 1, "HasAllocatedStack", "headers")
  BY <1>19, <1>0 DEF AllocatePages, AtAddressZero, Flagged, Fails, GiveUp, Go, Rest, ProtocolsHeld, Is, Closed
<1>20. CASE CheckHeaders
  BY <1>20, <1>0 DEF CheckHeaders, Fails, FailsSilently, GiveUp, Go, Rest, ProtocolsHeld, Is, Closed
<1>21. CASE AllocatePages("area", "KernelArea", 1, "HasAllocatedKernelArea", "relocate")
  BY <1>21, <1>0 DEF AllocatePages, AtAddressZero, Flagged, Fails, GiveUp, Go, Rest, ProtocolsHeld, Is, Closed
<1>22. CASE CopyAndRelocate
  BY <1>22, <1>0 DEF CopyAndRelocate, FailsSilently, GiveUp, Go, Rest, ProtocolsHeld, Is, Closed
<1>23. CASE GetMemoryMapSize
  BY <1>23, <1>0 DEF GetMemoryMapSize, GiveUp, Go, Rest, ProtocolsHeld, Is, Closed
<1>24. CASE AllocatePool("map pool", "Mmap", "usable pool")
  BY <1>24, <1>0 DEF AllocatePool, Fails, GiveUp, Go, Rest, ProtocolsHeld, Is, Closed
<1>25. CASE AllocatePool("usable pool", "UsableMmap", "map")
  BY <1>25, <1>0 DEF AllocatePool, Fails, GiveUp, Go, Rest, ProtocolsHeld, Is, Closed
<1>26. CASE GetMemoryMap
  BY <1>26, <1>0 DEF GetMemoryMap, Fails, GiveUp, Go, Rest, ProtocolsHeld, Is, Closed
<1>27. CASE NextThreshold
  BY <1>27, <1>0 DEF NextThreshold, ProtocolsHeld, Is, Closed
<1>28. CASE ComparePosition
  BY <1>28, <1>0 DEF ComparePosition, ProtocolsHeld, Is, Closed
<1>29. CASE MapSorted
  BY <1>29, <1>0 DEF MapSorted, Go, ProtocolsHeld, Is, Closed
<1>30. CASE ProcessEntry
  BY <1>30, <1>0 DEF ProcessEntry, ProtocolsHeld, Is, Closed
<1>31. CASE OutOfResources
  BY <1>31, <1>0 DEF OutOfResources, StatusWithoutMemory, GiveUp, Rest, ProtocolsHeld, Is, Closed
<1>32. CASE TrimMap
  BY <1>32, <1>0 DEF TrimMap, Go, ProtocolsHeld, Is, Closed
<1>33. CASE SetGraphicsMode
  BY <1>33, <1>0 DEF SetGraphicsMode, Go, ProtocolsHeld, Is, Closed
<1>34. CASE KernelReturns
  BY <1>34, <1>0 DEF KernelReturns, GiveUp, Rest, ProtocolsHeld, Is, Closed
<1>35. CASE PressKey
  BY <1>35, <1>0 DEF PressKey, Go, Rest, ProtocolsHeld, Is, Closed
<1>36. CASE FreeAllPages
  BY <1>36, <1>0 DEF FreeAllPages, Go, ProtocolsHeld, Is, Closed
<1>37. CASE CloseFiles
  <2> DEFINE gop == IF Is("HasOpenedGopProtocols") THEN {<<"Gop", ptr.Gop>>} ELSE {}
             edid == IF Is("HasOpenedEdidProtocols") THEN {<<"Edid", ptr.Gop>>} ELSE {}
             fs == IF Is("HasOpenedFsProtocols") THEN {<<"Fs", ptr.SimpleFs>>} ELSE {}
  <2>1. at = "close files" /\ at' = "close gop" /\ UNCHANGED <<flags, ptr>>
    BY <1>37 DEF CloseFiles, Go
  <2>2. Is("HasOpenedFsProtocols") => Is("HasOpenedFsHandles")
    BY DEF FlagInv
  <2>3. held'.protocols = held.protocols \ fs
    <3>1. CASE Is("HasOpenedFsHandles")
      BY <1>37, <1>0, <3>1 DEF CloseFiles
    <3>2. CASE ~Is("HasOpenedFsHandles")
      BY <1>37, <2>2, <3>2 DEF CloseFiles
    <3> QED
      BY <3>1, <3>2
  <2>4. held.protocols = (gop \cup edid) \cup fs
    BY <2>1 DEF ProtocolsHeld, Closed
  <2>5. gop \cap fs = {} /\ edid \cap fs = {}
    OBVIOUS
  <2>6. ProtocolsHeld' = (gop \cup edid) \cup {}
    BY <2>1 DEF ProtocolsHeld, Closed, Is
  <2> HIDE DEF gop, edid, fs
  <2> QED
    BY <2>3, <2>4, <2>5, <2>6
<1>38. CASE CloseGop
  <2> DEFINE gop == IF Is("HasOpenedGopProtocols") THEN {<<"Gop", ptr.Gop>>} ELSE {}
             edid == IF Is("HasOpenedEdidProtocols") THEN {<<"Edid", ptr.Gop>>} ELSE {}
  <2>1. at = "close gop" /\ at' = "free pools" /\ UNCHANGED <<flags, ptr>>
    BY <1>38 DEF CloseGop, Go
  <2>2. /\ Is("HasOpenedGopProtocols") => Is("HasOpenedGopHandles")
        /\ Is("HasOpenedEdidProtocols") => Is("HasOpenedGopProtocols")
    BY DEF FlagInv
  <2>3. held.protocols = (gop \cup edid) \cup {}
    BY <2>1 DEF ProtocolsHeld, Closed
  <2>4. held'.protocols = {}
    <3>1. CASE Is("HasOpenedGopHandles")
      <4>1. held'.protocols = held.protocols \ (gop \cup edid)
        BY <1>38, <1>0, <2>2, <3>1 DEF CloseGop, GopOpened
      <4> HIDE DEF gop, edid
      <4> QED
        BY <2>3, <4>1
    <3>2. CASE ~Is("HasOpenedGopHandles")
      <4>1. held' = held
        BY <1>38, <3>2 DEF CloseGop
      <4> QED
        BY <2>2, <2>3, <3>2, <4>1
    <3> QED
      BY <3>1, <3>2
  <2> QED
    BY <2>1, <2>4 DEF ProtocolsHeld, Closed
<1>39. CASE FreePools
  BY <1>39, <1>0 DEF FreePools, Go, ProtocolsHeld, Is, Closed
<1>40. CASE UNCHANGED vars
  BY <1>40, <1>0 DEF vars, ProtocolsHeld, Is, Closed
<1> QED
  BY <1>1, <1>2, <1>3, <1>4, <1>5, <1>6, <1>7, <1>8, <1>9, <1>10, <1>11, <1>12, <1>13, <1>14, <1>15, <1>16, <1>17,
     <1>18, <1>19, <1>20, <1>21, <1>22, <1>23, <1>24, <1>25, <1>26, <1>27, <1>28, <1>29, <1>30, <1>31, <1>32,
     <1>33, <1>34, <1>35, <1>36, <1>37, <1>38, <1>39, <1>40 DEF Next, LoadKernel

LEMMA FilesInit == Init => FilesInv
  BY DEF Init, FilesInv, FilesKnown

\* Steps that leave the files and the pointer to the volume alone.
LEMMA FilesAsBefore ==
  /\ FilesInv /\ fw' = fw /\ held'.files = held.files /\ ptr'.File = ptr.File
  /\ at' \in Closed <=> at \in Closed
  /\ Here \in AfterVolume => Here' \in AfterVolume
  /\ Here \in FileOpen => Here' \in FileOpen
  => FilesInv'
  BY DEF FilesInv, FilesKnown

\* Of the files, only volumes without a kernel and the kernel itself are open without a pointer to
\* them.
LEMMA FilesStep == TypeInv /\ FlowInv /\ MapInv /\ FlagInv /\ PtrInv /\ FilesInv /\ [Next]_vars => FilesInv'
<1> SUFFICES ASSUME TypeInv, FlowInv, MapInv, FlagInv, PtrInv, FilesInv, [Next]_vars PROVE FilesInv'
  OBVIOUS
<1>0. /\ DOMAIN held = {"pools", "protocols", "files", "free", "pages", "sse"}
      /\ ptr \in [Gop : Nat, SimpleFs : Nat, File : Nat, KernelInfo : {"NULL", "pool"},
                  Mmap : {"NULL", "stack", "pool"}, UsableMmap : {"NULL", "pool"}]
  BY DEF TypeInv, PtrInv
<1>1. CASE CheckTables
  BY <1>1, <1>0, FilesAsBefore DEF CheckTables, Go, Here, Cleanup, Leaving, Released, Closed, AfterVolume,
     LoadSteps, EndSteps, FileOpen
<1>2. CASE QueryTextMode
  BY <1>2, <1>0, FilesAsBefore DEF QueryTextMode, Here, Cleanup, Leaving, Released, Closed, AfterVolume, LoadSteps,
     EndSteps, FileOpen
<1>3. CASE TextModesQueried
  BY <1>3, <1>0, FilesAsBefore DEF TextModesQueried, Go, Here, Cleanup, Leaving, Released, Closed, AfterVolume,
     LoadSteps, EndSteps, FileOpen
<1>4. CASE LocateGopHandles
  BY <1>4, <1>0, FilesAsBefore DEF LocateGopHandles, Go, Here, Cleanup, Leaving, Released, Closed, AfterVolume,
     LoadSteps, EndSteps, FileOpen
<1>5. CASE OpenGop
  BY <1>5, <1>0, FilesAsBefore DEF OpenGop, Go, Here, Cleanup, Leaving, Released, Closed, AfterVolume, LoadSteps,
     EndSteps, FileOpen
<1>6. CASE NoGop
  BY <1>6, <1>0, FilesAsBefore DEF NoGop, Go, Here, Cleanup, Leaving, Released, Closed, AfterVolume, LoadSteps,
     EndSteps, FileOpen
<1>7. CASE OpenEdid
  BY <1>7, <1>0, FilesAsBefore DEF OpenEdid, Go, Here, Cleanup, Leaving, Released, Closed, AfterVolume, LoadSteps,
     EndSteps, FileOpen
<1>8. CASE QueryGraphicsMode
  BY <1>8, <1>0, FilesAsBefore DEF QueryGraphicsMode, Here, Cleanup, Leaving, Released, Closed, AfterVolume,
     LoadSteps, EndSteps, FileOpen
<1>9. CASE GraphicsModesQueried
  BY <1>9, <1>0, FilesAsBefore DEF GraphicsModesQueried, Go, Here, Cleanup, Leaving, Released, Closed, AfterVolume,
     LoadSteps, EndSteps, FileOpen
<1>10. CASE ScanConfigurationTable
  BY <1>10, <1>0, FilesAsBefore DEF ScanConfigurationTable, Here, Cleanup, Leaving, Released, Closed, AfterVolume,
     LoadSteps, EndSteps, FileOpen
<1>11. CASE LocateFsHandles
  <2>1. at = "acpi" /\ at' \in {"volume", "exit"} /\ UNCHANGED <<fw, ptr>> /\ held'.files = held.files
    BY <1>11, <1>0 DEF LocateFsHandles, Go, GiveUp
  <2> QED
    BY <2>1, FilesAsBefore DEF Here, Cleanup, Leaving, Released, Closed, AfterVolume, LoadSteps, EndSteps, FileOpen
<1>12. CASE OpenVolume
  <2> DEFINE volume == fw.volumes[index]
             opened == IF volume \in {"other", "kernel"} THEN index ELSE 0
             protocol == IF volume = "closed" THEN 0 ELSE index
  <2>1. /\ at = "volume" /\ fw' = fw
        /\ at' = IF volume = "kernel" THEN "info size" ELSE at
        /\ ptr' = [ptr EXCEPT !.SimpleFs = protocol, !.File = opened]
    BY <1>12 DEF OpenVolume, Go
  <2>2. held'.files = (held.files \cup (IF opened # 0 THEN {<<"Volume", index>>} ELSE {}))
                        \cup (IF volume = "kernel" THEN {<<"Kernel", index>>} ELSE {})
    BY <1>12, <1>0 DEF OpenVolume
  <2>3. ptr'.File = opened
    BY <1>0, <2>1
  <2>4. index \in Nat \ {0} /\ index \in DOMAIN fw.volumes
    <3>1. index \in Nat \ {0} /\ index <= Len(fw.volumes)
      BY <1>12 DEF OpenVolume, MapInv
    <3>2. fw.volumes \in Seq({"closed", "unreadable", "other", "kernel"})
      BY FirmwaresAssumption DEF TypeInv, Firmware
    <3> QED
      BY <3>1, <3>2
  <2>5. \A file \in held.files : file[1] = "Volume" /\ file[2] \in DOMAIN fw.volumes /\ fw.volumes[file[2]] = "other"
    BY <2>1 DEF FilesInv, FilesKnown, Here, Cleanup, Leaving, Released, Closed, AfterVolume, LoadSteps, EndSteps,
       FileOpen
  <2>6. /\ volume = "kernel" => opened = index
        /\ opened # 0 => opened = index /\ volume \in {"other", "kernel"}
    BY <2>4
  <2>7. volume = "kernel" => Here' \in AfterVolume /\ Here' \in FileOpen
    BY <2>1 DEF Here, Cleanup, Leaving, Released, Closed, AfterVolume, LoadSteps, EndSteps, FileOpen
  <2>8. at' \notin Closed
    BY <2>1 DEF Closed
  <2>9. FilesKnown'
    <3>1. SUFFICES ASSUME NEW file \in held'.files
                   PROVE  \/ file[1] = "Volume" /\ file[2] \in DOMAIN fw.volumes /\ fw.volumes[file[2]] = "other"
                          \/ file = <<"Volume", opened>> /\ Here' \in AfterVolume
                          \/ file = <<"Kernel", opened>> /\ Here' \in FileOpen
      BY <2>1, <2>3, <2>8 DEF FilesKnown
    <3>2. CASE file \in held.files
      BY <2>5, <3>2
    <3>3. CASE file = <<"Volume", index>> /\ opened # 0
      BY <2>4, <2>6, <2>7, <3>3
    <3>4. CASE file = <<"Kernel", index>> /\ volume = "kernel"
      BY <2>6, <2>7, <3>4
    <3> HIDE DEF opened
    <3> QED
      BY <2>2, <3>2, <3>3, <3>4
  <2>10. ptr'.File # 0 => <<"Volume", ptr'.File>> \in held'.files
    <3> HIDE DEF volume, opened
    <3> QED
      BY <2>2, <2>3, <2>6
  <2>11. held'.files \subseteq {"Volume", "Kernel"} \X Nat
    <3>1. held.files \subseteq {"Volume", "Kernel"} \X Nat
      BY DEF FilesInv
    <3> HIDE DEF volume, opened
    <3> QED
      BY <2>2, <2>4, <3>1
  <2> QED
    BY <2>9, <2>10, <2>11 DEF FilesInv
<1>13. CASE KernelNotFound
  BY <1>13, <1>0, FilesAsBefore DEF KernelNotFound, GiveUp, Here, Cleanup, Leaving, Released, Closed, AfterVolume,
     LoadSteps, EndSteps, FileOpen
<1>14. CASE GetInfoSize
  BY <1>14, <1>0, FilesAsBefore DEF GetInfoSize, FailsAnyhow, GiveUp, Go, Rest, Here, Cleanup, Leaving, Released, Closed,
     AfterVolume, LoadSteps, EndSteps, FileOpen
<1>15. CASE AllocatePool("info pool", "KernelInfo", "info")
  BY <1>15, <1>0, FilesAsBefore DEF AllocatePool, Fails, GiveUp, Go, Rest, Here, Cleanup, Leaving, Released,
     Closed, AfterVolume, LoadSteps, EndSteps, FileOpen
<1>16. CASE GetInfo
  BY <1>16, <1>0, FilesAsBefore DEF GetInfo, FailsAnyhow, GiveUp, Go, Rest, Here, Cleanup, Leaving,
     Released, Closed, AfterVolume, LoadSteps, EndSteps, FileOpen
<1>17. CASE AllocatePages("kernel pages", "Kernel", KernelSize, "HasAllocatedKernel", "read")
  BY <1>17, <1>0, FilesAsBefore DEF AllocatePages, AtAddressZero, Flagged, Fails, GiveUp, Go, Rest, Here, Cleanup, Leaving,
     Released, Closed, AfterVolume, LoadSteps, EndSteps, FileOpen
<1>18. CASE ReadKernel
  <2>1. at = "read" /\ UNCHANGED <<fw, ptr>>
    BY <1>18 DEF ReadKernel, Fails, Rest
  <2>2. CASE Fails("read")
    BY <2>2, FilesAsBefore DEF Fails, GiveUp, Rest, Here, Cleanup, Leaving, Released, Closed, AfterVolume,
       LoadSteps, EndSteps, FileOpen
  <2>3. CASE ~Fails("read")
    <3>1. at' = "stack" /\ held' = [held EXCEPT !.files = @ \ {<<"Kernel", ptr.File>>}]
      BY <1>18, <2>3 DEF ReadKernel, Go
    <3>2. held'.files = held.files \ {<<"Kernel", ptr.File>>}
      BY <1>0, <3>1
    <3>3. at' \notin Closed /\ at \notin Closed /\ Here' \in AfterVolume
      BY <2>1, <3>1 DEF Here, Cleanup, Leaving, Released, Closed, AfterVolume, LoadSteps, EndSteps, FileOpen
    <3>4. ptr.File # 0 => <<"Volume", ptr.File>> \in held.files
      BY <3>3 DEF FilesInv
    <3>5. <<"Volume", ptr.File>> # <<"Kernel", ptr.File>>
      OBVIOUS
    <3> QED
      BY <2>1, <3>2, <3>3, <3>4, <3>5 DEF FilesInv, FilesKnown
  <2> QED
    BY <2>2, <2>3
<1>19. CASE AllocatePages("stack", "KernelStack", 1, "HasAllocatedStack", "headers")
  BY <1>19, <1>0, FilesAsBefore DEF AllocatePages, AtAddressZero, Flagged, Fails, GiveUp, Go, Rest, Here, Cleanup, Leaving,
     Released, Closed, AfterVolume, LoadSteps, EndSteps, FileOpen
<1>20. CASE CheckHeaders
  BY <1>20, <1>0, FilesAsBefore DEF CheckHeaders, Fails, FailsSilently, GiveUp, Go, Rest, Here, Cleanup, Leaving,
     Released, Closed, AfterVolume, LoadSteps, EndSteps, FileOpen
<1>21. CASE AllocatePages("area", "KernelArea", 1, "HasAllocatedKernelArea", "relocate")
  BY <1>21, <1>0, FilesAsBefore DEF AllocatePages, AtAddressZero, Flagged, Fails, GiveUp, Go, Rest, Here, Cleanup, Leaving,
     Released, Closed, AfterVolume, LoadSteps, EndSteps, FileOpen
<1>22. CASE CopyAndRelocate
  BY <1>22, <1>0, FilesAsBefore DEF CopyAndRelocate, FailsSilently, GiveUp, Go, Rest, Here, Cleanup, Leaving,
     Released, Closed, AfterVolume, LoadSteps, EndSteps, FileOpen
<1>23. CASE GetMemoryMapSize
  BY <1>23, <1>0, FilesAsBefore DEF GetMemoryMapSize, GiveUp, Go, Rest, Here, Cleanup, Leaving, Released, Closed,
     AfterVolume, LoadSteps, EndSteps, FileOpen
<1>24. CASE AllocatePool("map pool", "Mmap", "usable pool")
  BY <1>24, <1>0, FilesAsBefore DEF AllocatePool, Fails, GiveUp, Go, Rest, Here, Cleanup, Leaving, Released,
     Closed, AfterVolume, LoadSteps, EndSteps, FileOpen
<1>25. CASE AllocatePool("usable pool", "UsableMmap", "map")
  BY <1>25, <1>0, FilesAsBefore DEF AllocatePool, Fails, GiveUp, Go, Rest, Here, Cleanup, Leaving, Released,
     Closed, AfterVolume, LoadSteps, EndSteps, FileOpen
<1>26. CASE GetMemoryMap
  BY <1>26, <1>0, FilesAsBefore DEF GetMemoryMap, Fails, GiveUp, Go, Rest, Here, Cleanup, Leaving, Released,
     Closed, AfterVolume, LoadSteps, EndSteps, FileOpen
<1>27. CASE NextThreshold
  BY <1>27, <1>0, FilesAsBefore DEF NextThreshold, Here, Cleanup, Leaving, Released, Closed, AfterVolume,
     LoadSteps, EndSteps, FileOpen
<1>28. CASE ComparePosition
  BY <1>28, <1>0, FilesAsBefore DEF ComparePosition, Here, Cleanup, Leaving, Released, Closed, AfterVolume,
     LoadSteps, EndSteps, FileOpen
<1>29. CASE MapSorted
  BY <1>29, <1>0, FilesAsBefore DEF MapSorted, Go, Here, Cleanup, Leaving, Released, Closed, AfterVolume,
     LoadSteps, EndSteps, FileOpen
<1>30. CASE ProcessEntry
  BY <1>30, <1>0, FilesAsBefore DEF ProcessEntry, Here, Cleanup, Leaving, Released, Closed, AfterVolume, LoadSteps,
     EndSteps, FileOpen
<1>31. CASE OutOfResources
  BY <1>31, <1>0, FilesAsBefore DEF OutOfResources, StatusWithoutMemory, GiveUp, Rest, Here, Cleanup, Leaving,
     Released, Closed, AfterVolume, LoadSteps, EndSteps, FileOpen
<1>32. CASE TrimMap
  BY <1>32, <1>0, FilesAsBefore DEF TrimMap, Go, Here, Cleanup, Leaving, Released, Closed, AfterVolume, LoadSteps,
     EndSteps, FileOpen
<1>33. CASE SetGraphicsMode
  BY <1>33, <1>0, FilesAsBefore DEF SetGraphicsMode, Go, Here, Cleanup, Leaving, Released, Closed, AfterVolume,
     LoadSteps, EndSteps, FileOpen
<1>34. CASE KernelReturns
  BY <1>34, <1>0, FilesAsBefore DEF KernelReturns, GiveUp, Rest, Here, Cleanup, Leaving, Released, Closed,
     AfterVolume, LoadSteps, EndSteps, FileOpen
<1>35. CASE PressKey
  BY <1>35, <1>0, FilesAsBefore DEF PressKey, Go, Rest, Here, Cleanup, Leaving, Released, Closed, AfterVolume,
     LoadSteps, EndSteps, FileOpen
<1>36. CASE FreeAllPages
  BY <1>36, <1>0, FilesAsBefore DEF FreeAllPages, Go, Here, Cleanup, Leaving, Released, Closed, AfterVolume,
     LoadSteps, EndSteps, FileOpen
<1>37. CASE CloseFiles
  <2>1. at = "close files" /\ at' = "close gop" /\ UNCHANGED <<left, fw, flags, ptr>>
    BY <1>37 DEF CloseFiles, Go
  <2>2. Here' = Here /\ at' \in Closed /\ FileOpen \subseteq AfterVolume
    BY <2>1 DEF Here, Cleanup, Leaving, Released, Closed, AfterVolume, LoadSteps, EndSteps, FileOpen
  <2>3. Here \in AfterVolume => Is("HasOpenedFsHandles") /\ ptr.File # 0
    <3>1. fw.volumes \in Seq({"closed", "unreadable", "other", "kernel"})
      BY FirmwaresAssumption DEF TypeInv, Firmware
    <3>2. 0 \notin DOMAIN fw.volumes
      BY <3>1
    <3>3. Here \in AfterVolume => ptr.File \in DOMAIN fw.volumes
      BY DEF PtrInv
    <3>4. Here \in AfterVolume => Is("HasOpenedFsHandles")
      BY DEF FlagInv
    <3> QED
      BY <3>2, <3>3, <3>4
  <2>4. held'.files \subseteq held.files /\ (Here \in AfterVolume => <<"Volume", ptr.File>> \notin held'.files)
    <3>1. CASE Is("HasOpenedFsHandles")
      <4>1. held'.files = held.files \ (IF ptr.File # 0 THEN {<<"Volume", ptr.File>>} ELSE {})
        BY <1>37, <1>0, <3>1 DEF CloseFiles
      <4> QED
        BY <2>3, <4>1
    <3>2. CASE ~Is("HasOpenedFsHandles")
      <4>1. held' = held
        BY <1>37, <3>2 DEF CloseFiles
      <4> QED
        BY <2>3, <3>2, <4>1
    <3> QED
      BY <3>1, <3>2
  <2> QED
    BY <2>1, <2>2, <2>4 DEF FilesInv, FilesKnown
<1>38. CASE CloseGop
  BY <1>38, <1>0, FilesAsBefore DEF CloseGop, Go, Here, Cleanup, Leaving, Released, Closed, AfterVolume, LoadSteps,
     EndSteps, FileOpen
<1>39. CASE FreePools
  BY <1>39, <1>0, FilesAsBefore DEF FreePools, Go, Here, Cleanup, Leaving, Released, Closed, AfterVolume,
     LoadSteps, EndSteps, FileOpen
<1>40. CASE UNCHANGED vars
  BY <1>40, FilesAsBefore DEF vars, Here
<1> QED
  BY <1>1, <1>2, <1>3, <1>4, <1>5, <1>6, <1>7, <1>8, <1>9, <1>10, <1>11, <1>12, <1>13, <1>14, <1>15, <1>16, <1>17,
     <1>18, <1>19, <1>20, <1>21, <1>22, <1>23, <1>24, <1>25, <1>26, <1>27, <1>28, <1>29, <1>30, <1>31, <1>32,
     <1>33, <1>34, <1>35, <1>36, <1>37, <1>38, <1>39, <1>40 DEF Next, LoadKernel

LEMMA PagesInit == Init => PagesInv
<1> SUFFICES ASSUME Init PROVE PagesInv
  OBVIOUS
<1>1. /\ held.pages = [Kernel |-> 0, KernelStack |-> 0, KernelArea |-> 0]
      /\ flags = {} /\ at = "tables"
  BY DEF Init
<1>2. /\ held.pages \in [Kernel : Nat, KernelStack : Nat, KernelArea : Nat]
      /\ held.pages["Kernel"] = 0 /\ held.pages["KernelStack"] = 0 /\ held.pages["KernelArea"] = 0
  BY <1>1
<1>3. at \notin Released /\ \A flag : ~Is(flag)
  BY <1>1 DEF Released, Closed, Is
<1> QED
  BY <1>2, <1>3 DEF PagesInv, PagesHeld

\* More pages of one of the three.
LEMMA MorePages ==
  ASSUME NEW pages \in [Kernel : Nat, KernelStack : Nat, KernelArea : Nat], NEW n \in Nat,
         NEW name \in {"Kernel", "KernelStack", "KernelArea"}
  PROVE  /\ [pages EXCEPT ![name] = @ + n] \in [Kernel : Nat, KernelStack : Nat, KernelArea : Nat]
         /\ [pages EXCEPT ![name] = @ + n][name] = pages[name] + n
         /\ \A other \in {"Kernel", "KernelStack", "KernelArea"} \ {name} :
              [pages EXCEPT ![name] = @ + n][other] = pages[other]
<1>1. /\ DOMAIN pages = {"Kernel", "KernelStack", "KernelArea"}
      /\ pages["Kernel"] \in Nat /\ pages["KernelStack"] \in Nat /\ pages["KernelArea"] \in Nat
  OBVIOUS
<1>2. pages[name] \in Nat
  BY <1>1
<1> DEFINE more == [pages EXCEPT ![name] = @ + n]
<1>3. /\ DOMAIN more = {"Kernel", "KernelStack", "KernelArea"}
      /\ more[name] = pages[name] + n
      /\ \A other \in {"Kernel", "KernelStack", "KernelArea"} \ {name} : more[other] = pages[other]
  BY <1>1
<1>4. more = [other \in {"Kernel", "KernelStack", "KernelArea"} |-> more[other]]
  BY <1>1
<1>5. more["Kernel"] \in Nat /\ more["KernelStack"] \in Nat /\ more["KernelArea"] \in Nat
  BY <1>1, <1>2, <1>3
<1> HIDE DEF more
<1>6. more \in [Kernel : Nat, KernelStack : Nat, KernelArea : Nat]
  BY <1>4, <1>5
<1> QED
  BY <1>3, <1>6 DEF more

\* Nothing leaves the cleanup but at its end, and the reason for it stays.
LEMMA LeavingStays == [Next]_vars => (at \in Cleanup => at' \in Cleanup /\ left' = left)
<1> SUFFICES ASSUME [Next]_vars, at \in Cleanup PROVE at' \in Cleanup /\ left' = left
  OBVIOUS
<1>1. at \in {"exit", "free pages", "close files", "close gop", "free pools", "exited"}
  BY DEF Cleanup, Leaving, Released, Closed
<1>2. \/ PressKey \/ FreeAllPages \/ CloseFiles \/ CloseGop \/ FreePools \/ UNCHANGED vars
  BY <1>1 DEF Next, LoadKernel, CheckTables, QueryTextMode, TextModesQueried, LocateGopHandles, OpenGop, NoGop,
     OpenEdid, QueryGraphicsMode, GraphicsModesQueried, ScanConfigurationTable, LocateFsHandles, OpenVolume,
     KernelNotFound, GetInfoSize, AllocatePool, GetInfo, AllocatePages, AtAddressZero, ReadKernel, CheckHeaders,
     CopyAndRelocate, GetMemoryMapSize, GetMemoryMap, NextThreshold, ComparePosition, MapSorted, ProcessEntry,
     OutOfResources, TrimMap, SetGraphicsMode, KernelReturns, Fails, FailsAnyhow, FailsSilently
<1> QED
  BY <1>2 DEF PressKey, FreeAllPages, CloseFiles, CloseGop, FreePools, vars, Go, Cleanup, Leaving, Released, Closed

\* Steps that leave the pages and their flags alone.
LEMMA PagesAsBefore ==
  /\ PagesInv /\ held'.pages = held.pages
  /\ \A flag \in {"HasAllocatedKernel", "HasAllocatedStack", "HasAllocatedKernelArea"} : Is(flag)' <=> Is(flag)
  /\ at' \in Released <=> at \in Released
  /\ at' \in Released => KernelSize' = KernelSize
  /\ at \in Cleanup => at' \in Cleanup /\ left' = left
  => PagesInv'
  BY DEF PagesInv, PagesHeld, MaybeLost

\* Pages are held as long as their flag is set and they are not released.
LEMMA PagesStep == TypeInv /\ FlowInv /\ FlagInv /\ PtrInv /\ PagesInv /\ [Next]_vars => PagesInv'
<1> SUFFICES ASSUME TypeInv, FlowInv, FlagInv, PtrInv, PagesInv, [Next]_vars PROVE PagesInv'
  OBVIOUS
<1>0. /\ DOMAIN held = {"pools", "protocols", "files", "free", "pages", "sse"}
      /\ ptr \in [Gop : Nat, SimpleFs : Nat, File : Nat, KernelInfo : {"NULL", "pool"},
                  Mmap : {"NULL", "stack", "pool"}, UsableMmap : {"NULL", "pool"}]
  BY DEF TypeInv, PtrInv
<1>01. at \in Cleanup => at' \in Cleanup /\ left' = left
  BY LeavingStays
<1>02. /\ held.pages \in [Kernel : Nat, KernelStack : Nat, KernelArea : Nat]
       /\ KernelSize \in Nat /\ KernelPages \in Nat
  <2>1. held.pages \in [Kernel : Nat, KernelStack : Nat, KernelArea : Nat]
    BY DEF PagesInv
  <2>2. KernelPages \in Nat /\ KernelSize \in 0 .. KernelPages
    BY SizesAssumption DEF TypeInv
  <2> QED
    BY <2>1, <2>2
<1>1. CASE CheckTables
  <2>1. flags \subseteq {"SupportsConIn", "SupportsConOut"} /\ flags' \subseteq {"SupportsConIn", "SupportsConOut"}
    BY <1>1 DEF CheckTables, FlagInv, Here, BeforeGop, Cleanup, Leaving, Released, Closed
  <2>2. held'.pages = held.pages /\ KernelSize' = KernelSize /\ (at' \in Released <=> at \in Released)
    BY <1>1, <1>0 DEF CheckTables, Go, Released, Closed
  <2> QED
    BY <2>1, <2>2, <1>01, PagesAsBefore DEF Is
<1>2. CASE QueryTextMode
  BY <1>2, <1>0, <1>01, PagesAsBefore DEF QueryTextMode, Is, Released, Closed
<1>3. CASE TextModesQueried
  BY <1>3, <1>0, <1>01, PagesAsBefore DEF TextModesQueried, Go, Is, Released, Closed
<1>4. CASE LocateGopHandles
  <2>1. held'.pages = held.pages /\ KernelSize' = KernelSize /\ (at' \in Released <=> at \in Released)
    BY <1>4, <1>0 DEF LocateGopHandles, Go, Released, Closed
  <2>2. \A flag \in {"HasAllocatedKernel", "HasAllocatedStack", "HasAllocatedKernelArea"} : Is(flag)' <=> Is(flag)
    BY <1>4 DEF LocateGopHandles, Go, Is
  <2> QED
    BY <2>1, <2>2, <1>01, PagesAsBefore
<1>5. CASE OpenGop
  <2>1. held'.pages = held.pages /\ KernelSize' = KernelSize /\ (at' \in Released <=> at \in Released)
    BY <1>5, <1>0 DEF OpenGop, Go, Released, Closed
  <2>2. \A flag \in {"HasAllocatedKernel", "HasAllocatedStack", "HasAllocatedKernelArea"} : Is(flag)' <=> Is(flag)
    BY <1>5 DEF OpenGop, Go, Is
  <2> QED
    BY <2>1, <2>2, <1>01, PagesAsBefore
<1>6. CASE NoGop
  BY <1>6, <1>0, <1>01, PagesAsBefore DEF NoGop, Go, Is, Released, Closed
<1>7. CASE OpenEdid
  <2>1. held'.pages = held.pages /\ KernelSize' = KernelSize /\ (at' \in Released <=> at \in Released)
    BY <1>7, <1>0 DEF OpenEdid, Go, Released, Closed
  <2>2. \A flag \in {"HasAllocatedKernel", "HasAllocatedStack", "HasAllocatedKernelArea"} : Is(flag)' <=> Is(flag)
    BY <1>7 DEF OpenEdid, Go, Is
  <2> QED
    BY <2>1, <2>2, <1>01, PagesAsBefore
<1>8. CASE QueryGraphicsMode
  BY <1>8, <1>0, <1>01, PagesAsBefore DEF QueryGraphicsMode, Is, Released, Closed
<1>9. CASE GraphicsModesQueried
  <2>1. held'.pages = held.pages /\ KernelSize' = KernelSize /\ (at' \in Released <=> at \in Released)
    BY <1>9, <1>0 DEF GraphicsModesQueried, Go, Released, Closed
  <2>2. \A flag \in {"HasAllocatedKernel", "HasAllocatedStack", "HasAllocatedKernelArea"} : Is(flag)' <=> Is(flag)
    BY <1>9 DEF GraphicsModesQueried, Go, Is
  <2> QED
    BY <2>1, <2>2, <1>01, PagesAsBefore
<1>10. CASE ScanConfigurationTable
  BY <1>10, <1>0, <1>01, PagesAsBefore DEF ScanConfigurationTable, Is, Released, Closed
<1>11. CASE LocateFsHandles
  <2>1. held'.pages = held.pages /\ KernelSize' = KernelSize /\ (at' \in Released <=> at \in Released)
    BY <1>11, <1>0 DEF LocateFsHandles, Go, GiveUp, Released, Closed
  <2>2. \A flag \in {"HasAllocatedKernel", "HasAllocatedStack", "HasAllocatedKernelArea"} : Is(flag)' <=> Is(flag)
    BY <1>11 DEF LocateFsHandles, Go, GiveUp, Is
  <2> QED
    BY <2>1, <2>2, <1>01, PagesAsBefore
<1>12. CASE OpenVolume
  <2>1. held'.pages = held.pages /\ KernelSize' = KernelSize /\ (at' \in Released <=> at \in Released)
    BY <1>12, <1>0 DEF OpenVolume, FlagsAfterVolume, NextHandle, OpenAfterVolume, Go, Released, Closed
  <2>2. \A flag \in {"HasAllocatedKernel", "HasAllocatedStack", "HasAllocatedKernelArea"} : Is(flag)' <=> Is(flag)
    BY <1>12 DEF OpenVolume, FlagsAfterVolume, NextHandle, OpenAfterVolume, Go, Is
  <2> QED
    BY <2>1, <2>2, <1>01, PagesAsBefore
<1>13. CASE KernelNotFound
  BY <1>13, <1>0, <1>01, PagesAsBefore DEF KernelNotFound, GiveUp, Is, Released, Closed
<1>14. CASE GetInfoSize
  BY <1>14, <1>0, <1>01, PagesAsBefore DEF GetInfoSize, FailsAnyhow, GiveUp, Go, Rest, Is, Released, Closed
<1>15. CASE AllocatePool("info pool", "KernelInfo", "info")
  BY <1>15, <1>0, <1>01, PagesAsBefore DEF AllocatePool, Fails, GiveUp, Go, Rest, Is, Released, Closed
<1>16. CASE GetInfo
  BY <1>16, <1>0, <1>01, PagesAsBefore DEF GetInfo, FailsAnyhow, GiveUp, Go, Rest, Is, Released, Closed
<1>17. CASE AllocatePages("kernel pages", "Kernel", KernelSize, "HasAllocatedKernel", "read")
  <2>1. at = "kernel pages" /\ at' \notin Released /\ at \notin Released
    BY <1>17 DEF AllocatePages, AtAddressZero, Fails, Go, GiveUp, Released, Closed
  <2>2. CASE Fails("kernel pages")
    BY <2>1, <2>2, <1>01, PagesAsBefore DEF Fails, Rest, Is
  <2>4. CASE AtAddressZero("kernel pages", "Kernel", KernelSize)
    <3>1. held' = [held EXCEPT !.pages["Kernel"] = @ + KernelSize] /\ flags' = flags /\ at' \in Cleanup /\ left' = "kernel pages"
      BY <2>1, <2>4 DEF AtAddressZero, GiveUp, Cleanup, Leaving
    <3>2. /\ held'.pages \in [Kernel : Nat, KernelStack : Nat, KernelArea : Nat]
          /\ \A other \in {"Kernel", "KernelStack", "KernelArea"} \ {"Kernel"} :
               held'.pages[other] = held.pages[other]
      BY <1>02, <3>1, <1>0, MorePages
    <3>3. MaybeLost("kernel pages")' /\ \A flag : Is(flag)' <=> Is(flag)
      BY <3>1 DEF MaybeLost, Is
    <3>4. \A step : ~MaybeLost(step)
      BY <2>1 DEF MaybeLost, Cleanup, Leaving, Released, Closed
    <3> QED
      BY <2>1, <3>2, <3>3, <3>4 DEF PagesInv, PagesHeld
  <2>3. CASE ~Fails("kernel pages") /\ ~AtAddressZero("kernel pages", "Kernel", KernelSize)
    <3>1. held' = [held EXCEPT !.pages["Kernel"] = @ + KernelSize] /\ flags' = flags \cup {"HasAllocatedKernel"}
      BY <1>17, <2>3 DEF AllocatePages, Flagged
    <3>2. ~Is("HasAllocatedKernel")
      BY <2>1 DEF FlagInv, Here, Cleanup, Leaving, Released, Closed, AfterPages, AfterArea, AfterStack, AfterPages,
         AfterInfoPool, AfterVolume, LoadSteps, EndSteps
    <3>3. \A step : ~MaybeLost(step)
      BY <2>1 DEF MaybeLost, Cleanup, Leaving, Released, Closed
    <3>4. held.pages["Kernel"] = 0 /\ KernelSize = KernelPages
      BY <2>1, <3>2, <3>3 DEF PagesInv, PagesHeld, FlowInv
    <3>5. Is("HasAllocatedKernel")' /\ \A other \in FlagNames \ {"HasAllocatedKernel"} : Is(other)' <=> Is(other)
      BY <3>1 DEF Is
    <3>6. /\ held'.pages \in [Kernel : Nat, KernelStack : Nat, KernelArea : Nat]
          /\ held'.pages["Kernel"] = held.pages["Kernel"] + KernelSize
          /\ \A other \in {"Kernel", "KernelStack", "KernelArea"} \ {"Kernel"} :
               held'.pages[other] = held.pages[other]
      BY <1>02, <3>1, <1>0, MorePages
    <3>7. held'.pages["Kernel"] = KernelPages
      BY <1>02, <3>4, <3>6
    <3> QED
      BY <2>1, <3>3, <3>5, <3>6, <3>7 DEF PagesInv, PagesHeld, FlagNames
  <2> QED
    BY <2>2, <2>3, <2>4
<1>18. CASE ReadKernel
  BY <1>18, <1>0, <1>01, PagesAsBefore DEF ReadKernel, Fails, GiveUp, Go, Rest, Is, Released, Closed
<1>19. CASE AllocatePages("stack", "KernelStack", 1, "HasAllocatedStack", "headers")
  <2>1. at = "stack" /\ at' \notin Released /\ at \notin Released
    BY <1>19 DEF AllocatePages, AtAddressZero, Fails, Go, GiveUp, Released, Closed
  <2>2. CASE Fails("stack")
    BY <2>1, <2>2, <1>01, PagesAsBefore DEF Fails, Rest, Is
  <2>4. CASE AtAddressZero("stack", "KernelStack", 1)
    <3>1. held' = [held EXCEPT !.pages["KernelStack"] = @ + 1] /\ flags' = flags /\ at' \in Cleanup /\ left' = "stack"
      BY <2>1, <2>4 DEF AtAddressZero, GiveUp, Cleanup, Leaving
    <3>2. /\ held'.pages \in [Kernel : Nat, KernelStack : Nat, KernelArea : Nat]
          /\ \A other \in {"Kernel", "KernelStack", "KernelArea"} \ {"KernelStack"} :
               held'.pages[other] = held.pages[other]
      BY <1>02, <3>1, <1>0, MorePages
    <3>3. MaybeLost("stack")' /\ \A flag : Is(flag)' <=> Is(flag)
      BY <3>1 DEF MaybeLost, Is
    <3>4. \A step : ~MaybeLost(step)
      BY <2>1 DEF MaybeLost, Cleanup, Leaving, Released, Closed
    <3> QED
      BY <2>1, <3>2, <3>3, <3>4 DEF PagesInv, PagesHeld
  <2>3. CASE ~Fails("stack") /\ ~AtAddressZero("stack", "KernelStack", 1)
    <3>1. held' = [held EXCEPT !.pages["KernelStack"] = @ + 1] /\ flags' = flags \cup {"HasAllocatedStack"}
      BY <1>19, <2>3 DEF AllocatePages, Flagged
    <3>2. ~Is("HasAllocatedStack")
      BY <2>1 DEF FlagInv, Here, Cleanup, Leaving, Released, Closed, AfterStack, AfterArea, AfterStack, AfterPages,
         AfterInfoPool, AfterVolume, LoadSteps, EndSteps
    <3>3. \A step : ~MaybeLost(step)
      BY <2>1 DEF MaybeLost, Cleanup, Leaving, Released, Closed
    <3>4. held.pages["KernelStack"] = 0 /\ 1 = 1
      BY <2>1, <3>2, <3>3 DEF PagesInv, PagesHeld, FlowInv
    <3>5. Is("HasAllocatedStack")' /\ \A other \in FlagNames \ {"HasAllocatedStack"} : Is(other)' <=> Is(other)
      BY <3>1 DEF Is
    <3>6. /\ held'.pages \in [Kernel : Nat, KernelStack : Nat, KernelArea : Nat]
          /\ held'.pages["KernelStack"] = held.pages["KernelStack"] + 1
          /\ \A other \in {"Kernel", "KernelStack", "KernelArea"} \ {"KernelStack"} :
               held'.pages[other] = held.pages[other]
      BY <1>02, <3>1, <1>0, MorePages
    <3>7. held'.pages["KernelStack"] = 1
      BY <1>02, <3>4, <3>6
    <3> QED
      BY <2>1, <3>3, <3>5, <3>6, <3>7 DEF PagesInv, PagesHeld, FlagNames
  <2> QED
    BY <2>2, <2>3, <2>4
<1>20. CASE CheckHeaders
  BY <1>20, <1>0, <1>01, PagesAsBefore DEF CheckHeaders, Fails, FailsSilently, GiveUp, Go, Rest, Is, Released, Closed
<1>21. CASE AllocatePages("area", "KernelArea", 1, "HasAllocatedKernelArea", "relocate")
  <2>1. at = "area" /\ at' \notin Released /\ at \notin Released
    BY <1>21 DEF AllocatePages, AtAddressZero, Fails, Go, GiveUp, Released, Closed
  <2>2. CASE Fails("area")
    BY <2>1, <2>2, <1>01, PagesAsBefore DEF Fails, Rest, Is
  <2>4. CASE AtAddressZero("area", "KernelArea", 1)
    <3>1. held' = [held EXCEPT !.pages["KernelArea"] = @ + 1] /\ flags' = flags /\ at' \in Cleanup /\ left' = "area"
      BY <2>1, <2>4 DEF AtAddressZero, GiveUp, Cleanup, Leaving
    <3>2. /\ held'.pages \in [Kernel : Nat, KernelStack : Nat, KernelArea : Nat]
          /\ \A other \in {"Kernel", "KernelStack", "KernelArea"} \ {"KernelArea"} :
               held'.pages[other] = held.pages[other]
      BY <1>02, <3>1, <1>0, MorePages
    <3>3. MaybeLost("area")' /\ \A flag : Is(flag)' <=> Is(flag)
      BY <3>1 DEF MaybeLost, Is
    <3>4. \A step : ~MaybeLost(step)
      BY <2>1 DEF MaybeLost, Cleanup, Leaving, Released, Closed
    <3> QED
      BY <2>1, <3>2, <3>3, <3>4 DEF PagesInv, PagesHeld
  <2>3. CASE ~Fails("area") /\ ~AtAddressZero("area", "KernelArea", 1)
    <3>1. held' = [held EXCEPT !.pages["KernelArea"] = @ + 1] /\ flags' = flags \cup {"HasAllocatedKernelArea"}
      BY <1>21, <2>3 DEF AllocatePages, Flagged
    <3>2. ~Is("HasAllocatedKernelArea")
      BY <2>1 DEF FlagInv, Here, Cleanup, Leaving, Released, Closed, AfterArea, AfterArea, AfterStack, AfterPages,
         AfterInfoPool, AfterVolume, LoadSteps, EndSteps
    <3>3. \A step : ~MaybeLost(step)
      BY <2>1 DEF MaybeLost, Cleanup, Leaving, Released, Closed
    <3>4. held.pages["KernelArea"] = 0 /\ 1 = 1
      BY <2>1, <3>2, <3>3 DEF PagesInv, PagesHeld, FlowInv
    <3>5. Is("HasAllocatedKernelArea")' /\ \A other \in FlagNames \ {"HasAllocatedKernelArea"} : Is(other)' <=> Is(other)
      BY <3>1 DEF Is
    <3>6. /\ held'.pages \in [Kernel : Nat, KernelStack : Nat, KernelArea : Nat]
          /\ held'.pages["KernelArea"] = held.pages["KernelArea"] + 1
          /\ \A other \in {"Kernel", "KernelStack", "KernelArea"} \ {"KernelArea"} :
               held'.pages[other] = held.pages[other]
      BY <1>02, <3>1, <1>0, MorePages
    <3>7. held'.pages["KernelArea"] = 1
      BY <1>02, <3>4, <3>6
    <3> QED
      BY <2>1, <3>3, <3>5, <3>6, <3>7 DEF PagesInv, PagesHeld, FlagNames
  <2> QED
    BY <2>2, <2>3, <2>4
<1>22. CASE CopyAndRelocate
  BY <1>22, <1>0, <1>01, PagesAsBefore DEF CopyAndRelocate, FailsSilently, GiveUp, Go, Rest, Is, Released, Closed
<1>23. CASE GetMemoryMapSize
  BY <1>23, <1>0, <1>01, PagesAsBefore DEF GetMemoryMapSize, GiveUp, Go, Rest, Is, Released, Closed
<1>24. CASE AllocatePool("map pool", "Mmap", "usable pool")
  BY <1>24, <1>0, <1>01, PagesAsBefore DEF AllocatePool, Fails, GiveUp, Go, Rest, Is, Released, Closed
<1>25. CASE AllocatePool("usable pool", "UsableMmap", "map")
  BY <1>25, <1>0, <1>01, PagesAsBefore DEF AllocatePool, Fails, GiveUp, Go, Rest, Is, Released, Closed
<1>26. CASE GetMemoryMap
  BY <1>26, <1>0, <1>01, PagesAsBefore DEF GetMemoryMap, Fails, GiveUp, Go, Rest, Is, Released, Closed
<1>27. CASE NextThreshold
  BY <1>27, <1>0, <1>01, PagesAsBefore DEF NextThreshold, Is, Released, Closed
<1>28. CASE ComparePosition
  BY <1>28, <1>0, <1>01, PagesAsBefore DEF ComparePosition, Is, Released, Closed
<1>29. CASE MapSorted
  BY <1>29, <1>0, <1>01, PagesAsBefore DEF MapSorted, Go, Is, Released, Closed
<1>30. CASE ProcessEntry
  <2>1. held'.pages = held.pages /\ KernelSize' = KernelSize /\ (at' \in Released <=> at \in Released)
    BY <1>30, <1>0 DEF ProcessEntry, Released, Closed
  <2>2. \A flag \in {"HasAllocatedKernel", "HasAllocatedStack", "HasAllocatedKernelArea"} : Is(flag)' <=> Is(flag)
    BY <1>30 DEF ProcessEntry, Is
  <2> QED
    BY <2>1, <2>2, <1>01, PagesAsBefore
<1>31. CASE OutOfResources
  BY <1>31, <1>0, <1>01, PagesAsBefore DEF OutOfResources, StatusWithoutMemory, GiveUp, Rest, Is, Released, Closed
<1>32. CASE TrimMap
  <2>1. held'.pages = held.pages /\ KernelSize' = KernelSize /\ (at' \in Released <=> at \in Released)
    BY <1>32, <1>0 DEF TrimMap, Go, Released, Closed
  <2>2. \A flag \in {"HasAllocatedKernel", "HasAllocatedStack", "HasAllocatedKernelArea"} : Is(flag)' <=> Is(flag)
    BY <1>32 DEF TrimMap, Go, Is
  <2> QED
    BY <2>1, <2>2, <1>01, PagesAsBefore
<1>33. CASE SetGraphicsMode
  <2>1. held'.pages = held.pages /\ KernelSize' = KernelSize /\ (at' \in Released <=> at \in Released)
    BY <1>33, <1>0 DEF SetGraphicsMode, Go, Released, Closed
  <2>2. \A flag \in {"HasAllocatedKernel", "HasAllocatedStack", "HasAllocatedKernelArea"} : Is(flag)' <=> Is(flag)
    BY <1>33 DEF SetGraphicsMode, Go, Is
  <2> QED
    BY <2>1, <2>2, <1>01, PagesAsBefore
<1>34. CASE KernelReturns
  BY <1>34, <1>0, <1>01, PagesAsBefore DEF KernelReturns, GiveUp, Rest, Is, Released, Closed
<1>35. CASE PressKey
  BY <1>35, <1>0, <1>01, PagesAsBefore DEF PressKey, Go, Rest, Is, Released, Closed
<1>36. CASE FreeAllPages
  <2>1. at = "free pages" /\ at' = "close files" /\ UNCHANGED <<flags, KernelSize>>
    BY <1>36 DEF FreeAllPages, Go
  <2>2. at \notin Released /\ at' \in Released
    BY <2>1 DEF Released, Closed
  <2>3. held'.pages = [Kernel |-> PagesLeft("Kernel", "HasAllocatedKernel", KernelSize),
                       KernelStack |-> PagesLeft("KernelStack", "HasAllocatedStack", 1),
                       KernelArea |-> PagesLeft("KernelArea", "HasAllocatedKernelArea", 1)]
    BY <1>36, <1>0 DEF FreeAllPages
  <2>4. KernelSize \in 0 .. KernelPages
    BY DEF TypeInv
  <2>5. ~MaybeLost("kernel pages") => held.pages.Kernel = IF Is("HasAllocatedKernel") THEN KernelPages ELSE 0
    BY <2>2 DEF PagesInv, PagesHeld
  <2>6. ~MaybeLost("stack") => held.pages.KernelStack = IF Is("HasAllocatedStack") THEN 1 ELSE 0
    BY <2>2 DEF PagesInv, PagesHeld
  <2>7. ~MaybeLost("area") => held.pages.KernelArea = IF Is("HasAllocatedKernelArea") THEN 1 ELSE 0
    BY <2>2 DEF PagesInv, PagesHeld
  <2>8. /\ MaybeLost("kernel pages") => ~Is("HasAllocatedKernel")
        /\ MaybeLost("stack") => ~Is("HasAllocatedStack")
        /\ MaybeLost("area") => ~Is("HasAllocatedKernelArea")
    BY DEF MaybeLost, FlagInv, Here, AfterArea, AfterStack, AfterPages, AfterInfoPool, AfterVolume, LoadSteps, EndSteps
  <2>9. held.pages.Kernel \in Nat /\ held.pages.KernelStack \in Nat /\ held.pages.KernelArea \in Nat
    BY DEF PagesInv
  <2>10. \A step : MaybeLost(step)' <=> MaybeLost(step)
    BY <1>01, <2>1 DEF MaybeLost, Cleanup, Leaving, Released
  <2>11. /\ Is("HasAllocatedKernel")' <=> Is("HasAllocatedKernel")
         /\ Is("HasAllocatedStack")' <=> Is("HasAllocatedStack")
         /\ Is("HasAllocatedKernelArea")' <=> Is("HasAllocatedKernelArea")
    BY <2>1 DEF Is
  <2>12. held'.pages.Kernel \in Nat /\ PagesHeld("Kernel", "HasAllocatedKernel", KernelPages, "kernel pages")'
    <3>1. held'.pages.Kernel = IF Is("HasAllocatedKernel") THEN held.pages.Kernel - KernelSize ELSE held.pages.Kernel
      BY <2>3 DEF PagesLeft
    <3>2. held'.pages.Kernel \in Nat
      <4>1. CASE Is("HasAllocatedKernel")
        <5>1. held'.pages.Kernel = KernelPages - KernelSize
          BY <2>5, <2>8, <3>1, <4>1
        <5> QED
          BY <1>02, <2>4, <5>1
      <4>2. CASE ~Is("HasAllocatedKernel")
        BY <2>9, <3>1, <4>2
      <4> QED
        BY <4>1, <4>2
    <3>3. ~MaybeLost("kernel pages") =>
            held'.pages["Kernel"] = IF Is("HasAllocatedKernel")' THEN KernelPages - KernelSize' ELSE 0
      BY <2>1, <2>5, <2>11, <3>1
    <3> QED
      BY <2>2, <2>10, <3>2, <3>3 DEF PagesHeld
  <2>13. held'.pages.KernelStack \in Nat /\ PagesHeld("KernelStack", "HasAllocatedStack", 1, "stack")'
    <3>1. held'.pages.KernelStack = IF Is("HasAllocatedStack") THEN held.pages.KernelStack - 1 ELSE held.pages.KernelStack
      BY <2>3 DEF PagesLeft
    <3>2. held'.pages.KernelStack \in Nat /\ (~MaybeLost("stack") => held'.pages["KernelStack"] = 0)
      <4>1. CASE Is("HasAllocatedStack")
        <5>1. held'.pages.KernelStack = 1 - 1
          BY <2>6, <2>8, <3>1, <4>1
        <5> QED
          BY <5>1
      <4>2. CASE ~Is("HasAllocatedStack")
        BY <2>6, <2>9, <3>1, <4>2
      <4> QED
        BY <4>1, <4>2
    <3> QED
      BY <2>2, <2>10, <3>2 DEF PagesHeld
  <2>14. held'.pages.KernelArea \in Nat /\ PagesHeld("KernelArea", "HasAllocatedKernelArea", 1, "area")'
    <3>1. held'.pages.KernelArea = IF Is("HasAllocatedKernelArea") THEN held.pages.KernelArea - 1 ELSE held.pages.KernelArea
      BY <2>3 DEF PagesLeft
    <3>2. held'.pages.KernelArea \in Nat /\ (~MaybeLost("area") => held'.pages["KernelArea"] = 0)
      <4>1. CASE Is("HasAllocatedKernelArea")
        <5>1. held'.pages.KernelArea = 1 - 1
          BY <2>7, <2>8, <3>1, <4>1
        <5> QED
          BY <5>1
      <4>2. CASE ~Is("HasAllocatedKernelArea")
        BY <2>7, <2>9, <3>1, <4>2
      <4> QED
        BY <4>1, <4>2
    <3> QED
      BY <2>2, <2>10, <3>2 DEF PagesHeld
  <2>15. held'.pages \in [Kernel : Nat, KernelStack : Nat, KernelArea : Nat]
    BY <2>3, <2>12, <2>13, <2>14
  <2> QED
    BY <2>12, <2>13, <2>14, <2>15 DEF PagesInv
<1>37. CASE CloseFiles
  <2>1. held'.pages = held.pages /\ KernelSize' = KernelSize /\ (at' \in Released <=> at \in Released)
    BY <1>37, <1>0 DEF CloseFiles, Go, Released, Closed
  <2>2. \A flag \in {"HasAllocatedKernel", "HasAllocatedStack", "HasAllocatedKernelArea"} : Is(flag)' <=> Is(flag)
    BY <1>37 DEF CloseFiles, Go, Is
  <2> QED
    BY <2>1, <2>2, <1>01, PagesAsBefore
<1>38. CASE CloseGop
  <2>1. held'.pages = held.pages /\ KernelSize' = KernelSize /\ (at' \in Released <=> at \in Released)
    BY <1>38, <1>0 DEF CloseGop, Go, Released, Closed
  <2>2. \A flag \in {"HasAllocatedKernel", "HasAllocatedStack", "HasAllocatedKernelArea"} : Is(flag)' <=> Is(flag)
    BY <1>38 DEF CloseGop, Go, Is
  <2> QED
    BY <2>1, <2>2, <1>01, PagesAsBefore
<1>39. CASE FreePools
  BY <1>39, <1>0, <1>01, PagesAsBefore DEF FreePools, Go, Is, Released, Closed
<1>40. CASE UNCHANGED vars
  BY <1>40, <1>01, PagesAsBefore DEF vars, Is
<1> QED
  BY <1>1, <1>2, <1>3, <1>4, <1>5, <1>6, <1>7, <1>8, <1>9, <1>10, <1>11, <1>12, <1>13, <1>14, <1>15, <1>16, <1>17,
     <1>18, <1>19, <1>20, <1>21, <1>22, <1>23, <1>24, <1>25, <1>26, <1>27, <1>28, <1>29, <1>30, <1>31, <1>32,
     <1>33, <1>34, <1>35, <1>36, <1>37, <1>38, <1>39, <1>40 DEF Next, LoadKernel

LEMMA SseInit == Init => SseInv
  BY DEF Init, SseInv

\* The control registers are restored last.
LEMMA SseStep == TypeInv /\ SseInv /\ [Next]_vars => SseInv'
<1> SUFFICES ASSUME TypeInv, SseInv, [Next]_vars PROVE SseInv'
  OBVIOUS
<1>0. DOMAIN held = {"pools", "protocols", "files", "free", "pages", "sse"}
  BY DEF TypeInv
<1>1. CASE CheckTables
  BY <1>1, <1>0 DEF CheckTables, Go, SseInv
<1>2. CASE QueryTextMode
  BY <1>2, <1>0 DEF QueryTextMode, SseInv
<1>3. CASE TextModesQueried
  BY <1>3, <1>0 DEF TextModesQueried, Go, SseInv
<1>4. CASE LocateGopHandles
  BY <1>4, <1>0 DEF LocateGopHandles, Go, SseInv
<1>5. CASE OpenGop
  BY <1>5, <1>0 DEF OpenGop, Go, SseInv
<1>6. CASE NoGop
  BY <1>6, <1>0 DEF NoGop, Go, SseInv
<1>7. CASE OpenEdid
  BY <1>7, <1>0 DEF OpenEdid, Go, SseInv
<1>8. CASE QueryGraphicsMode
  BY <1>8, <1>0 DEF QueryGraphicsMode, SseInv
<1>9. CASE GraphicsModesQueried
  BY <1>9, <1>0 DEF GraphicsModesQueried, Go, SseInv
<1>10. CASE ScanConfigurationTable
  BY <1>10, <1>0 DEF ScanConfigurationTable, SseInv
<1>11. CASE LocateFsHandles
  BY <1>11, <1>0 DEF LocateFsHandles, Go, GiveUp, SseInv
<1>12. CASE OpenVolume
  BY <1>12, <1>0 DEF OpenVolume, FlagsAfterVolume, NextHandle, OpenAfterVolume, Go, SseInv
<1>13. CASE KernelNotFound
  BY <1>13, <1>0 DEF KernelNotFound, GiveUp, SseInv
<1>14. CASE GetInfoSize
  BY <1>14, <1>0 DEF GetInfoSize, FailsAnyhow, GiveUp, Go, Rest, SseInv
<1>15. CASE AllocatePool("info pool", "KernelInfo", "info")
  BY <1>15, <1>0 DEF AllocatePool, Fails, GiveUp, Go, Rest, SseInv
<1>16. CASE GetInfo
  BY <1>16, <1>0 DEF GetInfo, FailsAnyhow, GiveUp, Go, Rest, SseInv
<1>17. CASE AllocatePages("kernel pages", "Kernel", KernelSize, "HasAllocatedKernel", "read")
  BY <1>17, <1>0 DEF AllocatePages, AtAddressZero, Flagged, Fails, GiveUp, Go, Rest, SseInv
<1>18. CASE ReadKernel
  BY <1>18, <1>0 DEF ReadKernel, Fails, GiveUp, Go, Rest, SseInv
<1>19. CASE AllocatePages("stack", "KernelStack", 1, "HasAllocatedStack", "headers")
  BY <1>19, <1>0 DEF AllocatePages, AtAddressZero, Flagged, Fails, GiveUp, Go, Rest, SseInv
<1>20. CASE CheckHeaders
  BY <1>20, <1>0 DEF CheckHeaders, Fails, FailsSilently, GiveUp, Go, Rest, SseInv
<1>21. CASE AllocatePages("area", "KernelArea", 1, "HasAllocatedKernelArea", "relocate")
  BY <1>21, <1>0 DEF AllocatePages, AtAddressZero, Flagged, Fails, GiveUp, Go, Rest, SseInv
<1>22. CASE CopyAndRelocate
  BY <1>22, <1>0 DEF CopyAndRelocate, FailsSilently, GiveUp, Go, Rest, SseInv
<1>23. CASE GetMemoryMapSize
  BY <1>23, <1>0 DEF GetMemoryMapSize, GiveUp, Go, Rest, SseInv
<1>24. CASE AllocatePool("map pool", "Mmap", "usable pool")
  BY <1>24, <1>0 DEF AllocatePool, Fails, GiveUp, Go, Rest, SseInv
<1>25. CASE AllocatePool("usable pool", "UsableMmap", "map")
  BY <1>25, <1>0 DEF AllocatePool, Fails, GiveUp, Go, Rest, SseInv
<1>26. CASE GetMemoryMap
  BY <1>26, <1>0 DEF GetMemoryMap, Fails, GiveUp, Go, Rest, SseInv
<1>27. CASE NextThreshold
  BY <1>27, <1>0 DEF NextThreshold, SseInv
<1>28. CASE ComparePosition
  BY <1>28, <1>0 DEF ComparePosition, SseInv
<1>29. CASE MapSorted
  BY <1>29, <1>0 DEF MapSorted, Go, SseInv
<1>30. CASE ProcessEntry
  BY <1>30, <1>0 DEF ProcessEntry, SseInv
<1>31. CASE OutOfResources
  BY <1>31, <1>0 DEF OutOfResources, StatusWithoutMemory, GiveUp, Rest, SseInv
<1>32. CASE TrimMap
  BY <1>32, <1>0 DEF TrimMap, Go, SseInv
<1>33. CASE SetGraphicsMode
  BY <1>33, <1>0 DEF SetGraphicsMode, Go, SseInv
<1>34. CASE KernelReturns
  BY <1>34, <1>0 DEF KernelReturns, GiveUp, Rest, SseInv
<1>35. CASE PressKey
  BY <1>35, <1>0 DEF PressKey, Go, Rest, SseInv
<1>36. CASE FreeAllPages
  BY <1>36, <1>0 DEF FreeAllPages, Go, SseInv
<1>37. CASE CloseFiles
  BY <1>37, <1>0 DEF CloseFiles, Go, SseInv
<1>38. CASE CloseGop
  BY <1>38, <1>0 DEF CloseGop, Go, SseInv
<1>39. CASE FreePools
  BY <1>39, <1>0 DEF FreePools, Go, SseInv
<1>40. CASE UNCHANGED vars
  BY <1>40 DEF vars, SseInv
<1> QED
  BY <1>1, <1>2, <1>3, <1>4, <1>5, <1>6, <1>7, <1>8, <1>9, <1>10, <1>11, <1>12, <1>13, <1>14, <1>15, <1>16, <1>17,
     <1>18, <1>19, <1>20, <1>21, <1>22, <1>23, <1>24, <1>25, <1>26, <1>27, <1>28, <1>29, <1>30, <1>31, <1>32,
     <1>33, <1>34, <1>35, <1>36, <1>37, <1>38, <1>39, <1>40 DEF Next, LoadKernel

LEMMA BadInit == Init => BadInv
  BY DEF Init, BadInv

\* Nothing is released that is not held, but Mmap while it points to the stack.
LEMMA BadStep ==
  /\ TypeInv /\ MapInv /\ FlagInv /\ PtrInv
  /\ PoolInv /\ held.protocols = ProtocolsHeld /\ FilesInv /\ BadInv /\ [Next]_vars
  => BadInv'
<1> SUFFICES ASSUME TypeInv, MapInv, FlagInv, PtrInv,
                    PoolInv, held.protocols = ProtocolsHeld, FilesInv, BadInv, [Next]_vars
             PROVE  BadInv'
  OBVIOUS
<1>0. /\ DOMAIN held = {"pools", "protocols", "files", "free", "pages", "sse"}
      /\ ptr \in [Gop : Nat, SimpleFs : Nat, File : Nat, KernelInfo : {"NULL", "pool"},
                  Mmap : {"NULL", "stack", "pool"}, UsableMmap : {"NULL", "pool"}]
  BY DEF TypeInv, PtrInv
<1>1. CASE CheckTables
  BY <1>1 DEF CheckTables, Go, BadInv
<1>2. CASE QueryTextMode
  BY <1>2 DEF QueryTextMode, BadInv
<1>3. CASE TextModesQueried
  BY <1>3 DEF TextModesQueried, Go, BadInv
<1>4. CASE LocateGopHandles
  BY <1>4 DEF LocateGopHandles, Go, BadInv
<1>5. CASE OpenGop
  BY <1>5 DEF OpenGop, Go, BadInv
<1>6. CASE NoGop
  BY <1>6 DEF NoGop, Go, BadInv
<1>7. CASE OpenEdid
  BY <1>7 DEF OpenEdid, Go, BadInv
<1>8. CASE QueryGraphicsMode
  BY <1>8 DEF QueryGraphicsMode, BadInv
<1>9. CASE GraphicsModesQueried
  BY <1>9 DEF GraphicsModesQueried, Go, BadInv
<1>10. CASE ScanConfigurationTable
  BY <1>10 DEF ScanConfigurationTable, BadInv
<1>11. CASE LocateFsHandles
  BY <1>11 DEF LocateFsHandles, Go, GiveUp, BadInv
<1>12. CASE OpenVolume
  BY <1>12 DEF OpenVolume, FlagsAfterVolume, NextHandle, OpenAfterVolume, Go, BadInv
<1>13. CASE KernelNotFound
  BY <1>13 DEF KernelNotFound, GiveUp, BadInv
<1>14. CASE GetInfoSize
  BY <1>14 DEF GetInfoSize, FailsAnyhow, GiveUp, Go, Rest, BadInv
<1>15. CASE AllocatePool("info pool", "KernelInfo", "info")
  BY <1>15 DEF AllocatePool, Fails, GiveUp, Go, Rest, BadInv
<1>16. CASE GetInfo
  BY <1>16 DEF GetInfo, FailsAnyhow, GiveUp, Go, Rest, BadInv
<1>17. CASE AllocatePages("kernel pages", "Kernel", KernelSize, "HasAllocatedKernel", "read")
  BY <1>17 DEF AllocatePages, AtAddressZero, Flagged, Fails, GiveUp, Go, Rest, BadInv
<1>18. CASE ReadKernel
  BY <1>18 DEF ReadKernel, Fails, GiveUp, Go, Rest, BadInv
<1>19. CASE AllocatePages("stack", "KernelStack", 1, "HasAllocatedStack", "headers")
  BY <1>19 DEF AllocatePages, AtAddressZero, Flagged, Fails, GiveUp, Go, Rest, BadInv
<1>20. CASE CheckHeaders
  BY <1>20 DEF CheckHeaders, Fails, FailsSilently, GiveUp, Go, Rest, BadInv
<1>21. CASE AllocatePages("area", "KernelArea", 1, "HasAllocatedKernelArea", "relocate")
  BY <1>21 DEF AllocatePages, AtAddressZero, Flagged, Fails, GiveUp, Go, Rest, BadInv
<1>22. CASE CopyAndRelocate
  BY <1>22 DEF CopyAndRelocate, FailsSilently, GiveUp, Go, Rest, BadInv
<1>23. CASE GetMemoryMapSize
  BY <1>23 DEF GetMemoryMapSize, GiveUp, Go, Rest, BadInv
<1>24. CASE AllocatePool("map pool", "Mmap", "usable pool")
  BY <1>24 DEF AllocatePool, Fails, GiveUp, Go, Rest, BadInv
<1>25. CASE AllocatePool("usable pool", "UsableMmap", "map")
  BY <1>25 DEF AllocatePool, Fails, GiveUp, Go, Rest, BadInv
<1>26. CASE GetMemoryMap
  BY <1>26 DEF GetMemoryMap, Fails, GiveUp, Go, Rest, BadInv
<1>27. CASE NextThreshold
  BY <1>27 DEF NextThreshold, BadInv
<1>28. CASE ComparePosition
  BY <1>28 DEF ComparePosition, BadInv
<1>29. CASE MapSorted
  BY <1>29 DEF MapSorted, Go, BadInv
<1>30. CASE ProcessEntry
  BY <1>30 DEF ProcessEntry, BadInv
<1>31. CASE OutOfResources
  BY <1>31 DEF OutOfResources, StatusWithoutMemory, GiveUp, Rest, BadInv
<1>32. CASE TrimMap
  BY <1>32 DEF TrimMap, Go, BadInv
<1>33. CASE SetGraphicsMode
  BY <1>33 DEF SetGraphicsMode, Go, BadInv
<1>34. CASE KernelReturns
  BY <1>34 DEF KernelReturns, GiveUp, Rest, BadInv
<1>35. CASE PressKey
  BY <1>35 DEF PressKey, Go, Rest, BadInv
<1>36. CASE FreeAllPages
  <2> DEFINE mine == IF Is("HasAllocatedMemory")
                     THEN UNION {PagesOf(scan.usable[i].Base, scan.usable[i].Limit) : i \in DOMAIN scan.usable}
                     ELSE {}
  <2>1. at = "free pages" /\ at' = "close files" /\ bad' = bad \cup (mine \cap held.free)
    BY <1>36 DEF FreeAllPages, Go
  <2>2. mine \subseteq UsablePages
    BY DEF UsablePages
  <2>3. held.free = FreeAtFirst \ UsablePages
    BY <2>1 DEF MapInv, Released, Closed
  <2> HIDE DEF mine
  <2> QED
    BY <2>1, <2>2, <2>3 DEF BadInv
<1>37. CASE CloseFiles
  <2> DEFINE files == IF ptr.File # 0 THEN {<<"Volume", ptr.File>>} ELSE {}
             protocols == IF Is("HasOpenedFsProtocols") THEN {<<"Fs", ptr.SimpleFs>>} ELSE {}
  <2>1. at = "close files" /\ at' = "close gop"
    BY <1>37 DEF CloseFiles, Go
  <2>2. bad' = (bad \cup (files \ held.files)) \cup (protocols \ held.protocols) \/ bad' = bad
    BY <1>37 DEF CloseFiles
  <2>3. files \subseteq held.files
    BY <2>1 DEF FilesInv, Closed
  <2>4. protocols \subseteq held.protocols
    BY <2>1 DEF ProtocolsHeld, Closed
  <2> HIDE DEF files, protocols
  <2> QED
    BY <2>1, <2>2, <2>3, <2>4 DEF BadInv
<1>38. CASE CloseGop
  <2> DEFINE gop == IF Is("HasOpenedGopProtocols") THEN {<<"Gop", ptr.Gop>>} ELSE {}
             edid == IF Is("HasOpenedGopProtocols") /\ Is("HasOpenedEdidProtocols")
                     THEN {<<"Edid", ptr.Gop>>} ELSE {}
  <2>1. at = "close gop" /\ at' = "free pools"
    BY <1>38 DEF CloseGop, Go
  <2>2. bad' = bad \cup ((gop \cup edid) \ held.protocols) \/ bad' = bad
    BY <1>38 DEF CloseGop, GopOpened
  <2>3. gop \cup edid \subseteq held.protocols
    BY <2>1 DEF ProtocolsHeld
  <2> HIDE DEF gop, edid
  <2> QED
    BY <2>1, <2>2, <2>3 DEF BadInv
<1>39. CASE FreePools
  <2> DEFINE freed == {name \in {"KernelInfo", "Mmap", "UsableMmap"} : ptr[name] # "NULL"}
  <2>1. at = "free pools" /\ at' = "exited" /\ ptr' = ptr
    BY <1>39 DEF FreePools, Go
  <2>2. bad' = bad \cup {<<"pool", name>> : name \in freed \ held.pools}
    BY <1>39 DEF FreePools
  <2>3. bad = {}
    BY <2>1 DEF BadInv
  <2>4. freed \ held.pools = IF ptr.Mmap = "stack" THEN {"Mmap"} ELSE {}
    BY <1>0, <2>1 DEF PoolInv
  <2> HIDE DEF freed
  <2>5. CASE ptr.Mmap = "stack"
    BY <2>1, <2>2, <2>3, <2>4, <2>5 DEF BadInv
  <2>6. CASE ptr.Mmap # "stack"
    BY <2>1, <2>2, <2>3, <2>4, <2>6 DEF BadInv
  <2> QED
    BY <2>5, <2>6
<1>40. CASE UNCHANGED vars
  BY <1>40 DEF vars, BadInv
<1> QED
  BY <1>1, <1>2, <1>3, <1>4, <1>5, <1>6, <1>7, <1>8, <1>9, <1>10, <1>11, <1>12, <1>13, <1>14, <1>15, <1>16, <1>17,
     <1>18, <1>19, <1>20, <1>21, <1>22, <1>23, <1>24, <1>25, <1>26, <1>27, <1>28, <1>29, <1>30, <1>31, <1>32,
     <1>33, <1>34, <1>35, <1>36, <1>37, <1>38, <1>39, <1>40 DEF Next, LoadKernel

LEMMA StatusInit == Init => StatusInv
  BY DEF Init, StatusInv, Cleanup, Leaving, Released, Closed

\* Giving up with a status of success has one of the reasons.
LEMMA StatusStep == TypeInv /\ MapInv /\ StatusInv /\ [Next]_vars => StatusInv'
<1> SUFFICES ASSUME TypeInv, MapInv, StatusInv, [Next]_vars PROVE StatusInv'
  OBVIOUS
<1>0. index \in Nat \ {0} /\ fw.volumes \in Seq({"closed", "unreadable", "other", "kernel"})
  BY FirmwaresAssumption DEF MapInv, TypeInv, Firmware
<1>1. CASE CheckTables
  BY <1>1, <1>0 DEF CheckTables, Go, StatusInv, Cleanup, Leaving, Released, Closed
<1>2. CASE QueryTextMode
  BY <1>2, <1>0 DEF QueryTextMode, StatusInv, Cleanup, Leaving, Released, Closed
<1>3. CASE TextModesQueried
  BY <1>3, <1>0 DEF TextModesQueried, Go, StatusInv, Cleanup, Leaving, Released, Closed
<1>4. CASE LocateGopHandles
  BY <1>4, <1>0 DEF LocateGopHandles, Go, StatusInv, Cleanup, Leaving, Released, Closed
<1>5. CASE OpenGop
  BY <1>5, <1>0 DEF OpenGop, Go, StatusInv, Cleanup, Leaving, Released, Closed
<1>6. CASE NoGop
  BY <1>6, <1>0 DEF NoGop, Go, StatusInv, Cleanup, Leaving, Released, Closed
<1>7. CASE OpenEdid
  BY <1>7, <1>0 DEF OpenEdid, Go, StatusInv, Cleanup, Leaving, Released, Closed
<1>8. CASE QueryGraphicsMode
  BY <1>8, <1>0 DEF QueryGraphicsMode, StatusInv, Cleanup, Leaving, Released, Closed
<1>9. CASE GraphicsModesQueried
  BY <1>9, <1>0 DEF GraphicsModesQueried, Go, StatusInv, Cleanup, Leaving, Released, Closed
<1>10. CASE ScanConfigurationTable
  BY <1>10, <1>0 DEF ScanConfigurationTable, StatusInv, Cleanup, Leaving, Released, Closed
<1>11. CASE LocateFsHandles
  BY <1>11, <1>0 DEF LocateFsHandles, Go, GiveUp, StatusInv, Cleanup, Leaving, Released, Closed
<1>12. CASE OpenVolume
  BY <1>12, <1>0 DEF OpenVolume, FlagsAfterVolume, NextHandle, OpenAfterVolume, Go, StatusInv, Cleanup, Leaving,
     Released, Closed
<1>13. CASE KernelNotFound
  BY <1>13, <1>0 DEF KernelNotFound, GiveUp, StatusInv, Cleanup, Leaving, Released, Closed
<1>14. CASE GetInfoSize
  BY <1>14, <1>0 DEF GetInfoSize, FailsAnyhow, GiveUp, Go, Rest, StatusInv, Cleanup, Leaving, Released, Closed
<1>15. CASE AllocatePool("info pool", "KernelInfo", "info")
  BY <1>15, <1>0 DEF AllocatePool, Fails, GiveUp, Go, Rest, StatusInv, Cleanup, Leaving, Released, Closed
<1>16. CASE GetInfo
  BY <1>16, <1>0 DEF GetInfo, FailsAnyhow, GiveUp, Go, Rest, StatusInv, Cleanup, Leaving, Released, Closed
<1>17. CASE AllocatePages("kernel pages", "Kernel", KernelSize, "HasAllocatedKernel", "read")
  BY <1>17, <1>0 DEF AllocatePages, AtAddressZero, Flagged, Fails, GiveUp, Go, Rest, StatusInv, Cleanup, Leaving, Released, Closed
<1>18. CASE ReadKernel
  BY <1>18, <1>0 DEF ReadKernel, Fails, GiveUp, Go, Rest, StatusInv, Cleanup, Leaving, Released, Closed
<1>19. CASE AllocatePages("stack", "KernelStack", 1, "HasAllocatedStack", "headers")
  BY <1>19, <1>0 DEF AllocatePages, AtAddressZero, Flagged, Fails, GiveUp, Go, Rest, StatusInv, Cleanup, Leaving, Released, Closed
<1>20. CASE CheckHeaders
  BY <1>20, <1>0 DEF CheckHeaders, Fails, FailsSilently, GiveUp, Go, Rest, StatusInv, Cleanup, Leaving, Released,
     Closed
<1>21. CASE AllocatePages("area", "KernelArea", 1, "HasAllocatedKernelArea", "relocate")
  BY <1>21, <1>0 DEF AllocatePages, AtAddressZero, Flagged, Fails, GiveUp, Go, Rest, StatusInv, Cleanup, Leaving, Released, Closed
<1>22. CASE CopyAndRelocate
  BY <1>22, <1>0 DEF CopyAndRelocate, FailsSilently, GiveUp, Go, Rest, StatusInv, Cleanup, Leaving, Released, Closed
<1>23. CASE GetMemoryMapSize
  BY <1>23, <1>0 DEF GetMemoryMapSize, GiveUp, Go, Rest, StatusInv, Cleanup, Leaving, Released, Closed
<1>24. CASE AllocatePool("map pool", "Mmap", "usable pool")
  BY <1>24, <1>0 DEF AllocatePool, Fails, GiveUp, Go, Rest, StatusInv, Cleanup, Leaving, Released, Closed
<1>25. CASE AllocatePool("usable pool", "UsableMmap", "map")
  BY <1>25, <1>0 DEF AllocatePool, Fails, GiveUp, Go, Rest, StatusInv, Cleanup, Leaving, Released, Closed
<1>26. CASE GetMemoryMap
  BY <1>26, <1>0 DEF GetMemoryMap, Fails, GiveUp, Go, Rest, StatusInv, Cleanup, Leaving, Released, Closed
<1>27. CASE NextThreshold
  BY <1>27, <1>0 DEF NextThreshold, StatusInv, Cleanup, Leaving, Released, Closed
<1>28. CASE ComparePosition
  BY <1>28, <1>0 DEF ComparePosition, StatusInv, Cleanup, Leaving, Released, Closed
<1>29. CASE MapSorted
  BY <1>29, <1>0 DEF MapSorted, Go, StatusInv, Cleanup, Leaving, Released, Closed
<1>30. CASE ProcessEntry
  BY <1>30, <1>0 DEF ProcessEntry, StatusInv, Cleanup, Leaving, Released, Closed
<1>31. CASE OutOfResources
  BY <1>31, <1>0 DEF OutOfResources, StatusWithoutMemory, GiveUp, Rest, StatusInv, Cleanup, Leaving, Released, Closed
<1>32. CASE TrimMap
  BY <1>32, <1>0 DEF TrimMap, Go, StatusInv, Cleanup, Leaving, Released, Closed
<1>33. CASE SetGraphicsMode
  BY <1>33, <1>0 DEF SetGraphicsMode, Go, StatusInv, Cleanup, Leaving, Released, Closed
<1>34. CASE KernelReturns
  BY <1>34, <1>0 DEF KernelReturns, GiveUp, Rest, StatusInv, Cleanup, Leaving, Released, Closed
<1>35. CASE PressKey
  BY <1>35, <1>0 DEF PressKey, Go, Rest, StatusInv, Cleanup, Leaving, Released, Closed
<1>36. CASE FreeAllPages
  BY <1>36, <1>0 DEF FreeAllPages, Go, StatusInv, Cleanup, Leaving, Released, Closed
<1>37. CASE CloseFiles
  BY <1>37, <1>0 DEF CloseFiles, Go, StatusInv, Cleanup, Leaving, Released, Closed
<1>38. CASE CloseGop
  BY <1>38, <1>0 DEF CloseGop, Go, StatusInv, Cleanup, Leaving, Released, Closed
<1>39. CASE FreePools
  BY <1>39, <1>0 DEF FreePools, Go, StatusInv, Cleanup, Leaving, Released, Closed
<1>40. CASE UNCHANGED vars
  BY <1>40 DEF vars, StatusInv
<1> QED
  BY <1>1, <1>2, <1>3, <1>4, <1>5, <1>6, <1>7, <1>8, <1>9, <1>10, <1>11, <1>12, <1>13, <1>14, <1>15, <1>16, <1>17,
     <1>18, <1>19, <1>20, <1>21, <1>22, <1>23, <1>24, <1>25, <1>26, <1>27, <1>28, <1>29, <1>30, <1>31, <1>32,
     <1>33, <1>34, <1>35, <1>36, <1>37, <1>38, <1>39, <1>40 DEF Next, LoadKernel

-----------------------------------------------------------------------------
(***************************************************************************)
(* Together: the cleanup releases just what is held.                       *)
(***************************************************************************)
LEMMA ResourceInit == Init => ResourceInv
  BY FlagInit, PtrInit, PoolInit, ProtocolInit, FilesInit, PagesInit, SseInit, BadInit, StatusInit
  DEF ResourceInv, HeldInv

\* Every action keeps what is held in accord with the flags and pointers.
LEMMA ResourceStep == TypeInv /\ FlowInv /\ MapInv /\ ResourceInv /\ [Next]_vars => ResourceInv'
  BY FlagStep, PtrStep, PoolStep, ProtocolStep, FilesStep, PagesStep, SseStep, BadStep, StatusStep
  DEF ResourceInv, HeldInv

LEMMA TypeIsOK == TypeInv /\ MapInv /\ ResourceInv => TypeOK
<1> SUFFICES ASSUME TypeInv, MapInv, ResourceInv PROVE TypeOK
  OBVIOUS
<1>1. AppStatus \in {"Success", "Error"} /\ KernelSize \in 0 .. KernelPages /\ display \in {"Gop", "EfiText", "Unknown"}
  BY DEF TypeInv
<1>2. scan.FirmwareMemory \in 0 .. MinFirmwareMemory
  BY DEF MapInv, ScanType
<1>3. held.pools \subseteq {"GopHandles", "FsHandles", "KernelInfo", "Mmap", "UsableMmap"}
  BY DEF ResourceInv, HeldInv, PoolInv
<1>4. held.pages \in [Kernel : Nat, KernelStack : Nat, KernelArea : Nat]
  BY DEF ResourceInv, HeldInv, PagesInv
<1>5. \A f \in held.files : f[1] \in {"Volume", "Kernel"} /\ f[2] \in Nat
  BY DEF ResourceInv, HeldInv, FilesInv
<1>6. \A p \in held.protocols : p[1] \in {"Gop", "Edid", "Fs"} /\ p[2] \in Nat
  <2>1. ptr.Gop \in Nat /\ ptr.SimpleFs \in Nat
    BY DEF ResourceInv, PtrInv
  <2>2. \A p \in held.protocols : p \in {<<"Gop", ptr.Gop>>, <<"Edid", ptr.Gop>>, <<"Fs", ptr.SimpleFs>>}
    BY DEF ResourceInv, HeldInv, ProtocolsHeld
  <2> QED
    BY <2>1, <2>2
<1> QED
  BY <1>1, <1>2, <1>3, <1>4, <1>5, <1>6 DEF TypeOK

\* After the cleanup all flags are used up.
LEMMA NothingStays == TypeInv /\ MapInv /\ ResourceInv => NothingIsLeft
<1> SUFFICES ASSUME TypeInv, MapInv, ResourceInv, at \in {"returned", "exited"}
             PROVE  /\ held.pools = {} /\ held.protocols = {} /\ ~held.sse
                    /\ \A i \in DOMAIN scan.usable :
                         PagesOf(scan.usable[i].Base, scan.usable[i].Limit) \subseteq held.free
                    /\ \A name \in DOMAIN held.pages :
                         held.pages[name] > 0 =>
                           \/ name = "Kernel" /\ KernelSize < KernelPages
                           \/ <<name, left>> \in {<<"Kernel", "kernel pages">>, <<"KernelStack", "stack">>,
                                                  <<"KernelArea", "area">>}
                    /\ \A file \in held.files :
                         \/ file[1] = "Volume" /\ fw.volumes[file[2]] = "other"
                         \/ file[1] = "Kernel" /\ left \in {"info size", "info pool", "info", "kernel pages", "read"}
  BY DEF NothingIsLeft
<1> USE DEF ResourceInv, HeldInv
<1>1. at = "returned" =>
        /\ Here = "returned" /\ at \notin Cleanup /\ at \in BeforeSort
        /\ \A flag \in FlagNames \ {"SupportsConIn", "SupportsConOut"} : ~Is(flag)
        /\ ptr.KernelInfo # "pool" /\ ptr.Mmap # "pool" /\ ptr.UsableMmap # "pool"
  <2>1. at = "returned" => Here = "returned" /\ at \notin Cleanup /\ at \in BeforeSort
    BY DEF Here, Cleanup, Leaving, Released, Closed, BeforeSort
  <2>2. Here = "returned" => \A flag \in FlagNames \ {"SupportsConIn", "SupportsConOut"} : ~Is(flag)
    BY DEF FlagInv, Is
  <2>3. Here = "returned" => ptr.KernelInfo # "pool" /\ ptr.Mmap # "pool" /\ ptr.UsableMmap # "pool"
    BY DEF PtrInv, AfterInfoPool, AfterMapPool, AfterUsablePool, AfterArea, AfterStack, AfterPages, AfterVolume,
           LoadSteps, EndSteps
  <2> QED
    BY <2>1, <2>2, <2>3
<1>2. at = "exited" => at \in Closed /\ at \in Released /\ Here = left
  BY DEF Here, Cleanup, Leaving, Released, Closed
<1>3. held.pools = {}
  <2>1. "GopHandles" \notin held.pools /\ "FsHandles" \notin held.pools
    BY <1>1, <1>2 DEF PoolInv, FlagNames
  <2>2. "KernelInfo" \notin held.pools /\ "Mmap" \notin held.pools /\ "UsableMmap" \notin held.pools
    BY <1>1 DEF PoolInv
  <2> QED
    BY <2>1, <2>2 DEF PoolInv
<1>4. held.protocols = {}
  <2>1. CASE at = "returned"
    BY <1>1, <2>1 DEF ProtocolsHeld, FlagNames
  <2>2. CASE at = "exited"
    BY <1>2, <2>2 DEF ProtocolsHeld
  <2> QED
    BY <2>1, <2>2
<1>5. ~held.sse
  BY DEF SseInv
<1>6. \A i \in DOMAIN scan.usable : PagesOf(scan.usable[i].Base, scan.usable[i].Limit) \subseteq held.free
  <2>1. CASE at = "returned"
    <3>1. scan.usable = <<>>
      BY <1>1, <2>1 DEF MapInv
    <3> QED
      BY <3>1
  <2>2. CASE at = "exited"
    BY <1>2, <2>2 DEF MapInv, UsablePages
  <2> QED
    BY <2>1, <2>2
<1>7. \A name \in DOMAIN held.pages : held.pages[name] > 0 =>
        \/ name = "Kernel" /\ KernelSize < KernelPages
        \/ <<name, left>> \in {<<"Kernel", "kernel pages">>, <<"KernelStack", "stack">>, <<"KernelArea", "area">>}
  <2>0. held.pages \in [Kernel : Nat, KernelStack : Nat, KernelArea : Nat]
    BY DEF PagesInv
  <2>01. \A name \in {"Kernel", "KernelStack", "KernelArea"} : held.pages[name] > 0 => held.pages[name] # 0
    <3>1. \A n \in Nat : n > 0 => n # 0
      OBVIOUS
    <3>2. \A name \in {"Kernel", "KernelStack", "KernelArea"} : held.pages[name] \in Nat
      BY <2>0
    <3> QED
      BY <3>1, <3>2
  <2>1. SUFFICES ASSUME NEW name \in {"Kernel", "KernelStack", "KernelArea"}, held.pages[name] # 0,
                        name = "Kernel" => left # "kernel pages", name = "KernelStack" => left # "stack",
                        name = "KernelArea" => left # "area"
                 PROVE  name = "Kernel" /\ KernelSize < KernelPages
    <3>1. DOMAIN held.pages = {"Kernel", "KernelStack", "KernelArea"}
      BY <2>0
    <3>2. \A name \in {"Kernel", "KernelStack", "KernelArea"} :
            \/ <<name, left>> \in {<<"Kernel", "kernel pages">>, <<"KernelStack", "stack">>, <<"KernelArea", "area">>}
            \/ /\ name = "Kernel" => left # "kernel pages"
               /\ name = "KernelStack" => left # "stack"
               /\ name = "KernelArea" => left # "area"
      OBVIOUS
    <3> QED
      BY <2>01, <3>1, <3>2
  <2>2. CASE at = "returned"
    <3>1. at \notin Released
      BY <2>2 DEF Released, Closed
    <3>2. held.pages.Kernel = 0 /\ held.pages.KernelStack = 0 /\ held.pages.KernelArea = 0
      BY <1>1, <2>2, <3>1 DEF PagesInv, PagesHeld, MaybeLost, Cleanup, Leaving, Released, Closed, FlagNames
    <3>3. held.pages[name] = 0
      BY <3>2
    <3> QED
      BY <2>1, <3>3
  <2>3. CASE at = "exited"
    <3>1. /\ left # "stack" => held.pages.KernelStack = 0
          /\ left # "area" => held.pages.KernelArea = 0
          /\ left # "kernel pages" => held.pages.Kernel \in {0, KernelPages - KernelSize}
      BY <1>2, <2>3 DEF PagesInv, PagesHeld, MaybeLost
    <3>2. KernelSize \in 0 .. KernelPages
      BY DEF TypeInv
    <3>3. CASE name = "Kernel"
      <4>1. held.pages[name] = held.pages.Kernel /\ left # "kernel pages"
        BY <2>1, <3>3
      <4>2. held.pages.Kernel \in {0, KernelPages - KernelSize}
        BY <3>1, <4>1
      <4>3. held.pages.Kernel # 0
        BY <2>1, <4>1
      <4> QED
        BY <3>2, <3>3, <4>2, <4>3, SizesAssumption
    <3>4. CASE name # "Kernel"
      <4>1. (name = "KernelStack" /\ left # "stack") \/ (name = "KernelArea" /\ left # "area")
        BY <2>1, <3>4
      <4>2. held.pages[name] = 0
        BY <3>1, <4>1
      <4> QED
        BY <2>1, <4>2
    <3> QED
      BY <3>3, <3>4
  <2> QED
    BY <2>2, <2>3
<1>8. \A file \in held.files :
        \/ file[1] = "Volume" /\ fw.volumes[file[2]] = "other"
        \/ file[1] = "Kernel" /\ left \in {"info size", "info pool", "info", "kernel pages", "read"}
  <2>1. SUFFICES ASSUME NEW file \in held.files, ~(file[1] = "Volume" /\ fw.volumes[file[2]] = "other")
                 PROVE  file[1] = "Kernel" /\ left \in FileOpen
    BY DEF FileOpen
  <2>2. at = "returned" => Here \notin AfterVolume /\ Here \notin FileOpen
    BY <1>1 DEF AfterVolume, LoadSteps, EndSteps, FileOpen
  <2>3. file = <<"Kernel", ptr.File>> /\ Here \in FileOpen
    BY <1>2, <2>1, <2>2 DEF FilesInv, FilesKnown
  <2> QED
    BY <1>2, <2>2, <2>3
<1> QED
  BY <1>3, <1>4, <1>5, <1>6, <1>7, <1>8

\* The three conditions on the exit.
LEMMA ExitRight == TypeInv /\ MapInv /\ ResourceInv => ExitIsRight
<1> SUFFICES ASSUME TypeInv, MapInv, ResourceInv PROVE ExitIsRight
  OBVIOUS
<1>1. OnlyHeldIsReleased
  <2>1. SUFFICES ASSUME bad # {} PROVE bad = {<<"pool", "Mmap">>} /\ left \in {"map size", "map pool"}
    BY DEF OnlyHeldIsReleased
  <2>2. at = "exited" /\ ptr.Mmap = "stack" /\ bad = {<<"pool", "Mmap">>}
    BY <2>1 DEF ResourceInv, BadInv
  <2> QED
    BY <2>2 DEF ResourceInv, PtrInv, Here, Cleanup, Leaving, Released, Closed
<1>2. SuccessHasItsReasons
  BY DEF ResourceInv, StatusInv, SuccessHasItsReasons, Cleanup, Released, Closed
<1> QED
  BY <1>1, <1>2, TypeIsOK, NothingStays DEF ExitIsRight

-----------------------------------------------------------------------------
(***************************************************************************)
(* The choices of the loops over modes and tables.                         *)
(***************************************************************************)
LEMMA ChoiceInit == Init => ChoiceInv
  BY DEF Init, ChoiceInv, NoMode, ModeRecord, AfterVolume, LoadSteps, EndSteps

\* The modes that were looked at stay looked at.
LEMMA MaximalAsBefore ==
  ASSUME fw' = fw, best'.graphics = best.graphics, Is("SupportsEdid")' <=> Is("SupportsEdid")
  PROVE  MaxMode' = MaxMode /\ \A n : Maximal(n) => Maximal(n)'
<1>1. MaxMode' = MaxMode /\ Preferred' = Preferred
  BY DEF MaxMode, Preferred
<1>2. \A mode : Eligible(mode)' <=> Eligible(mode)
  BY <1>1 DEF Eligible
<1> QED
  BY <1>1, <1>2 DEF Maximal

\* The steps that choose nothing.
LEMMA ChoiceAsBefore ==
  ASSUME ChoiceInv, fw' = fw, tables' = tables, display' = display,
         best'.graphics = best.graphics, DOMAIN best' = DOMAIN best,
         at' \notin {"gop", "edid", "mode", "acpi"},
         at' \in {"volume"} \cup AfterVolume =>
           /\ at \in {"volume"} \cup AfterVolume
           /\ \A flag \in {"SupportsGop", "SupportsEdid", "SupportsConOut"} : Is(flag)' <=> Is(flag)
  PROVE  ChoiceInv'
<1>1. /\ best'.graphics \in ModeRecord /\ DOMAIN best' = {"text", "graphics"}
      /\ tables'.Acpi \in {"none", "Acpi", "Acpi2"}
  BY DEF ChoiceInv
<1>2. CASE at' \notin {"volume"} \cup AfterVolume
  BY <1>1, <1>2 DEF ChoiceInv
<1>3. CASE at' \in {"volume"} \cup AfterVolume
  <2>1. AcpiOf(Len(fw.tables))'
    BY <1>3 DEF ChoiceInv, AcpiOf
  <2>2. /\ display' = "Gop" => Is("SupportsGop")'
        /\ display' = "EfiText" => Is("SupportsConOut")'
    BY <1>3 DEF ChoiceInv
  <2>3. Is("SupportsGop")' => Maximal(MaxMode)'
    <3>1. SUFFICES ASSUME Is("SupportsGop") PROVE Maximal(MaxMode)'
      BY <1>3
    <3>2. PICK n : n = MaxMode
      OBVIOUS
    <3>3. Maximal(n)
      BY <1>3, <3>1, <3>2 DEF ChoiceInv
    <3>4. MaxMode' = n /\ Maximal(n)'
      BY <1>3, <3>2, <3>3, MaximalAsBefore
    <3> QED
      BY <3>4 DEF Maximal
  <2> QED
    BY <1>1, <2>1, <2>2, <2>3 DEF ChoiceInv
<1> QED
  BY <1>2, <1>3

\* The loop goes on, if no mode up to this one is better than the best.
LEMMA ModeQueried ==
  ASSUME TypeInv, MapInv, at' = "mode", UNCHANGED <<fw, tables, flags>>, index' = index + 1, index <= MaxMode, index \in Nat,
         tables.Acpi \in {"none", "Acpi", "Acpi2"}, DOMAIN best' = {"text", "graphics"}, best'.graphics \in ModeRecord,
         \A m \in 1 .. index : Eligible(fw.modes[m]) => NoBetter(fw.modes[m], best'.graphics)
  PROVE  ChoiceInv'
<1>1. MaxMode' = MaxMode /\ Preferred' = Preferred
  BY DEF MaxMode, Preferred, Is
<1>2. \A mode : Eligible(mode)' <=> Eligible(mode)
  BY <1>1 DEF Eligible
<1>3. MaxMode \in Nat
  BY FirmwaresAssumption DEF MaxMode, TypeInv, Firmware
<1>4. index' - 1 = index /\ index' <= MaxMode' + 1
  BY <1>1, <1>3
<1>5. Maximal(index - 1)'
  BY <1>2, <1>4 DEF Maximal
<1> QED
  BY <1>4, <1>5 DEF ChoiceInv, AfterVolume, LoadSteps, EndSteps

\* A mode that is not chosen is not better, and one that is chosen is no worse than the last.
LEMMA QueryGraphicsModeKeeps ==
  ASSUME TypeInv, MapInv, ChoiceInv, QueryGraphicsMode
  PROVE  ChoiceInv'
<1> DEFINE mode == fw.modes[index]
           old == best.graphics
           new == best'.graphics
           Area(m) == m.HRes * m.VRes
<1>1. /\ at = "mode" /\ at' = "mode" /\ UNCHANGED <<fw, tables, flags>>
      /\ index' = index + 1 /\ index <= MaxMode /\ index \in Nat \ {0}
      /\ tables.Acpi \in {"none", "Acpi", "Acpi2"} /\ DOMAIN best = {"text", "graphics"} /\ old \in ModeRecord
      /\ Maximal(index - 1)
  BY DEF QueryGraphicsMode, MapInv, ChoiceInv
<1>2. /\ fw.modes \in Seq(GraphicsMode) /\ fw.modes # <<>>
  BY FirmwaresAssumption DEF TypeInv, Firmware
<1>3. MaxMode \in Nat /\ MaxMode <= Len(fw.modes)
  BY <1>2 DEF MaxMode
<1>4. \A m \in 1 .. index : fw.modes[m] \in GraphicsMode
  <2>1. Len(fw.modes) \in Nat /\ \A m \in 1 .. Len(fw.modes) : fw.modes[m] \in GraphicsMode
    BY <1>2
  <2> QED
    BY <1>1, <1>3, <2>1
<1>5. CASE Eligible(mode) /\ Better(mode, old)
  <2>1. new = [Mode |-> index - 1, ColorDepth |-> mode.ColorDepth, HRes |-> mode.HRes, VRes |-> mode.VRes]
        /\ DOMAIN best' = DOMAIN best
    BY <1>1, <1>5 DEF QueryGraphicsMode
  <2>2. mode \in GraphicsMode
    BY <1>1, <1>4
  <2>3. new \in ModeRecord
    BY <1>1, <2>1, <2>2 DEF ModeRecord, GraphicsMode
  <2>4. /\ new.ColorDepth = mode.ColorDepth /\ Area(new) = Area(mode)
        /\ new.ColorDepth >= old.ColorDepth /\ Area(new) >= Area(old)
    BY <1>5, <2>1 DEF Better
  <2>5. \A m \in 1 .. index : Eligible(fw.modes[m]) => NoBetter(fw.modes[m], new)
    <3>1. SUFFICES ASSUME NEW m \in 1 .. index, Eligible(fw.modes[m])
                   PROVE  NoBetter(fw.modes[m], new)
      OBVIOUS
    <3>2. CASE m = index
      BY <2>4, <3>2 DEF NoBetter
    <3>3. CASE m \in 1 .. (index - 1)
      <4>1. \/ fw.modes[m].ColorDepth < old.ColorDepth \/ Area(fw.modes[m]) < Area(old)
            \/ fw.modes[m].ColorDepth = old.ColorDepth /\ Area(fw.modes[m]) = Area(old)
        BY <1>1, <3>1, <3>3 DEF Maximal, NoBetter
      <4>2. /\ fw.modes[m].ColorDepth \in Nat /\ old.ColorDepth \in Nat /\ new.ColorDepth \in Nat
            /\ Area(fw.modes[m]) \in Nat /\ Area(old) \in Nat /\ Area(new) \in Nat
        BY <1>1, <1>4, <2>3 DEF ModeRecord, GraphicsMode
      <4>3. \/ fw.modes[m].ColorDepth < new.ColorDepth \/ Area(fw.modes[m]) < Area(new)
            \/ fw.modes[m].ColorDepth = new.ColorDepth /\ Area(fw.modes[m]) = Area(new)
        <5> HIDE DEF Area, new, old
        <5> QED
          BY <2>4, <4>1, <4>2
      <4> QED
        BY <4>3 DEF NoBetter
    <3> QED
      BY <1>1, <3>2, <3>3
  <2> QED
    BY <1>1, <2>1, <2>3, <2>5, ModeQueried
<1>6. CASE ~(Eligible(mode) /\ Better(mode, old))
  <2>1. best' = best
    BY <1>6 DEF QueryGraphicsMode
  <2>2. \A m \in 1 .. index : Eligible(fw.modes[m]) => NoBetter(fw.modes[m], new)
    <3>1. SUFFICES ASSUME NEW m \in 1 .. index, Eligible(fw.modes[m])
                   PROVE  NoBetter(fw.modes[m], old)
      BY <2>1
    <3>2. CASE m = index
      <4>1. ~(mode.ColorDepth >= old.ColorDepth /\ Area(mode) >= Area(old))
        BY <1>6, <3>1, <3>2 DEF Better
      <4>2. /\ mode.ColorDepth \in Nat /\ old.ColorDepth \in Nat
            /\ Area(mode) \in Nat /\ Area(old) \in Nat
        BY <1>1, <1>4 DEF ModeRecord, GraphicsMode
      <4>3. mode.ColorDepth < old.ColorDepth \/ Area(mode) < Area(old)
        <5> HIDE DEF Area, old, mode
        <5> QED
          BY <4>1, <4>2
      <4> QED
        BY <3>2, <4>3 DEF NoBetter
    <3>3. CASE m \in 1 .. (index - 1)
      BY <1>1, <3>1, <3>3 DEF Maximal
    <3> QED
      BY <1>1, <3>2, <3>3
  <2> QED
    BY <1>1, <2>1, <2>2, ModeQueried
<1> QED
  BY <1>5, <1>6

\* Before the loop, nothing is known of the tables.
LEMMA NoTableYet == ASSUME index' = 1 PROVE AcpiOf(index - 1)'
<1>1. 1 .. (index' - 1) = {}
  OBVIOUS
<1> QED
  BY <1>1 DEF AcpiOf

\* Every action keeps the choices right.
LEMMA ChoiceStep == TypeInv /\ MapInv /\ FlagInv /\ ChoiceInv /\ [Next]_vars => ChoiceInv'
<1> SUFFICES ASSUME TypeInv, MapInv, FlagInv, ChoiceInv, [Next]_vars PROVE ChoiceInv'
  OBVIOUS
<1>0. /\ index \in Nat \ {0}
      /\ fw.tables \in Seq({"Acpi", "Acpi2", "Smbios", "Smbios3"})
      /\ fw.modes \in Seq(GraphicsMode)
  BY FirmwaresAssumption DEF MapInv, TypeInv, Firmware
<1>1. CASE CheckTables
  BY <1>1, ChoiceAsBefore DEF CheckTables, Go, Is, AfterVolume, LoadSteps, EndSteps
<1>2. CASE QueryTextMode
  <2>1. at' = "text" /\ UNCHANGED <<fw, tables, display>>
    BY <1>2 DEF QueryTextMode
  <2>2. \/ best' = best
        \/ \E mode : best' = [best EXCEPT !.text = mode]
    BY <1>2 DEF QueryTextMode
  <2>3. best'.graphics = best.graphics /\ DOMAIN best' = DOMAIN best
    BY <2>2 DEF ChoiceInv
  <2> QED
    BY <2>1, <2>3, ChoiceAsBefore DEF AfterVolume, LoadSteps, EndSteps
<1>3. CASE TextModesQueried
  BY <1>3 DEF TextModesQueried, Go, ChoiceInv, AfterVolume, LoadSteps, EndSteps
<1>4. CASE LocateGopHandles
  <2>1. /\ at = "gop" /\ at' \in {"gop handle", "acpi"} /\ UNCHANGED <<fw, best, tables, index>>
        /\ at' = "acpi" => flags' = flags
    BY <1>4 DEF LocateGopHandles, Go
  <2>2. at' = "acpi" => ~Is("SupportsGop")'
    BY <2>1 DEF FlagInv, Here, BeforeGop, Is, Cleanup, Leaving, Released, Closed
  <2>3. index' = 1 /\ AcpiOf(index - 1)'
    BY <2>1, NoTableYet DEF ChoiceInv
  <2>4. 1 <= Len(fw.tables) + 1
    BY <1>0
  <2> QED
    BY <2>1, <2>2, <2>3, <2>4 DEF ChoiceInv, AfterVolume, LoadSteps, EndSteps
<1>5. CASE OpenGop
  <2>1. at' \in {"gop handle", "edid"} /\ UNCHANGED <<best, tables>> /\ (at' = "edid" => index' = 1)
    BY <1>5 DEF OpenGop, Go
  <2> QED
    BY <2>1 DEF ChoiceInv, AfterVolume, LoadSteps, EndSteps
<1>6. CASE NoGop
  <2>1. /\ at = "gop handle" /\ at' = "acpi" /\ UNCHANGED <<fw, best, tables, flags>> /\ index' = 1
    BY <1>6 DEF NoGop, Go
  <2>2. ~Is("SupportsGop")'
    BY <2>1 DEF FlagInv, Here, Is, Cleanup, Leaving, Released, Closed
  <2>3. AcpiOf(index - 1)'
    BY <2>1, NoTableYet
  <2>4. 1 <= Len(fw.tables) + 1
    BY <1>0
  <2> QED
    BY <2>1, <2>2, <2>3, <2>4 DEF ChoiceInv, AfterVolume, LoadSteps, EndSteps
<1>7. CASE OpenEdid
  <2>1. at = "edid" /\ at' = "mode" /\ UNCHANGED <<fw, best, tables, index>>
    BY <1>7 DEF OpenEdid, Go
  <2>2. index' = 1 /\ Maximal(index - 1)'
    BY <2>1 DEF ChoiceInv, Maximal
  <2>3. 1 <= MaxMode' + 1
    BY <2>1, <1>0 DEF MaxMode
  <2> QED
    BY <2>1, <2>2, <2>3 DEF ChoiceInv, AfterVolume, LoadSteps, EndSteps
<1>8. CASE QueryGraphicsMode
  BY <1>8, QueryGraphicsModeKeeps
<1>9. CASE GraphicsModesQueried
  <2>1. /\ at = "mode" /\ index > MaxMode /\ at' = "acpi" /\ UNCHANGED <<fw, best, tables>> /\ index' = 1
        /\ flags' \in {flags, flags \ {"SupportsGop", "SupportsEdid"}}
    BY <1>9 DEF GraphicsModesQueried, Go
  <2>2. AcpiOf(index - 1)'
    BY <2>1, NoTableYet
  <2>3. 1 <= Len(fw.tables) + 1
    BY <1>0
  <2>4. Is("SupportsGop")' => Maximal(MaxMode)'
    <3>1. SUFFICES ASSUME flags' = flags PROVE Maximal(MaxMode)'
      BY <2>1 DEF Is
    <3>2. MaxMode \in Nat /\ index \in Nat /\ index <= MaxMode + 1 /\ Maximal(index - 1)
      BY <1>0, <2>1 DEF ChoiceInv, MaxMode
    <3>3. PICK n \in Nat : n = MaxMode
      BY <3>2
    <3>4. index - 1 = n
      BY <2>1, <3>2, <3>3
    <3>5. Maximal(n)
      BY <3>2, <3>4
    <3>6. MaxMode' = n /\ Maximal(n)'
      BY <2>1, <3>1, <3>3, <3>5, MaximalAsBefore DEF Is
    <3> QED
      BY <3>6 DEF Maximal
  <2> QED
    BY <2>1, <2>2, <2>3, <2>4 DEF ChoiceInv, AfterVolume, LoadSteps, EndSteps
<1>10. CASE ScanConfigurationTable
  <2>1. at = "acpi" /\ at' = "acpi" /\ UNCHANGED <<fw, best, flags>> /\ index' = index + 1 /\ index <= Len(fw.tables)
    BY <1>10 DEF ScanConfigurationTable
  <2>2. tables'.Acpi = AcpiAfter(fw.tables[index])
    BY <1>10 DEF ScanConfigurationTable
  <2>3. fw.tables[index] \in {"Acpi", "Acpi2", "Smbios", "Smbios3"}
    BY <1>0, <2>1
  <2>4. tables.Acpi \in {"none", "Acpi", "Acpi2"} /\ AcpiOf(index - 1)
    BY <2>1 DEF ChoiceInv
  <2>5. AcpiOf(index - 1)'
    <3>0. 1 .. (index' - 1) = 1 .. index
      BY <1>0, <2>1
    <3>1. SUFFICES ASSUME NEW i \in 1 .. index
                   PROVE  /\ fw.tables[i] = "Acpi2" => tables'.Acpi = "Acpi2"
                          /\ fw.tables[i] = "Acpi" => tables'.Acpi # "none"
      BY <2>1, <3>0 DEF AcpiOf
    <3>2. CASE i = index
      BY <2>2, <3>2 DEF AcpiAfter
    <3>3. CASE i \in 1 .. (index - 1)
      BY <2>2, <2>4, <3>3 DEF AcpiAfter, AcpiOf
    <3> QED
      BY <1>0, <3>2, <3>3
  <2>6. tables'.Acpi \in {"none", "Acpi", "Acpi2"}
    BY <2>2, <2>3, <2>4 DEF AcpiAfter
  <2>7. index' <= Len(fw'.tables) + 1
    BY <1>0, <2>1
  <2>8. Is("SupportsGop")' => Maximal(MaxMode)'
    <3>1. SUFFICES ASSUME Is("SupportsGop") PROVE Maximal(MaxMode)'
      BY <2>1 DEF Is
    <3>2. PICK n : n = MaxMode
      OBVIOUS
    <3>3. Maximal(n)
      BY <2>1, <3>1, <3>2 DEF ChoiceInv
    <3>4. MaxMode' = n /\ Maximal(n)'
      BY <2>1, <3>2, <3>3, MaximalAsBefore DEF Is
    <3> QED
      BY <3>4 DEF Maximal
  <2> QED
    BY <2>1, <2>5, <2>6, <2>7, <2>8 DEF ChoiceInv, AfterVolume, LoadSteps, EndSteps
<1>11. CASE LocateFsHandles
  <2>1. /\ at = "acpi" /\ index > Len(fw.tables) /\ at' \in {"volume", "exit"} /\ UNCHANGED <<fw, best, tables>>
        /\ flags' \in {flags, flags \cup {"HasOpenedFsHandles"}}
    BY <1>11 DEF LocateFsHandles, Go, GiveUp
  <2>2. display' = IF Is("SupportsGop") THEN "Gop" ELSE IF Is("SupportsConOut") THEN "EfiText" ELSE "Unknown"
    BY <1>11 DEF LocateFsHandles
  <2>3. \A flag \in {"SupportsGop", "SupportsEdid", "SupportsConOut"} : Is(flag)' <=> Is(flag)
    BY <2>1 DEF Is
  <2>4. AcpiOf(Len(fw.tables))'
    <3>1. Len(fw.tables) \in Nat /\ index <= Len(fw.tables) + 1 /\ AcpiOf(index - 1)
      BY <1>0, <2>1 DEF ChoiceInv
    <3>2. index - 1 = Len(fw.tables)
      BY <1>0, <2>1, <3>1
    <3> QED
      BY <2>1, <3>1, <3>2 DEF AcpiOf
  <2>5. Is("SupportsGop")' => Maximal(MaxMode)'
    <3>1. SUFFICES ASSUME Is("SupportsGop") PROVE Maximal(MaxMode)'
      BY <2>3
    <3>2. PICK n : n = MaxMode
      OBVIOUS
    <3>3. Maximal(n)
      BY <2>1, <3>1, <3>2 DEF ChoiceInv
    <3>4. MaxMode' = n /\ Maximal(n)'
      BY <2>1, <2>3, <3>2, <3>3, MaximalAsBefore
    <3> QED
      BY <3>4 DEF Maximal
  <2>6. at' = "volume" \/ at' \notin {"gop", "edid", "mode", "acpi", "volume"} \cup AfterVolume
    BY <2>1 DEF AfterVolume, LoadSteps, EndSteps
  <2>7. best'.graphics \in ModeRecord /\ DOMAIN best' = {"text", "graphics"} /\ tables'.Acpi \in {"none", "Acpi", "Acpi2"}
    BY <2>1 DEF ChoiceInv
  <2>8. /\ display' = "Gop" => Is("SupportsGop")'
        /\ display' = "EfiText" => Is("SupportsConOut")'
    BY <2>2, <2>3
  <2> QED
    BY <2>4, <2>5, <2>6, <2>7, <2>8 DEF ChoiceInv
<1>12. CASE OpenVolume
  BY <1>12, ChoiceAsBefore DEF OpenVolume, FlagsAfterVolume, NextHandle, OpenAfterVolume, Go, Is, AfterVolume,
     LoadSteps, EndSteps
<1>13. CASE KernelNotFound
  BY <1>13, ChoiceAsBefore DEF KernelNotFound, GiveUp, Is, AfterVolume, LoadSteps, EndSteps
<1>14. CASE GetInfoSize
  BY <1>14, ChoiceAsBefore DEF GetInfoSize, FailsAnyhow, GiveUp, Go, Rest, Is, AfterVolume, LoadSteps, EndSteps
<1>15. CASE AllocatePool("info pool", "KernelInfo", "info")
  BY <1>15, ChoiceAsBefore DEF AllocatePool, Fails, GiveUp, Go, Rest, Is, AfterVolume, LoadSteps, EndSteps
<1>16. CASE GetInfo
  BY <1>16, ChoiceAsBefore DEF GetInfo, FailsAnyhow, GiveUp, Go, Rest, Is, AfterVolume, LoadSteps, EndSteps
<1>17. CASE AllocatePages("kernel pages", "Kernel", KernelSize, "HasAllocatedKernel", "read")
  BY <1>17, ChoiceAsBefore DEF AllocatePages, AtAddressZero, Flagged, Fails, GiveUp, Go, Rest, Is, AfterVolume, LoadSteps, EndSteps
<1>18. CASE ReadKernel
  BY <1>18, ChoiceAsBefore DEF ReadKernel, Fails, GiveUp, Go, Rest, Is, AfterVolume, LoadSteps, EndSteps
<1>19. CASE AllocatePages("stack", "KernelStack", 1, "HasAllocatedStack", "headers")
  BY <1>19, ChoiceAsBefore DEF AllocatePages, AtAddressZero, Flagged, Fails, GiveUp, Go, Rest, Is, AfterVolume, LoadSteps, EndSteps
<1>20. CASE CheckHeaders
  BY <1>20, ChoiceAsBefore DEF CheckHeaders, Fails, FailsSilently, GiveUp, Go, Rest, Is, AfterVolume, LoadSteps,
     EndSteps
<1>21. CASE AllocatePages("area", "KernelArea", 1, "HasAllocatedKernelArea", "relocate")
  BY <1>21, ChoiceAsBefore DEF AllocatePages, AtAddressZero, Flagged, Fails, GiveUp, Go, Rest, Is, AfterVolume, LoadSteps, EndSteps
<1>22. CASE CopyAndRelocate
  BY <1>22, ChoiceAsBefore DEF CopyAndRelocate, FailsSilently, GiveUp, Go, Rest, Is, AfterVolume, LoadSteps, EndSteps
<1>23. CASE GetMemoryMapSize
  BY <1>23, ChoiceAsBefore DEF GetMemoryMapSize, GiveUp, Go, Rest, Is, AfterVolume, LoadSteps, EndSteps
<1>24. CASE AllocatePool("map pool", "Mmap", "usable pool")
  BY <1>24, ChoiceAsBefore DEF AllocatePool, Fails, GiveUp, Go, Rest, Is, AfterVolume, LoadSteps, EndSteps
<1>25. CASE AllocatePool("usable pool", "UsableMmap", "map")
  BY <1>25, ChoiceAsBefore DEF AllocatePool, Fails, GiveUp, Go, Rest, Is, AfterVolume, LoadSteps, EndSteps
<1>26. CASE GetMemoryMap
  BY <1>26, ChoiceAsBefore DEF GetMemoryMap, Fails, GiveUp, Go, Rest, Is, AfterVolume, LoadSteps, EndSteps
<1>27. CASE NextThreshold
  BY <1>27, ChoiceAsBefore DEF NextThreshold, Is, AfterVolume, LoadSteps, EndSteps
<1>28. CASE ComparePosition
  BY <1>28, ChoiceAsBefore DEF ComparePosition, Is, AfterVolume, LoadSteps, EndSteps
<1>29. CASE MapSorted
  BY <1>29, ChoiceAsBefore DEF MapSorted, Go, Is, AfterVolume, LoadSteps, EndSteps
<1>30. CASE ProcessEntry
  BY <1>30, ChoiceAsBefore DEF ProcessEntry, Is, AfterVolume, LoadSteps, EndSteps
<1>31. CASE OutOfResources
  BY <1>31, ChoiceAsBefore DEF OutOfResources, StatusWithoutMemory, GiveUp, Rest, Is, AfterVolume, LoadSteps, EndSteps
<1>32. CASE TrimMap
  BY <1>32, ChoiceAsBefore DEF TrimMap, Go, Is, AfterVolume, LoadSteps, EndSteps
<1>33. CASE SetGraphicsMode
  <2>1. /\ at = "set mode" /\ at' = "kernel" /\ UNCHANGED <<fw, best, tables>>
        /\ \/ UNCHANGED <<flags, display>>
           \/ /\ flags' = flags \ {"SupportsGop"}
              /\ display' = IF Is("SupportsConOut") THEN "EfiText" ELSE "Unknown"
    BY <1>33 DEF SetGraphicsMode, Go
  <2>2. \A flag \in {"SupportsEdid", "SupportsConOut"} : Is(flag)' <=> Is(flag)
    BY <2>1 DEF Is
  <2>3. at \in {"volume"} \cup AfterVolume
    BY <2>1 DEF AfterVolume, EndSteps
  <2>4. AcpiOf(Len(fw.tables))'
    BY <2>1, <2>3 DEF ChoiceInv, AcpiOf
  <2>5. Is("SupportsGop")' => Is("SupportsGop") /\ Maximal(MaxMode)'
    <3>1. SUFFICES ASSUME Is("SupportsGop") PROVE Maximal(MaxMode)'
      BY <2>1 DEF Is
    <3>2. PICK n : n = MaxMode
      OBVIOUS
    <3>3. Maximal(n)
      BY <2>3, <3>1, <3>2 DEF ChoiceInv
    <3>4. MaxMode' = n /\ Maximal(n)'
      BY <2>1, <2>2, <3>2, <3>3, MaximalAsBefore
    <3> QED
      BY <3>4 DEF Maximal
  <2>6. /\ display' = "Gop" => Is("SupportsGop")'
        /\ display' = "EfiText" => Is("SupportsConOut")'
    <3>1. CASE UNCHANGED <<flags, display>>
      BY <2>3, <3>1 DEF ChoiceInv, Is
    <3>2. CASE display' = IF Is("SupportsConOut") THEN "EfiText" ELSE "Unknown"
      BY <2>2, <3>2
    <3> QED
      BY <2>1, <3>1, <3>2
  <2> QED
    BY <2>1, <2>4, <2>5, <2>6 DEF ChoiceInv
<1>34. CASE KernelReturns
  BY <1>34, ChoiceAsBefore DEF KernelReturns, GiveUp, Rest, Is, AfterVolume, LoadSteps, EndSteps
<1>35. CASE PressKey
  BY <1>35, ChoiceAsBefore DEF PressKey, Go, Rest, Is, AfterVolume, LoadSteps, EndSteps
<1>36. CASE FreeAllPages
  BY <1>36, ChoiceAsBefore DEF FreeAllPages, Go, Is, AfterVolume, LoadSteps, EndSteps
<1>37. CASE CloseFiles
  BY <1>37, ChoiceAsBefore DEF CloseFiles, Go, Is, AfterVolume, LoadSteps, EndSteps
<1>38. CASE CloseGop
  BY <1>38, ChoiceAsBefore DEF CloseGop, Go, Is, AfterVolume, LoadSteps, EndSteps
<1>39. CASE FreePools
  BY <1>39, ChoiceAsBefore DEF FreePools, Go, Is, AfterVolume, LoadSteps, EndSteps
<1>40. CASE UNCHANGED vars
  <2>1. UNCHANGED <<at, fw, best, tables, display, flags, index>>
    BY <1>40 DEF vars
  <2> QED
    BY <2>1 DEF ChoiceInv, Maximal, AcpiOf, MaxMode, Eligible, Preferred, Is
<1> QED
  BY <1>1, <1>2, <1>3, <1>4, <1>5, <1>6, <1>7, <1>8, <1>9, <1>10, <1>11, <1>12, <1>13, <1>14, <1>15, <1>16, <1>17,
     <1>18, <1>19, <1>20, <1>21, <1>22, <1>23, <1>24, <1>25, <1>26, <1>27, <1>28, <1>29, <1>30, <1>31, <1>32,
     <1>33, <1>34, <1>35, <1>36, <1>37, <1>38, <1>39, <1>40 DEF Next, LoadKernel

-----------------------------------------------------------------------------
(***************************************************************************)
(* The theorems.                                                           *)
(***************************************************************************)
\* The kernel is told of what was chosen and is held.
LEMMA KernelInformed == TypeInv /\ MapInv /\ ResourceInv /\ ChoiceInv => KernelIsInformed
<1> SUFFICES ASSUME TypeInv, MapInv, ResourceInv, ChoiceInv PROVE KernelIsInformed
  OBVIOUS
<1> USE DEF ResourceInv, HeldInv
<1>1. GraphicsModeIsMaximal
  <2>1. SUFFICES ASSUME at \in {"set mode", "kernel"}, Is("SupportsGop") PROVE Maximal(MaxMode)
    BY DEF GraphicsModeIsMaximal, Maximal
  <2>2. at \in {"acpi", "volume"} \cup AfterVolume
    BY <2>1 DEF AfterVolume, EndSteps
  <2> QED
    BY <2>1, <2>2 DEF ChoiceInv
<1>2. NewestAcpi
  <2>1. SUFFICES ASSUME at = "kernel" PROVE AcpiOf(Len(fw.tables))
    <3>1. fw.tables \in Seq({"Acpi", "Acpi2", "Smbios", "Smbios3"})
      BY FirmwaresAssumption DEF TypeInv, Firmware
    <3> QED
      BY <3>1 DEF NewestAcpi, AcpiOf
  <2>2. at \in {"volume"} \cup AfterVolume
    BY <2>1 DEF AfterVolume, EndSteps
  <2> QED
    BY <2>2 DEF ChoiceInv
<1>3. KernelGetsWhatIsHeld
  <2>1. SUFFICES ASSUME at = "kernel"
                 PROVE  /\ \A name \in {"Kernel", "KernelStack", "KernelArea"} : held.pages[name] > 0
                        /\ {"KernelInfo", "Mmap", "UsableMmap"} \subseteq held.pools
                        /\ <<"Fs", ptr.SimpleFs>> \in held.protocols /\ <<"Volume", ptr.File>> \in held.files
                        /\ fw.volumes[ptr.SimpleFs] = "kernel" /\ ptr.File = ptr.SimpleFs
                        /\ \A i \in DOMAIN scan.usable :
                             PagesOf(scan.usable[i].Base, scan.usable[i].Limit) \cap held.free = {}
                        /\ display = "Gop" => <<"Gop", ptr.Gop>> \in held.protocols
                        /\ display = "EfiText" => Is("SupportsConOut")
    BY DEF KernelGetsWhatIsHeld
  <2>2. Here = "kernel" /\ at \notin Released /\ at \notin Closed
    BY <2>1 DEF Here, Cleanup, Leaving, Released, Closed
  <2>3. /\ Here \in AfterVolume /\ Here \in AfterInfoPool /\ Here \in AfterPages /\ Here \in AfterStack
        /\ Here \in AfterArea /\ Here \in AfterMapPool /\ Here \in AfterUsablePool /\ at \in AfterVolume
    BY <2>1, <2>2 DEF AfterUsablePool, AfterMapPool, AfterArea, AfterStack, AfterPages, AfterInfoPool, AfterVolume,
                      LoadSteps, EndSteps
  <2>4. Is("HasAllocatedKernel") /\ Is("HasAllocatedStack") /\ Is("HasAllocatedKernelArea") /\ Is("HasOpenedFsProtocols")
    BY <2>3 DEF FlagInv
  <2>5. \A name \in {"Kernel", "KernelStack", "KernelArea"} : held.pages[name] > 0
    <3>1. held.pages["Kernel"] = KernelPages /\ held.pages["KernelStack"] = 1 /\ held.pages["KernelArea"] = 1
      BY <2>1, <2>2, <2>4 DEF PagesInv, PagesHeld, MaybeLost, Cleanup, Leaving, Released, Closed
    <3> QED
      BY <3>1, SizesAssumption
  <2>6. {"KernelInfo", "Mmap", "UsableMmap"} \subseteq held.pools
    BY <2>1, <2>3 DEF PtrInv, PoolInv
  <2>7. <<"Fs", ptr.SimpleFs>> \in held.protocols
    BY <2>2, <2>4 DEF ProtocolsHeld
  <2>8. ptr.File = ptr.SimpleFs /\ ptr.File \in DOMAIN fw.volumes /\ fw.volumes[ptr.File] = "kernel"
    BY <2>3 DEF PtrInv
  <2>9. <<"Volume", ptr.File>> \in held.files
    <3>1. fw.volumes \in Seq({"closed", "unreadable", "other", "kernel"})
      BY FirmwaresAssumption DEF TypeInv, Firmware
    <3>2. 0 \notin DOMAIN fw.volumes
      BY <3>1
    <3> QED
      BY <2>2, <2>8, <3>2 DEF FilesInv
  <2>10. \A i \in DOMAIN scan.usable : PagesOf(scan.usable[i].Base, scan.usable[i].Limit) \cap held.free = {}
    BY <2>2 DEF MapInv, UsablePages
  <2>11. /\ display = "Gop" => Is("SupportsGop")
         /\ display = "EfiText" => Is("SupportsConOut")
    BY <2>3 DEF ChoiceInv
  <2>12. display = "Gop" => <<"Gop", ptr.Gop>> \in held.protocols
    BY <2>1, <2>11 DEF FlagInv, ProtocolsHeld
  <2> QED
    BY <2>5, <2>6, <2>7, <2>8, <2>9, <2>10, <2>11, <2>12
<1> QED
  BY <1>1, <1>2, <1>3 DEF KernelIsInformed

(***************************************************************************)
(* The inductive invariant of the loader, for every set of firmwares and   *)
(* all sizes: where it is in the function determines its flags and         *)
(* pointers, these determine what it holds, and the memory map is at every *)
(* moment as far sorted and used up as the loops have come.                *)
(* (Bootloader.c:185-2044)                                                 *)
(***************************************************************************)
THEOREM EfiInvariant == Spec => []EfiInv
<1>1. Init => EfiInv
  BY TypeInit, FlowInit, MapInit, ResourceInit, ChoiceInit DEF EfiInv
<1>2. EfiInv /\ [Next]_vars => EfiInv'
  <2>1. SUFFICES ASSUME EfiInv, [Next]_vars PROVE EfiInv'
    OBVIOUS
  <2>2. TypeInv /\ FlowInv /\ MapInv /\ ResourceInv /\ ChoiceInv /\ FlagInv
    BY <2>1 DEF EfiInv, ResourceInv
  <2> QED
    BY <2>1, <2>2, TypeStep, FlowStep, MapKeeps, ResourceStep, ChoiceStep DEF EfiInv
<1> QED
  BY <1>1, <1>2, PTL DEF Spec

(***************************************************************************)
(* Whatever memory the firmware reports, in whatever order and however it  *)
(* overlaps, the map for the kernel is in order and without overlaps, all  *)
(* conventional, refused by the kernel only if there is too little of it   *)
(* in all, and leaves the firmware its minimum.                            *)
(* (Bootloader.c:1480-1762, Common/Kernel/Entry.c:230-289)                 *)
(***************************************************************************)
THEOREM UsableMapAlwaysRight == Spec => []UsableMapIsRight
<1>1. EfiInv => UsableMapIsRight
  BY MapIsRight DEF EfiInv
<1> QED
  BY <1>1, EfiInvariant, PTL

(***************************************************************************)
(* Whatever modes, tables and volumes there are, in whatever order, the    *)
(* kernel is told of a mode that none surpasses, of the newest ACPI table, *)
(* and only of what is still held.  (Bootloader.c:416-640, :1840)          *)
(***************************************************************************)
THEOREM KernelAlwaysInformed == Spec => []KernelIsInformed
<1>1. EfiInv => KernelIsInformed
  BY KernelInformed DEF EfiInv
<1> QED
  BY <1>1, EfiInvariant, PTL

(***************************************************************************)
(* Wherever the loader gives up, the cleanup releases just what is held,   *)
(* with the exceptions that NothingIsLeft and OnlyHeldIsReleased name, and *)
(* the exit status has its reason.  (Bootloader.c:1930-2044)               *)
(***************************************************************************)
THEOREM ExitAlwaysRight == Spec => []ExitIsRight
<1>1. EfiInv => ExitIsRight
  BY ExitRight DEF EfiInv
<1> QED
  BY <1>1, EfiInvariant, PTL
=============================================================================
