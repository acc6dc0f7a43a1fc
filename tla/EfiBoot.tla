------------------------------ MODULE EfiBoot ------------------------------
(***************************************************************************)
(* The EFI bootloader (Boot/Efi/Bootloader.c): one long function that      *)
(* opens protocols and allocates memory, may give up after almost every    *)
(* call it makes to the firmware, and has a single place that releases     *)
(* what it holds, guided by flags.                                         *)
(*                                                                         *)
(* `held' is the firmware's side: what the loader really holds.  `flags'   *)
(* and the pointers are the loader's side.  Memory is counted in pages,    *)
(* which is what the firmware reports and allocates.                       *)
(***************************************************************************)
EXTENDS EntryChecks, FiniteSets

CONSTANTS
  Firmwares,             \* The machines that may be met, see Firmware.
  KernelPages,           \* The size of the kernel's file.
  MinFirmwareMemory,     \* Pages that are left to the firmware.
  MmapEntryMemoryLimit,  \* The pages of the smallest usable entry.
  MaxColor               \* 0xFFFF, the preferred resolution if none is known.

Conventional == 7

\* What QueryMode() says of a graphics mode; a mode may not be linear (PixelBltOnly).
GraphicsMode == [Linear : BOOLEAN, ColorDepth : Nat, HRes : Nat, VRes : Nat]

MmapEntry == [PhysicalStart : Nat, NumberOfPages : Nat, Type : Nat]

\* Conditions of the machine.  Everything else that may fail is decided when it is tried.
Firmware ==
  [conin : BOOLEAN, conout : BOOLEAN,
   text : Seq([Columns : Nat, Rows : Nat]),
   gop : Seq(BOOLEAN),                         \* Which handles open.
   edid : {"none", "empty", "present"}, preferred : Nat \X Nat,
   modes : Seq(GraphicsMode),
   tables : Seq({"Acpi", "Acpi2", "Smbios", "Smbios3"}),
   volumes : Seq({"closed", "unreadable", "other", "kernel"}),
   map : Seq(MmapEntry),
   taken : SUBSET Nat]                         \* Pages that the firmware took after it reported them free.

ASSUME SizesAssumption ==
  /\ KernelPages \in Nat \ {0} /\ MinFirmwareMemory \in Nat
  /\ MmapEntryMemoryLimit \in Nat \ {0}

\* QueryMode() knows mode 0 of every protocol that opens.
ASSUME FirmwaresAssumption == Firmwares \subseteq Firmware /\ \A f \in Firmwares : f.modes # <<>>

VARIABLES
  at,         \* What is about to be done.
  fw,
  AppStatus,  \* "Success" or "Error".
  left,       \* The step that jumped to ExitEfiApplication.
  held,       \* pools, protocols, files, pages (by name), free (pages), sse.
  bad,        \* What was released without being held.
  flags,      \* The Has.. and Supports.. variables that are true.
  index,      \* HandleNum, Mode, Entry or Position of the loop in progress.
  best,       \* The best text and graphics modes so far.
  tables,     \* AcpiTable and SmbiosTable.
  ptr,        \* Pointers: GopProtocolHandle, SimpleFs, File, KernelInfo, Mmap, UsableMmap.
  KernelSize, \* In pages.
  scan,       \* mmap, threshold, usable, FirmwareMemory, UsableOffset.
  display     \* CommonInfoTable.Display.Type.

vars == <<at, fw, AppStatus, left, held, bad, flags, index, best, tables, ptr, KernelSize, scan, display>>

NoMode == [Mode |-> 0, ColorDepth |-> 0, HRes |-> 0, VRes |-> 0]

PagesOf(start, number) == start .. (start + number - 1)

PagesOfType(types) ==
  UNION {PagesOf(fw.map[i].PhysicalStart, fw.map[i].NumberOfPages) :
           i \in {j \in DOMAIN fw.map : fw.map[j].Type \in types}}

Init ==
  /\ at = "tables"
  /\ fw \in Firmwares
  /\ AppStatus = "Success" /\ left = "none"
  /\ held = [pools |-> {}, protocols |-> {}, files |-> {}, sse |-> FALSE,
             pages |-> [Kernel |-> 0, KernelStack |-> 0, KernelArea |-> 0],
             free |-> PagesOfType({Conventional}) \ (PagesOfType(Nat \ {Conventional}) \cup fw.taken)]
  /\ bad = {} /\ flags = {} /\ index = 1
  /\ best = [text |-> NoMode, graphics |-> NoMode]
  /\ tables = [Acpi |-> "none", Smbios |-> "none"]
  /\ ptr = [Gop |-> 0, SimpleFs |-> 0, File |-> 0, KernelInfo |-> "NULL", Mmap |-> "NULL", UsableMmap |-> "NULL"]
  /\ KernelSize = 0
  /\ scan = [mmap |-> <<>>, threshold |-> 1, usable |-> <<>>, FirmwareMemory |-> MinFirmwareMemory, UsableOffset |-> 0]
  /\ display = "Unknown"

Go(step) == at' = step /\ left' = left

\* goto ExitEfiApplication.
GiveUp == at' = "exit" /\ left' = at

\* Some calls must also give a pointer or a size that is not 0; those may fail with a success.
Statuses == {"Success", "Error"}

Is(flag) == flag \in flags

-----------------------------------------------------------------------------
(***************************************************************************)
(* The tables of the firmware, and its consoles.                           *)
(***************************************************************************)
\* A table that is missing or too old, or another privilege level than 0: return.
CheckTables ==
  /\ at = "tables"
  /\ \/ /\ Go("text")
        /\ held' = [held EXCEPT !.sse = TRUE]
        /\ flags' = (IF fw.conin THEN {"SupportsConIn"} ELSE {})
                      \cup (IF fw.conout THEN {"SupportsConOut"} ELSE {})
        /\ UNCHANGED AppStatus
     \/ /\ at' = "returned" /\ AppStatus' = "Error"
        /\ UNCHANGED <<left, held, flags>>
  /\ UNCHANGED <<fw, bad, index, best, tables, ptr, KernelSize, scan, display>>

\* The text mode with the largest area, of those with at least 80*25 characters.
QueryTextMode ==
  /\ at = "text" /\ Is("SupportsConOut") /\ index <= Len(fw.text)
  /\ LET mode == fw.text[index]
         old == best.text
     IN best' = IF /\ mode.Columns >= 80 /\ mode.Rows >= 25
                   /\ mode.Columns * mode.Rows >= old.HRes * old.VRes
                THEN [best EXCEPT !.text = [Mode |-> index - 1, ColorDepth |-> 0,
                                            HRes |-> mode.Columns, VRes |-> mode.Rows]]
                ELSE best
  /\ index' = index + 1
  /\ UNCHANGED <<at, fw, AppStatus, left, held, bad, flags, tables, ptr, KernelSize, scan, display>>

TextModesQueried ==
  /\ at = "text" /\ (Is("SupportsConOut") => index > Len(fw.text))
  /\ Go("gop") /\ index' = 1
  /\ UNCHANGED <<fw, AppStatus, held, bad, flags, best, tables, ptr, KernelSize, scan, display>>

-----------------------------------------------------------------------------
(***************************************************************************)
(* The Graphics Output Protocol.                                           *)
(***************************************************************************)
LocateGopHandles ==
  /\ at = "gop"
  /\ IF fw.gop # <<>>
     THEN /\ held' = [held EXCEPT !.pools = @ \cup {"GopHandles"}]
          /\ flags' = flags \cup {"HasOpenedGopHandles"}
          /\ AppStatus' = "Success" /\ Go("gop handle")
     ELSE /\ AppStatus' \in Statuses /\ Go("acpi")
          /\ UNCHANGED <<held, flags>>
  /\ UNCHANGED <<fw, bad, index, best, tables, ptr, KernelSize, scan, display>>

OpenGop ==
  /\ at = "gop handle" /\ index <= Len(fw.gop)
  /\ ptr' = [ptr EXCEPT !.Gop = index]
  /\ IF fw.gop[index]
     THEN /\ held' = [held EXCEPT !.protocols = @ \cup {<<"Gop", index>>}]
          /\ flags' = flags \cup {"HasOpenedGopProtocols", "SupportsGop"}
          /\ AppStatus' = "Success" /\ Go("edid") /\ index' = 1
     ELSE /\ AppStatus' \in Statuses /\ Go(at) /\ index' = index + 1
          /\ UNCHANGED <<held, flags>>
  /\ UNCHANGED <<fw, bad, best, tables, KernelSize, scan, display>>

NoGop ==
  /\ at = "gop handle" /\ index > Len(fw.gop)
  /\ Go("acpi") /\ index' = 1
  /\ UNCHANGED <<fw, AppStatus, held, bad, flags, best, tables, ptr, KernelSize, scan, display>>

OpenEdid ==
  /\ at = "edid"
  /\ IF fw.edid # "none"
     THEN /\ held' = [held EXCEPT !.protocols = @ \cup {<<"Edid", ptr.Gop>>}]
          /\ flags' = flags \cup {"HasOpenedEdidProtocols"}
                        \cup (IF fw.edid = "present" THEN {"SupportsEdid"} ELSE {})
          /\ AppStatus' = "Success"
     ELSE AppStatus' \in Statuses /\ UNCHANGED <<held, flags>>
  /\ Go("mode")
  /\ UNCHANGED <<fw, bad, index, best, tables, ptr, KernelSize, scan, display>>

\* Without EDID, only mode 0 is queried.
MaxMode == IF Is("SupportsEdid") THEN Len(fw.modes) ELSE 1

Preferred == IF Is("SupportsEdid") THEN fw.preferred ELSE <<MaxColor, MaxColor>>

Eligible(mode) ==
  /\ mode.Linear /\ mode.ColorDepth >= 16
  /\ mode.HRes >= 640 /\ mode.VRes >= 480
  /\ mode.HRes <= Preferred[1] /\ mode.VRes <= Preferred[2]

Better(mode, old) ==
  mode.ColorDepth >= old.ColorDepth /\ mode.HRes * mode.VRes >= old.HRes * old.VRes

QueryGraphicsMode ==
  /\ at = "mode" /\ index <= MaxMode
  /\ LET mode == fw.modes[index]
     IN best' = IF Eligible(mode) /\ Better(mode, best.graphics)
                THEN [best EXCEPT !.graphics = [Mode |-> index - 1, ColorDepth |-> mode.ColorDepth,
                                                HRes |-> mode.HRes, VRes |-> mode.VRes]]
                ELSE best
  /\ index' = index + 1
  /\ UNCHANGED <<at, fw, AppStatus, left, held, bad, flags, tables, ptr, KernelSize, scan, display>>

GraphicsModesQueried ==
  /\ at = "mode" /\ index > MaxMode
  /\ flags' = IF best.graphics.HRes = 0 THEN flags \ {"SupportsGop", "SupportsEdid"} ELSE flags
  /\ Go("acpi") /\ index' = 1
  /\ UNCHANGED <<fw, AppStatus, held, bad, best, tables, ptr, KernelSize, scan, display>>

-----------------------------------------------------------------------------
(***************************************************************************)
(* The configuration tables.  Those of SMBIOS 3 are looked for with the    *)
(* identifier of ACPI 2, and so never found.                               *)
(***************************************************************************)
AcpiAfter(entry) ==
  IF entry = "Acpi2" \/ (entry = "Acpi" /\ tables.Acpi # "Acpi2") THEN entry ELSE tables.Acpi

ScanConfigurationTable ==
  /\ at = "acpi" /\ index <= Len(fw.tables)
  /\ LET entry == fw.tables[index]
     IN tables' = [Acpi |-> AcpiAfter(entry),
                   Smbios |-> IF entry = "Smbios" THEN entry ELSE tables.Smbios]
  /\ index' = index + 1
  /\ UNCHANGED <<at, fw, AppStatus, left, held, bad, flags, best, ptr, KernelSize, scan, display>>

\* The type of the display is set before the tables are looked for.
LocateFsHandles ==
  /\ at = "acpi" /\ index > Len(fw.tables)
  /\ display' = IF Is("SupportsGop") THEN "Gop" ELSE IF Is("SupportsConOut") THEN "EfiText" ELSE "Unknown"
  /\ index' = 1
  /\ IF fw.volumes # <<>>
     THEN /\ held' = [held EXCEPT !.pools = @ \cup {"FsHandles"}]
          /\ flags' = flags \cup {"HasOpenedFsHandles"}
          /\ AppStatus' = "Success" /\ Go("volume")
     ELSE AppStatus' \in Statuses /\ GiveUp /\ UNCHANGED <<held, flags>>
  /\ UNCHANGED <<fw, bad, best, tables, ptr, KernelSize, scan>>

-----------------------------------------------------------------------------
(***************************************************************************)
(* The volume with the kernel.  That of a handle without it stays open.    *)
(***************************************************************************)
FlagsAfterVolume(found) ==
  IF found THEN flags \cup {"HasOpenedFsProtocols"} ELSE flags \ {"HasOpenedFsProtocols"}

\* A fault: the protocol of the volume that has the kernel is closed as well.
OpenAfterClosing(volume) == {}

OpenAfterVolume(volume) == IF volume = "kernel" THEN {<<"Fs", index>>} ELSE {}

\* A fault: the same handle again.
SameHandle == index

NextHandle == index + 1

OpenVolume ==
  /\ at = "volume" /\ index <= Len(fw.volumes)
  /\ LET volume == fw.volumes[index]
         opened == IF volume \in {"other", "kernel"} THEN index ELSE 0
     IN /\ ptr' = [ptr EXCEPT !.SimpleFs = IF volume = "closed" THEN 0 ELSE index, !.File = opened]
        /\ held' = [held EXCEPT !.files = @ \cup (IF opened # 0 THEN {<<"Volume", index>>} ELSE {})
                                        \cup (IF volume = "kernel" THEN {<<"Kernel", index>>} ELSE {}),
                                !.protocols = @ \cup OpenAfterVolume(volume)]
        /\ flags' = FlagsAfterVolume(volume = "kernel")
        /\ AppStatus' \in IF volume = "kernel" THEN {"Success"} ELSE Statuses
        /\ index' = IF volume = "kernel" THEN 1 ELSE NextHandle
        /\ Go(IF volume = "kernel" THEN "info size" ELSE at)
  /\ UNCHANGED <<fw, bad, best, tables, KernelSize, scan, display>>

KernelNotFound ==
  /\ at = "volume" /\ index > Len(fw.volumes)
  /\ GiveUp
  /\ UNCHANGED <<fw, AppStatus, held, bad, flags, index, best, tables, ptr, KernelSize, scan, display>>

-----------------------------------------------------------------------------
(***************************************************************************)
(* The kernel's file, stack and area.  Steps that allocate or call may     *)
(* fail, and the loader then gives up.                                     *)
(***************************************************************************)
Rest == <<fw, bad, index, best, tables, scan, display>>

Fails(here) ==
  /\ at = here /\ AppStatus' = "Error" /\ GiveUp
  /\ UNCHANGED <<held, flags, ptr, KernelSize, Rest>>

\* What the call gave is wrong, whether or not it says so.
FailsAnyhow(here) ==
  /\ at = here /\ AppStatus' \in Statuses /\ GiveUp
  /\ UNCHANGED <<held, flags, ptr, KernelSize, Rest>>

\* The loader notices something wrong itself; the status is that of the last call, a success.
FailsSilently(here) ==
  /\ at = here /\ GiveUp
  /\ UNCHANGED <<AppStatus, held, flags, ptr, KernelSize, Rest>>

GetInfoSize ==
  \/ /\ at = "info size" /\ AppStatus' = "Error" /\ Go("info pool")
     /\ UNCHANGED <<held, flags, ptr, KernelSize, Rest>>
  \/ FailsAnyhow("info size")

AllocatePool(here, name, there) ==
  \/ /\ at = here /\ AppStatus' = "Success" /\ Go(there)
     /\ held' = [held EXCEPT !.pools = @ \cup {name}]
     /\ ptr' = [ptr EXCEPT ![name] = "pool"]
     /\ UNCHANGED <<flags, KernelSize, Rest>>
  \/ Fails(here)

GetInfo ==
  \/ /\ at = "info" /\ AppStatus' = "Success" /\ Go("kernel pages")
     /\ KernelSize' = KernelPages
     /\ UNCHANGED <<held, flags, ptr, Rest>>
  \/ FailsAnyhow("info")

Flagged(flag) == flags \cup {flag}

\* Pages at address 0 are taken for NULL: the loader gives up with a success, and they are lost.
AtAddressZero(here, name, number) ==
  /\ at = here /\ AppStatus' = "Success" /\ GiveUp
  /\ held' = [held EXCEPT !.pages[name] = @ + number]
  /\ UNCHANGED <<flags, ptr, KernelSize, Rest>>

AllocatePages(here, name, number, flag, there) ==
  \/ /\ at = here /\ AppStatus' = "Success" /\ Go(there)
     /\ held' = [held EXCEPT !.pages[name] = @ + number]
     /\ flags' = Flagged(flag)
     /\ UNCHANGED <<ptr, KernelSize, Rest>>
  \/ AtAddressZero(here, name, number)
  \/ Fails(here)

\* Read() sets the size to what it read.  The file is only closed if it succeeds.
ReadKernel ==
  \/ \E size \in 0 .. KernelSize :
       /\ at = "read" /\ AppStatus' = "Success" /\ Go("stack")
       /\ KernelSize' = size
       /\ held' = [held EXCEPT !.files = @ \ {<<"Kernel", ptr.File>>}]
       /\ UNCHANGED <<flags, ptr, Rest>>
  \/ Fails("read")

CheckHeaders ==
  \/ /\ at = "headers" /\ Go("area")
     /\ UNCHANGED <<AppStatus, held, flags, ptr, KernelSize, Rest>>
  \/ Fails("headers")
  \/ FailsSilently("headers")

CopyAndRelocate ==
  \/ /\ at = "relocate" /\ Go("map size")
     /\ UNCHANGED <<AppStatus, held, flags, ptr, KernelSize, Rest>>
  \/ FailsSilently("relocate")

LoadKernel ==
  \/ GetInfoSize \/ AllocatePool("info pool", "KernelInfo", "info") \/ GetInfo
  \/ AllocatePages("kernel pages", "Kernel", KernelSize, "HasAllocatedKernel", "read")
  \/ ReadKernel
  \/ AllocatePages("stack", "KernelStack", 1, "HasAllocatedStack", "headers")
  \/ CheckHeaders
  \/ AllocatePages("area", "KernelArea", 1, "HasAllocatedKernelArea", "relocate")
  \/ CopyAndRelocate

-----------------------------------------------------------------------------
(***************************************************************************)
(* The memory map.  Mmap points to an array on the stack until its pool is *)
(* allocated.  With any status, the loader goes on if it got the sizes.    *)
(***************************************************************************)
GetMemoryMapSize ==
  /\ at = "map size"
  /\ ptr' = [ptr EXCEPT !.Mmap = "stack"]
  /\ AppStatus' \in Statuses
  /\ Go("map pool") \/ GiveUp
  /\ UNCHANGED <<held, flags, KernelSize, Rest>>

Later(s, p) ==
  \/ s[p].PhysicalStart < s[p - 1].PhysicalStart
  \/ s[p].PhysicalStart = s[p - 1].PhysicalStart /\ s[p - 1].Type = Conventional

GetMemoryMap ==
  \/ /\ at = "map" /\ AppStatus' = "Success" /\ Go("sort")
     /\ scan' = [scan EXCEPT !.mmap = fw.map]
     /\ UNCHANGED <<fw, held, bad, flags, index, best, tables, ptr, KernelSize, display>>
  \/ Fails("map")

\* By address; of two entries that begin at the same one, conventional memory comes last, and
\* two of conventional memory change places whenever they are compared.  Each entry in turn is
\* compared with all of those before it, also with those that are in order already.
NextThreshold ==
  /\ at = "sort" /\ index = 1 /\ scan.threshold < Len(scan.mmap)
  /\ scan' = [scan EXCEPT !.threshold = @ + 1]
  /\ index' = scan.threshold + 1
  /\ UNCHANGED <<at, fw, AppStatus, left, held, bad, flags, best, tables, ptr, KernelSize, display>>

ComparePosition ==
  /\ at = "sort" /\ index > 1
  /\ LET s == scan.mmap
     IN scan' = IF Later(s, index)
                THEN [scan EXCEPT !.mmap = [s EXCEPT ![index] = s[index - 1], ![index - 1] = s[index]]]
                ELSE scan
  /\ index' = index - 1
  /\ UNCHANGED <<at, fw, AppStatus, left, held, bad, flags, best, tables, ptr, KernelSize, display>>

MapSorted ==
  /\ at = "sort" /\ index = 1 /\ scan.threshold >= Len(scan.mmap)
  /\ Go("entries")
  /\ UNCHANGED <<fw, AppStatus, held, bad, flags, index, best, tables, ptr, KernelSize, scan, display>>

EntrySize(i) ==
  LET entry == scan.mmap[i]
      end == entry.PhysicalStart + entry.NumberOfPages
  IN IF i < Len(scan.mmap) /\ scan.mmap[i + 1].PhysicalStart < end
     THEN scan.mmap[i + 1].PhysicalStart - entry.PhysicalStart ELSE entry.NumberOfPages

\* A fault: what an entry was cut by is reserved a second time.
ReservedTwice(size) == size + size

Reserved(size) == size

SizeLeft(size, kept) == size - kept

\* UsableMmapThreshold, the start of the last entry, excludes none of a sorted map.
ProcessEntry ==
  /\ at = "entries" /\ index <= Len(scan.mmap)
  /\ LET size == EntrySize(index)
         kept == IF size < scan.FirmwareMemory THEN size ELSE scan.FirmwareMemory
         start == scan.mmap[index].PhysicalStart + kept
         number == SizeLeft(size, kept)
         usable == scan.mmap[index].Type = Conventional /\ number >= MmapEntryMemoryLimit
         got == usable /\ PagesOf(start, number) \subseteq held.free
     IN /\ scan' = IF scan.mmap[index].Type # Conventional THEN scan
                   ELSE [scan EXCEPT
                     !.FirmwareMemory = IF @ <= Reserved(kept) THEN 0 ELSE @ - Reserved(kept),
                     !.UsableOffset = IF 0 < scan.FirmwareMemory /\ scan.FirmwareMemory <= size
                                      THEN start ELSE @,
                     !.usable = IF got THEN Append(@, [Base |-> start, Limit |-> number]) ELSE @]
        /\ held' = IF got THEN [held EXCEPT !.free = @ \ PagesOf(start, number)] ELSE held
        /\ AppStatus' = IF usable THEN (IF got THEN "Success" ELSE "Error") ELSE AppStatus
  /\ index' = index + 1
  /\ UNCHANGED <<at, fw, left, bad, flags, best, tables, ptr, KernelSize, display>>

StatusWithoutMemory == "Error"

OutOfResources ==
  /\ at = "entries" /\ index > Len(scan.mmap) /\ scan.usable = <<>>
  /\ AppStatus' = StatusWithoutMemory /\ GiveUp
  /\ UNCHANGED <<held, flags, ptr, KernelSize, Rest>>

\* What is below UsableOffset would be removed from the map that the kernel gets.
TrimMap ==
  /\ at = "entries" /\ index > Len(scan.mmap) /\ scan.usable # <<>>
  /\ flags' = flags \cup {"HasAllocatedMemory"}
  /\ LET End(i) == scan.usable[i].Base + scan.usable[i].Limit
         within == {i \in DOMAIN scan.usable :
                      End(i) >= scan.UsableOffset /\ scan.usable[i].Base < scan.UsableOffset}
     IN scan' = IF within = {} THEN scan
                ELSE LET used == CHOOSE i \in within : \A j \in within : i <= j
                     IN [scan EXCEPT !.usable =
                          SubSeq([@ EXCEPT ![used] = [Base |-> scan.UsableOffset,
                                                      Limit |-> End(used) - scan.UsableOffset]],
                                 used, Len(@))]
  /\ Go("set mode")
  /\ UNCHANGED <<fw, AppStatus, held, bad, index, best, tables, ptr, KernelSize, display>>

SetGraphicsMode ==
  /\ at = "set mode"
  /\ \/ Is("SupportsGop") /\ AppStatus' = "Success" /\ UNCHANGED <<flags, display>>
     \/ /\ Is("SupportsGop") /\ AppStatus' = "Error"
        /\ flags' = flags \ {"SupportsGop"}
        /\ display' = IF Is("SupportsConOut") THEN "EfiText" ELSE "Unknown"
     \/ ~Is("SupportsGop") /\ UNCHANGED <<AppStatus, flags, display>>
  /\ Go("kernel")
  /\ UNCHANGED <<fw, held, bad, index, best, tables, ptr, KernelSize, scan>>

\* The kernel may also run for ever.
KernelReturns ==
  /\ at = "kernel"
  /\ AppStatus' \in {"Success", "Error"}
  /\ GiveUp
  /\ UNCHANGED <<held, flags, ptr, KernelSize, Rest>>

-----------------------------------------------------------------------------
(***************************************************************************)
(* ExitEfiApplication.                                                     *)
(***************************************************************************)
PressKey ==
  /\ at = "exit"
  /\ Go("free pages")
  /\ UNCHANGED <<AppStatus, held, flags, ptr, KernelSize, Rest>>

\* A fault: one page more, however many there are.
PagesLeftOfMore(name, flag, number) ==
  IF Is(flag) THEN held.pages[name] - (number + 1) ELSE held.pages[name]

PagesLeft(name, flag, number) ==
  IF Is(flag) THEN held.pages[name] - number ELSE held.pages[name]

FreeAllPages ==
  /\ at = "free pages"
  /\ LET mine == IF Is("HasAllocatedMemory")
                 THEN UNION {PagesOf(scan.usable[i].Base, scan.usable[i].Limit) : i \in DOMAIN scan.usable}
                 ELSE {}
         after == [Kernel |-> PagesLeft("Kernel", "HasAllocatedKernel", KernelSize),
                   KernelStack |-> PagesLeft("KernelStack", "HasAllocatedStack", 1),
                   KernelArea |-> PagesLeft("KernelArea", "HasAllocatedKernelArea", 1)]
     IN /\ held' = [held EXCEPT !.free = @ \cup mine, !.pages = after]
        /\ bad' = bad \cup (mine \cap held.free)
  /\ Go("close files")
  /\ UNCHANGED <<fw, AppStatus, flags, index, best, tables, ptr, KernelSize, scan, display>>

CloseFiles ==
  /\ at = "close files"
  /\ IF Is("HasOpenedFsHandles")
     THEN LET files == IF ptr.File # 0 THEN {<<"Volume", ptr.File>>} ELSE {}
              protocols == IF Is("HasOpenedFsProtocols") THEN {<<"Fs", ptr.SimpleFs>>} ELSE {}
          IN /\ held' = [held EXCEPT !.files = @ \ files, !.protocols = @ \ protocols,
                                     !.pools = @ \ {"FsHandles"}]
             /\ bad' = bad \cup (files \ held.files) \cup (protocols \ held.protocols)
     ELSE UNCHANGED <<held, bad>>
  /\ Go("close gop")
  /\ UNCHANGED <<fw, AppStatus, flags, index, best, tables, ptr, KernelSize, scan, display>>

GopOpened == Is("HasOpenedGopProtocols")

CloseGop ==
  /\ at = "close gop"
  /\ IF Is("HasOpenedGopHandles")
     THEN LET protocols == (IF GopOpened THEN {<<"Gop", ptr.Gop>>} ELSE {})
                \cup (IF GopOpened /\ Is("HasOpenedEdidProtocols") THEN {<<"Edid", ptr.Gop>>} ELSE {})
          IN /\ held' = [held EXCEPT !.protocols = @ \ protocols, !.pools = @ \ {"GopHandles"}]
             /\ bad' = bad \cup (protocols \ held.protocols)
     ELSE UNCHANGED <<held, bad>>
  /\ Go("free pools")
  /\ UNCHANGED <<fw, AppStatus, flags, index, best, tables, ptr, KernelSize, scan, display>>

\* FreePoolIfAllocated(), and the control registers.
FreePools ==
  /\ at = "free pools"
  /\ LET freed == {name \in {"KernelInfo", "Mmap", "UsableMmap"} : ptr[name] # "NULL"}
     IN /\ held' = [held EXCEPT !.pools = @ \ freed, !.sse = FALSE]
        /\ bad' = bad \cup {<<"pool", name>> : name \in freed \ held.pools}
  /\ Go("exited")
  /\ UNCHANGED <<fw, AppStatus, flags, index, best, tables, ptr, KernelSize, scan, display>>

Next ==
  \/ CheckTables \/ QueryTextMode \/ TextModesQueried
  \/ LocateGopHandles \/ OpenGop \/ NoGop \/ OpenEdid \/ QueryGraphicsMode \/ GraphicsModesQueried
  \/ ScanConfigurationTable \/ LocateFsHandles \/ OpenVolume \/ KernelNotFound
  \/ LoadKernel
  \/ GetMemoryMapSize \/ AllocatePool("map pool", "Mmap", "usable pool")
  \/ AllocatePool("usable pool", "UsableMmap", "map")
  \/ GetMemoryMap \/ NextThreshold \/ ComparePosition \/ MapSorted
  \/ ProcessEntry \/ OutOfResources \/ TrimMap
  \/ SetGraphicsMode \/ KernelReturns
  \/ PressKey \/ FreeAllPages \/ CloseFiles \/ CloseGop \/ FreePools

\* Nothing else runs, and the firmware returns from every call.
Spec == Init /\ [][Next]_vars /\ WF_vars(Next)
-----------------------------------------------------------------------------
(***************************************************************************)
(* Properties.                                                             *)
(***************************************************************************)
TypeOK ==
  /\ AppStatus \in {"Success", "Error"}
  /\ held.pools \subseteq {"GopHandles", "FsHandles", "KernelInfo", "Mmap", "UsableMmap"}
  /\ \A p \in held.protocols : p[1] \in {"Gop", "Edid", "Fs"} /\ p[2] \in Nat
  /\ \A f \in held.files : f[1] \in {"Volume", "Kernel"} /\ f[2] \in Nat
  /\ held.pages \in [Kernel : Nat, KernelStack : Nat, KernelArea : Nat]
  /\ KernelSize \in 0 .. KernelPages
  /\ scan.FirmwareMemory \in 0 .. MinFirmwareMemory
  /\ display \in {"Gop", "EfiText", "Unknown"}

NoBetter(mode, chosen) ==
  LET area == mode.HRes * mode.VRes
      most == chosen.HRes * chosen.VRes
  IN \/ mode.ColorDepth < chosen.ColorDepth \/ area < most
     \/ mode.ColorDepth = chosen.ColorDepth /\ area = most

(***************************************************************************)
(* Which mode is chosen depends on the order in which the modes are met,   *)
(* as a mode replaces the last one only if it is no worse in both depth    *)
(* and area.  But whatever the order, no eligible mode that was queried is *)
(* better than that in one of the two and as good in the other.            *)
(* (Bootloader.c:492-518)                                                  *)
(***************************************************************************)
GraphicsModeIsMaximal ==
  at \in {"set mode", "kernel"} /\ Is("SupportsGop") =>
    \A m \in 1 .. MaxMode : Eligible(fw.modes[m]) => NoBetter(fw.modes[m], best.graphics)

(***************************************************************************)
(* Whatever the order of the tables, that of ACPI 2 is used if there is    *)
(* one.  (Bootloader.c:595)                                                *)
(***************************************************************************)
NewestAcpi ==
  at = "kernel" =>
    \A i \in DOMAIN fw.tables :
      /\ fw.tables[i] = "Acpi2" => tables.Acpi = "Acpi2"
      /\ fw.tables[i] = "Acpi" => tables.Acpi # "none"

(***************************************************************************)
(* All that the kernel is told of is still held when it runs: its image,   *)
(* stack and area, the volume and the protocol it is read with, both       *)
(* memory maps, and the graphics protocol.  (Bootloader.c:819, :1682)      *)
(***************************************************************************)
KernelGetsWhatIsHeld ==
  at = "kernel" =>
    /\ \A name \in {"Kernel", "KernelStack", "KernelArea"} : held.pages[name] > 0
    /\ {"KernelInfo", "Mmap", "UsableMmap"} \subseteq held.pools
    /\ <<"Fs", ptr.SimpleFs>> \in held.protocols /\ <<"Volume", ptr.File>> \in held.files
    /\ fw.volumes[ptr.SimpleFs] = "kernel" /\ ptr.File = ptr.SimpleFs
    /\ \A i \in DOMAIN scan.usable :
         PagesOf(scan.usable[i].Base, scan.usable[i].Limit) \cap held.free = {}
    /\ display = "Gop" => <<"Gop", ptr.Gop>> \in held.protocols
    /\ display = "EfiText" => Is("SupportsConOut")

(***************************************************************************)
(* The usable map is in order, without overlaps, of entries that the       *)
(* kernel accepts, and all of its memory was conventional, though entries  *)
(* are only compared with the next one.  (Bootloader.c:1536)               *)
(***************************************************************************)
UsableMapIsOrdered ==
  \A i \in DOMAIN scan.usable :
    /\ scan.usable[i].Limit >= MmapEntryMemoryLimit
    /\ \E j \in DOMAIN scan.mmap :
         /\ scan.mmap[j].Type = Conventional
         /\ PagesOf(scan.usable[i].Base, scan.usable[i].Limit)
              \subseteq PagesOf(scan.mmap[j].PhysicalStart, scan.mmap[j].NumberOfPages)
    /\ i > 1 => scan.usable[i - 1].Base + scan.usable[i - 1].Limit <= scan.usable[i].Base

(***************************************************************************)
(* When the kernel runs next to the firmware, at least MinFirmwareMemory   *)
(* is left for that, even if conventional entries overlap; unless the      *)
(* firmware took some, or entries that are not free overlap free ones, of  *)
(* which only those that begin later are looked at.  (Bootloader.c:1586)   *)
(***************************************************************************)
FirmwareKeepsMemory ==
  at = "kernel" /\ fw.taken = {} /\ PagesOfType({Conventional}) \cap PagesOfType(Nat \ {Conventional}) = {} =>
    Cardinality(held.free) >= MinFirmwareMemory

(***************************************************************************)
(* Wherever the loader gave up, or if the kernel returned, it leaves no    *)
(* pool, protocol or page behind, but those of a file of which less was    *)
(* read than was there, and those it took for NULL.  Files it leaves open: *)
(* the volumes that it looked at in vain, and the kernel's if it gave up   *)
(* before that was read.                                                   *)
(* (Bootloader.c:1936-2040, ExitEfiApplication)                            *)
(***************************************************************************)
NothingIsLeft ==
  at \in {"returned", "exited"} =>
    /\ held.pools = {} /\ held.protocols = {} /\ ~held.sse
    /\ \A i \in DOMAIN scan.usable :
         PagesOf(scan.usable[i].Base, scan.usable[i].Limit) \subseteq held.free
    /\ \A name \in DOMAIN held.pages :
         held.pages[name] > 0 =>
           \/ name = "Kernel" /\ KernelSize < KernelPages
           \/ <<name, left>> \in {<<"Kernel", "kernel pages">>, <<"KernelStack", "stack">>, <<"KernelArea", "area">>}
    /\ \A file \in held.files :
         \/ file[1] = "Volume" /\ fw.volumes[file[2]] = "other"
         \/ file[1] = "Kernel" /\ left \in {"info size", "info pool", "info", "kernel pages", "read"}

(***************************************************************************)
(* Nothing is released that is not held, or released twice, except that    *)
(* Mmap still points to the stack if its pool could not be allocated.      *)
(* (Bootloader.c:1353, :2017)                                              *)
(***************************************************************************)
OnlyHeldIsReleased ==
  bad # {} => bad = {<<"pool", "Mmap">>} /\ left \in {"map size", "map pool"}

(***************************************************************************)
(* An exit status of success means that the kernel returned one, or that   *)
(* the loader gave up where it does not go by the status of a call alone:  *)
(* where it also wants a handle, a volume, a size or an address, or finds  *)
(* fault with the kernel's headers or relocations.  It never means that a  *)
(* pool, the file or the memory map could not be had, or that no memory is *)
(* left.  So the message "Exiting Serra." (:2035) may follow a failure.    *)
(* (Bootloader.c:728, :802, :840, :873, :900, :913, :961, :1131,    *)
(* :1157, :1324, :1375)                                                    *)
(***************************************************************************)
SuccessHasItsReasons ==
  at = "exited" /\ AppStatus = "Success" =>
    left \in {"kernel", "acpi", "volume", "info size", "info", "kernel pages", "stack", "headers",
             "area", "relocate", "map size"}

(***************************************************************************)
(* The loader gets as far as the kernel or gives up, and if it gives up or *)
(* the kernel returns, it exits: no loop over handles, modes, tables or    *)
(* entries goes on for ever.                                               *)
(***************************************************************************)
Ends ==
  <>(at \in {"kernel", "returned", "exited"}) /\ (at = "exit" ~> at = "exited")

(***************************************************************************)
(* What the kernel is told: a graphics mode that no other surpasses, the   *)
(* newest ACPI table in whatever order they come, and nothing that is not  *)
(* held any more.  Nothing is said of the SMBIOS tables: that of version 3 *)
(* is never found, though the loader means to prefer it (:643, :661).      *)
(* (Bootloader.c:416-640, :1840)                                           *)
(***************************************************************************)
KernelIsInformed == GraphicsModeIsMaximal /\ NewestAcpi /\ KernelGetsWhatIsHeld

(***************************************************************************)
(* Whatever memory there is, the kernel refuses the map it is given for    *)
(* one reason only, that there is too little in all, of which the loader   *)
(* does not think.  (Bootloader.c:1667-1762, Common/Kernel/Entry.c:230-289) *)
(***************************************************************************)
KernelAcceptsMap ==
  at = "kernel" => MemoryMapStatus(scan.usable, 1, MmapEntryMemoryLimit) \in {"Success", "MemoryUnderLimit"}

(***************************************************************************)
(* The memory that the kernel may use, and that which it must leave.       *)
(* (Bootloader.c:1480-1762)                                                *)
(***************************************************************************)
UsableMapIsRight == UsableMapIsOrdered /\ FirmwareKeepsMemory /\ KernelAcceptsMap

(***************************************************************************)
(* The one cleanup for some forty ways to get there releases just what is  *)
(* held, and the status says why it was entered.  (Bootloader.c:1930-2044) *)
(***************************************************************************)
ExitIsRight == TypeOK /\ NothingIsLeft /\ OnlyHeldIsReleased /\ SuccessHasItsReasons
=============================================================================
