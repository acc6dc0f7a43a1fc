---------------------------- MODULE LegacyMemory ----------------------------
(***************************************************************************)
(* What the third stage of the legacy bootloader does with memory          *)
(* (Boot/Legacy/Stage3): it asks the BIOS for the memory map, makes the    *)
(* usable memory map of it, allocates the kernel's file, stack, page       *)
(* tables and image from that with AllocateFromMmap(), identity maps what  *)
(* the kernel needs, and hands what is left to the kernel.                 *)
(*                                                                         *)
(* Nothing is ever freed, and nothing records what was allocated: all of   *)
(* it lies below Offset, which is passed from one call to the next.        *)
(***************************************************************************)
EXTENDS EntryChecks, FiniteSets

CONSTANTS
  PageSize,
  Fanout,                 \* The entries of a page table.
  Word,                   \* Addresses are computed modulo Word.
  MaxMmapEntries,
  MmapEntryMemoryLimit,   \* The smallest usable entry.
  LowMemory,              \* 1 MiB: the bootloader itself is below.
  AddressLimit,           \* 4 GiB.
  IdentityMapThreshold,
  KernelStackSize,
  SseOverrun,             \* What SseMemcpy() and SseMemset() may write behind what they should.
  Reports,                \* What the BIOS may report, see Report.
  Garbage,                \* What the buffer for an entry may hold before the BIOS writes to it.
  Kernels,                \* The kernels on the drive, see Kernel.
  Framebuffers            \* Those of the mode that was chosen: [Base, Size].

Free == 1

LargePage == Fanout * PageSize

\* There is no memory in the last large page that an address can name.
Physical(base, size) == base + size + LargePage < Word

MmapEntry ==
  {e \in [Base : 0 .. Word - 1, Limit : 0 .. Word - 1, Type : Nat] :
     e.Type = Free => Physical(e.Base, e.Limit)}

\* A BIOS ends its list with a continuation number of 0, or with the carry flag.
Report == [entries : Seq(MmapEntry), carry : BOOLEAN]

\* The loadable and the dynamic programs; all others are passed over.
Program == [Loadable : BOOLEAN, VirtAddress : Nat, Size : Nat, PaddedSize : Nat, Alignment : Nat]

\* Overrun is what ReadFile() writes behind the end of the file, in bytes.
Kernel == [Size : Nat \ {0}, Overrun : Nat, Programs : Seq(Program)]

ASSUME SizesAssumption ==
  /\ PageSize \in Nat \ {0} /\ Fanout \in Nat \ {0} /\ Word \in Nat
  /\ \E k \in 1 .. Word : Word = k * (Fanout * LargePage)
  /\ IdentityMapThreshold \in Nat \ {0} /\ IdentityMapThreshold % LargePage = 0
  /\ Physical(0, IdentityMapThreshold)
  /\ KernelStackSize \in Nat \ {0} /\ KernelStackSize % PageSize = 0
  /\ AddressLimit \in Nat \ {0} /\ AddressLimit % PageSize = 0
  /\ SseOverrun \in 0 .. PageSize   \* MemoryFunctions!OverrunIsBounded
  /\ LowMemory \in 0 .. AddressLimit /\ LowMemory % PageSize = 0
  /\ MaxMmapEntries \in Nat \ {0} /\ MmapEntryMemoryLimit \in Nat \ {0}

\* The garbage, where its type is that of free memory, is an entry of an earlier list.
ASSUME ReportAssumption == Reports \subseteq Report /\ Garbage \subseteq MmapEntry

\* What FatReader!OverrunIsBounded says.
ASSUME KernelAssumption == \A k \in Kernels : k \in Kernel /\ k.Overrun <= KernelStackSize

\* The mode that was chosen has one frame buffer; without VBE there is none.
ASSUME FramebufferAssumption ==
  \A f \in Framebuffers :
    /\ f \in Seq([Base : Nat, Size : Nat \ {0}]) /\ Len(f) <= 1
    /\ \A i \in DOMAIN f : Physical(f[i].Base, f[i].Size)

VARIABLES
  at,      \* What is about to be done.
  report,  \* What the BIOS has yet to report.
  mmap,    \* The entries that it reported, sorted after that.
  usable,  \* UsableMmap, as far as it is filled.
  num,     \* NumUsableMmapEntries.
  scan,    \* The loop over mmap: Position and MinStart.
  Offset,
  blocks,  \* What was allocated, by name.
  copied,  \* Where the programs of the kernel were written to.
  kernel,
  framebuffer,
  map      \* The page tables: large pages that are mapped, and the call in progress.

vars == <<at, report, mmap, usable, num, scan, Offset, blocks, copied, kernel, framebuffer, map>>

Add(a, b) == (a + b) % Word

Sub(a, b) == (a - b + Word) % Word

PageAlign(a) == IF a % PageSize = 0 THEN a ELSE a + PageSize - (a % PageSize)

EndOf(e) == Add(e.Base, e.Limit)

-----------------------------------------------------------------------------
(***************************************************************************)
(* The memory map of the BIOS.                                             *)
(***************************************************************************)
Init ==
  /\ at = "report"
  /\ report \in Reports
  /\ mmap = <<>> /\ usable = <<>> /\ num = 0
  /\ scan = [Position |-> 1, MinStart |-> 0]
  /\ Offset = 0
  /\ blocks = <<>> /\ copied = <<>>
  /\ kernel \in Kernels /\ framebuffer \in Framebuffers
  /\ map = [todo |-> <<>>, call |-> <<>>, tables |-> <<>>, pages |-> <<>>]

Full(entries) == Len(entries) >= MaxMmapEntries

\* One call of int 15h.  An entry is counted even if the call failed and wrote none.
GetMmapEntry ==
  /\ at = "report"
  /\ \E entry \in IF report.entries = <<>> THEN Garbage ELSE {Head(report.entries)} :
       /\ mmap' = Append(mmap, entry)
       /\ num' = IF entry.Type = Free THEN num + 1 ELSE num
  /\ report' = [report EXCEPT !.entries = IF @ = <<>> THEN @ ELSE Tail(@)]
  /\ at' = IF \/ Full(mmap')
              \/ report.entries = <<>>
              \/ Len(report.entries) = 1 /\ ~report.carry
           THEN "sort" ELSE "report"
  /\ UNCHANGED <<usable, scan, Offset, blocks, copied, kernel, framebuffer, map>>

\* How many entries come before entry i or are it: those with the same base stay in order.
Rank(entries, i) ==
  Cardinality({j \in DOMAIN entries : \/ entries[j].Base < entries[i].Base
                                      \/ entries[j].Base = entries[i].Base /\ j <= i})

\* What the insertion sort makes of the entries.
Sorted(entries) ==
  [r \in DOMAIN entries |-> entries[CHOOSE i \in DOMAIN entries : Rank(entries, i) = r]]

Sort ==
  /\ at = "sort"
  /\ mmap' = Sorted(mmap)
  /\ at' = "scan"
  /\ UNCHANGED <<report, usable, num, scan, Offset, blocks, copied, kernel, framebuffer, map>>

\* The part of the entry that comes after MinStart and before the next entry, in whole pages.
StartAndEnd(entry, next) ==
  LET start == IF entry.Base < scan.MinStart THEN scan.MinStart ELSE entry.Base
      end == IF EndOf(entry) > next THEN next ELSE EndOf(entry)
  IN <<PageAlign(start), end - (end % PageSize)>>

\* A fault: the entries that are too small are not discounted.
DiscountNone == num

Discount == num - 1

ScanEntry ==
  /\ at = "scan" /\ scan.Position <= Len(mmap)
  /\ LET entry == mmap[scan.Position]
         next == IF scan.Position < Len(mmap) THEN mmap[scan.Position + 1].Base ELSE Word
         bounds == StartAndEnd(entry, next)
         size == Sub(bounds[2], bounds[1])
         covered == EndOf(entry) <= scan.MinStart
         small == ~covered /\ entry.Type = Free /\ size < MmapEntryMemoryLimit
         added == ~covered /\ entry.Type = Free /\ ~small
     IN /\ num' = IF entry.Type = Free /\ ~added THEN Discount ELSE num
        /\ usable' = IF added THEN Append(usable, [Base |-> bounds[1], Limit |-> size]) ELSE usable
        /\ scan' = [Position |-> scan.Position + 1,
                    MinStart |-> IF covered \/ small THEN scan.MinStart
                                 ELSE IF added THEN bounds[2] ELSE EndOf(entry)]
  /\ UNCHANGED <<at, report, mmap, Offset, blocks, copied, kernel, framebuffer, map>>

\* The size of an entry whose end was cut to before its start.
Wrapped(e) == e.Base + e.Limit >= Word

\* Without entries, AllocateFromMmap() would read the entry at 255, and with one that wraps
\* around no memory is safe: what happens then is not modelled.
ScanDone ==
  /\ at = "scan" /\ scan.Position > Len(mmap)
  /\ LET high == {i \in 1 .. Len(usable) : usable[i].Base >= LowMemory}
     IN Offset' = IF high = {} THEN LowMemory
                  ELSE usable[CHOOSE i \in high : \A j \in high : i <= j].Base
  /\ at' = IF usable = <<>> \/ \E i \in DOMAIN usable : Wrapped(usable[i]) THEN "wild" ELSE "image"
  /\ UNCHANGED <<report, mmap, usable, num, scan, blocks, copied, kernel, framebuffer, map>>

-----------------------------------------------------------------------------
(***************************************************************************)
(* AllocateFromMmap(): the end of the block, 0 if there is no room, or     *)
(* Panic.                                                                  *)
(***************************************************************************)
Panic == -1

\* A fault: a block may be as large as what is left of the entry, and one page more.
FitsWithPage(start, size, entry) == start + size < EndOf(entry) + 2 * PageSize

Fits(start, size, entry) == start + size < EndOf(entry)

AllocateFromMmap(start, size) ==
  LET below == {e \in DOMAIN usable : usable[e].Base <= start}
      first == IF below = {} THEN 1 ELSE CHOOSE e \in below : \A f \in below : f <= e
      From(e) == IF e = first /\ below # {} THEN start ELSE usable[e].Base
      fitting == {e \in first .. Len(usable) : Fits(PageAlign(From(e)), size, usable[e])}
      tried == IF fitting = {} THEN first .. Len(usable)
               ELSE first .. (CHOOSE e \in fitting : \A f \in fitting : e <= f)
  IN IF \E e \in tried : From(e) + size > AddressLimit THEN Panic
     ELSE IF fitting = {} THEN 0
     ELSE PageAlign(From(CHOOSE e \in tried : \A f \in tried : f <= e)) + size

Block(end, size) == [Base |-> end - size, Size |-> size]

With(f, name, value) == [n \in DOMAIN f \cup {name} |-> IF n = name THEN value ELSE f[n]]

\* The callers that panic if there is no room.  They keep 32 bits of the end, so that a block
\* which ends at 4 GiB is none to them.
AllocateOrPanic(here, name, size, there) ==
  /\ at = here
  /\ LET end == AllocateFromMmap(Offset, size)
     IN IF end = Panic \/ end % AddressLimit = 0
        THEN at' = "panic" /\ UNCHANGED <<Offset, blocks>>
        ELSE /\ at' = there
             /\ Offset' = end
             /\ blocks' = With(blocks, <<name>>, Block(end, size))
  /\ UNCHANGED <<report, mmap, usable, num, scan, copied, kernel, framebuffer>>

AllocateImage == AllocateOrPanic("image", "image", PageAlign(kernel.Size), "stack") /\ UNCHANGED map

AllocateStack == AllocateOrPanic("stack", "stack", KernelStackSize, "pml4") /\ UNCHANGED map

LargeAlign(size) == IF size % LargePage = 0 THEN size ELSE size + LargePage - (size % LargePage)

\* A call of InitializePageEntries() with large pages, of an area that need not be aligned.
Mapping(base, size, pat) ==
  [start |-> base - (base % LargePage), size |-> LargeAlign(size), pat |-> pat]

AllocatePml4 ==
  /\ AllocateOrPanic("pml4", "pml4", PageSize, "map")
  /\ map' = [map EXCEPT !.todo =
       <<Mapping(0, IdentityMapThreshold, FALSE)>>
         \o [i \in DOMAIN usable |-> Mapping(usable[i].Base, usable[i].Limit, FALSE)]
         \o [i \in DOMAIN framebuffer |-> Mapping(framebuffer[i].Base, framebuffer[i].Size, TRUE)]]

-----------------------------------------------------------------------------
(***************************************************************************)
(* InitializePageEntries().  A page table of the lowest level is named by  *)
(* its number, the first large page of which is Fanout times that.  The    *)
(* table of the level above and the table itself are allocated, in steps   *)
(* of their own, if they are not there; one more step fills it.            *)
(***************************************************************************)
\* A fault: the page after the area is left out.
LastPageExact(m) == (Add(m.start, m.size) \div LargePage) - 1

\* The page that holds the first byte behind the area is mapped as well.
LastPage(m) == Add(m.start, m.size) \div LargePage

FirstPage(m) == m.start \div LargePage

StartMapping ==
  /\ at = "map" /\ map.call = <<>> /\ map.todo # <<>>
  /\ map' = [map EXCEPT !.todo = Tail(@),
       !.call = <<[map |-> Head(map.todo), table |-> FirstPage(Head(map.todo)) \div Fanout]>>]
  /\ UNCHANGED <<at, report, mmap, usable, num, scan, Offset, blocks, copied, kernel, framebuffer>>

\* The tables that are missing for table t.
Missing(t) == {<<"pml3", t \div Fanout>>, <<"pml2", t>>} \ DOMAIN map.tables

\* The upper one comes first.
NextMissing(t) == IF <<"pml3", t \div Fanout>> \in Missing(t) THEN <<"pml3", t \div Fanout>> ELSE <<"pml2", t>>

OffsetAfter(end) == end

\* What InitializePageEntries() does with address 0 is not modelled.
AllocateTable ==
  /\ at = "map" /\ map.call # <<>> /\ Missing(map.call[1].table) # {}
  /\ LET end == AllocateFromMmap(Offset, PageSize)
     IN IF end \in {0, Panic}
        THEN /\ at' = IF end = Panic THEN "panic" ELSE "wild"
             /\ UNCHANGED <<Offset, map>>
        ELSE /\ Offset' = OffsetAfter(end)
             /\ map' = [map EXCEPT !.tables =
                  With(@, NextMissing(map.call[1].table), Block(end, PageSize))]
             /\ UNCHANGED at
  /\ UNCHANGED <<report, mmap, usable, num, scan, blocks, copied, kernel, framebuffer>>

\* The large pages of m that table t maps.
PagesIn(m, t) ==
  {p \in (t * Fanout) .. (t * Fanout + Fanout - 1) : FirstPage(m) <= p /\ p <= LastPage(m)}

FillTable ==
  /\ at = "map" /\ map.call # <<>> /\ Missing(map.call[1].table) = {}
  /\ LET m == map.call[1].map
         t == map.call[1].table
     IN map' = [map EXCEPT
          !.pages = [p \in PagesIn(m, t) \cup DOMAIN @ |-> IF p \in PagesIn(m, t) THEN m.pat ELSE @[p]],
          !.call = IF t = LastPage(m) \div Fanout THEN <<>> ELSE <<[map |-> m, table |-> t + 1]>>]
  /\ UNCHANGED <<at, report, mmap, usable, num, scan, Offset, blocks, copied, kernel, framebuffer>>

MappingDone ==
  /\ at = "map" /\ map.call = <<>> /\ map.todo = <<>>
  /\ at' = "read"
  /\ UNCHANGED <<report, mmap, usable, num, scan, Offset, blocks, copied, kernel, framebuffer, map>>

-----------------------------------------------------------------------------
(***************************************************************************)
(* The kernel: the file is read, and its programs copied to an area of     *)
(* their own.                                                              *)
(***************************************************************************)
ReadKernel ==
  /\ at = "read"
  /\ \/ /\ at' = "area"
        /\ blocks' = With(blocks, <<"file">>,
             [Base |-> blocks[<<"image">>].Base, Size |-> kernel.Size + kernel.Overrun])
     \/ /\ at' = "panic"
        /\ UNCHANGED blocks
  /\ UNCHANGED <<report, mmap, usable, num, scan, Offset, copied, kernel, framebuffer, map>>

StartOf(i) == kernel.Programs[i].VirtAddress

\* A fault: what is in memory only is left out.
SizeInFile(i) == kernel.Programs[i].Size

\* The size in memory, or else that in the file.
SizeOf(i) ==
  IF kernel.Programs[i].PaddedSize # 0 THEN kernel.Programs[i].PaddedSize ELSE kernel.Programs[i].Size

\* Programs without a size are passed over.
Programs == {i \in DOMAIN kernel.Programs : SizeOf(i) # 0}

\* In 32 bits.
EndOfProgram(i) == (StartOf(i) + SizeOf(i)) % AddressLimit

EarliestVirtualAddress ==
  CHOOSE s \in {StartOf(i) : i \in Programs} \cup {AddressLimit - 1} :
    \A i \in Programs : s <= StartOf(i)

LatestVirtualAddress ==
  CHOOSE e \in {EndOfProgram(i) : i \in Programs} \cup {0} : \A i \in Programs : EndOfProgram(i) <= e

\* Rounded up in 32 bits, which makes nothing of what ends in the last page.
KernelAreaSize == PageAlign(LatestVirtualAddress - EarliestVirtualAddress) % AddressLimit

HeadersAreRefused ==
  \/ \E i \in DOMAIN kernel.Programs :
       LET p == kernel.Programs[i]
       IN p.VirtAddress >= AddressLimit \/ p.Size >= AddressLimit \/ p.PaddedSize >= AddressLimit
  \/ \E i \in Programs : StartOf(i) % PageSize # 0 \/ kernel.Programs[i].Alignment < PageSize
  \/ LatestVirtualAddress < EarliestVirtualAddress
  \/ \A i \in Programs : ~kernel.Programs[i].Loadable

AllocateArea ==
  /\ ~HeadersAreRefused
  /\ AllocateOrPanic("area", "area", KernelAreaSize, "copy")
  /\ UNCHANGED map

RefuseKernel ==
  /\ at = "area" /\ HeadersAreRefused
  /\ at' = "panic"
  /\ UNCHANGED <<report, mmap, usable, num, scan, Offset, blocks, copied, kernel, framebuffer, map>>

\* What is written for a program: its part of the file, however long, and zeroes up to its
\* size in memory.
BytesWritten(i) ==
  LET p == kernel.Programs[i] IN (IF p.PaddedSize > p.Size THEN p.PaddedSize ELSE p.Size) + SseOverrun

\* The loadable programs are copied, and what follows them cleared, at 32-bit addresses.
Copies(area) ==
  [i \in {j \in Programs : kernel.Programs[j].Loadable} |->
     [Base |-> (area.Base + StartOf(i)) % AddressLimit, Size |-> BytesWritten(i)]]

CopyPrograms ==
  /\ at = "copy"
  /\ copied' = Copies(blocks[<<"area">>])
  /\ at' = "trim"
  /\ UNCHANGED <<report, mmap, usable, num, scan, Offset, blocks, kernel, framebuffer, map>>

\* The entries below the one that Offset is in are dropped.
FirstEntryLeft(used) == used

\* What is below Offset is removed from the map that the kernel gets.
Trim ==
  /\ at = "trim"
  /\ LET within == {i \in DOMAIN usable : EndOf(usable[i]) >= Offset /\ usable[i].Base < Offset}
     IN IF within = {} THEN UNCHANGED <<usable, num>>
        ELSE LET used == CHOOSE i \in within : \A j \in within : i <= j
                 base == PageAlign(Offset)
                 trimmed == [usable EXCEPT ![used] =
                              [Base |-> base, Limit |-> EndOf(usable[used]) - base]]
             IN /\ usable' = SubSeq(trimmed, FirstEntryLeft(used), Len(usable))
                /\ num' = num - (used - 1)
  /\ at' = "kernel"
  /\ UNCHANGED <<report, mmap, scan, Offset, blocks, copied, kernel, framebuffer, map>>

Next ==
  \/ GetMmapEntry \/ Sort \/ ScanEntry \/ ScanDone
  \/ AllocateImage \/ AllocateStack \/ AllocatePml4
  \/ StartMapping \/ AllocateTable \/ FillTable \/ MappingDone
  \/ ReadKernel \/ AllocateArea \/ RefuseKernel \/ CopyPrograms \/ Trim

\* Nothing else runs.
Spec == Init /\ [][Next]_vars /\ WF_vars(Next)

-----------------------------------------------------------------------------
(***************************************************************************)
(* Properties.                                                             *)
(***************************************************************************)
TypeOK ==
  /\ at \in {"report", "sort", "scan", "image", "stack", "pml4", "map", "read", "area", "copy",
             "trim", "kernel", "panic", "wild"}
  /\ Len(mmap) <= MaxMmapEntries
  /\ \A i \in DOMAIN usable : usable[i] \in [Base : 0 .. Word - 1, Limit : 0 .. Word - 1]
  /\ num \in 0 .. MaxMmapEntries
  /\ Offset \in Nat /\ (blocks # <<>> => Offset <= AddressLimit)
  /\ \A p \in DOMAIN map.pages : map.pages[p] \in BOOLEAN

\* Areas [Base, Size] and entries [Base, Limit].
Apart(base1, end1, base2, end2) == end1 <= base2 \/ end2 <= base1

(***************************************************************************)
(* An entry that is not at least MmapEntryMemoryLimit long is skipped, as  *)
(* the comment says: what is left of every usable entry is above its       *)
(* start.  It is not so if what comes next, or the rounding, has moved the *)
(* end before the start: the size is then nearly all of the address space. *)
(* (Stage3/Bootloader.c:450-458)                                           *)
(***************************************************************************)
SmallEntriesAreSkipped == \A i \in DOMAIN usable : ~Wrapped(usable[i])

Intact == at \notin {"wild", "panic"} /\ SmallEntriesAreSkipped

(***************************************************************************)
(* In whatever order and with whatever overlaps and alignments the BIOS    *)
(* reports its entries, as long as no end falls before its start (that is, *)
(* while SmallEntriesAreSkipped): every usable entry is part of a free     *)
(* one, keeps off all that is not free, begins and ends with a page, and   *)
(* comes after the one before it, up to the map that the kernel is given.  *)
(* (Stage3/Bootloader.c:386, the loop)                                     *)
(***************************************************************************)
PartOfFree(base, end, entries) ==
  /\ base % PageSize = 0 /\ end % PageSize = 0
  /\ \E j \in DOMAIN entries :
       entries[j].Type = Free /\ entries[j].Base <= base /\ end <= EndOf(entries[j])
  /\ \A j \in DOMAIN entries : entries[j].Type # Free /\ entries[j].Limit # 0 =>
       Apart(base, end, entries[j].Base, EndOf(entries[j]))

UsableIsFree ==
  Intact =>
    \A i \in DOMAIN usable :
      /\ PartOfFree(usable[i].Base, EndOf(usable[i]), mmap)
      /\ i > 1 => EndOf(usable[i - 1]) <= usable[i].Base

(***************************************************************************)
(* The number of entries, which is counted while they are reported and     *)
(* corrected for each one that is dropped, is that of the entries in the   *)
(* map: the number is what the kernel is told.                             *)
(* (Stage3/Bootloader.c:293, :403, :456, :1647)                            *)
(***************************************************************************)
NumIsRight ==
  at # "panic" =>
    num = Len(usable) + Cardinality({i \in DOMAIN mmap : mmap[i].Type = Free /\ i >= scan.Position})

Areas ==
  [n \in (DOMAIN blocks \ {<<"file">>}) \cup DOMAIN map.tables |->
     IF n \in DOMAIN blocks THEN blocks[n] ELSE map.tables[n]]

EndOfArea(area) == area.Base + area.Size

(***************************************************************************)
(* Although nothing records what was allocated, no two areas share memory, *)
(* none is where the bootloader itself is, each is part of a usable entry, *)
(* and none is part of the memory that the kernel is told to be free: as   *)
(* long as the usable map is right, see UsableIsFree.                      *)
(* (Paging.c:84, AllocateFromMmap; Stage3/Bootloader.c:1611)               *)
(***************************************************************************)
AreasAreOwned ==
  Intact =>
    /\ \A n, o \in DOMAIN Areas : n # o =>
         Apart(Areas[n].Base, EndOfArea(Areas[n]), Areas[o].Base, EndOfArea(Areas[o]))
    /\ \A n \in DOMAIN Areas :
         /\ Areas[n].Base >= LowMemory
         /\ IF at = "kernel"
            THEN \A i \in DOMAIN usable :
                   Apart(Areas[n].Base, EndOfArea(Areas[n]), usable[i].Base, EndOf(usable[i]))
            ELSE \E i \in DOMAIN usable :
                   usable[i].Base <= Areas[n].Base /\ EndOfArea(Areas[n]) <= EndOf(usable[i])

\* What the linker sees to: the first program is at 0, none is longer in the file than in
\* memory, and none ends in the last page of the address space.
IsLinked ==
  /\ EarliestVirtualAddress = 0
  /\ \A i \in Programs :
       /\ kernel.Programs[i].Size <= kernel.Programs[i].PaddedSize
       /\ StartOf(i) + kernel.Programs[i].PaddedSize <= AddressLimit - PageSize

(***************************************************************************)
(* What ReadFile() writes behind the end of the kernel's file never        *)
(* reaches the page tables that are in use.  Programs whose addresses do   *)
(* not wrap around are written over no other area, even those that are     *)
(* longer in the file than in memory; and those of a kernel as the linker  *)
(* makes it stay within their area and, with what the vector functions     *)
(* write too much, within the usable entry that it is part of.             *)
(* (Stage3/Bootloader.c:1236, :1304-1396 and :1420-1453)                   *)
(***************************************************************************)
FileStaysOffTables ==
  /\ <<"file">> \in DOMAIN blocks =>
       \A n \in DOMAIN Areas \ {<<"image">>, <<"stack">>} :
         Apart(blocks[<<"file">>].Base, EndOfArea(blocks[<<"file">>]),
               Areas[n].Base, EndOfArea(Areas[n]))
  /\ \A i \in DOMAIN copied :
       blocks[<<"area">>].Base + StartOf(i) + copied[i].Size <= AddressLimit =>
         \A n \in DOMAIN Areas \ {<<"area">>} :
           Apart(copied[i].Base, EndOfArea(copied[i]), Areas[n].Base, EndOfArea(Areas[n]))
  /\ IsLinked =>
       \A i \in DOMAIN copied :
         /\ blocks[<<"area">>].Base <= copied[i].Base
         /\ EndOfArea(copied[i]) - SseOverrun <= EndOfArea(blocks[<<"area">>])
         /\ at = "trim" => \E e \in DOMAIN usable :
              usable[e].Base <= copied[i].Base /\ EndOfArea(copied[i]) <= EndOf(usable[e])

IsMapped(base, end, pats) ==
  \A p \in (base \div LargePage) .. ((end - 1) \div LargePage) :
    p \in DOMAIN map.pages /\ map.pages[p] \in pats

(***************************************************************************)
(* When paging is enabled, every usable byte, every area and the low       *)
(* memory are mapped to themselves, and the whole frame buffer is write-   *)
(* combining, though starts are aligned down and sizes up on their own.    *)
(* (Paging.c:202, InitializePageEntries; Stage3/Bootloader.c:1150)         *)
(***************************************************************************)
EverythingIsMapped ==
  at = "kernel" =>
    /\ IsMapped(0, IdentityMapThreshold, BOOLEAN)
    /\ \A i \in DOMAIN usable :
         usable[i].Limit > 0 => IsMapped(usable[i].Base, EndOf(usable[i]), BOOLEAN)
    /\ \A n \in DOMAIN Areas :
         Areas[n].Size > 0 => IsMapped(Areas[n].Base, EndOfArea(Areas[n]), BOOLEAN)
    /\ \A i \in DOMAIN framebuffer :
         IsMapped(framebuffer[i].Base, framebuffer[i].Base + framebuffer[i].Size, {TRUE})

(***************************************************************************)
(* The kernel refuses the map that it is given for two reasons at most:    *)
(* the first entry, from which the areas were taken, may be left smaller   *)
(* than the kernel wants an entry to be, or else all that is left may be   *)
(* less than it wants in all, which no step of the bootloader looks at.    *)
(* (Stage3/Bootloader.c:1608-1650, Common/Kernel/Entry.c:230-289)          *)
(***************************************************************************)
OnlyFirstEntryIsSmall ==
  at = "kernel" =>
    /\ num > 0
    /\ usable[1].Limit > 0
    /\ MemoryMapStatus(usable, PageSize, MmapEntryMemoryLimit) \in
         IF usable[1].Limit < MmapEntryMemoryLimit THEN {"EntryUnderMinSize"}
         ELSE {"Success", "MemoryUnderLimit"}
    /\ MemoryMapStatus(Tail(usable), PageSize, MmapEntryMemoryLimit)
         \in {"Success", "HasNoEntries", "MemoryUnderLimit"}

(***************************************************************************)
(* The map, at every step from the first report of the BIOS to the kernel: *)
(* its entries are free memory, as long as no end fell before its start,   *)
(* their number is right, and the kernel can object to the first one or to *)
(* the sum of all only.  (Stage3/Bootloader.c:284-472, :1608)              *)
(***************************************************************************)
MapIsRight == TypeOK /\ UsableIsFree /\ NumIsRight /\ OnlyFirstEntryIsSmall

-----------------------------------------------------------------------------
(***************************************************************************)
(* The inductive invariant.                                                *)
(***************************************************************************)
Seeking == {"report", "sort", "scan"}

Granting == {"image", "stack", "pml4", "map", "read", "area", "copy", "trim"}

TypeInv ==
  /\ at \in Seeking \cup Granting \cup {"kernel", "panic", "wild"}
  /\ report \in Report
  /\ mmap \in Seq(MmapEntry) /\ Len(mmap) <= MaxMmapEntries
  /\ at = "report" => Len(mmap) < MaxMmapEntries
  /\ usable \in Seq([Base : 0 .. Word - 1, Limit : 0 .. Word - 1])
  /\ scan \in [Position : Nat \ {0}, MinStart : 0 .. Word - 1]
  /\ Offset \in Nat
  /\ kernel \in Kernels /\ framebuffer \in Framebuffers
  /\ map = [todo |-> map.todo, call |-> map.call, tables |-> map.tables, pages |-> map.pages]
  /\ \A p \in DOMAIN map.pages : map.pages[p] \in BOOLEAN

FreeFrom(entries, position) == {i \in DOMAIN entries : entries[i].Type = Free /\ i >= position}

\* Each entry that was passed has become one usable entry at most.
NumInv ==
  /\ num = Len(usable) + Cardinality(FreeFrom(mmap, scan.Position))
  /\ Len(usable) < scan.Position /\ scan.Position <= Len(mmap) + 1
  /\ at \in {"report", "sort"} => usable = <<>> /\ scan.Position = 1

EntriesInOrder(entries) == \A i, j \in DOMAIN entries : i < j => entries[i].Base <= entries[j].Base

NoneWrapped(used) == \A i \in DOMAIN used : ~Wrapped(used[i])

UsableInOrder(used) == \A i, j \in DOMAIN used : i < j => EndOf(used[i]) <= used[j].Base

\* As long as no size wrapped around, nothing that was passed reaches beyond MinStart.
PassedInv ==
  /\ \A i \in DOMAIN usable : EndOf(usable[i]) <= scan.MinStart
  /\ \A j \in 1 .. scan.Position - 1 : mmap[j].Type # Free => EndOf(mmap[j]) <= scan.MinStart

UsableInv ==
  /\ at \notin {"report", "sort"} => EntriesInOrder(mmap)
  /\ NoneWrapped(usable) =>
       /\ \A i \in DOMAIN usable : PartOfFree(usable[i].Base, EndOf(usable[i]), mmap)
       /\ UsableInOrder(usable)
       /\ at = "scan" => PassedInv
  /\ at \in Granting \cup {"kernel"} => NoneWrapped(usable) /\ usable # <<>>
  /\ \A i \in DOMAIN usable : at # "kernel" \/ i > 1 => usable[i].Limit >= MmapEntryMemoryLimit
  /\ at = "kernel" => usable[1].Limit > 0 /\ \A i \in DOMAIN usable : usable[i].Base >= Offset

\* Offset is the end of the last area, within a usable entry.
OffsetInv ==
  /\ at \in Granting => Offset >= LowMemory /\ Offset % PageSize = 0
  /\ at \in Granting \ {"image"} =>
       \E i \in DOMAIN usable : usable[i].Base < Offset /\ Offset < EndOf(usable[i])
  /\ blocks # <<>> => Offset <= AddressLimit

\* The areas are apart from each other, none is low, and all end by offset.
Laid(areas, offset) ==
  /\ \A n \in DOMAIN areas :
       /\ areas[n].Base \in Nat /\ areas[n].Size \in Nat
       /\ LowMemory <= areas[n].Base /\ EndOfArea(areas[n]) <= offset
  /\ \A n, o \in DOMAIN areas : n # o =>
       Apart(areas[n].Base, EndOfArea(areas[n]), areas[o].Base, EndOfArea(areas[o]))

Within(area, used) ==
  \E i \in DOMAIN used : used[i].Base <= area.Base /\ EndOfArea(area) < EndOf(used[i])

AreasInv ==
  /\ Laid(Areas, Offset)
  /\ at \in Granting => \A n \in DOMAIN Areas : Within(Areas[n], usable)

\* What is granted before a stage begins.
Granted ==
  [stage \in Granting \cup {"kernel"} |->
     CASE stage = "image" -> {}
       [] stage = "stack" -> {<<"image">>}
       [] stage = "pml4" -> {<<"image">>, <<"stack">>}
       [] stage \in {"map", "read"} -> {<<"image">>, <<"stack">>, <<"pml4">>}
       [] stage = "area" -> {<<"image">>, <<"stack">>, <<"pml4">>, <<"file">>}
       [] OTHER -> {<<"image">>, <<"stack">>, <<"pml4">>, <<"file">>, <<"area">>}]

NamesInv ==
  /\ at \in Seeking => blocks = <<>>
  /\ at \in Granting \cup {"kernel"} => DOMAIN blocks = Granted[at]
  /\ DOMAIN map.tables \subseteq {"pml3", "pml2"} \X Nat
  /\ at \in Seeking \cup {"image", "stack", "pml4"} => DOMAIN map.tables = {} /\ map.call = <<>>
  /\ at \notin {"trim", "kernel"} => copied = <<>>

\* The stack comes after the image, and whatever else was granted after the stack.
FileInv ==
  /\ <<"image">> \in DOMAIN blocks => blocks[<<"image">>].Size = PageAlign(kernel.Size)
  /\ <<"stack">> \in DOMAIN blocks =>
       /\ <<"image">> \in DOMAIN blocks
       /\ EndOfArea(blocks[<<"image">>]) <= blocks[<<"stack">>].Base
       /\ blocks[<<"stack">>].Size = KernelStackSize
       /\ \A n \in DOMAIN Areas \ {<<"image">>, <<"stack">>} :
            EndOfArea(blocks[<<"stack">>]) <= Areas[n].Base
  /\ <<"file">> \in DOMAIN blocks =>
       /\ <<"stack">> \in DOMAIN blocks
       /\ blocks[<<"file">>] =
            [Base |-> blocks[<<"image">>].Base, Size |-> kernel.Size + kernel.Overrun]
  /\ <<"area">> \in DOMAIN blocks =>
       /\ ~HeadersAreRefused
       /\ blocks[<<"area">>].Size = KernelAreaSize
       /\ EndOfArea(blocks[<<"area">>]) = Offset /\ Offset % PageSize = 0 /\ Offset < AddressLimit
       /\ \A n \in DOMAIN Areas \ {<<"area">>} : EndOfArea(Areas[n]) <= blocks[<<"area">>].Base
  /\ copied = <<>> \/
       /\ <<"area">> \in DOMAIN blocks
       /\ copied = Copies(blocks[<<"area">>])

\* The mappings that are asked for.
Wanted ==
  {Mapping(0, IdentityMapThreshold, FALSE)}
    \cup {Mapping(usable[i].Base, usable[i].Limit, FALSE) : i \in DOMAIN usable}
    \cup {Mapping(framebuffer[i].Base, framebuffer[i].Size, TRUE) : i \in DOMAIN framebuffer}

\* What the tables below t map of m.
MappedBelow(m, t, pages) ==
  \A p \in FirstPage(m) .. LastPage(m) :
    p \div Fanout < t => p \in DOMAIN pages /\ (m.pat => pages[p] = TRUE)

Mapped(m, pages) ==
  \A p \in FirstPage(m) .. LastPage(m) : p \in DOMAIN pages /\ (m.pat => pages[p] = TRUE)

\* Nothing is mapped after the frame buffer, which must be mapped with its own attribute.
Pending(m, todo, call, pages) ==
  \/ \E i \in DOMAIN todo : todo[i] = m
  \/ call # <<>> /\ call[1].map = m /\ (m.pat => todo = <<>>)
  \/ Mapped(m, pages) /\ (m.pat => todo = <<>> /\ call = <<>>)

CallInv(call, pages) ==
  /\ call = <<[map |-> call[1].map, table |-> call[1].table]>>
  /\ call[1].map \in Wanted /\ call[1].table \in Nat
  /\ call[1].table <= LastPage(call[1].map) \div Fanout
  /\ MappedBelow(call[1].map, call[1].table, pages)

MapsInv ==
  /\ at = "map" =>
       /\ map.todo \in Seq(Wanted)
       /\ \A i \in DOMAIN map.todo : map.todo[i].pat => i = Len(map.todo)
       /\ map.call = <<>> \/ CallInv(map.call, map.pages)
       /\ map.call # <<>> /\ map.call[1].map.pat => map.todo = <<>>
       /\ \A m \in Wanted : Pending(m, map.todo, map.call, map.pages)
  /\ at \in {"read", "area", "copy", "trim"} => \A m \in Wanted : Mapped(m, map.pages)
  /\ EverythingIsMapped

MemoryInv ==
  TypeInv /\ NumInv /\ UsableInv /\ OffsetInv /\ AreasInv /\ NamesInv /\ FileInv /\ MapsInv
=============================================================================
