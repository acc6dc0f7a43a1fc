# A verification of Serra's kernel and boot code

Serra is an x86 boot manager. A bootloader (one for EFI, one for legacy BIOS)
collects what the firmware knows, loads a kernel and calls it with a table of
that information (`commonInfoTable`); the kernel brings up a memory allocator, a
display, a console, the disks and their partitions, and returns to its
bootloader. Everything runs on one thread. The hard parts are not
interleavings of threads but long sequences of legal calls (the allocator),
arithmetic at boundaries (reads of bytes from drives that only read sectors,
partition tables, copies by vector registers), steps of many failing one at a
time, a firmware that changes its answers between two calls or lists things in
any order, and code for four modes of one processor, which interrupts may meet
in any place.

This directory holds TLA+ models of that code, the TLC configurations that check
them, and proofs that TLAPS checks. Paths below are relative to `src/`;
`PROJECT.json` maps every definition to the lines it models.

## Inventory

| Component | State | Operations | What is hard | What makes it correct |
|---|---|---|---|---|
| Memory allocator, `Common/Kernel/Memory/Mm.c` | one node per page in the reserved start of each memory map entry; lists by size (`Nodes[]`) and by position | `InitializeMemoryManagementSubsystem`, `Allocate` (`DivideBlock`, `PopBlock`), `Free` (`FreeBlock`, `MergeBlock`) | any order of frees; merging by distance; probes at powers of two | no memory handed out twice, none lost, calls end |
| Disk subsystem, `Common/Kernel/Disk/{Disk,Efi/Efi,Bios/Bios}.c` | `DiskInfo`, `VolumeList`, EFI handles and open protocols | `InitializeDiskSubsystem`, `ReadSectors`, `ReadDisk`, `TerminateDiskSubsystem` | bytes from sectors, aligned buffers, failing drivers, media that change, failures halfway | a read returns the bytes of the disk and writes nothing else; what is opened is closed |
| Partition detection, `Common/Kernel/Disk/Fs/Fs.c` | adds to `VolumeList` | `InitializeFsSubsystem`, `DetectPartitionMap`, `Validate*Header` | untrusted tables, several reads of a medium that may change, many exits | every partition is one of its medium; buffers are freed |
| Entrypoint, `Common/Kernel/Entry.c` | the order of everything above | `KernelEntrypoint` | early returns after partial initialisation | the kernel returns, with everything closed |
| Console, `Common/Kernel/Graphics/Console/` | cursor, screen | `Print`, `Message`, `Putchar`, scrolling of three drivers | wrapping at the last column and row | text appears where a terminal would put it |
| Graphics and fonts, `Common/Kernel/Graphics/` | double buffer, bitmap font | initialisation, drawing | | the buffer matches the frame buffer |
| Memory functions, `Common/Kernel/Memory/Memory.c`, `x64/*.asm`, `Boot/*/Memory/Memory.c` | none | `Memcpy`, `Memmove`, `Memset`, `MemsetBlock`, `Memswap`, `SseMemcpy`, `SseMemset` | a routine per CPU, each with a part up to a boundary, blocks and a rest; overlaps | equal to the definition, or a bounded overrun |
| CPU features, `Common/Kernel/System/x64.c` | control registers | `InitializeCpuFeatures` | depends on the processor | |
| EFI bootloader, `Boot/Efi/Bootloader.c` | flags and pointers for the resources it holds, two memory maps | `S1Bootloader` | some fifteen resources, forty exits to one cleanup; lists in any order | everything taken is given back, once; the kernel is told of what is held |
| Legacy FAT reader, `Boot/Legacy/Shared/Disk/Disk.c` | the place in a chain, one sector | `GetFatEntry`, `FindDirectory`, `ReadFile` | chains that end early or never; reads whose failure is not seen | the file's sectors in order, or false; it ends |
| Legacy bootloader stages, `Boot/Legacy/{Bootsector,Stage2,Stage3}` | the information table | loading the next stage | ordering | |
| Legacy memory map and paging, `Boot/Legacy/Stage3/{Bootloader,Memory/*}.c` | the list of the BIOS, the usable map, an offset, page tables | `GetMmapEntry`, `AllocateFromMmap`, `InitializePageEntries` | overlapping and unaligned firmware entries; nothing records what is allocated | usable entries are free; areas are disjoint and not the kernel's; everything is mapped |
| Changes of mode, `Boot/Legacy/Shared/Rm/`, `Stage3/Stub.asm`, `Common/Kernel/Disk/Bios/Int13.asm` | control registers, tables, segments, stacks, `realModeTable` | `RealMode` (three of them), `TransitionStub`, `ReturnFromKernel64` | eight changes of mode, nested; NMIs | each instruction meets its mode; callers get everything back |
| Legacy interrupts, `Boot/Legacy/Stage3/Int/` | IDT, PIC masks | stubs and handlers of exceptions | interrupts in any place | handlers know what happened, and leave no trace |
| A20 gate, VBE, boot sectors | hardware | | | |

Calls go one way: the entrypoint calls each subsystem; `Fs.c` calls `ReadDisk`
and the allocator; `ReadDisk` calls the allocator and a driver; a driver calls
the firmware, or the BIOS by way of a change of mode. The shared state is
`VolumeList`, the heap and, in the legacy bootloader, `realModeTable`. There are
no callbacks, and no interrupts of the kernel's own.

## Modules

| Module | What it is |
|---|---|
| `Heap` | The abstract specification: what any allocator promises. |
| `MmAllocator` | `Mm.c`, at the level of nodes and list links. |
| `MmProperties` | Its properties, the refinement of `Heap`, and the inductive invariant. |
| `MmUniform` | What is invariant when clients hold blocks of one level only: where the free blocks are, and how they are linked by position. |
| `MmProofs` | The theorems about `MmAllocator`, and about its client `KernelHeap`. |
| `MmUniformProofs` | The theorems about `SpecUniform`. |
| `KernelHeap` | The kernel as the client of the allocator: which block it allocates and frees when, with every error path. Composes `MmAllocator` with `Entry.c`, `Graphics.c`, `Efi.c`, `Disk.c` and `Fs.c`. |
| `DiskRead` | `ReadDisk()` and its drivers on a memory of bytes. |
| `DiskReadProofs` | The theorems about it. |
| `PartitionMap` | The operators of `Fs.c` on MBRs and GPT headers. |
| `DiskVolumes` | The life of the disk subsystem: handles, protocols, volumes and partitions, with media that change. |
| `DiskVolumesProofs` | The theorems about it. |
| `FatReader` | The legacy FAT driver, from the first folder of a path to the last sector of its file. |
| `FatReaderProofs` | The theorems about it. |
| `EntryChecks` | What the kernel checks of the memory map it is given; `LegacyMemory` and `EfiBoot` make such maps. |
| `LegacyMemory` | What the legacy bootloader does with memory: the map, the areas taken from it, the page tables. |
| `LegacyMemoryProofs` | The theorems about it. |
| `EfiBoot` | The EFI bootloader and the firmware's view of what it holds. |
| `EfiBootProofs` | The theorems about it. |
| `InductionLemmas` | Induction over numbers, stated of sets, which the proofs about loops over lists use, and what it is to iterate a function, for chains. |
| `MemoryFunctions` | The copies and fills of the kernel and of both bootloaders, as moves. |
| `ModeSwitch` | The code that changes the processor's mode, the handlers of interrupts, and the processor as far as they concern it. |
| `MC*` | The instances that TLC checks. |

### The allocator: `MmAllocator`

Each entry of the memory map starts with one node (`allocationNode`, 64 bytes)
for each of its pages; the rest is handed out in blocks of 2^l pages. `mem` is
the array of all nodes, `Nodes[l]` the head of the list of free blocks of level
l, `call` the call in progress with its local variables: one step of the model
is one iteration of a loop (`Carve`: a block of the constructor;
`DividePush`, `DivideLast`, `DividePop`: a piece that `DivideBlock()` pushes;
`MergePrevious`, `MergeNext`, `MergeDone`: an iteration of `MergeBlock()`), with
`AllocatePop`, `AllocateDivide` and `FreeBlock` the beginnings of calls and
`NullSeen`, `FalseSeen` the results of failed ones. Addresses are counted in
units of a node. `Level` is the one field of a node that is not in the code: a
free block does not know its size there, and a property has to.

When `FreeBlock()` reads memory outside of the nodes as if it were a node, what
follows depends on what clients wrote there, and the model ends the behaviour
(`Wild`).

`MergeBlock()` tells the size of a free block by its distance to another free
block. That is the size only if nothing in between is in use, and for which
clients it is cannot be read off the code. Three disciplines are specified:
`SpecPermanent` (never free), `SpecUniform` (the blocks held at one time have one
level, the newest is freed first, and a client gives up when `Free()` reports a
failure) and `Spec` (any sizes, any order). `MergesAreSound` says that whatever is
about to be merged may be merged: two buddies, whose removal leaves the right head
to their list. It holds in the uniform discipline, which `MmUniformProofs` shows for
all memory maps but those with a bridge (see there). Newest first is not enough: with
17 data pages, allocating two pages and then four, and giving the four back, merges a
block of four pages with one of two, over the two that are in use.

| Run | Shows |
|---|---|
| `mm_uniform` | `MergesAreSound`; `HeapInv`, the inductive invariant of the proofs, at every step; `EveryPageHasOneOwner`: no page lost or in two blocks; `NullOnlyWhenExhausted`: NULL only when nothing large enough is free; `HeapRestored`: everything is merged back when everything was freed; `ImplementsHeap`, the refinement |
| `mm_any` | even with frees in any order, which do corrupt the lists, no link leaves the reserved space (`TypeOK`), and every call ends (`EveryCallReturns`); clients that free in order are among these |

Bounds: a page describes 8 nodes instead of 64, so levels 0 to 4, one entry with 4
to 24 data pages or two of 7 or 8 each (touching or with a page between), at most
8 live blocks, sizes of half a page to sixteen pages. These have every shape
that matters: entries that carve into one to four blocks, blocks of
every level divided and merged, low bases where the search for the previous
node wraps around, exhaustion. `mm_any` has smaller entries, four blocks, and only
two and four pages: frees in any order corrupt the lists in ever new ways.

### The kernel's own order: `KernelHeap`

`Kernel` is a table of the places where the kernel allocates or frees, and where
it goes on when that works or fails: `VerifyMemoryManagementSubsystem()`, the
double buffer, the two lists of handles, and for each volume the temporary buffers
of `ReadDisk()` and the headers and the array of `DetectPartitionMap()`. The
latter holds blocks of several sizes and frees its two headers oldest first, which
is none of the disciplines above, so that the question whether the allocator works *for
this kernel* needs a model of its own. The answer is that it depends on the memory
map and on the disks. `ReadDisk()` reads three sectors or more straight into an aligned
buffer, so that the usual partition array of 16 KiB or more needs no temporary one
(`ArrayBuffers`, `Disk.c:284-290`). An array of two 4096-byte sectors, which is what
64 entries of 128 bytes are, does: with 35 data pages that buffer is given back
while the array is in use, and merges with a next block that is not as wide (`Mm.c:561`
says that it is; `kernel_v_NextIsAsWide`). `kernel_heap` shows that within its bounds this is
the only way to an unsound merge (`OnlyArrayBuffersMergeUnsoundly`), and what holds up
to one (`SoundKernelSpec` stops there): `BlocksDisjoint`, every page accounted for except in blocks that `Free()`
refused (`EveryPageAccounted`), and no buffer kept by any path (`NothingKept`). The
behaviours also end where the search for a neighbour reads a data page as a node,
which the very first free may do.

Bounds: entries of 12 to 45 pages, with low and high bases, and two entries;
sectors of 512 bytes and 4 KiB, arrays of 1, 8 and 16 KiB (two sectors of either size,
and the usual size), graphics buffers of two to
sixteen pages (smaller than real ones, to reach exhaustion).

### Reads: `DiskRead`

A byte on the drive is represented by its position, so that "the caller got what
it asked for" compares the memory with numbers. The actions are
what `ReadDisk()` does between two calls of a driver: the last sector read to the
start of the buffer and copied to its end, the middle ones read and moved, the
first one read over what was moved and the overwritten part restored from a
temporary buffer; or everything through a temporary buffer. A driver reads in
one step (EFI) or in several (int 13h) and may fail at each; `Allocate()` may
fail, `Free()` may refuse. What `Allocate()` returns is memory that is nobody's
(`Grants`), the promise that `MmAllocator` is about.

`Memmove()` is modelled with what it does to overlapping bytes: it moves by less than
64 bytes itself and leaves the rest to `Memcpy()`, all variants of which go up, so that a
move up by more (but less than its length) repeats what it has already moved
(`Memory.c:212-224`, `Forward`). `ReadDisk()` makes such moves where a read begins within a
sector, and then returns true without some of the bytes that were asked for. Which ones are
lost can be told from the request (`Lost`), and of all others `disk_read` checks that they
are exact (`BytesArrive`). It also checks that a read writes nothing outside of
the caller's and the temporary buffer (`WritesStayInside`), transfers only to
aligned addresses (`TransfersAligned`), gives the
temporary buffer back on every path (`TempGivenBack`), and ends (`ReadReturns`).
Bounds: six sectors of four
bytes, a `MoveThreshold` of two bytes (so that a sector has offsets below and above it,
as 64 has in 512), reads of 0 to 18 bytes (up to six sectors, so more than the three from
which on the direct strategy applies) from 5 offsets, alignments of 1, 2, 4
and 8 bytes, buffers and temporary buffers that are and are not aligned.
Larger sectors behave like these: every comparison in the code is one of a
position within a sector with its two ends.

### Volumes: `PartitionMap` and `DiskVolumes`

`DiskVolumes` follows the kernel from `InitializeDiskSubsystem()` to its return:
two calls that count and list the handles, the protocols opened one by one, the
volumes listed, each boot sector read, headers and array read and validated,
partitions added, protocols closed. The environment removes and replaces media
at any moment; the firmware gives each medium an id of its own and refuses reads
with an old one. Every call and every allocation may fail.

Partitions are added in the order of their entries, by a loop; `InOrder` is the
list that it makes. A device lists its media, and `DiscsAssumption` says what is
certain of any disc: each field has its width, and no entry is smaller than
`sizeof(gptPartition)`. The size of the partition array is a product of 32 bits
(`Fs.c:526`, `ArraySize` in entries, modulo `ArrayLimit`). If it wraps around, the array that is
read and checked is shorter than what the loop at `:557` goes through, and entries are
taken from whatever lies behind it (`Beyond`, what such memory may look like): partitions
that no medium describes. The property about partitions is of those whose entries were read.

`disk_volumes` checks that a volume's protocol is open as long as it can be read,
that the list never outgrows its place and that a kernel that succeeds has closed
all (`VolumesAreKept`), that every partition added is one of the very medium its
volume names, or lies behind an array whose size wrapped around
(`PartitionsAreOfTheirMedium`: what is read before and after a change
is never mixed, and no table with a wrong checksum believed), that no partition is
looked for in a partition (`NoPartitionInPartition`), and that the kernel returns.

Bounds: two devices, three media, a list of three volumes (so that it is full in
the middle of a device), tables of two MBR entries and three GPT entries. The
discs are one of each kind that the code tells apart: none, MBR with CHS and
LBA entries, bad CHS, a partition whose boot sector looks like an MBR, two GPTs
that differ, a wrong checksum, a corrupt primary header, entries of twice the
usual size, a partition that ends behind its device, and an array whose size wraps around (an
`ArrayLimit` of eight entries). `Word`, the size of a `uint64`, is 2^16.

### The FAT of the legacy bootloaders: `FatReader`

The second and third stages look up the folders of a path with
`FindDirectory()`, then its file, and read that with `ReadFile()`. A step of the
model is one iteration of a loop: `SearchSector` and `Advance` a sector of a
folder and the step to the next one, `ReadChunk` and `Follow` up to
`SectorReadLimit` sectors of a file and the step along its chain. A sector is
represented by its number, so that the buffer can be compared with the chain.
Reads fail at any time, which the code does not see: it looks at a carry flag
that no read sets (see `ModeSwitch`), whose value the model chooses at the start.
Clusters and sectors are numbers below `Top`, 2^32, and computations with them wrap around.
Of an entry of a FAT32 only the bits below `Reserved`, 2^28, say something:
`ExceedsLimit()` drops the others (`Disk.h:146`), but what the code goes on with is the whole
entry. With a reserved bit in an entry of its chain, a file is therefore not read in order,
although "only the bottom 28 bits actually matter" (`Stage2/Bootloader.c:283`); `FileIsRead` and
`SearchFinds` are of chains without such bits, the other two properties of all.

| Property of `fat_reader` | Says |
|---|---|
| `FileIsRead` | while the drive can be read and no entry has reserved bits, the i-th sector of the buffer is the i-th of the chain, and success means all of the file, or a chain that ends too soon |
| `OverrunIsBounded` | `ReadFile()` writes at most a cluster, or `SectorReadLimit` sectors, behind the end; `LegacyMemory` assumes as much of the kernel's file |
| `SearchFinds` | what is found has the name and kind asked for, and what is in the sectors that are surely searched is found, while the FAT has no reserved bits where the search goes |
| `CallsReturn` | `ReadFile()` returns on every FAT, cycles included; `FindDirectory()` on sound ones, with a carry flag that is clear |

Bounds: three clusters and every FAT for them (free entries, chains that are
short, shared or cyclic), some more with a reserved bit (`Reserved` is 6, `Top` is 12), five geometries (clusters of one to three sectors, FAT16
and FAT32, physical sectors of one and two logical ones), a path of a folder and a
file, three layouts with long names and namesakes of other kinds before what is
looked for, `SectorReadLimit` of two, one failed read. Three clusters are enough
for a chain with a beginning, a middle and an end, and clusters of three sectors
for a cluster that takes two reads, the second one shorter.

### The memory of the legacy bootloader: `LegacyMemory`

The third stage asks the BIOS for its memory map, sorts it, makes `UsableMmap` of
it (`ScanEntry`: an iteration of that loop), allocates the file, the stack, page tables
and the image of the kernel with `AllocateFromMmap()`, maps what the kernel needs with
`InitializePageEntries()` (`AllocateTable`: one allocation in it, `FillTable`: a pass of
its innermost loop), and trims the map to what is left. Nothing records
what was allocated: all of it lies below an offset that each call hands to the
next. `blocks` and `map.tables` are that record, kept by the model for the
properties. Where the code goes on with a size that wrapped around, or with no
memory left, the behaviour ends in the place `wild`.

The usable map has such sizes: an entry without a whole page in it, or one that
the next entry begins before its aligned start, has an end before its start, and a size near 2^64
fails no comparison with `MmapEntryMemoryLimit`. `MapIsRight` is of lists for which this does not
happen (`SmallEntriesAreSkipped`, which `Intact` has as a condition), and the behaviour ends after
the scan of one for which it does.

A program of the kernel has a size in memory (`PaddedSize`) and one in the file (`Size`).
The area is made for the former, or the latter if that is 0 (`SizeOf`), in addresses of 32 bits
(`EndOfProgram`); what is copied is the latter, however long (`BytesWritten`), and
`SseMemcpy()` and `SseMemset()` write up to `SseOverrun` bytes more (`MemoryFunctions` shows how many).

The assumptions on the constants name what the code relies on without a check:
free memory, and a frame buffer, end one large page below the highest address
(`Physical`; memory of 2^64 bytes does not exist); what a buffer for an entry held
before is an entry of another list, or not of the type of free memory; what `ReadFile()` writes behind the file is no more than the stack that
follows it (`FatReader` shows the bound); there is one frame buffer at most.

| Property of `legacy_memory` | Says |
|---|---|
| `MapIsRight` | as long as no end is cut to before its start, each usable entry is part of a free one, off everything that is not free, aligned and behind the one before it, up to the map that the kernel gets; `NumUsableMmapEntries` is right although it is corrected on each path; the kernel's checks (`EntryChecks`) refuse it for two reasons only: its first entry may be left too small, or all of it may be less than `KernelMemoryLimit` |
| `AreasAreOwned` | areas and page tables share no memory, are usable, above 1 MiB, and off the map that the kernel gets |
| `FileStaysOffTables` | what `ReadFile()` writes behind the file never reaches page tables; programs whose addresses do not wrap around are written over no other area, even if they are longer in the file than in memory; those of a kernel as the linker makes it (`IsLinked`) stay in their area but for the overrun of the vector functions, which is in usable memory |
| `EverythingIsMapped` | all usable memory, all areas and the low memory are mapped, the frame buffer as write-combining |

Bounds: pages of two bytes, page tables of four entries (so that large pages and
tables of three levels are reached at addresses below 512), 1 MiB at 16 and 4 GiB
at 128, lists of up to five entries out of six reported: sorted, unsorted,
overlapping, unaligned, unlucky (a BIOS that ends with the carry flag, or reports
nothing), buffers that held something before; several kernels, also with programs that are longer
in the file, that wrap around or that have no size in memory, with and without
frame buffers, one of which ends in the middle of a large page. `KernelMemoryLimit` is two pages, `SseOverrun` one byte. All comparisons of the
code are between two entries, or an entry and one of these constants.

### The EFI bootloader: `EfiBoot`

`S1Bootloader()` is one function. `held` is what it holds in truth, as the
firmware sees it; `flags` and `ptr` are its own variables, from which the cleanup
at `ExitEfiApplication` concludes what to release. Each call of the firmware is
an action that may fail, with the jump that follows. The insertion sort of the
memory map is three actions, one for each comparison of its inner loop
(`ComparePosition`) and one for each of the outer one (`NextThreshold`), so that
its invariant can be stated; `MapSorted` is its end.

| Property of `efi_boot` | Says |
|---|---|
| `KernelIsInformed` | no mode that was queried surpasses the one chosen (which of those it is depends on their order), and the newest ACPI table is handed on, in whatever order they are listed; the kernel is told of nothing that was released |
| `UsableMapIsRight` | the usable map is in order, without overlaps, of conventional memory; the firmware keeps what it was promised; the kernel's checks refuse the map for one reason only, too little memory in all (the loader only looks for none, `:1668`) |
| `ExitIsRight` | whichever way to the cleanup: nothing is left behind (but the files that the code does leave open), nothing is released that is not held, and the status is a success only if the kernel returned one or the loader gave up at a place that does not go by the status of a call alone |
| `Ends` | the loader reaches the kernel or gives up, and then exits |

The code breaks two promises, which the model has and these properties leave out. A table of
SMBIOS 3 is looked for with the identifier of the one of ACPI 2 (`:661`) and never found. And
where the loader finds fault with what a call gave (no handles, a size of 0, pages at
address 0, nothing to load), it leaves with the status of that call, and the message of a
success (`:2035`); `SuccessHasItsReasons` names each of these places.

Bounds: one machine in the middle and variations of it in one part each (consoles,
graphics handles, EDID, every list of three out of seven modes, every pair of
tables, every list of three volumes, 146 memory maps of three to five entries
that overlap or not). The parts meet only in the flags and in `ptr`, which every
machine reaches, so that combinations of variations add nothing; and since each
call may fail on each machine, the exits are the same. A kernel of two pages is
enough for one of which too little was read.

### Copies and fills: `MemoryFunctions`

Which moves a function makes depends on its arguments alone. They are operators
that return a list of moves (`Memcpy_Sse2(to, from, size)`), and `Execute`
carries out one after the other on a memory whose bytes hold the address where
their content came from. A move knows whether it goes up byte by byte, loads a
whole block before it stores it, or goes down, and the alignment its store needs.

| Property of `memory_functions` | Says |
|---|---|
| `CopiesAreExact` | `Memcpy()`, `Memmove()` and `Memswap()` put every byte where it belongs and nothing elsewhere, also if the destination overlaps the source from below |
| `FillsAreRight` | `Memset()` fills just its range; `MemsetBlock()` repeats its block, and writes less than a block and a store too much |
| `VectorsStayInBounds` | the overruns of the bootloaders' vector functions have the bounds that the memory behind has to have, and stores that must be aligned are |

Bounds: paragraphs of two bytes instead of 16, with everything that the code
derives from that (the registers of AVX-512 have 8), nine starts with every
alignment to 8 and distances from none to more than the threshold, twelve sizes around
every multiple that a routine distinguishes, four CPUs.

### Changes of mode: `ModeSwitch`

The hazards of this code are in its order, so it is kept as code: the routines
are sequences of instructions (those that only matter together are one), each with
the mode that it was assembled for, and one action executes each kind of
instruction by what the processor does: `FarJump`, `LoadSegments`, `LoadTable`,
`Push`, and so on. These actions are external, the sequences are the source's.
The C code around it is a place with line 0: the second stage calls the BIOS, the
third stage sets up its interrupts, calls the BIOS and starts the kernel, which
calls int 13h and returns. NMIs come in any place, exceptions in the third stage,
and their handlers are the ones of `Isr.s` and `Idt.c`.

| Property of `mode_switch` | Says |
|---|---|
| `ExecutionIsSound` | each instruction meets the mode it was assembled for; the processor refuses nothing; only an NMI, at a wrong moment, stops it |
| `CallersAreRestored` | when C code goes on it has its mode, tables, flags, stack and preserved registers |
| `ValuesPassThrough` | services get their parameters (ES not, if DS is also given), and callers their results, if no segment was given |
| `HandlersAreSound` | handlers know the vector and, without an error code, the address; what they interrupt goes on unchanged, except after an exception with an error code |

`mode_v_OutcomeIsExported` checks the comment at `Rm.asm:223`, which the
instruction at `Rm.asm:234` defeats whenever a service is given a segment, and so
after every read of a sector by the second stage. It is why `FatReader` chooses the
carry flag at the start. What is exported goes to DS:AC00h instead, and with a packet on the
stack that may be in the space that `Stage3/Bootloader.c:71` gives to the third stage
(`mem.overwritten`). So `ValuesPassThrough` says that the outcome is in the table, unless the
service was given a segment and that space was written to.

Bounds: one exception for each kind of handler, with and without an error code; two
NMIs, the second of which may come while the first is handled.

### Departures from comments that no run checks

The two runs with the outcome "violation" show the departures from comments that reach
furthest, each a finding in `PROJECT.json`. These others were met while translating the
code; the models have them unless said otherwise, and the properties are worded around them.

The kernel:

* `Mm.c:332` and `:358`: `FreeBlock()` may read a data page of a client as a node.
* `Mm.c:339`: neighbour searches try only distances that are powers of two, so
  the nearest free node may be passed over ("trying to find adjacent free memory
  blocks", `:319`), and two free neighbours may stay unmerged (`:751`), such as the
  two GPT headers.
* `Mm.c:600`: unlinking takes a node without a `Size.Previous` for the head of its
  list, which makes another one the head when an older block is freed before a newer one (`:687`).
* `Mm.c:314`: the inclusive comparison refuses to free the first data block of an
  entry. `kernel_heap` counts such blocks as `lost`.
* `Disk.c:262`: the sector of a partition is compared with its length after its
  offset was added ("doesn't exceed the total amount of sectors on the drive", `:259`).
* `Disk.c:353`: a read that begins within a sector moves what it has up by the rest of that
  sector, and loses bytes if that is 64 or more and less than what is moved (`Memory.c:212`), though `Memmove()`
  "can deal with overlapping areas" (`Memory.c:178`) and `Disk.c:350` says "*Move* the data".
* `Fs.c:526`: the size of the partition array may wrap around at 32 bits; entries behind
  what was read are then taken for partitions, though "we *know* we have a valid
  partition table array" (`:554`).
* `Efi.c:144`: when a protocol cannot be opened those before it stay open, as
  `Entry.c:604` leaves without the destructor ("our destructor function will
  close these", `:127`).
* `Efi.c:106`: the second `LocateHandle()` may return fewer handles than the first
  counted; the number of the first is kept (`:115`, "list of usable handles").
* `Fs.c:208`: sectors are compared with a limit in bytes ("exceed the volume's
  sector limit", `:205`).
* `Fs.c:356`: a backup header is held to what only a primary header says of itself,
  so it is never accepted ("we *then* check the backup GPT header as well", `:488`).
* `Fs.c:620`: the GPT case jumps past the assignment of the volume's type (`:682`).
* `Fs.c:561`: entries larger than 128 bytes are accepted and read as if they
  were not (`:411`, "each partition it contains").
* `Fs.c:663`: the first partition has the number 0, which `Disk.h:79` keeps for
  volumes without partitions.

The bootloaders:

* `Boot/Legacy/Shared/Disk/Disk.c:518`: `ReadFile()` returns true for a file whose
  chain ends too soon, and for one of which a read has failed.
* `Boot/Legacy/Shared/Disk/Disk.c:465` and `:508`: `ExceedsLimit()` drops the reserved bits of an entry
  (`Disk.h:146`), the next cluster has them ("only the bottom 28 bits actually matter",
  `Stage2/Bootloader.c:283`).
* `Boot/Legacy/Shared/Rm/Rm.asm:242`: with a segment, the results of a service are written to
  DS:AC00h, which may be in the space "(20000h onwards)" of the third stage
  (`Stage3/Bootloader.c:71`).
* `Boot/Legacy/Stage3/Bootloader.c:453`: the size of an entry whose end was moved to before
  its start is near 2^64 and passes ("if not, skip it", `:451`).
* `Boot/Efi/Bootloader.c:661`: the "SMBIOS 3+ tables" (`:659`) are compared with the identifier of
  ACPI 2, for which the branch at `:633` has already left the iteration; they are never found.
* `Boot/Efi/Bootloader.c:730`, `:840`, `:900`, `:913`, `:961`, `:1131`, `:1157` and `:1375`: the loader gives up
  with the status of a call that succeeded, so that the exit says "Exiting Serra." and not
  "Failed to load Serra :(" (`:2035`).
* `Boot/Legacy/Stage2/Bootloader.c:160`: the outcome of the EDD call is looked for in
  a register that the BIOS changes; that it is as it was is due to `Rm.asm:234`.
* `Boot/Legacy/Stage3/Bootloader.c:1646`: the first entry of the map may be left
  smaller than the kernel demands, which then does not start (`Entry.c:278`).
* `Boot/Legacy/Stage3/Int/Isr.s:172`: the error code and the address are passed in each
  other's place, and the error code is still on the stack at the `iret` (`:183`).
* `Boot/Legacy/Stage3/Int/Idt.c:318`: the handler of aborts is said to work "whether or
  not it contains an error code"; with one, it takes that for the address.
* `Boot/Legacy/Stage3/Bootloader.c:1757`: both coordinates of the kernel's cursor
  are assigned to `PosX` (not modelled).

## Fairness

Fairness is weak fairness of the program's own steps: `WF_vars(Next)` in
`DiskRead`, `FatReader`, `LegacyMemory` and `EfiBoot`, `WF_vars(Progress)` in
`MmAllocator` (the steps of a call that has begun; clients need never call
again), and of the kernel's steps in `DiskVolumes`. It stands for
one thread that is never suspended for good, and calls of the firmware that
return; in `EfiBoot` also for a user who presses a key when asked to.
Nothing is assumed of the environment: media need not change, drivers and
firmware need neither fail nor succeed. `MemoryFunctions` and `ModeSwitch` have
no liveness properties, and no fairness. Deadlock is not checked where the
program ends: a finished read, a kernel that has returned or has been started, a
processor that is halted or shut down, a `Wild` access, an unsound merge, or a client that has
reached its bound.

## Proofs

The theorems hold for every value of the constants that the named assumptions
allow: every memory map, page size and number of levels; every sector size,
request and buffer; every disc, FAT (of any entries) and folder; every list of a BIOS; every
machine of the EFI loader. Each assumption stands in the module that declares
the constants, TLC evaluates it on each run, and a comment says what in the code
justifies it. Those of the allocator, for instance, are what `Entry.c:236-289` checks
of the memory map, and that levels suffice for the largest entry (the code sizes
them that way, `Mm.c:39-52`).

Every proof has the same shape. An inductive invariant, which TLC checked
on the component's instance before, is made of named parts; one lemma per action
says that the action keeps it; the properties follow from it. (`UniformInv` quantifies over
histories, which TLC cannot enumerate; it checked it with the one that `live` tells.)

`MmProofs`, in which "sound" is short for `Spec /\ []MergesAreSound`:

* `TypeCorrect` (`Spec => []TypeOK`): for clients that free in any order, every
  link and local variable stays NULL or a node of the reserved space. It is
  inductive as it stands; the lemmas it rests on bound the searches of
  `FreeBlock()` and the unlinking of `MergeBlock()`.
* `HeapInvariant` (sound `=> []HeapInv`): the memory of the allocator is in order
  at every step. `HeapInv` says that each free node is the one that its block's
  address determines (so that two blocks cannot share a node), that the memory which
  a call in progress has yet to push is in no block (`Pending`), that the two
  directions of the lists agree (`FreeListsIntact`) and that every list comes to an end
  at its head (`ListsEnd`, without which a level with free nodes could have no
  head). Lists are reasoned about as the set of nodes of a level (`Listed`): one lemma
  says what a push adds, one what unlinking removes (`UnlinkKeepsListed`), and `HeadExists`
  that a level with free nodes has a head; a merge unlinks twice and pushes once.
* `BlocksAlwaysDisjoint` and `NullMeansExhausted` follow: no memory is in two blocks, and
  NULL is returned only when nothing large enough is free.
* `NoPageIsLost` (sound, and `Free()` refuses nothing, `=> []EveryPageHasOneOwner`). The
  invariant is `Covered`: every page is free, in use, or pending. Each action
  keeps what it does not touch (`OwnersKept`), a division hands its block on piece by
  piece, and a merged block is the union of its two halves.
* `HeapImplemented` (sound `=> ImplementsHeap`): each step is one of `Heap` or leaves its
  variables alone.
* `PermanentInvariant`, `PermanentPagesKept` and `PermanentImplementsHeap`: for clients that
  never free there are no merges, and all of this holds without any condition.

The condition `[]MergesAreSound` is what the code leaves to its clients, and it is a real
one. `SoundKernelSpec` has it as a guard, `kernel_v_NextIsAsWide` shows the kernel
breaking it, and for `SpecUniform` it is proved:

`MmUniformProofs`, where each theorem assumes `SpecUniform /\ NoBridges`:

* `UniformMergesAreSound` (`=> []MergesAreSound`): whatever `MergeBlock()` merges are
  two buddies, although all it looks at is the distance of two nodes. `HeapInv`
  does not say where the blocks are that the position links lead to, so that the
  invariant, `UniformInv`, has to say it of all of them at every moment of
  the history of the heap. What makes that possible is that one number per entry tells
  everything: an entry of n pages is carved into one block per bit of n, a division
  hands out the last piece of the smallest free block, and the newest block is
  freed first; so blocks in use always begin at some page V and extend to the end of
  the entry's whole blocks of their level L, and what is free are the bits of V from L on
  and the bits of n below L (`FreeBelow`). `History` says how each allocation moved V, so that
  a free can be shown to move it back, and `Placed` where the links of each free
  block may lead: back to the block for the lowest bit of its first page, or, from where the
  constructor carved one, to others if that one is not free; forward to the block that
  touches it, or to one that was carved and has nothing free in front of it.
  `CallRight` is the same in the middle of the constructor, a division and a series of
  merges. A merge is then a carry: two equal bits make the next one (`MergedVacant`).
* `UniformHeapRestored` (`=> []HeapRestored`): with nothing in use, V is back at its
  first value, whose bits are the blocks that the constructor carved.
* `UniformInvariant`, `UniformPagesKept`, `UniformNullMeansExhausted` and
  `UniformImplementsHeap`: what `MmProofs` shows on the condition that merges are sound,
  now without it.

`NoBridges` excludes maps in which a block of one entry is exactly as far from a node of an
earlier entry as it is large. The constructor links the first block of an entry to
the last one before it, across entries (`Mm.c:108-113`), and `MergeBlock()` would take
such a link for a buddy. The condition cannot be dropped: for the map
`<<[Base 8, Limit 16], [Base 24, Limit 152]>>`, with 8 nodes per page and levels to 5, TLC
finds such a merge. The maps of `mm_uniform` have no bridge, which
`MCMmAllocator!MapsAssumption` lets TLC check.

The kernel as a client, also in `MmProofs`:

* `NothingAlwaysKept` (`KernelSpec => []NothingKept`), for every memory map, sizes of
  sectors and arrays, whatever the allocator answers and even after unsound merges.
  `HeldAt` says which buffers the kernel has at each place of its table.
  `KernelInv` is that it has just those, between calls and while one runs: a call to
  `Free()` has taken its block away before the first merge, one to
  `Allocate()` adds its block with the last step. `KernelIsRight` checks the table
  against `HeldAt`, one case per place. Two blocks cannot have one name, which the
  buffers of different stages need.
* `KernelIsClient`: a step of the kernel is a step of a client of the allocator, so that
  the lemmas about the allocator apply to it.
* `KernelBlocksDisjoint` (`SoundKernelSpec => []BlocksDisjoint`) follows from `HeapInv`.
* `KernelPagesAccounted` (`SoundKernelSpec => []EveryPageAccounted`). `NoPageIsLost` assumes
  that `Free()` refuses nothing, which the kernel does not have; here what it refuses
  is in `lost`. The invariant adds `LostApart` (nothing of a lost block
  is owned, so that it is never handed out again) and `NothingMissing`. The
  lemma for each step is an equivalence: the same addresses have an owner after it as
  before, but for the block that a call gives up.

`DiskReadProofs`:

* `TempAlwaysGivenBack` (`Spec => []TempGivenBack`): on every path the temporary
  buffer has been given to `Free()`. The invariant says in which places of
  `ReadDisk()` there is one.
* `TransfersAlwaysAligned` (`Spec => []TransfersAligned`): every transfer goes
  to an address that suits the volume. The invariant says for each place where
  the transfer goes.
* `WritesAlwaysInside` (`Spec => []WritesStayInside`): nothing outside of the two
  buffers is written until `ReadDisk()` returns. This needs `PlacesInv`, which says
  that the transfer in progress has room (`Fills`), and two facts of arithmetic
  about every sector size: `Geometry` (the sectors are what was asked for, plus
  the start of the first and the end of the last one) and `DirectRoom` (with
  three sectors or more, all of the direct transfers fit).
* `BytesAlwaysArrive` (`Spec => []BytesArrive`): a read that returns true has put the
  bytes asked for into the buffer, except those that `Memmove()` loses (`Lost`), for every sector size, alignment and request,
  and however many calls a driver makes of a transfer. The property speaks of the
  end only; `ContentInv` says at each place which bytes have arrived: the end of the
  buffer, once it was copied there, stays intact while the middle is read
  (`EndKept`), the middle is moved by a part of a sector without being cut and loses
nothing but `Lost`, and
  what the first sector will overwrite is in the temporary buffer. It rests
  on `Grants`: memory that `Allocate()` returns is not the caller's.
* `ReadInvariant` is the invariant, `PlacesInv` and `ContentInv`, by itself.

`DiskVolumesProofs`:

* `DiskInvariant` (`Spec => []DiskInv`), with any number of devices, media and
  volumes. The stage that the kernel has reached determines what is open
  (`ProtocolInv`), what is in the list (`VolumeInv`) and whose bytes the buffers
  hold (`BufferInv`).
* `VolumesAlwaysKept`, `PartitionsAlwaysOfTheirMedium`, `NeverAPartitionInPartition`
  follow. The second is the one that needs the strengthening: what a
  buffer holds is of the medium whose id the volume has, although that medium may
  be gone by now, because the firmware refuses reads with another id. The ids of
  media are never used again, which the environment's actions keep.

`FatReaderProofs`:

* `OverrunBounded` (`Spec => []OverrunIsBounded`): for every cluster size, limit
  and size of a file. The invariant `IInv` adds that reads go on only while there
  is something left of the file, and within a cluster, so that the last read is
  the only one that goes beyond the end.
* `FatInvariant` (`Spec => []FatInv`), in three layers: `IInv`, `ReadingInv` (the
  offset is as many whole clusters as were passed on the chain, and every read
  begins with a physical sector) and `SearchInv` (which sectors were searched in vain).
* `FileAlwaysRead` (`Spec => []FileIsRead`), of files whose first cluster and FAT have no
  reserved bits; the other theorems are of any FAT. The chain is a recursive function of the FAT;
  that it is what its definition says, at every position and with cycles, is
  `ChainFacts`, which rests on `InductionLemmas!Iteration`. `ChunkIsExact` is the
  arithmetic: a read that begins with a physical sector gets all of its logical
  ones. `NextIsAligned` shows that the next one begins with one too.
* `SearchAlwaysFinds` (`Spec => []SearchFinds`). The code follows the chain once per
  sector but changes the cluster once per cluster, so the invariant says of the
  first cluster that it was searched so far, or completely, and of the whole
  chain only where clusters are sectors. That nothing was found can be told from
  what was found because the callers' names are not blank (`PathAssumption`).

`LegacyMemoryProofs`:

* `MemoryInvariant` (`Spec => []MemoryInv`), for any list that a BIOS may report, in
  any order and with any overlaps, any kernel, frame buffer, size of a page and
  of an address. Its parts:
  `UsableInv` (what has become usable is free, ordered, and ends by `MinStart`, as
  does everything else that the loop has passed), `NumInv`, `OffsetInv` (the offset
  is a page within a usable entry), `AreasInv` (all areas end by the offset and
  lie apart), `NamesInv` (the step that was reached determines what is allocated),
  `FileInv` (the stack lies right behind the file, and everything else behind the
  stack) and `MapsInv` (each mapping that is wanted is yet to be asked for, in
  progress as far as the table at hand, or complete).
* `MapAlwaysRight` (`Spec => []MapIsRight`). That the sort keeps the entries is
  shown from their ranks, which are a permutation of the positions; a usable
  entry keeps off what follows it because the next base cuts it, and off what
  came before because of `MinStart`. All of that holds only as long as no size has
  wrapped around, which is why the invariant says `NoneWrapped(usable) => ...` and why the
  property is of such lists only (`Intact`). That the kernel objects to nothing but the
  first entry and the sum follows from the order of its checks.
* `AreasAlwaysOwned` (`Spec => []AreasAreOwned`). The property alone is not inductive:
  only `AreasInv` says why the next block meets no earlier one.
* `FileAlwaysOffTables` (`Spec => []FileStaysOffTables`): what is written behind the
  file ends within the stack, and all tables come after that. The area is the last that is
  allocated, so that what is written behind it, however much, meets no
  other; that it meets the end of the usable entry neither, for a kernel that is linked
  as ours is, needs the strict comparison of `Fits`.
* `EverythingAlwaysMapped` (`Spec => []EverythingIsMapped`). Starts are rounded down
  and sizes up on their own, so that an area may reach into a page more; the
  proof is `MappingFacts`: the last page of the loop is never before that of the
  last byte. The frame buffer keeps its attribute because it is mapped last.

`EfiBootProofs`:

* `EfiInvariant` (`Spec => []EfiInv`), for any set of machines. It has three layers,
  each resting on the ones before it: `MapInv` (the map is sorted up to the threshold
  and the entry in motion, and then used up to the entry at hand), `ResourceInv`
  (the step determines flags and pointers, these determine what is held) and
  `ChoiceInv` (no mode seen so far surpasses the one chosen, and the ACPI table is the newest).
* `UsableMapAlwaysRight`, `KernelAlwaysInformed` and `ExitAlwaysRight` follow, one from
  each layer. The first needs more than that usable entries are free: what was
  left to the firmware has to be a set of pages of its own (`Kept`), as entries
  overlap and counting their pages twice would promise too much. It does not say that
  the kernel accepts the map, which is not so with little memory, but that nothing else is wrong
  with it; the third does not say that an exit with a success is one, only at which places it may
  be none.

`InductionLemmas` has induction over the numbers and over the places of a list, as
statements about sets. The list that a loop has built, or a greatest element,
is reasoned about with it. `Iteration` shows that iterating a function
defines one, by building it for every length first.

Model-checked only:

* `MemoryFunctions`: executing a list of moves is a fold over it, again recursion
  over data; and `ModeSwitch`, whose properties are about one fixed program, of
  which TLC explores everything but the number of NMIs.
* All liveness, which the prover does not handle.

## Plan

Done: the allocator and the kernel's use of it, `ReadDisk()`, the disk subsystem
and partitions, the FAT reader, the memory of the legacy bootloader, the EFI
bootloader, the memory functions and the changes of mode; the proofs above. Left:

1. `Console`: cursor, wrapping and scrolling against a reference terminal, and
   the handing back of the cursor to the bootloader (`Entry.c:631-638`).
2. `EntryChecks`: the other checks of the information table, composed with what
   the bootloaders put in it.

## Not modelled, and why

Formatting and printing, pixels, fonts and CPUID: there is no state that a
property would be about, or the state is that of the hardware. The A20 gate is a
chain of methods of which the hardware decides which one works, and the boot
sectors load a fixed number of sectors. Copies of kernels and files are modelled
by where they go, checksums by what they are computed from, page tables by what
they map. Interrupt requests stay masked in all of the code, so their handlers do
not run; the model has requests only to show that none arrives. The firmware is modelled
as what the code relies on: it may fail at any call, gives each medium an id, and
lists what it has in any order. See the notes of each component and hazard in
`PROJECT.json`.
