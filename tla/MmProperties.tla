---------------------------- MODULE MmProperties ----------------------------
(***************************************************************************)
(* The correctness properties of the kernel's memory allocator.            *)
(***************************************************************************)
EXTENDS MmAllocator

Slot == Slots(KernelMmap) \cup {Null}

NodeRecords ==
  [Pointer : Nat, PosPrevious : Slot, PosNext : Slot,
   SizePrevious : Slot, SizeNext : Slot, Level : Levels]

CallRecords ==
  [op : {"idle", "wild", "false"}]
    \cup [op : {"null", "pop"}, size : Sizes]
    \cup [op : {"carve"}, entry : Nat \ {0}, page : Nat, previous : Slot]
    \cup [op : {"divide", "divideLast"}, size : Sizes, level : Levels, address : Nat,
          location : Nat, previous : Slot, next : Slot]
    \cup [op : {"merge"}, node : Slots(KernelMmap), level : Levels]

(***************************************************************************)
(* Type correctness: the list heads, the links of every node and the local *)
(* variables of every call are NULL or nodes of the reserved space, and    *)
(* DivideBlock() never goes below the level it was asked for.              *)
(***************************************************************************)
TypeOK ==
  /\ KernelMmap \in MemoryMaps
  /\ Nodes \in [Levels -> Slot]
  /\ mem \in [Slots(KernelMmap) -> NodeRecords]
  /\ IsEnabled \in BOOLEAN
  /\ call \in CallRecords
  /\ call.op = "divide" => SizeLevel(call.size) <= call.level
  /\ live \in Seq([ptr : Nat, size : Sizes])

-----------------------------------------------------------------------------
(***************************************************************************)
(* Blocks, as sets of addresses.  A client's block takes up the whole of   *)
(* the block it was cut from.                                              *)
(***************************************************************************)
BlockSize(level) == BlockPages[level] * ScalingFactor

FreeExtent(a) == mem[a].Pointer .. mem[a].Pointer + BlockSize(mem[a].Level) - 1

LiveExtent(i) == live[i].ptr .. live[i].ptr + BlockSize(SizeLevel(live[i].size)) - 1

DataPointers ==
  UNION {{PagePointer(KernelMmap[e], p) : p \in 0 .. DataPages(KernelMmap[e]) - 1}
           : e \in DOMAIN KernelMmap}

(***************************************************************************)
(* At every step, no memory is in two blocks: two free blocks, two blocks  *)
(* of clients, or one of each.                                             *)
(***************************************************************************)
BlocksDisjoint ==
  /\ \A a, b \in FreeNodes : a # b => FreeExtent(a) \cap FreeExtent(b) = {}
  /\ \A i, j \in DOMAIN live : i # j => LiveExtent(i) \cap LiveExtent(j) = {}
  /\ \A a \in FreeNodes, i \in DOMAIN live : FreeExtent(a) \cap LiveExtent(i) = {}

Owners(pointer) ==
  {<<"free", a>> : a \in {b \in FreeNodes : pointer \in FreeExtent(b)}}
    \cup {<<"live", i>> : i \in {j \in DOMAIN live : pointer \in LiveExtent(j)}}

(***************************************************************************)
(* Between calls, every page of every entry belongs to exactly one block,  *)
(* free or held by a client: the splitting of DivideBlock() and the        *)
(* merging of MergeBlock() neither lose a page nor hand it out twice.      *)
(***************************************************************************)
EveryPageHasOneOwner ==
  call = Idle => \A pointer \in DataPointers :
    \E owner \in Owners(pointer) : Owners(pointer) = {owner}

(***************************************************************************)
(* Mm.c, Allocate(): Nodes[N] is the last entry of a list of areas of      *)
(* 1 << N bytes.  The lists are well formed at every step: a head is a     *)
(* free node of its level, a free node is either a head or has a newer     *)
(* node of its level, and the two directions of each list agree.           *)
(***************************************************************************)
FollowsPrevious(a) ==
  LET previous == mem[a].SizePrevious IN
    previous # Null =>
      IsFree(previous) /\ mem[previous].Level = mem[a].Level /\ mem[previous].SizeNext = a

PrecedesNext(a) ==
  LET next == mem[a].SizeNext IN
    IF next = Null THEN Nodes[mem[a].Level] = a
    ELSE IsFree(next) /\ mem[next].Level = mem[a].Level /\ mem[next].SizePrevious = a

FreeListsIntact ==
  /\ \A l \in Levels : Nodes[l] # Null =>
       /\ IsFree(Nodes[l])
       /\ mem[Nodes[l]].Level = l
       /\ mem[Nodes[l]].SizeNext = Null
  /\ \A a \in FreeNodes : FollowsPrevious(a) /\ PrecedesNext(a)

(***************************************************************************)
(* Allocate() returns NULL only when no free block is large enough.        *)
(***************************************************************************)
NullOnlyWhenExhausted ==
  call.op = "null" => \A a \in FreeNodes : mem[a].Level < SizeLevel(call.size)

(***************************************************************************)
(* The blocks that the entries were carved into: one for each bit of the   *)
(* number of pages, at the offset that the higher bits make up.            *)
(***************************************************************************)
CarvedBlocks ==
  LET Offset(pages, l) == (pages \div BlockPages[l + 1]) * BlockPages[l + 1]
      Bits(pages) == {l \in Levels : pages - Offset(pages, l) >= BlockPages[l]}
  IN  UNION {LET entry == KernelMmap[e] IN
               {<<PagePointer(entry, Offset(DataPages(entry), l)), l>> :
                  l \in Bits(DataPages(entry))}
               : e \in DOMAIN KernelMmap}

(***************************************************************************)
(* When clients have given everything back, newest first, the heap is as   *)
(* it was at the start: MergeBlock() undoes every DivideBlock().           *)
(***************************************************************************)
HeapRestored ==
  call = Idle /\ live = <<>> =>
    {<<mem[a].Pointer, mem[a].Level>> : a \in FreeNodes} = CarvedBlocks

(***************************************************************************)
(* The loops of a call end: the allocator always comes back to its caller. *)
(***************************************************************************)
EveryCallReturns == []<>(call.op \in {"idle", "null", "false", "wild"})

(***************************************************************************)
(* The allocator is a heap whose memory is the data part of the entries.   *)
(***************************************************************************)
EntryMemory(entry) == DataStart(entry) .. entry.Base + entry.Limit - 1

Memory == UNION {EntryMemory(KernelMmap[e]) : e \in DOMAIN KernelMmap}

Promise == INSTANCE Heap WITH memory <- Memory, blocks <- live

ImplementsHeap == Promise!HeapSpec

-----------------------------------------------------------------------------
(***************************************************************************)
(* What MergeBlock() merges.  Two nodes may become one when their blocks   *)
(* have its level and lie next to each other, and when the head that is    *)
(* left to their list is the newest node that remains there.               *)
(***************************************************************************)
HeadWithout(m, node, head) ==
  IF m[node].SizeNext = Null THEN m[node].SizePrevious ELSE head

AreBuddies(left, right) ==
  /\ IsFree(left) /\ IsFree(right)
  /\ mem[left].Level = call.level /\ mem[right].Level = call.level
  /\ right - left = BlockPages[call.level]

HeadIsRight(left, right) ==
  LET without == SizeUnlinked(mem, left)
      head    == Nodes[call.level]
  IN  HeadAfter(without, right, HeadAfter(mem, left, head))
        = HeadWithout(without, right, HeadWithout(mem, left, head))

SoundMerge(left, right) == AreBuddies(left, right) /\ HeadIsRight(left, right)

(***************************************************************************)
(* MergeBlock() merges only nodes that may become one, although it tells   *)
(* their sizes from the distances to other nodes.                          *)
(***************************************************************************)
MergesAreSound ==
  call.op = "merge" /\ call.level < MaxLevel =>
    /\ MatchesPrevious => SoundMerge(mem[call.node].PosPrevious, call.node)
    /\ ~MatchesPrevious /\ MatchesNext => SoundMerge(call.node, mem[call.node].PosNext)

(***************************************************************************)
(* Mm.c:561, of a node that is merged with the next one: "The next free    *)
(* block *is* just as wide".                                               *)
(***************************************************************************)
NextIsAsWide ==
  call.op = "merge" /\ call.level < MaxLevel /\ ~MatchesPrevious /\ MatchesNext =>
    mem[mem[call.node].PosNext].Level = call.level

-----------------------------------------------------------------------------
(***************************************************************************)
(* The inductive invariant, which every client keeps as long as the merges *)
(* are sound.  The node of a free block is the one that its address        *)
(* determines, the memory that a call in progress still has to push is     *)
(* nobody else's, and going from a free node to newer ones comes to an     *)
(* end, at the head.                                                       *)
(***************************************************************************)
NodeAt(mmap, a, pointer, level) ==
  \E e \in DOMAIN mmap :
    \E page \in 0 .. DataPages(mmap[e]) - BlockPages[level] :
      a = mmap[e].Base + page /\ pointer = PagePointer(mmap[e], page)

Pending ==
  CASE call.op = "carve" ->
         {x \in Memory : \E e \in DOMAIN KernelMmap :
            /\ x \in EntryMemory(KernelMmap[e])
            /\ e >= call.entry
            /\ e = call.entry => x >= PagePointer(KernelMmap[e], call.page)}
    [] call.op = "divide" -> call.location .. call.location + BlockSize(call.level + 1) - 1
    [] call.op = "divideLast" -> call.location .. call.location + BlockSize(call.level) - 1
    [] OTHER -> {}

PendingUnowned ==
  /\ \A a \in FreeNodes : FreeExtent(a) \cap Pending = {}
  /\ \A i \in DOMAIN live : LiveExtent(i) \cap Pending = {}

NodesMatchBlocks ==
  /\ \A a \in FreeNodes : NodeAt(KernelMmap, a, mem[a].Pointer, mem[a].Level)
  /\ \A i \in DOMAIN live : \E a \in DOMAIN mem :
       NodeAt(KernelMmap, a, live[i].ptr, SizeLevel(live[i].size))
  /\ call.op = "divide" => NodeAt(KernelMmap, call.address, call.location, call.level + 1)
  /\ call.op = "divideLast" => NodeAt(KernelMmap, call.address, call.location, call.level)

ListsEnd ==
  \A S \in SUBSET FreeNodes : S # {} => \E a \in S : mem[a].SizeNext \notin S

DivisionSucceeds ==
  /\ call.op = "divideLast" => call.level = SizeLevel(call.size)
  /\ call.op = "pop" => Nodes[SizeLevel(call.size)] # Null

HeapInv ==
  /\ NodesMatchBlocks
  /\ FreeListsIntact
  /\ ListsEnd
  /\ BlocksDisjoint
  /\ PendingUnowned
  /\ DivisionSucceeds
  /\ NullOnlyWhenExhausted
=============================================================================
