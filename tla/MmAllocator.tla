----------------------------- MODULE MmAllocator -----------------------------
(***************************************************************************)
(* The kernel's memory allocator, Common/Kernel/Memory/Mm.c, at the level  *)
(* of its allocation nodes and of the doubly linked lists they form.       *)
(*                                                                         *)
(* Addresses and sizes are counted in units of sizeof(allocationNode).  A  *)
(* page is ScalingFactor units, and a block of level l (1 << (Limits[0]+l) *)
(* bytes in the code) is BlockPages[l] pages of data.  The node of the     *)
(* block that starts at page p of an entry is at Base + p.  NULL is 0.     *)
(*                                                                         *)
(* The allocator runs on one thread.  A call is a sequence of steps, one   *)
(* for each node it pushes and for each pair of nodes it merges, and call  *)
(* holds the step that is due with the local variables it needs.           *)
(***************************************************************************)
EXTENDS Integers, Sequences

CONSTANTS
  MemoryMaps,     \* The usable memory maps that the boot may hand over.
  ScalingFactor,  \* SystemPageSize / sizeof(allocationNode).
  MaxLevel,       \* Limits[1] - Limits[0].
  BlockPages,     \* BlockPages[l] is the number of pages of a level l block.
  Sizes,          \* The sizes that clients ask for.
  MaxLive         \* Bound on the number of blocks that clients hold.

Null == 0

Levels == 0 .. MaxLevel

ASSUME ScalingFactorAssumption == ScalingFactor \in Nat \ {0}

ASSUME LevelAssumption ==
  /\ MaxLevel \in Nat
  /\ BlockPages \in [0 .. MaxLevel + 1 -> Nat \ {0}]
  /\ BlockPages[0] = 1
  /\ \A l \in Levels : BlockPages[l + 1] = 2 * BlockPages[l]

ASSUME SizeAssumption ==
  /\ Sizes \subseteq Nat \ {0}
  /\ \A size \in Sizes : size <= BlockPages[MaxLevel] * ScalingFactor
  /\ MaxLive \in Nat

-----------------------------------------------------------------------------
(***************************************************************************)
(* An entry of the memory map starts with the space reserved for its       *)
(* nodes, rounded up to a whole page; the rest is handed out in pages.     *)
(***************************************************************************)
ReservedPages(entry) ==
  (entry.Limit \div ScalingFactor + ScalingFactor - 1) \div ScalingFactor

ReservedSpace(entry) == ReservedPages(entry) * ScalingFactor

DataStart(entry) == entry.Base + ReservedSpace(entry)

DataPages(entry) == entry.Limit \div ScalingFactor - ReservedPages(entry)

PagePointer(entry, page) == DataStart(entry) + page * ScalingFactor

Slots(mmap) ==
  UNION {mmap[e].Base .. DataStart(mmap[e]) - 1 : e \in DOMAIN mmap}

Entries == [Base : Nat \ {0}, Limit : Nat \ {0}]

(***************************************************************************)
(* What Entry.c has checked of the memory map before the allocator sees it *)
(* (the minimum size of an entry leaves room for a block in each), and     *)
(* that no block needs a level above the highest one.                      *)
(***************************************************************************)
ASSUME MemoryMapAssumption ==
  \A mmap \in MemoryMaps :
    /\ mmap \in Seq(Entries)
    /\ \A e \in DOMAIN mmap :
         /\ mmap[e].Limit % ScalingFactor = 0
         /\ mmap[e].Base % ScalingFactor = 0
         /\ 2 * ReservedSpace(mmap[e]) <= mmap[e].Limit
         /\ DataPages(mmap[e]) < BlockPages[MaxLevel + 1]
    /\ \A e, f \in DOMAIN mmap : e < f => mmap[e].Base + mmap[e].Limit <= mmap[f].Base

-----------------------------------------------------------------------------
VARIABLES
  KernelMmap,  \* The memory map, a sequence of entries.
  Nodes,       \* The newest free block of each level.
  mem,         \* The nodes that the reserved space holds.
  IsEnabled,   \* MmSubsystemData.IsEnabled.
  call,        \* The call in progress and its local variables.
  live         \* History: the blocks that clients hold, oldest first.

vars == <<KernelMmap, Nodes, mem, IsEnabled, call, live>>

(***************************************************************************)
(* A node.  Level is not in the code: it records which list the node was   *)
(* last pushed to, so that the size of a free block can be spoken about.   *)
(***************************************************************************)
EmptyNode ==
  [Pointer |-> Null, PosPrevious |-> Null, PosNext |-> Null,
   SizePrevious |-> Null, SizeNext |-> Null, Level |-> 0]

IsFree(a) == mem[a].Pointer # Null

FreeNodes == {a \in DOMAIN mem : IsFree(a)}

Idle == [op |-> "idle"]

(***************************************************************************)
(* The node of an address outside the reserved space was read or written:  *)
(* what happens next depends on what that memory holds, and is not         *)
(* modelled.  A behaviour ends here.                                       *)
(***************************************************************************)
Wild == [op |-> "wild"]

-----------------------------------------------------------------------------
(***************************************************************************)
(* PushBlock() on nodes m and list heads: node becomes the newest one of   *)
(* its level, between the given neighbours.                                *)
(***************************************************************************)
Pushed(m, heads, node, pointer, previous, next, level) ==
  [a \in DOMAIN m |->
     IF a = node
     THEN [Pointer |-> pointer, PosPrevious |-> previous, PosNext |-> next,
           SizePrevious |-> heads[level], SizeNext |-> Null, Level |-> level]
     ELSE [m[a] EXCEPT !.PosNext     = IF a = previous THEN node ELSE @,
                       !.PosPrevious = IF a = next THEN node ELSE @,
                       !.SizeNext    = IF a = heads[level] THEN node ELSE @]]

PushBlock(node, pointer, previous, next, level) ==
  /\ mem' = Pushed(mem, Nodes, node, pointer, previous, next, level)
  /\ Nodes' = [Nodes EXCEPT ![level] = node]

CanPop(level) == Nodes[level] # Null /\ IsFree(Nodes[level])

\* A fault: the next newest node keeps its link to the one that was popped.
PopBlockOneWay(level) ==
  LET node == Nodes[level]
      own  == mem[node]
  IN  /\ Nodes' = [Nodes EXCEPT ![level] = own.SizePrevious]
      /\ mem' = [a \in DOMAIN mem |->
           IF a = node THEN EmptyNode
           ELSE [mem[a] EXCEPT
                   !.PosNext     = IF a = own.PosPrevious THEN own.PosNext ELSE @,
                   !.PosPrevious = IF a = own.PosNext THEN own.PosPrevious ELSE @]]

\* A fault: the node is not cleared.
PopBlockUncleared(level) ==
  LET own == mem[Nodes[level]]
  IN  /\ Nodes' = [Nodes EXCEPT ![level] = own.SizePrevious]
      /\ mem' = [a \in DOMAIN mem |->
           [mem[a] EXCEPT
              !.PosNext     = IF a = own.PosPrevious THEN own.PosNext ELSE @,
              !.PosPrevious = IF a = own.PosNext THEN own.PosPrevious ELSE @,
              !.SizeNext    = IF a = own.SizePrevious THEN Null ELSE @]]

(***************************************************************************)
(* PopBlock(): the newest node of a level is unlinked and cleared.         *)
(***************************************************************************)
PopBlock(level) ==
  LET node == Nodes[level]
      own  == mem[node]
  IN  /\ Nodes' = [Nodes EXCEPT ![level] = own.SizePrevious]
      /\ mem' = [a \in DOMAIN mem |->
           IF a = node THEN EmptyNode
           ELSE [mem[a] EXCEPT
                   !.PosNext     = IF a = own.PosPrevious THEN own.PosNext ELSE @,
                   !.PosPrevious = IF a = own.PosNext THEN own.PosPrevious ELSE @,
                   !.SizeNext    = IF a = own.SizePrevious THEN Null ELSE @]]

-----------------------------------------------------------------------------
(***************************************************************************)
(* InitializeMemoryManagementSubsystem(): the reserved space is cleared,   *)
(* and each entry is carved into blocks, the largest that fits first.      *)
(***************************************************************************)
Init ==
  /\ KernelMmap \in MemoryMaps
  /\ Nodes = [l \in Levels |-> Null]
  /\ mem = [a \in Slots(KernelMmap) |-> EmptyNode]
  /\ IsEnabled = FALSE
  /\ call = [op |-> "carve", entry |-> 1, page |-> 0, previous |-> Null]
  /\ live = <<>>

CarveBlock ==
  /\ call.op = "carve"
  /\ call.entry \in DOMAIN KernelMmap
  /\ LET entry == KernelMmap[call.entry]
         left  == DataPages(entry) - call.page
         node  == entry.Base + call.page
     IN  \E level \in Levels :
           /\ BlockPages[level] <= left
           /\ left < BlockPages[level + 1]
           /\ PushBlock(node, PagePointer(entry, call.page), call.previous, Null, level)
           /\ call' = [call EXCEPT !.page = @ + BlockPages[level], !.previous = node]
  /\ UNCHANGED <<KernelMmap, IsEnabled, live>>

CarveNextEntry ==
  /\ call.op = "carve"
  /\ call.entry \in DOMAIN KernelMmap
  /\ DataPages(KernelMmap[call.entry]) <= call.page
  /\ call' = [call EXCEPT !.entry = @ + 1, !.page = 0]
  /\ UNCHANGED <<KernelMmap, Nodes, mem, IsEnabled, live>>

CarveDone ==
  /\ call.op = "carve"
  /\ call.entry \notin DOMAIN KernelMmap
  /\ IsEnabled' = TRUE
  /\ call' = Idle
  /\ UNCHANGED <<KernelMmap, Nodes, mem, live>>

-----------------------------------------------------------------------------
(***************************************************************************)
(* Allocate().                                                             *)
(***************************************************************************)
Fits(size, level) == size <= BlockPages[level] * ScalingFactor

SizeLevel(size) ==
  CHOOSE l \in Levels : Fits(size, l) /\ \A k \in 0 .. l - 1 : ~Fits(size, k)

\* PopBlock(), whose result Allocate() returns to a client that asked for size.
PopAndReturn(level, size) ==
  IF CanPop(level)
  THEN /\ PopBlock(level)
       /\ live' = Append(live, [ptr |-> mem[Nodes[level]].Pointer, size |-> size])
       /\ call' = Idle
  ELSE /\ call' = [op |-> "null", size |-> size]
       /\ UNCHANGED <<Nodes, mem, live>>

\* A fault: the search for a larger block misses the highest level.
LargerShort(level) == {l \in Levels : l > level /\ l < MaxLevel /\ Nodes[l] # Null}

\* The higher levels that have a block to divide.
Larger(level) == {l \in Levels : l > level /\ Nodes[l] # Null}

AllocatePop(size) ==
  /\ call = Idle
  /\ Len(live) < MaxLive
  /\ Nodes[SizeLevel(size)] # Null \/ Larger(SizeLevel(size)) = {}
  /\ PopAndReturn(SizeLevel(size), size)
  /\ UNCHANGED <<KernelMmap, IsEnabled>>

(***************************************************************************)
(* DivideBlock(): the newest block of the first higher level that has one  *)
(* is popped, and pushed again in pieces of decreasing levels, the target  *)
(* level twice.                                                            *)
(***************************************************************************)
AllocateDivide(size) ==
  /\ call = Idle
  /\ Len(live) < MaxLive
  /\ Nodes[SizeLevel(size)] = Null
  /\ \E l \in Larger(SizeLevel(size)) :
       LET node == Nodes[l] IN
       /\ \A k \in Larger(SizeLevel(size)) : l <= k
       /\ IF IsFree(node)
          THEN /\ PopBlock(l)
               /\ call' = [op |-> "divide", size |-> size, level |-> l - 1,
                           address |-> node, location |-> mem[node].Pointer,
                           previous |-> mem[node].PosPrevious, next |-> mem[node].PosNext]
          ELSE /\ call' = [op |-> "null", size |-> size]
               /\ UNCHANGED <<Nodes, mem>>
  /\ UNCHANGED <<KernelMmap, IsEnabled, live>>

\* A fault: the division goes on below the target level.
AtSmallestLevel == call.level = 0

AtTargetLevel == call.level = SizeLevel(call.size)

\* The first piece of each level.
DividePush ==
  /\ call.op = "divide"
  /\ IF call.address \notin DOMAIN mem
     THEN call' = Wild /\ UNCHANGED <<Nodes, mem>>
     ELSE /\ PushBlock(call.address, call.location, call.previous, call.next, call.level)
          /\ call' = [call EXCEPT
               !.op = IF AtTargetLevel THEN "divideLast" ELSE @,
               !.level = IF AtTargetLevel THEN @ ELSE @ - 1,
               !.address = @ + BlockPages[call.level],
               !.location = @ + BlockPages[call.level] * ScalingFactor,
               !.previous = call.address]
  /\ UNCHANGED <<KernelMmap, IsEnabled, live>>

\* A fault: the loop stops one piece short.
DivideLastSkipped ==
  /\ call.op = "divideLast"
  /\ call' = [op |-> "pop", size |-> call.size]
  /\ UNCHANGED <<KernelMmap, Nodes, mem, IsEnabled, live>>

\* The second piece of the target level.
DivideLast ==
  /\ call.op = "divideLast"
  /\ IF call.address \notin DOMAIN mem
     THEN call' = Wild /\ UNCHANGED <<Nodes, mem>>
     ELSE /\ PushBlock(call.address, call.location, call.previous, call.next, call.level)
          /\ call' = [op |-> "pop", size |-> call.size]
  /\ UNCHANGED <<KernelMmap, IsEnabled, live>>

DividePop ==
  /\ call.op = "pop"
  /\ PopAndReturn(SizeLevel(call.size), call.size)
  /\ UNCHANGED <<KernelMmap, IsEnabled>>

-----------------------------------------------------------------------------
(***************************************************************************)
(* Free() of the i-th block that clients hold: FreeBlock(), then           *)
(* MergeBlock().                                                           *)
(***************************************************************************)
Holds(e, pointer) ==
  /\ pointer >= KernelMmap[e].Base
  /\ pointer <= KernelMmap[e].Base + KernelMmap[e].Limit

EntryOf(pointer) ==
  CHOOSE e \in DOMAIN KernelMmap :
    Holds(e, pointer) /\ \A f \in 1 .. e - 1 : ~Holds(f, pointer)

Dropped(i) == SubSeq(live, 1, i - 1) \o SubSeq(live, i + 1, Len(live))

(***************************************************************************)
(* The searches for adjacent nodes try the distances 1, 2, 4, ... and stop *)
(* at the first node that is in use, or on leaving the reserved space.     *)
(***************************************************************************)
Multipliers == {BlockPages[l] : l \in DOMAIN BlockPages}

Least(S) == CHOOSE m \in S : \A n \in S : m <= n

PreviousNode(base, address) ==
  LET hits == {m \in Multipliers : address - m >= base /\ IsFree(address - m)}
  IN  IF hits = {} THEN Null ELSE address - Least(hits)

NextNode(limit, address) ==
  LET hits == {m \in Multipliers : address + m < limit /\ IsFree(address + m)}
  IN  IF hits = {} THEN Null ELSE address + Least(hits)

(***************************************************************************)
(* The previous search ends on the first distance that leaves the entry;   *)
(* when that distance is above the address itself, the subtraction wraps   *)
(* around and the end of the address space is read instead.                *)
(***************************************************************************)
Wraps(base, address) ==
  /\ PreviousNode(base, address) = Null
  /\ address < Least({m \in Multipliers : address - m < base})

(***************************************************************************)
(* The next search also tries the first data page, as its bound is         *)
(* inclusive.  It is taken for a node unless the page starts with a zero.  *)
(***************************************************************************)
Overruns(limit, address) ==
  /\ NextNode(limit, address) = Null
  /\ \E m \in Multipliers : address + m = limit

InNoEntry(pointer) == \A e \in DOMAIN KernelMmap : ~Holds(e, pointer)

FreeRefused(i) ==
  /\ call = Idle
  /\ ~InNoEntry(live[i].ptr) =>
       live[i].ptr <= DataStart(KernelMmap[EntryOf(live[i].ptr)])
  /\ call' = [op |-> "false"]
  /\ live' = Dropped(i)
  /\ UNCHANGED <<KernelMmap, Nodes, mem, IsEnabled>>

FreeBlock(i) ==
  LET pointer == live[i].ptr
      entry   == KernelMmap[EntryOf(pointer)]
      limit   == DataStart(entry)
      address == entry.Base + (pointer - limit) \div ScalingFactor
      level   == SizeLevel(live[i].size)
  IN  /\ call = Idle
      /\ ~InNoEntry(pointer)
      /\ pointer > limit
      /\ \/ /\ address \in DOMAIN mem
            /\ ~Wraps(entry.Base, address)
            /\ PushBlock(address, pointer, PreviousNode(entry.Base, address),
                         NextNode(limit, address), level)
            /\ call' = [op |-> "merge", node |-> address, level |-> level]
         \/ /\ address \in DOMAIN mem =>
                  Wraps(entry.Base, address) \/ Overruns(limit, address)
            /\ call' = Wild
            /\ UNCHANGED <<Nodes, mem>>
      /\ live' = Dropped(i)
      /\ UNCHANGED <<KernelMmap, IsEnabled>>

\* A fault: any block in front is taken for one of the same size.
MatchesAnyPrevious == mem[call.node].PosPrevious # Null

\* A fault: the distance is compared to half the size.
MatchesHalfPrevious ==
  LET previous == mem[call.node].PosPrevious
  IN  previous # Null /\ 2 * (call.node - previous) = BlockPages[call.level]

(***************************************************************************)
(* MergeBlock().  The node merges with the previous one when the distance  *)
(* between the two is its own size, and otherwise with the next one when   *)
(* the distance from that one to the node after it is.                     *)
(***************************************************************************)
MatchesPrevious ==
  LET previous == mem[call.node].PosPrevious
  IN  previous # Null /\ call.node - previous = BlockPages[call.level]

MatchesNext ==
  LET next == mem[call.node].PosNext
  IN  /\ next # Null
      /\ mem[next].PosNext # Null
      /\ mem[next].PosNext - next = BlockPages[call.level]

PosUnlinked(m, before, after) ==
  [a \in DOMAIN m |->
     [m[a] EXCEPT !.PosNext     = IF a = before THEN after ELSE @,
                  !.PosPrevious = IF a = after THEN before ELSE @]]

SizeUnlinked(m, node) ==
  [a \in DOMAIN m |->
     [m[a] EXCEPT
        !.SizeNext     = IF a = m[node].SizePrevious THEN m[node].SizeNext ELSE @,
        !.SizePrevious = IF a = m[node].SizeNext THEN m[node].SizePrevious ELSE @]]

HeadAfter(m, node, head) ==
  IF m[node].SizePrevious = Null THEN m[node].SizeNext ELSE head

Merge(left, right) ==
  LET level   == call.level
      before  == mem[left].PosPrevious
      after   == mem[right].PosNext
      first   == PosUnlinked(mem, before, after)
      second  == SizeUnlinked(first, left)
      third   == SizeUnlinked(second, right)
      heads   == [Nodes EXCEPT
                    ![level] = HeadAfter(second, right, HeadAfter(first, left, @))]
      cleared == [third EXCEPT ![left] = EmptyNode, ![right] = EmptyNode]
  IN  /\ mem' = Pushed(cleared, heads, left, mem[left].Pointer, before, after, level + 1)
      /\ Nodes' = [heads EXCEPT ![level + 1] = left]
      /\ call' = [call EXCEPT !.node = left, !.level = level + 1]

MergePrevious ==
  /\ call.op = "merge"
  /\ call.level < MaxLevel
  /\ MatchesPrevious
  /\ Merge(mem[call.node].PosPrevious, call.node)
  /\ UNCHANGED <<KernelMmap, IsEnabled, live>>

MergeNext ==
  /\ call.op = "merge"
  /\ call.level < MaxLevel
  /\ ~MatchesPrevious
  /\ MatchesNext
  /\ Merge(call.node, mem[call.node].PosNext)
  /\ UNCHANGED <<KernelMmap, IsEnabled, live>>

\* A fault: the loop goes on when a neighbour has another size.
MergeDoneAlone ==
  /\ call.op = "merge"
  /\ mem[call.node].PosPrevious = Null /\ mem[call.node].PosNext = Null
  /\ call' = Idle
  /\ UNCHANGED <<KernelMmap, Nodes, mem, IsEnabled, live>>

MergeDone ==
  /\ call.op = "merge"
  /\ call.level = MaxLevel \/ ~(MatchesPrevious \/ MatchesNext)
  /\ call' = Idle
  /\ UNCHANGED <<KernelMmap, Nodes, mem, IsEnabled, live>>

-----------------------------------------------------------------------------
\* The caller has seen NULL from Allocate(), or false from Free().
NullSeen ==
  /\ call.op = "null"
  /\ call' = Idle
  /\ UNCHANGED <<KernelMmap, Nodes, mem, IsEnabled, live>>

FalseSeen ==
  /\ call.op = "false"
  /\ call' = Idle
  /\ UNCHANGED <<KernelMmap, Nodes, mem, IsEnabled, live>>

Carve == CarveBlock \/ CarveNextEntry \/ CarveDone

Allocate ==
  \/ \E size \in Sizes : AllocatePop(size) \/ AllocateDivide(size)
  \/ DividePush
  \/ DivideLast
  \/ DividePop
  \/ NullSeen

Free(i) == FreeRefused(i) \/ FreeBlock(i)

MergeBlock == MergePrevious \/ MergeNext \/ MergeDone

(***************************************************************************)
(* Three disciplines.  Permanent: nothing is ever freed, as with the       *)
(* graphics buffer and the EFI handle lists.  Uniform: the newest block is *)
(* freed first, all blocks that are held at one time have one level, and   *)
(* the caller gives up when Free() reports a failure.  Otherwise, sizes    *)
(* are mixed and blocks are freed in any order.                            *)
(***************************************************************************)
NextPermanent == Carve \/ Allocate

SameLevel(size) == \A i \in DOMAIN live : SizeLevel(live[i].size) = SizeLevel(size)

NextUniform ==
  \/ Carve
  \/ \E size \in Sizes : SameLevel(size) /\ (AllocatePop(size) \/ AllocateDivide(size))
  \/ DividePush
  \/ DivideLast
  \/ DividePop
  \/ NullSeen
  \/ live # <<>> /\ Free(Len(live))
  \/ MergeBlock

Next ==
  \/ Carve
  \/ Allocate
  \/ \E i \in DOMAIN live : Free(i)
  \/ MergeBlock
  \/ FalseSeen

\* The steps of a call in progress, which the thread never leaves undone.
Progress == Carve \/ DividePush \/ DivideLast \/ DividePop \/ MergeBlock

SpecPermanent == Init /\ [][NextPermanent]_vars
SpecUniform == Init /\ [][NextUniform]_vars /\ WF_vars(Progress)
Spec == Init /\ [][Next]_vars /\ WF_vars(Progress)
=============================================================================
