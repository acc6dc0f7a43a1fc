------------------------------- MODULE MmProofs -------------------------------
(***************************************************************************)
(* Theorems about the kernel's memory allocator, for every memory map,     *)
(* page size, number of levels and set of sizes, and at the end about the  *)
(* kernel as its client.                                                   *)
(***************************************************************************)
EXTENDS KernelHeap, TLAPS, SequenceTheorems, WellFoundedInduction

LEMMA LeastExists ==
  ASSUME NEW S \in SUBSET Nat, S # {}
  PROVE  \E m \in S : \A n \in S : m <= n
<1>1. PICK m \in S : \A n \in S : <<n, m>> \notin OpToRel(<, Nat)
  BY WFMin, NatLessThanWellFounded
<1>2. ASSUME NEW n \in S
      PROVE  m <= n
  <2>1. <<n, m>> \in OpToRel(<, Nat) <=> <<n, m>> \in {ss \in Nat \X Nat : ss[1] < ss[2]}
    BY Zenon DEF OpToRel
  <2>2. <<n, m>> \notin {ss \in Nat \X Nat : ss[1] < ss[2]}
    BY <1>1, <2>1, Zenon
  <2> QED BY <2>2
<1> QED BY <1>2

(***************************************************************************)
(* The sizes and the level that SizeLevel() finds for a size.              *)
(***************************************************************************)
LEMMA LevelTypes ==
  /\ Levels \subseteq Nat
  /\ Levels \subseteq 0 .. MaxLevel + 1
  /\ \A l \in Levels : l + 1 \in 0 .. MaxLevel + 1
  /\ \A l \in 0 .. MaxLevel + 1 : BlockPages[l] \in Nat \ {0}
BY LevelAssumption DEF Levels

LEMMA LevelBelow ==
  ASSUME NEW k \in Levels, NEW l \in Levels, k <= l, k # l
  PROVE  l - 1 \in Levels /\ k <= l - 1
BY LevelAssumption DEF Levels

LEMMA LevelAbove ==
  ASSUME NEW l \in Levels, l < MaxLevel
  PROVE  l + 1 \in Levels
BY LevelAssumption DEF Levels

LEMMA BlockSizes ==
  /\ \A l \in 0 .. MaxLevel + 1 : BlockSize(l) \in Nat \ {0}
  /\ \A l \in Levels : BlockSize(l + 1) = 2 * BlockSize(l)
<1>1. \A l \in 0 .. MaxLevel + 1 : BlockSize(l) \in Nat \ {0}
  BY LevelTypes, ScalingFactorAssumption DEF BlockSize
<1>2. ASSUME NEW l \in Levels
      PROVE  BlockSize(l + 1) = 2 * BlockSize(l)
  BY LevelTypes, LevelAssumption, ScalingFactorAssumption DEF BlockSize
<1> QED BY <1>1, <1>2

LEMMA SizeLevelFits ==
  ASSUME NEW size \in Sizes
  PROVE  /\ SizeLevel(size) \in Levels
         /\ size <= BlockSize(SizeLevel(size))
<1> DEFINE Fitting == {l \in Levels : Fits(size, l)}
<1>1. Fitting \in SUBSET Nat /\ MaxLevel \in Fitting
  BY LevelTypes, LevelAssumption, SizeAssumption DEF Fits, Levels
<1>2. PICK l \in Fitting : \A k \in Fitting : l <= k
  BY <1>1, LeastExists
<1>3. Fits(size, l) /\ \A k \in 0 .. l - 1 : ~Fits(size, k)
  BY <1>2, LevelAssumption DEF Levels
<1>4. SizeLevel(size) \in Levels /\ Fits(size, SizeLevel(size))
  BY <1>3, Zenon DEF SizeLevel
<1> QED BY <1>4 DEF Fits, BlockSize

-----------------------------------------------------------------------------
(***************************************************************************)
(* The shape of an entry: as many nodes as data pages fit in the space     *)
(* reserved for them, and the data pages end where the entry does.         *)
(***************************************************************************)
LEMMA Rounding ==
  ASSUME NEW n \in Nat, NEW k \in Nat \ {0}
  PROVE  n \div k \in Nat /\ ((n + k - 1) \div k) * k >= n
OBVIOUS

LEMMA Quotient ==
  ASSUME NEW n \in Nat, NEW k \in Nat \ {0}, NEW q \in Int, n <= q * k
  PROVE  n \div k \in Nat /\ n \div k <= q
OBVIOUS

LEMMA EntryShape ==
  ASSUME NEW mmap \in MemoryMaps, NEW e \in DOMAIN mmap
  PROVE  LET entry == mmap[e] IN
         /\ entry.Base \in Nat \ {0}
         /\ entry.Limit \in Nat \ {0}
         /\ ReservedPages(entry) \in Nat
         /\ ReservedSpace(entry) \in Nat
         /\ DataStart(entry) \in Nat
         /\ DataPages(entry) \in Int
         /\ DataPages(entry) <= ReservedSpace(entry)
         /\ DataPages(entry) < entry.Limit
         /\ DataStart(entry) + DataPages(entry) * ScalingFactor = entry.Base + entry.Limit
         /\ DataStart(entry) < entry.Base + entry.Limit
<1> DEFINE entry == mmap[e]
           pages == entry.Limit \div ScalingFactor
           reserved == (pages + ScalingFactor - 1) \div ScalingFactor
<1>1. entry.Base \in Nat \ {0} /\ entry.Limit \in Nat \ {0}
  <2>1. mmap \in Seq(Entries)
    BY MemoryMapAssumption
  <2>2. mmap[e] \in Entries
    BY <2>1, LenProperties, ElementOfSeq
  <2> QED BY <2>2 DEF Entries
<1>2. entry.Limit % ScalingFactor = 0 /\ 2 * ReservedSpace(entry) <= entry.Limit
  BY MemoryMapAssumption
<1>3. pages \in Nat /\ pages * ScalingFactor = entry.Limit
  BY <1>1, <1>2, ScalingFactorAssumption
<1>4. reserved \in Nat /\ reserved * ScalingFactor >= pages /\ reserved * ScalingFactor \in Nat
  BY <1>3, ScalingFactorAssumption
<1>5. ReservedPages(entry) = reserved /\ ReservedSpace(entry) = reserved * ScalingFactor
  BY DEF ReservedPages, ReservedSpace
<1>6. DataPages(entry) = pages - reserved
  BY DEF DataPages, ReservedPages
<1>7. (pages - reserved) * ScalingFactor = pages * ScalingFactor - reserved * ScalingFactor
  BY <1>3, <1>4, ScalingFactorAssumption
<1>8. pages <= entry.Limit
  BY <1>3, ScalingFactorAssumption
<1>9. reserved > 0
  BY <1>1, <1>3, <1>4, ScalingFactorAssumption
<1> HIDE DEF entry, pages, reserved
<1>10. DataStart(entry) = entry.Base + reserved * ScalingFactor
  BY <1>5 DEF DataStart
<1>11. DataStart(entry) + DataPages(entry) * ScalingFactor = entry.Base + entry.Limit
  BY <1>1, <1>3, <1>4, <1>6, <1>7, <1>10
<1>12. DataStart(entry) < entry.Base + entry.Limit
  BY <1>1, <1>2, <1>4, <1>5, <1>10
<1> QED
  <2>1. /\ entry.Base \in Nat \ {0}
        /\ entry.Limit \in Nat \ {0}
        /\ ReservedPages(entry) \in Nat
        /\ ReservedSpace(entry) \in Nat
        /\ DataStart(entry) \in Nat
        /\ DataPages(entry) \in Int
        /\ DataPages(entry) <= ReservedSpace(entry)
        /\ DataPages(entry) < entry.Limit
    BY <1>1, <1>3, <1>4, <1>5, <1>6, <1>8, <1>9, <1>10
  <2> QED BY <2>1, <1>11, <1>12 DEF entry

LEMMA NodeAddress ==
  ASSUME NEW mmap \in MemoryMaps, NEW e \in DOMAIN mmap, NEW pointer \in Nat,
         DataStart(mmap[e]) < pointer, pointer <= mmap[e].Base + mmap[e].Limit
  PROVE  LET address == mmap[e].Base + (pointer - DataStart(mmap[e])) \div ScalingFactor IN
         address \in Nat /\ mmap[e].Base <= address /\ address <= DataStart(mmap[e])
<1> DEFINE entry == mmap[e]
           offset == pointer - DataStart(entry)
<1>1. /\ entry.Base \in Nat /\ entry.Limit \in Nat /\ DataStart(entry) \in Nat
      /\ DataStart(entry) + DataPages(entry) * ScalingFactor = entry.Base + entry.Limit
      /\ DataPages(entry) \in Int /\ DataPages(entry) <= ReservedSpace(entry)
      /\ ReservedSpace(entry) \in Nat
      /\ DataStart(entry) = entry.Base + ReservedSpace(entry)
  BY EntryShape DEF DataStart
<1>2. DataPages(entry) * ScalingFactor \in Int
  BY <1>1, ScalingFactorAssumption
<1>3. offset \in Nat /\ offset <= DataPages(entry) * ScalingFactor
  <2> HIDE DEF entry
  <2> QED BY <1>1, <1>2 DEF entry
<1> HIDE DEF offset
<1>4. offset \div ScalingFactor \in Nat /\ offset \div ScalingFactor <= DataPages(entry)
  BY <1>1, <1>3, Quotient, ScalingFactorAssumption
<1> QED BY <1>1, <1>4 DEF offset

LEMMA SlotOfEntry ==
  ASSUME NEW mmap \in MemoryMaps, NEW e \in DOMAIN mmap,
         NEW a \in Int, mmap[e].Base <= a, a < DataStart(mmap[e])
  PROVE  a \in Slots(mmap)
BY EntryShape DEF Slots

LEMMA SlotsAreNat ==
  ASSUME NEW mmap \in MemoryMaps
  PROVE  Slots(mmap) \subseteq Nat \ {0}
BY EntryShape DEF Slots

LEMMA MapIsSequence ==
  ASSUME NEW mmap \in MemoryMaps
  PROVE  DOMAIN mmap = 1 .. Len(mmap) /\ Len(mmap) \in Nat
BY MemoryMapAssumption, LenProperties

-----------------------------------------------------------------------------
(***************************************************************************)
(* Type correctness.                                                       *)
(***************************************************************************)
LEMMA PushedType ==
  ASSUME TypeOK,
         NEW m \in [Slots(KernelMmap) -> NodeRecords], NEW heads \in [Levels -> Slot],
         NEW node \in Slots(KernelMmap), NEW pointer \in Nat,
         NEW previous \in Slot, NEW next \in Slot, NEW level \in Levels
  PROVE  Pushed(m, heads, node, pointer, previous, next, level)
           \in [Slots(KernelMmap) -> NodeRecords]
BY ZenonT(60) DEF Pushed, NodeRecords, Slot

LEMMA EmptyNodeType == EmptyNode \in NodeRecords
BY LevelAssumption DEF EmptyNode, NodeRecords, Slot, Null, Levels

LEMMA PopType ==
  ASSUME TypeOK, NEW level \in Levels, CanPop(level), PopBlock(level)
  PROVE  /\ Nodes' \in [Levels -> Slot]
         /\ mem' \in [Slots(KernelMmap) -> NodeRecords]
<1> DEFINE node == Nodes[level]
           own  == mem[node]
<1>1. node \in Slots(KernelMmap) /\ own \in NodeRecords
  BY DEF TypeOK, CanPop, Slot
<1>2. Nodes' = [Nodes EXCEPT ![level] = own.SizePrevious]
  BY DEF PopBlock
<1>3. Nodes' \in [Levels -> Slot]
  BY <1>1, <1>2 DEF TypeOK, NodeRecords
<1>4. mem' = [a \in Slots(KernelMmap) |->
           IF a = node THEN EmptyNode
           ELSE [mem[a] EXCEPT
                   !.PosNext     = IF a = own.PosPrevious THEN own.PosNext ELSE @,
                   !.PosPrevious = IF a = own.PosNext THEN own.PosPrevious ELSE @,
                   !.SizeNext    = IF a = own.SizePrevious THEN Null ELSE @]]
  BY DEF PopBlock, TypeOK
<1>5. mem' \in [Slots(KernelMmap) -> NodeRecords]
  <2> SUFFICES ASSUME NEW a \in Slots(KernelMmap), a # node
               PROVE  [mem[a] EXCEPT
                   !.PosNext     = IF a = own.PosPrevious THEN own.PosNext ELSE @,
                   !.PosPrevious = IF a = own.PosNext THEN own.PosPrevious ELSE @,
                   !.SizeNext    = IF a = own.SizePrevious THEN Null ELSE @] \in NodeRecords
    BY <1>4, EmptyNodeType
  <2>1. mem[a] \in NodeRecords
    BY DEF TypeOK
  <2> HIDE DEF own
  <2> QED BY <1>1, <2>1, ZenonT(60) DEF NodeRecords, Slot
<1> QED BY <1>3, <1>5

LEMMA CallTypes ==
  ASSUME call \in CallRecords
  PROVE  /\ call.op = "carve" =>
              call \in [op : {"carve"}, entry : Nat \ {0}, page : Nat, previous : Slot]
         /\ call.op \in {"divide", "divideLast"} =>
              call \in [op : {"divide", "divideLast"}, size : Sizes, level : Levels,
                        address : Nat, location : Nat, previous : Slot, next : Slot]
         /\ call.op \in {"null", "pop"} => call \in [op : {"null", "pop"}, size : Sizes]
         /\ call.op = "merge" =>
              call \in [op : {"merge"}, node : Slots(KernelMmap), level : Levels]
BY DEF CallRecords

LEMMA InitTypeOK == Init => TypeOK
<1> SUFFICES ASSUME Init PROVE TypeOK
  OBVIOUS
<1>1. Nodes \in [Levels -> Slot]
  BY DEF Init, Slot
<1>2. mem \in [Slots(KernelMmap) -> NodeRecords]
  BY EmptyNodeType DEF Init
<1>3. call \in CallRecords /\ call.op # "divide"
  BY DEF Init, CallRecords, Slot
<1>4. live \in Seq([ptr : Nat, size : Sizes])
  BY DEF Init
<1> QED BY <1>1, <1>2, <1>3, <1>4 DEF Init, TypeOK

LEMMA CarveType == TypeOK /\ Carve => TypeOK'
<1> SUFFICES ASSUME TypeOK, Carve PROVE TypeOK'
  OBVIOUS
<1>1. CASE CarveBlock
  <2> DEFINE entry == KernelMmap[call.entry]
             node  == entry.Base + call.page
  <2>1. call \in [op : {"carve"}, entry : Nat \ {0}, page : Nat, previous : Slot]
    BY <1>1, CallTypes DEF TypeOK, CarveBlock
  <2>2. PICK level \in Levels :
          /\ BlockPages[level] <= DataPages(entry) - call.page
          /\ PushBlock(node, PagePointer(entry, call.page), call.previous, Null, level)
          /\ call' = [call EXCEPT !.page = @ + BlockPages[level], !.previous = node]
    BY <1>1 DEF CarveBlock
  <2>3. BlockPages[level] \in Nat \ {0}
    BY LevelTypes
  <2>4. /\ node \in Nat /\ node < DataStart(entry)
        /\ entry.Base <= node
        /\ PagePointer(entry, call.page) \in Nat
    <3>1. /\ entry.Base \in Nat /\ DataStart(entry) \in Nat /\ DataPages(entry) \in Int
          /\ DataPages(entry) <= ReservedSpace(entry) /\ ReservedSpace(entry) \in Nat
      BY <1>1, EntryShape DEF CarveBlock, TypeOK
    <3>2. call.page \in Nat /\ call.page < DataPages(entry)
      BY <2>1, <2>2, <2>3, <3>1
    <3>3. call.page * ScalingFactor \in Nat
      BY <3>2, ScalingFactorAssumption
    <3> HIDE DEF entry
    <3> QED BY <3>1, <3>2, <3>3 DEF DataStart, PagePointer
  <2>5. node \in Slots(KernelMmap)
    BY <1>1, <2>4, SlotOfEntry DEF CarveBlock, TypeOK
  <2>6. mem' \in [Slots(KernelMmap) -> NodeRecords] /\ Nodes' \in [Levels -> Slot]
    BY <2>1, <2>2, <2>4, <2>5, PushedType DEF TypeOK, PushBlock, Slot
  <2>7. call' \in [op : {"carve"}, entry : Nat \ {0}, page : Nat, previous : Slot]
    <3>1. call.page + BlockPages[level] \in Nat
      BY <2>1, <2>3
    <3>2. call' = [call EXCEPT !.page = call.page + BlockPages[level], !.previous = node]
      BY <2>2
    <3> HIDE DEF node
    <3> QED BY <2>1, <2>5, <3>1, <3>2 DEF Slot
  <2>8. call' \in CallRecords /\ call'.op # "divide"
    BY <2>7 DEF CallRecords
  <2> QED BY <1>1, <2>6, <2>8 DEF TypeOK, CarveBlock, NodeRecords, Slot, CallRecords
<1>2. CASE CarveNextEntry
  <2>1. call \in [op : {"carve"}, entry : Nat \ {0}, page : Nat, previous : Slot]
    BY <1>2, CallTypes DEF TypeOK, CarveNextEntry
  <2>2. call' \in [op : {"carve"}, entry : Nat \ {0}, page : Nat, previous : Slot]
    <3>1. call.entry + 1 \in Nat \ {0}
      BY <2>1
    <3>2. call' = [call EXCEPT !.entry = call.entry + 1, !.page = 0]
      BY <1>2 DEF CarveNextEntry
    <3> QED BY <2>1, <3>1, <3>2
  <2> QED BY <1>2, <2>2 DEF TypeOK, CarveNextEntry, NodeRecords, Slot, CallRecords
<1>3. CASE CarveDone
  BY <1>3 DEF TypeOK, CarveDone, NodeRecords, Slot, CallRecords, Idle
<1> QED BY <1>1, <1>2, <1>3 DEF Carve

LEMMA PopAndReturnType ==
  ASSUME TypeOK, NEW size \in Sizes, PopAndReturn(SizeLevel(size), size),
         UNCHANGED <<KernelMmap, IsEnabled>>
  PROVE  TypeOK'
<1> DEFINE level == SizeLevel(size)
<1>1. level \in Levels
  BY SizeLevelFits
<1>2. CASE CanPop(level)
  <2>1. /\ PopBlock(level)
        /\ live' = Append(live, [ptr |-> mem[Nodes[level]].Pointer, size |-> size])
        /\ call' = Idle
    BY <1>2 DEF PopAndReturn
  <2>2. mem[Nodes[level]].Pointer \in Nat
    BY <1>1, <1>2 DEF CanPop, TypeOK, Slot, NodeRecords
  <2>3. live' \in Seq([ptr : Nat, size : Sizes])
    BY <2>1, <2>2 DEF TypeOK
  <2>4. Nodes' \in [Levels -> Slot] /\ mem' \in [Slots(KernelMmap) -> NodeRecords]
    BY <1>1, <1>2, <2>1, PopType
  <2> QED BY <2>1, <2>3, <2>4 DEF TypeOK, NodeRecords, Slot, CallRecords, Idle
<1>3. CASE ~CanPop(level)
  BY <1>3 DEF PopAndReturn, TypeOK, NodeRecords, Slot, CallRecords
<1> QED BY <1>2, <1>3

LEMMA DividePushType == TypeOK /\ DividePush => TypeOK'
<1> SUFFICES ASSUME TypeOK, DividePush PROVE TypeOK'
  OBVIOUS
<1>1. call \in [op : {"divide", "divideLast"}, size : Sizes, level : Levels,
                address : Nat, location : Nat, previous : Slot, next : Slot]
  BY CallTypes DEF TypeOK, DividePush
<1>2. CASE call.address \notin DOMAIN mem
  BY <1>2 DEF DividePush, TypeOK, NodeRecords, Slot, CallRecords, Wild
<1>3. CASE call.address \in DOMAIN mem
  <2> DEFINE last == call.level = SizeLevel(call.size)
             step == [call EXCEPT
                        !.op = IF last THEN "divideLast" ELSE call.op,
                        !.level = IF last THEN call.level ELSE call.level - 1,
                        !.address = call.address + BlockPages[call.level],
                        !.location = call.location + BlockPages[call.level] * ScalingFactor,
                        !.previous = call.address]
  <2>1. /\ PushBlock(call.address, call.location, call.previous, call.next, call.level)
        /\ call' = step
    BY <1>3 DEF DividePush, AtTargetLevel
  <2>2. call.address \in Slots(KernelMmap)
    BY <1>3 DEF TypeOK
  <2>3. Nodes' \in [Levels -> Slot] /\ mem' \in [Slots(KernelMmap) -> NodeRecords]
    BY <1>1, <2>1, <2>2, PushedType DEF PushBlock, TypeOK, Slot
  <2>4. SizeLevel(call.size) \in Levels /\ SizeLevel(call.size) <= call.level
    BY <1>1, SizeLevelFits DEF TypeOK, DividePush
  <2>5. ~last => call.level - 1 \in Levels /\ SizeLevel(call.size) <= call.level - 1
    BY <1>1, <2>4, LevelBelow
  <2>6. /\ call.address + BlockPages[call.level] \in Nat
        /\ call.location + BlockPages[call.level] * ScalingFactor \in Nat
    <3>1. call.address \in Nat /\ call.location \in Nat /\ BlockPages[call.level] \in Nat
      BY <1>1, LevelTypes
    <3>2. BlockPages[call.level] * ScalingFactor \in Nat
      BY <3>1, ScalingFactorAssumption
    <3> QED BY <3>1, <3>2
  <2> HIDE DEF last
  <2>7. step \in [op : {"divide", "divideLast"}, size : Sizes, level : Levels,
                  address : Nat, location : Nat, previous : Slot, next : Slot]
    BY <1>1, <2>2, <2>5, <2>6 DEF DividePush, Slot
  <2>8. step.op = "divide" => SizeLevel(step.size) <= step.level
    BY <1>1, <2>5
  <2> QED BY <2>1, <2>3, <2>7, <2>8 DEF DividePush, TypeOK, NodeRecords, Slot, CallRecords
<1> QED BY <1>2, <1>3

LEMMA DivideLastType == TypeOK /\ DivideLast => TypeOK'
<1> SUFFICES ASSUME TypeOK, DivideLast PROVE TypeOK'
  OBVIOUS
<1>1. call \in [op : {"divide", "divideLast"}, size : Sizes, level : Levels,
                address : Nat, location : Nat, previous : Slot, next : Slot]
  BY CallTypes DEF TypeOK, DivideLast
<1>2. CASE call.address \notin DOMAIN mem
  BY <1>2 DEF DivideLast, TypeOK, NodeRecords, Slot, CallRecords, Wild
<1>3. CASE call.address \in DOMAIN mem
  <2>1. /\ PushBlock(call.address, call.location, call.previous, call.next, call.level)
        /\ call' = [op |-> "pop", size |-> call.size]
    BY <1>3 DEF DivideLast
  <2>2. Nodes' \in [Levels -> Slot] /\ mem' \in [Slots(KernelMmap) -> NodeRecords]
    BY <1>1, <1>3, <2>1, PushedType DEF PushBlock, TypeOK, Slot
  <2> QED BY <1>1, <2>1, <2>2 DEF DivideLast, TypeOK, NodeRecords, Slot, CallRecords
<1> QED BY <1>2, <1>3

LEMMA AllocateType == TypeOK /\ Allocate => TypeOK'
<1> SUFFICES ASSUME TypeOK, Allocate PROVE TypeOK'
  OBVIOUS
<1>1. ASSUME NEW size \in Sizes, AllocatePop(size)
      PROVE  TypeOK'
  BY <1>1, PopAndReturnType DEF AllocatePop
<1>2. ASSUME NEW size \in Sizes, AllocateDivide(size)
      PROVE  TypeOK'
  <2>0. KernelMmap' = KernelMmap /\ IsEnabled' = IsEnabled /\ live' = live
    BY <1>2 DEF AllocateDivide
  <2>1. PICK l \in Levels :
          /\ l > SizeLevel(size)
          /\ Nodes[l] # Null
          /\ IF IsFree(Nodes[l])
             THEN /\ PopBlock(l)
                  /\ call' = [op |-> "divide", size |-> size, level |-> l - 1,
                              address |-> Nodes[l], location |-> mem[Nodes[l]].Pointer,
                              previous |-> mem[Nodes[l]].PosPrevious,
                              next |-> mem[Nodes[l]].PosNext]
             ELSE /\ call' = [op |-> "null", size |-> size]
                  /\ UNCHANGED <<Nodes, mem>>
    BY <1>2 DEF AllocateDivide, Larger
  <2>2. CASE IsFree(Nodes[l])
    <3>1. Nodes' \in [Levels -> Slot] /\ mem' \in [Slots(KernelMmap) -> NodeRecords]
      BY <2>1, <2>2, PopType DEF CanPop
    <3>2. Nodes[l] \in Slots(KernelMmap) /\ mem[Nodes[l]] \in NodeRecords
      BY <2>1 DEF TypeOK, Slot
    <3>3. Nodes[l] \in Nat
      BY <3>2, SlotsAreNat DEF TypeOK
    <3>4. SizeLevel(size) \in Levels /\ l - 1 \in Levels /\ SizeLevel(size) <= l - 1
      BY <2>1, SizeLevelFits, LevelAssumption, SMTT(30) DEF Levels
    <3>5. call' \in [op : {"divide", "divideLast"}, size : Sizes, level : Levels,
                     address : Nat, location : Nat, previous : Slot, next : Slot]
      BY <2>1, <2>2, <3>2, <3>3, <3>4 DEF NodeRecords
    <3>6. SizeLevel(call'.size) <= call'.level
      BY <2>1, <2>2, <3>4
    <3>7. Slot' = Slot /\ NodeRecords' = NodeRecords
      BY <2>0 DEF Slot, NodeRecords
    <3>8. CallRecords' = CallRecords
      BY <2>0, <3>7 DEF CallRecords
    <3>9. call' \in CallRecords
      BY <3>5 DEF CallRecords
    <3> QED BY <2>0, <3>1, <3>6, <3>7, <3>8, <3>9 DEF TypeOK
  <2>3. CASE ~IsFree(Nodes[l])
    BY <1>2, <2>1, <2>3 DEF AllocateDivide, TypeOK, NodeRecords, Slot, CallRecords
  <2> QED BY <2>2, <2>3
<1>3. CASE DividePush
  BY <1>3, DividePushType
<1>4. CASE DivideLast
  BY <1>4, DivideLastType
<1>5. CASE DividePop
  BY <1>5, CallTypes, PopAndReturnType DEF DividePop, TypeOK
<1>6. CASE NullSeen
  BY <1>6 DEF NullSeen, TypeOK, NodeRecords, Slot, CallRecords, Idle
<1> QED BY <1>1, <1>2, <1>3, <1>4, <1>5, <1>6 DEF Allocate

(***************************************************************************)
(* The entry that FreeBlock() finds for a pointer.                         *)
(***************************************************************************)
LEMMA EntryOfHolds ==
  ASSUME TypeOK, NEW pointer \in Nat, ~InNoEntry(pointer)
  PROVE  EntryOf(pointer) \in DOMAIN KernelMmap /\ Holds(EntryOf(pointer), pointer)
<1> DEFINE Holding == {e \in DOMAIN KernelMmap : Holds(e, pointer)}
<1>1. DOMAIN KernelMmap = 1 .. Len(KernelMmap) /\ Len(KernelMmap) \in Nat
  BY MapIsSequence DEF TypeOK
<1>2. Holding \in SUBSET Nat /\ Holding # {}
  BY <1>1 DEF InNoEntry
<1>3. PICK e \in Holding : \A f \in Holding : e <= f
  BY <1>2, LeastExists
<1>4. \A f \in 1 .. e - 1 : ~Holds(f, pointer)
  <2>1. ASSUME NEW f \in 1 .. e - 1, Holds(f, pointer) PROVE FALSE
    BY <1>1, <1>3, <2>1
  <2> QED BY <2>1
<1>5. \E d \in DOMAIN KernelMmap :
        Holds(d, pointer) /\ \A f \in 1 .. d - 1 : ~Holds(f, pointer)
  BY <1>3, <1>4
<1> QED BY <1>5, Zenon DEF EntryOf

(***************************************************************************)
(* The two searches end on a node of the entry or on NULL.                 *)
(***************************************************************************)
LEMMA LeastOf ==
  ASSUME NEW S \in SUBSET Nat, S # {}
  PROVE  Least(S) \in S
BY LeastExists, Zenon DEF Least

LEMMA MultipliersAreNat == Multipliers \subseteq Nat \ {0}
BY LevelAssumption DEF Multipliers

LEMMA NeighbourTypes ==
  ASSUME TypeOK, NEW e \in DOMAIN KernelMmap, NEW address \in Nat,
         KernelMmap[e].Base <= address, address <= DataStart(KernelMmap[e])
  PROVE  /\ PreviousNode(KernelMmap[e].Base, address) \in Slot
         /\ NextNode(DataStart(KernelMmap[e]), address) \in Slot
<1> DEFINE base  == KernelMmap[e].Base
           limit == DataStart(KernelMmap[e])
           before == {m \in Multipliers : address - m >= base /\ IsFree(address - m)}
           after == {m \in Multipliers : address + m < limit /\ IsFree(address + m)}
<1>1. base \in Nat /\ limit \in Nat
  BY EntryShape DEF TypeOK
<1>2. PreviousNode(base, address) \in Slot
  <2>1. CASE before = {}
    BY <2>1 DEF PreviousNode, Slot
  <2>2. CASE before # {}
    <3>1. Least(before) \in before /\ Least(before) \in Nat \ {0}
      BY <2>2, LeastOf, MultipliersAreNat
    <3>2. address - Least(before) \in Slots(KernelMmap)
      BY <1>1, <3>1, SlotOfEntry DEF TypeOK
    <3>3. PreviousNode(base, address) = address - Least(before)
      BY <2>2 DEF PreviousNode
    <3> QED BY <3>2, <3>3 DEF Slot
  <2> QED BY <2>1, <2>2
<1>3. NextNode(limit, address) \in Slot
  <2>1. CASE after = {}
    BY <2>1 DEF NextNode, Slot
  <2>2. CASE after # {}
    <3>1. Least(after) \in after /\ Least(after) \in Nat \ {0}
      BY <2>2, LeastOf, MultipliersAreNat
    <3>2. address + Least(after) \in Slots(KernelMmap)
      BY <1>1, <3>1, SlotOfEntry DEF TypeOK
    <3>3. NextNode(limit, address) = address + Least(after)
      BY <2>2 DEF NextNode
    <3> QED BY <3>2, <3>3 DEF Slot
  <2> QED BY <2>1, <2>2
<1> QED BY <1>2, <1>3

(***************************************************************************)
(* Free() drops a block of the history, whichever it is.                   *)
(***************************************************************************)
LEMMA DroppedType ==
  ASSUME NEW S, live \in Seq(S), NEW i \in DOMAIN live
  PROVE  Dropped(i) \in Seq(S)
<1>1. SubSeq(live, 1, i - 1) \in Seq(S) /\ SubSeq(live, i + 1, Len(live)) \in Seq(S)
  BY LenProperties, SubSeqProperties
<1> QED BY <1>1, ConcatProperties DEF Dropped

LEMMA FreeType ==
  ASSUME TypeOK, NEW i \in DOMAIN live, Free(i)
  PROVE  TypeOK'
<1>1. live[i] \in [ptr : Nat, size : Sizes]
  BY LenProperties, ElementOfSeq DEF TypeOK
<1>2. CASE FreeRefused(i)
  BY <1>2, DroppedType DEF FreeRefused, TypeOK, NodeRecords, Slot, CallRecords
<1>3. CASE FreeBlock(i)
  <2> DEFINE pointer == live[i].ptr
             e       == EntryOf(pointer)
             entry   == KernelMmap[e]
             limit   == DataStart(entry)
             address == entry.Base + (pointer - limit) \div ScalingFactor
             level   == SizeLevel(live[i].size)
  <2>1. e \in DOMAIN KernelMmap /\ Holds(e, pointer) /\ pointer > limit
    BY <1>1, <1>3, EntryOfHolds DEF FreeBlock
  <2>2. live' \in Seq([ptr : Nat, size : Sizes])
    BY <1>3, DroppedType DEF FreeBlock, TypeOK
  <2>3. CASE call' = Wild /\ UNCHANGED <<Nodes, mem>>
    BY <1>3, <2>2, <2>3 DEF FreeBlock, TypeOK, NodeRecords, Slot, CallRecords, Wild
  <2>4. CASE /\ address \in DOMAIN mem
             /\ PushBlock(address, pointer, PreviousNode(entry.Base, address),
                          NextNode(limit, address), level)
             /\ call' = [op |-> "merge", node |-> address, level |-> level]
    <3>1. level \in Levels
      BY <1>1, SizeLevelFits
    <3>2. pointer \in Nat /\ pointer <= entry.Base + entry.Limit
      BY <1>1, <2>1 DEF Holds
    <3>3. address \in Nat /\ entry.Base <= address /\ address <= limit
      BY <2>1, <3>2, NodeAddress DEF TypeOK
    <3>5. /\ PreviousNode(entry.Base, address) \in Slot
          /\ NextNode(limit, address) \in Slot
      BY <2>1, <3>3, NeighbourTypes
    <3>6. address \in Slots(KernelMmap)
      BY <2>4 DEF TypeOK
    <3> HIDE DEF address, pointer, entry, limit, level
    <3>8. Nodes' \in [Levels -> Slot] /\ mem' \in [Slots(KernelMmap) -> NodeRecords]
      <4>1. /\ mem' = Pushed(mem, Nodes, address, pointer, PreviousNode(entry.Base, address),
                             NextNode(limit, address), level)
            /\ Nodes' = [Nodes EXCEPT ![level] = address]
        BY <2>4 DEF PushBlock
      <4> QED BY <3>1, <3>2, <3>5, <3>6, <4>1, PushedType DEF TypeOK, Slot
    <3>9. call' \in [op : {"merge"}, node : Slots(KernelMmap), level : Levels]
      BY <2>4, <3>1, <3>6
    <3> QED BY <1>3, <2>2, <3>8, <3>9 DEF FreeBlock, TypeOK, NodeRecords, Slot, CallRecords
  <2> QED BY <1>3, <2>3, <2>4 DEF FreeBlock
<1> QED BY <1>2, <1>3 DEF Free

LEMMA UnlinkedTypes ==
  ASSUME TypeOK, NEW m \in [Slots(KernelMmap) -> NodeRecords]
  PROVE  /\ \A before, after \in Slot :
              PosUnlinked(m, before, after) \in [Slots(KernelMmap) -> NodeRecords]
         /\ \A node \in Slots(KernelMmap) :
              /\ SizeUnlinked(m, node) \in [Slots(KernelMmap) -> NodeRecords]
              /\ \A head \in Slot : HeadAfter(m, node, head) \in Slot
<1>1. ASSUME NEW before \in Slot, NEW after \in Slot
      PROVE  PosUnlinked(m, before, after) \in [Slots(KernelMmap) -> NodeRecords]
  BY DEF PosUnlinked, NodeRecords, Slot
<1>2. ASSUME NEW node \in Slots(KernelMmap)
      PROVE  /\ SizeUnlinked(m, node) \in [Slots(KernelMmap) -> NodeRecords]
             /\ \A head \in Slot : HeadAfter(m, node, head) \in Slot
  <2>1. m[node].SizeNext \in Slot /\ m[node].SizePrevious \in Slot
    BY DEF NodeRecords
  <2> QED BY <2>1 DEF SizeUnlinked, HeadAfter, NodeRecords, Slot
<1> QED BY <1>1, <1>2

LEMMA MergeType ==
  ASSUME TypeOK, call.op = "merge", call.level < MaxLevel,
         NEW left \in Slots(KernelMmap), NEW right \in Slots(KernelMmap),
         Merge(left, right), UNCHANGED <<KernelMmap, IsEnabled, live>>
  PROVE  TypeOK'
<1> DEFINE level   == call.level
           before  == mem[left].PosPrevious
           after   == mem[right].PosNext
           first   == PosUnlinked(mem, before, after)
           second  == SizeUnlinked(first, left)
           third   == SizeUnlinked(second, right)
           heads   == [Nodes EXCEPT
                         ![level] = HeadAfter(second, right, HeadAfter(first, left, @))]
           cleared == [third EXCEPT ![left] = EmptyNode, ![right] = EmptyNode]
<1>1. call \in [op : {"merge"}, node : Slots(KernelMmap), level : Levels]
  BY CallTypes DEF TypeOK
<1>2. level \in Levels /\ level + 1 \in Levels
  BY <1>1, LevelAbove
<1>3. before \in Slot /\ after \in Slot /\ mem[left].Pointer \in Nat
  BY DEF TypeOK, NodeRecords
<1>4. first \in [Slots(KernelMmap) -> NodeRecords]
  BY <1>3, UnlinkedTypes DEF TypeOK
<1>5. second \in [Slots(KernelMmap) -> NodeRecords]
  BY <1>4, UnlinkedTypes
<1>6. third \in [Slots(KernelMmap) -> NodeRecords]
  BY <1>5, UnlinkedTypes
<1>7. heads \in [Levels -> Slot]
  <2>1. HeadAfter(first, left, Nodes[level]) \in Slot
    BY <1>2, <1>4, UnlinkedTypes DEF TypeOK
  <2>2. HeadAfter(second, right, HeadAfter(first, left, Nodes[level])) \in Slot
    BY <1>5, <2>1, UnlinkedTypes
  <2> HIDE DEF first, second
  <2> QED BY <2>2 DEF TypeOK
<1>8. cleared \in [Slots(KernelMmap) -> NodeRecords]
  <2> HIDE DEF third
  <2> QED BY <1>6, EmptyNodeType
<1>9. /\ mem' = Pushed(cleared, heads, left, mem[left].Pointer, before, after, level + 1)
      /\ Nodes' = [heads EXCEPT ![level + 1] = left]
      /\ call' = [call EXCEPT !.node = left, !.level = level + 1]
  BY DEF Merge
<1> HIDE DEF level, before, after, heads, cleared
<1>10. mem' \in [Slots(KernelMmap) -> NodeRecords]
  BY <1>2, <1>3, <1>7, <1>8, <1>9, PushedType
<1>11. Nodes' \in [Levels -> Slot]
  BY <1>2, <1>7, <1>9 DEF Slot
<1>12. call' \in [op : {"merge"}, node : Slots(KernelMmap), level : Levels]
  BY <1>1, <1>2, <1>9
<1> QED BY <1>10, <1>11, <1>12 DEF TypeOK, NodeRecords, Slot, CallRecords

LEMMA MergeBlockType == TypeOK /\ MergeBlock => TypeOK'
<1> SUFFICES ASSUME TypeOK, MergeBlock PROVE TypeOK'
  OBVIOUS
<1>1. call \in [op : {"merge"}, node : Slots(KernelMmap), level : Levels]
  BY CallTypes DEF TypeOK, MergeBlock, MergePrevious, MergeNext, MergeDone
<1>2. mem[call.node].PosPrevious \in Slot /\ mem[call.node].PosNext \in Slot
  BY <1>1 DEF TypeOK, NodeRecords
<1>3. CASE MergePrevious
  <2>1. mem[call.node].PosPrevious \in Slots(KernelMmap)
    BY <1>2, <1>3 DEF MergePrevious, MatchesPrevious, Slot
  <2> QED BY <1>1, <1>3, <2>1, MergeType DEF MergePrevious
<1>4. CASE MergeNext
  <2>1. mem[call.node].PosNext \in Slots(KernelMmap)
    BY <1>2, <1>4 DEF MergeNext, MatchesNext, Slot
  <2> QED BY <1>1, <1>4, <2>1, MergeType DEF MergeNext
<1>5. CASE MergeDone
  BY <1>5 DEF MergeDone, TypeOK, NodeRecords, Slot, CallRecords, Idle
<1> QED BY <1>3, <1>4, <1>5 DEF MergeBlock

LEMMA NextTypeOK == TypeOK /\ [Next]_vars => TypeOK'
<1> SUFFICES ASSUME TypeOK, [Next]_vars PROVE TypeOK'
  OBVIOUS
<1>1. CASE Carve
  BY <1>1, CarveType
<1>2. CASE Allocate
  BY <1>2, AllocateType
<1>3. ASSUME NEW i \in DOMAIN live, Free(i)
      PROVE  TypeOK'
  BY <1>3, FreeType
<1>4. CASE MergeBlock
  BY <1>4, MergeBlockType
<1>5. CASE FalseSeen
  BY <1>5 DEF FalseSeen, TypeOK, NodeRecords, Slot, CallRecords, Idle
<1>6. CASE UNCHANGED vars
  BY <1>6 DEF vars, TypeOK, NodeRecords, Slot, CallRecords
<1> QED BY <1>1, <1>2, <1>3, <1>4, <1>5, <1>6 DEF Next

(***************************************************************************)
(* Whatever clients free and in whichever order, the list heads, the links *)
(* of the nodes and the local variables of every call are nodes of the     *)
(* reserved space or NULL, even once the lists no longer are what they     *)
(* should be.                                                              *)
(***************************************************************************)
THEOREM TypeCorrect == Spec => []TypeOK
<1>1. Init => TypeOK
  BY InitTypeOK
<1>2. TypeOK /\ [Next]_vars => TypeOK'
  BY NextTypeOK
<1> QED BY <1>1, <1>2, PTL DEF Spec

-----------------------------------------------------------------------------
(***************************************************************************)
(* The lists.  Listed says of any nodes m, heads and set F of nodes what   *)
(* FreeListsIntact and ListsEnd say of the allocator's own, so that it can *)
(* be said between the steps of a merge.  A list stays one when a node is  *)
(* pushed, and when a node is unlinked, wherever in its list it is.        *)
(***************************************************************************)
HeadsListed(m, heads, F) ==
  \A l \in Levels : heads[l] # Null =>
    heads[l] \in F /\ m[heads[l]].Level = l /\ m[heads[l]].SizeNext = Null

PreviousListed(m, F, a) ==
  LET previous == m[a].SizePrevious IN
    previous # Null =>
      previous \in F /\ m[previous].Level = m[a].Level /\ m[previous].SizeNext = a

NextListed(m, heads, F, a) ==
  LET next == m[a].SizeNext IN
    /\ next = Null => heads[m[a].Level] = a
    /\ next # Null => next \in F /\ m[next].Level = m[a].Level /\ m[next].SizePrevious = a

EndListed(m, F) ==
  \A S \in SUBSET F : S # {} => \E a \in S : m[a].SizeNext \notin S

Listed(m, heads, F) ==
  /\ Null \notin F
  /\ HeadsListed(m, heads, F)
  /\ \A a \in F : m[a].Level \in Levels /\ PreviousListed(m, F, a) /\ NextListed(m, heads, F, a)
  /\ EndListed(m, F)

\* m2 and heads2 are m and heads with the node pushed to the list of its level.
Pushes(m, heads, F, node, level, m2, heads2) ==
  /\ m2[node].Level = level
  /\ m2[node].SizePrevious = heads[level]
  /\ m2[node].SizeNext = Null
  /\ \A a \in F :
       /\ m2[a].Level = m[a].Level
       /\ m2[a].SizePrevious = m[a].SizePrevious
       /\ m2[a].SizeNext = IF a = heads[level] THEN node ELSE m[a].SizeNext
  /\ heads2[level] = node
  /\ \A l \in Levels \ {level} : heads2[l] = heads[l]

\* m2 and heads2 are m and heads without the node.
Unlinks(m, heads, F, node, m2, heads2) ==
  /\ \A a \in F \ {node} :
       /\ m2[a].Level = m[a].Level
       /\ m2[a].SizeNext = IF a = m[node].SizePrevious THEN m[node].SizeNext ELSE m[a].SizeNext
       /\ m2[a].SizePrevious = IF a = m[node].SizeNext THEN m[node].SizePrevious
                               ELSE m[a].SizePrevious
  /\ heads2[m[node].Level] = HeadWithout(m, node, heads[m[node].Level])
  /\ \A l \in Levels \ {m[node].Level} : heads2[l] = heads[l]

LEMMA PushKeepsListed ==
  ASSUME NEW m, NEW heads, NEW F, Listed(m, heads, F),
         NEW node, node \notin F, node # Null, NEW level \in Levels,
         NEW m2, NEW heads2, Pushes(m, heads, F, node, level, m2, heads2)
  PROVE  Listed(m2, heads2, F \cup {node})
<1> DEFINE G == F \cup {node}
           head == heads[level]
<1>1. head # Null => head \in F /\ m[head].Level = level /\ m[head].SizeNext = Null
  BY DEF Listed, HeadsListed
<1>2. HeadsListed(m2, heads2, G)
  <2> SUFFICES ASSUME NEW l \in Levels, heads2[l] # Null
               PROVE  /\ heads2[l] \in G /\ m2[heads2[l]].Level = l
                      /\ m2[heads2[l]].SizeNext = Null
    BY DEF HeadsListed
  <2>1. CASE l = level
    BY <2>1 DEF Pushes
  <2>2. CASE l # level
    <3>1. /\ heads2[l] = heads[l] /\ heads[l] \in F
          /\ m[heads[l]].Level = l /\ m[heads[l]].SizeNext = Null
      BY <2>2 DEF Pushes, Listed, HeadsListed
    <3>2. heads[l] # head
      BY <1>1, <2>2, <3>1 DEF Listed
    <3> QED BY <3>1, <3>2 DEF Pushes
  <2> QED BY <2>1, <2>2
<1>3. ASSUME NEW a \in G
      PROVE  m2[a].Level \in Levels /\ PreviousListed(m2, G, a) /\ NextListed(m2, heads2, G, a)
  <2>1. CASE a = node
    BY <1>1, <2>1 DEF Pushes, PreviousListed, NextListed
  <2>2. CASE a # node
    <3>1. /\ a \in F /\ m[a].Level \in Levels
          /\ PreviousListed(m, F, a) /\ NextListed(m, heads, F, a)
      BY <2>2 DEF Listed
    <3>2. PreviousListed(m2, G, a)
      <4>1. SUFFICES ASSUME m2[a].SizePrevious # Null
                     PROVE  /\ m2[a].SizePrevious \in G
                            /\ m2[m2[a].SizePrevious].Level = m2[a].Level
                            /\ m2[m2[a].SizePrevious].SizeNext = a
        BY DEF PreviousListed
      <4> DEFINE previous == m[a].SizePrevious
      <4>2. m2[a].SizePrevious = previous
        BY <3>1 DEF Pushes
      <4>3. previous \in F /\ m[previous].Level = m[a].Level /\ m[previous].SizeNext = a
        BY <3>1, <4>1, <4>2 DEF PreviousListed
      <4>4. previous # head
        BY <1>1, <3>1, <4>3 DEF Listed
      <4> QED BY <3>1, <4>2, <4>3, <4>4 DEF Pushes
    <3>3. NextListed(m2, heads2, G, a)
      <4>1. CASE a = head
        <5>1. m[a].Level = level /\ a # Null
          BY <1>1, <3>1, <4>1 DEF Listed
        <5> QED BY <3>1, <4>1, <5>1 DEF NextListed, Pushes
      <4>2. CASE a # head
        <5>1. m2[a].SizeNext = m[a].SizeNext /\ m2[a].Level = m[a].Level
          BY <3>1, <4>2 DEF Pushes
        <5>2. CASE m[a].SizeNext = Null
          <6>1. heads[m[a].Level] = a
            BY <3>1, <5>2 DEF NextListed
          <6> QED BY <3>1, <4>2, <5>1, <5>2, <6>1 DEF NextListed, Pushes
        <5>3. CASE m[a].SizeNext # Null
          BY <3>1, <5>1, <5>3 DEF NextListed, Pushes
        <5> QED BY <5>2, <5>3
      <4> QED BY <4>1, <4>2
    <3> QED BY <3>1, <3>2, <3>3 DEF Pushes
  <2> QED BY <2>1, <2>2
<1>4. EndListed(m2, G)
  <2> SUFFICES ASSUME NEW S \in SUBSET G, S # {}
               PROVE  \E a \in S : m2[a].SizeNext \notin S
    BY DEF EndListed
  <2>1. CASE node \in S
    BY <2>1 DEF Pushes, Listed
  <2>2. CASE node \notin S
    <3>1. PICK a \in S : m[a].SizeNext \notin S
      BY <2>2 DEF Listed, EndListed
    <3>2. m2[a].SizeNext \notin S
      BY <2>2, <3>1 DEF Pushes
    <3> QED BY <3>2
  <2> QED BY <2>1, <2>2
<1> QED BY <1>2, <1>3, <1>4 DEF Listed

LEMMA UnlinkKeepsListed ==
  ASSUME NEW m, NEW heads, NEW F, Listed(m, heads, F), NEW node \in F,
         NEW m2, NEW heads2, Unlinks(m, heads, F, node, m2, heads2)
  PROVE  Listed(m2, heads2, F \ {node})
<1> DEFINE G == F \ {node}
           level == m[node].Level
           below == m[node].SizePrevious
           above == m[node].SizeNext
<1>1. /\ level \in Levels /\ node # Null
      /\ below # Null => below \in G /\ m[below].Level = level /\ m[below].SizeNext = node
      /\ above # Null => above \in G /\ m[above].Level = level /\ m[above].SizePrevious = node
      /\ above = Null => heads[level] = node
  <2>1. level \in Levels /\ PreviousListed(m, F, node) /\ NextListed(m, heads, F, node)
    BY DEF Listed
  <2>2. above # node
    <3>1. \E a \in {node} : m[a].SizeNext \notin {node}
      <4>1. {node} \in SUBSET F /\ {node} # {}
        OBVIOUS
      <4> QED BY <4>1 DEF Listed, EndListed
    <3> QED BY <3>1
  <2>3. below # node
    BY <2>1, <2>2 DEF PreviousListed, Listed
  <2> QED BY <2>1, <2>2, <2>3 DEF PreviousListed, NextListed, Listed
<1> HIDE DEF level, below, above
<1>2. /\ \A a \in G :
           /\ m2[a].Level = m[a].Level
           /\ m2[a].SizeNext = IF a = below THEN above ELSE m[a].SizeNext
           /\ m2[a].SizePrevious = IF a = above THEN below ELSE m[a].SizePrevious
      /\ heads2[level] = IF above = Null THEN below ELSE heads[level]
      /\ \A l \in Levels \ {level} : heads2[l] = heads[l]
  BY DEF Unlinks, HeadWithout, level, below, above
<1>3. /\ \A a \in G : a # Null /\ m[a].Level \in Levels
      /\ \A a \in G : m[a].SizePrevious # Null =>
           /\ m[a].SizePrevious \in F /\ m[m[a].SizePrevious].Level = m[a].Level
           /\ m[m[a].SizePrevious].SizeNext = a
      /\ \A a \in G : m[a].SizeNext # Null =>
           /\ m[a].SizeNext \in F /\ m[m[a].SizeNext].Level = m[a].Level
           /\ m[m[a].SizeNext].SizePrevious = a
      /\ \A a \in G : m[a].SizeNext = Null => heads[m[a].Level] = a
  BY DEF Listed, PreviousListed, NextListed
<1>4. HeadsListed(m2, heads2, G)
  <2> SUFFICES ASSUME NEW l \in Levels, heads2[l] # Null
               PROVE  /\ heads2[l] \in G /\ m2[heads2[l]].Level = l
                      /\ m2[heads2[l]].SizeNext = Null
    BY DEF HeadsListed
  <2>1. heads[l] # Null =>
          heads[l] \in F /\ m[heads[l]].Level = l /\ m[heads[l]].SizeNext = Null
    BY DEF Listed, HeadsListed
  <2>2. CASE l = level /\ above = Null
    BY <1>1, <1>2, <2>2
  <2>3. CASE l = level /\ above # Null
    <3>1. heads2[l] = heads[l] /\ heads[l] # node
      BY <1>2, <2>1, <2>3 DEF above
    <3>2. heads[l] # below
      BY <1>1, <2>1, <3>1
    <3> QED BY <1>2, <2>1, <3>1, <3>2
  <2>4. CASE l # level
    <3>1. heads2[l] = heads[l] /\ heads[l] # node
      BY <1>2, <2>1, <2>4 DEF level
    <3>2. heads[l] # below
      BY <1>1, <2>1, <2>4, <3>1
    <3> QED BY <1>2, <2>1, <3>1, <3>2
  <2> QED BY <2>2, <2>3, <2>4
<1>5. ASSUME NEW a \in G
      PROVE  PreviousListed(m2, G, a)
  <2>1. CASE a = above
    <3>1. m2[a].SizePrevious = below /\ m2[a].Level = level
      BY <1>1, <1>2, <1>3, <2>1
    <3>2. below # Null => m2[below].Level = level /\ m2[below].SizeNext = a
      BY <1>1, <1>2, <2>1
    <3> QED BY <1>1, <3>1, <3>2 DEF PreviousListed
  <2>2. CASE a # above
    <3> DEFINE previous == m[a].SizePrevious
    <3>1. m2[a].SizePrevious = previous /\ m2[a].Level = m[a].Level
      BY <1>2, <2>2
    <3>2. previous # Null => previous \in G /\ previous # below
      BY <1>1, <1>3, <2>2 DEF above
    <3> QED BY <1>2, <1>3, <3>1, <3>2 DEF PreviousListed
  <2> QED BY <2>1, <2>2
<1>6. ASSUME NEW a \in G
      PROVE  NextListed(m2, heads2, G, a)
  <2>1. CASE a = below
    <3>1. m2[a].SizeNext = above /\ m2[a].Level = level
      BY <1>1, <1>2, <1>3, <2>1
    <3>2. above # Null => m2[above].Level = level /\ m2[above].SizePrevious = a
      BY <1>1, <1>2, <2>1
    <3> QED BY <1>1, <1>2, <2>1, <3>1, <3>2 DEF NextListed
  <2>2. CASE a # below
    <3> DEFINE next == m[a].SizeNext
    <3>1. m2[a].SizeNext = next /\ m2[a].Level = m[a].Level
      BY <1>2, <2>2
    <3>2. next # Null => next \in G /\ next # above
      BY <1>1, <1>3, <2>2 DEF below
    <3>3. next = Null => heads2[m[a].Level] = a
      BY <1>1, <1>2, <1>3
    <3> QED BY <1>2, <1>3, <3>1, <3>2, <3>3 DEF NextListed
  <2> QED BY <2>1, <2>2
<1>7. EndListed(m2, G)
  <2> SUFFICES ASSUME NEW S \in SUBSET G, S # {}
               PROVE  \E a \in S : m2[a].SizeNext \notin S
    BY DEF EndListed
  <2>1. CASE above \in S
    <3>1. PICK a \in S \cup {node} : m[a].SizeNext \notin S \cup {node}
      BY DEF Listed, EndListed
    <3>2. a \in S /\ a # below
      BY <1>1, <1>3, <2>1, <3>1 DEF above
    <3> QED BY <1>2, <3>1, <3>2
  <2>2. CASE above \notin S
    <3>1. PICK a \in S : m[a].SizeNext \notin S
      BY DEF Listed, EndListed
    <3> QED BY <1>2, <2>2, <3>1
  <2> QED BY <2>1, <2>2
<1> QED BY <1>2, <1>3, <1>4, <1>5, <1>6, <1>7 DEF Listed

\* Nodes that are in no list, and links between neighbours, do not matter.
SameLists(m, heads, F, m2, heads2) ==
  /\ \A a \in F : /\ m2[a].Level = m[a].Level
                  /\ m2[a].SizePrevious = m[a].SizePrevious
                  /\ m2[a].SizeNext = m[a].SizeNext
  /\ \A l \in Levels : heads2[l] = heads[l]

LEMMA SameKeepsListed ==
  ASSUME NEW m, NEW heads, NEW F, Listed(m, heads, F),
         NEW m2, NEW heads2, SameLists(m, heads, F, m2, heads2)
  PROVE  Listed(m2, heads2, F)
<1>1. HeadsListed(m2, heads2, F)
  BY DEF Listed, HeadsListed, SameLists
<1>2. ASSUME NEW a \in F
      PROVE  m2[a].Level \in Levels /\ PreviousListed(m2, F, a) /\ NextListed(m2, heads2, F, a)
  BY DEF Listed, PreviousListed, NextListed, SameLists
<1>3. EndListed(m2, F)
  <2> SUFFICES ASSUME NEW S \in SUBSET F, S # {}
               PROVE  \E a \in S : m2[a].SizeNext \notin S
    BY DEF EndListed
  <2>1. PICK a \in S : m[a].SizeNext \notin S
    BY DEF Listed, EndListed
  <2> QED BY <2>1 DEF SameLists
<1> QED BY <1>1, <1>2, <1>3 DEF Listed

(***************************************************************************)
(* A level that has a free block has a head.                               *)
(***************************************************************************)
LEMMA HeadExists ==
  ASSUME NEW m, NEW heads, NEW F, Listed(m, heads, F), NEW a \in F
  PROVE  heads[m[a].Level] # Null
<1> DEFINE S == {b \in F : m[b].Level = m[a].Level}
<1>1. PICK b \in S : m[b].SizeNext \notin S
  <2>1. S \in SUBSET F /\ a \in S
    OBVIOUS
  <2> QED BY <2>1 DEF Listed, EndListed
<1>2. m[b].SizeNext = Null
  BY <1>1 DEF Listed, NextListed
<1> QED BY <1>2 DEF Listed, NextListed

-----------------------------------------------------------------------------
(***************************************************************************)
(* Nodes and the memory they stand for.                                    *)
(***************************************************************************)
LEMMA NodeAtFacts ==
  ASSUME TypeOK, NEW level \in 0 .. MaxLevel + 1, NEW a, NEW pointer,
         NodeAt(KernelMmap, a, pointer, level)
  PROVE  /\ a \in Slots(KernelMmap)
         /\ pointer \in Nat \ {Null}
         /\ pointer .. pointer + BlockSize(level) - 1 \subseteq Memory
<1>1. PICK e \in DOMAIN KernelMmap :
        \E page \in 0 .. DataPages(KernelMmap[e]) - BlockPages[level] :
          a = KernelMmap[e].Base + page /\ pointer = PagePointer(KernelMmap[e], page)
  BY DEF NodeAt
<1>1a. PICK page \in 0 .. DataPages(KernelMmap[e]) - BlockPages[level] :
        a = KernelMmap[e].Base + page /\ pointer = PagePointer(KernelMmap[e], page)
  BY <1>1
<1> DEFINE entry == KernelMmap[e]
           pages == BlockPages[level]
<1>2. /\ entry.Base \in Nat \ {0} /\ entry.Limit \in Nat /\ DataStart(entry) \in Nat
      /\ DataPages(entry) \in Int /\ DataPages(entry) <= ReservedSpace(entry)
      /\ ReservedSpace(entry) \in Nat
      /\ DataStart(entry) = entry.Base + ReservedSpace(entry)
      /\ DataStart(entry) + DataPages(entry) * ScalingFactor = entry.Base + entry.Limit
  BY EntryShape DEF TypeOK, DataStart
<1>3. pages \in Nat \ {0} /\ page \in Nat /\ page + pages <= DataPages(entry)
  BY <1>2, LevelTypes
<1>4. /\ (page + pages) * ScalingFactor <= DataPages(entry) * ScalingFactor
      /\ (page + pages) * ScalingFactor = page * ScalingFactor + pages * ScalingFactor
      /\ page * ScalingFactor \in Nat /\ pages * ScalingFactor \in Nat
      /\ DataPages(entry) * ScalingFactor \in Nat
  BY <1>2, <1>3, ScalingFactorAssumption
<1>5. pointer = DataStart(entry) + page * ScalingFactor /\ BlockSize(level) = pages * ScalingFactor
  BY <1>1a DEF PagePointer, BlockSize
<1> HIDE DEF entry, pages
<1>6. pointer \in Nat \ {0} /\ DataStart(entry) <= pointer
  <2>1. DataStart(entry) \in Nat \ {0}
    BY <1>2
  <2>2. page * ScalingFactor \in Nat
    BY <1>4
  <2> QED BY <1>5, <2>1, <2>2
<1>7. pointer + BlockSize(level) <= entry.Base + entry.Limit
  BY <1>2, <1>4, <1>5
<1>8. pointer .. pointer + BlockSize(level) - 1 \subseteq EntryMemory(entry)
  BY <1>2, <1>4, <1>5, <1>6, <1>7 DEF EntryMemory
<1>9. a \in Slots(KernelMmap)
  <2>1. a \in Int /\ entry.Base <= a /\ a < DataStart(entry)
    BY <1>1a, <1>2, <1>3 DEF entry
  <2> QED BY <2>1, SlotOfEntry DEF entry, TypeOK
<1> QED BY <1>6, <1>8, <1>9 DEF Memory, entry, Null

LEMMA NodeAtUnique ==
  ASSUME TypeOK, NEW k \in 0 .. MaxLevel + 1, NEW l \in 0 .. MaxLevel + 1,
         NEW a, NEW p, NEW q, NodeAt(KernelMmap, a, p, k), NodeAt(KernelMmap, a, q, l)
  PROVE  p = q
<1>1. PICK e \in DOMAIN KernelMmap :
        \E i \in 0 .. DataPages(KernelMmap[e]) - BlockPages[k] :
          a = KernelMmap[e].Base + i /\ p = PagePointer(KernelMmap[e], i)
  BY DEF NodeAt
<1>1a. PICK i \in 0 .. DataPages(KernelMmap[e]) - BlockPages[k] :
        a = KernelMmap[e].Base + i /\ p = PagePointer(KernelMmap[e], i)
  BY <1>1
<1>2. PICK f \in DOMAIN KernelMmap :
        \E j \in 0 .. DataPages(KernelMmap[f]) - BlockPages[l] :
          a = KernelMmap[f].Base + j /\ q = PagePointer(KernelMmap[f], j)
  BY DEF NodeAt
<1>2a. PICK j \in 0 .. DataPages(KernelMmap[f]) - BlockPages[l] :
        a = KernelMmap[f].Base + j /\ q = PagePointer(KernelMmap[f], j)
  BY <1>2
<1>3. /\ KernelMmap[e].Base \in Nat /\ KernelMmap[e].Limit \in Nat
      /\ DataPages(KernelMmap[e]) \in Int /\ DataPages(KernelMmap[e]) < KernelMmap[e].Limit
      /\ KernelMmap[f].Base \in Nat /\ KernelMmap[f].Limit \in Nat
      /\ DataPages(KernelMmap[f]) \in Int /\ DataPages(KernelMmap[f]) < KernelMmap[f].Limit
  BY EntryShape DEF TypeOK
<1>4. BlockPages[k] \in Nat /\ BlockPages[l] \in Nat
  BY LevelTypes
<1>5. a < KernelMmap[e].Base + KernelMmap[e].Limit /\ KernelMmap[e].Base <= a
  BY <1>1a, <1>3, <1>4
<1>6. a < KernelMmap[f].Base + KernelMmap[f].Limit /\ KernelMmap[f].Base <= a /\ a \in Int
  BY <1>2a, <1>3, <1>4
<1>7. e \in Int /\ f \in Int
  BY MapIsSequence DEF TypeOK
<1>8. /\ e < f => KernelMmap[e].Base + KernelMmap[e].Limit <= KernelMmap[f].Base
      /\ f < e => KernelMmap[f].Base + KernelMmap[f].Limit <= KernelMmap[e].Base
  BY MemoryMapAssumption DEF TypeOK
<1>9. e = f
  BY <1>3, <1>5, <1>6, <1>7, <1>8
<1>10. i = j
  BY <1>1a, <1>2a, <1>3, <1>9
<1> QED BY <1>1a, <1>2a, <1>9, <1>10

LEMMA NodeAtHalves ==
  ASSUME TypeOK, NEW l \in Levels, NEW a, NEW pointer, NodeAt(KernelMmap, a, pointer, l + 1)
  PROVE  /\ NodeAt(KernelMmap, a, pointer, l)
         /\ NodeAt(KernelMmap, a + BlockPages[l], pointer + BlockSize(l), l)
<1>1. PICK e \in DOMAIN KernelMmap :
        \E page \in 0 .. DataPages(KernelMmap[e]) - BlockPages[l + 1] :
          a = KernelMmap[e].Base + page /\ pointer = PagePointer(KernelMmap[e], page)
  BY DEF NodeAt
<1>1a. PICK page \in 0 .. DataPages(KernelMmap[e]) - BlockPages[l + 1] :
        a = KernelMmap[e].Base + page /\ pointer = PagePointer(KernelMmap[e], page)
  BY <1>1
<1> DEFINE pages == BlockPages[l]
           second == page + pages
<1>2. pages \in Nat \ {0} /\ BlockPages[l + 1] = 2 * pages
  BY LevelTypes, LevelAssumption
<1>3. /\ KernelMmap[e].Base \in Nat /\ DataPages(KernelMmap[e]) \in Int
      /\ DataStart(KernelMmap[e]) \in Nat
  BY EntryShape DEF TypeOK
<1>4. /\ page \in 0 .. DataPages(KernelMmap[e]) - pages
      /\ second \in 0 .. DataPages(KernelMmap[e]) - pages
  BY <1>2, <1>3
<1>5. second * ScalingFactor = page * ScalingFactor + pages * ScalingFactor
  BY <1>2, <1>4, ScalingFactorAssumption
<1>6. PagePointer(KernelMmap[e], second) = pointer + BlockSize(l)
  <2>1. page * ScalingFactor \in Int /\ pages * ScalingFactor \in Int
    BY <1>2, <1>4, ScalingFactorAssumption
  <2> QED BY <1>1a, <1>3, <1>5, <2>1 DEF PagePointer, BlockSize
<1>7. a + pages = KernelMmap[e].Base + second
  BY <1>1a, <1>2, <1>3
<1> QED BY <1>1a, <1>4, <1>6, <1>7 DEF NodeAt

-----------------------------------------------------------------------------
(***************************************************************************)
(* What pushing and popping does to the nodes, and to the memory that the  *)
(* free blocks stand for.                                                  *)
(***************************************************************************)
LEMMA IntactIsListed ==
  ASSUME TypeOK, FreeListsIntact, ListsEnd
  PROVE  Listed(mem, Nodes, FreeNodes)
<1>1. Null \notin Slots(KernelMmap)
  BY SlotsAreNat DEF TypeOK, Null
<1>2. /\ FreeNodes \subseteq Slots(KernelMmap)
      /\ \A a \in Slots(KernelMmap) : IsFree(a) => a \in FreeNodes
      /\ \A a \in FreeNodes : /\ mem[a].SizePrevious \in Slot /\ mem[a].SizeNext \in Slot
                              /\ mem[a].Level \in Levels
      /\ \A l \in Levels : Nodes[l] \in Slot
  BY DEF TypeOK, NodeRecords, FreeNodes
<1>3. HeadsListed(mem, Nodes, FreeNodes)
  BY <1>2 DEF HeadsListed, FreeListsIntact, Slot
<1>4. ASSUME NEW a \in FreeNodes
      PROVE  PreviousListed(mem, FreeNodes, a) /\ NextListed(mem, Nodes, FreeNodes, a)
  <2>1. FollowsPrevious(a) /\ PrecedesNext(a)
    BY DEF FreeListsIntact
  <2> QED BY <1>2, <2>1 DEF PreviousListed, NextListed, FollowsPrevious, PrecedesNext, Slot
<1> QED BY <1>1, <1>2, <1>3, <1>4 DEF Listed, EndListed, ListsEnd

LEMMA ListedIsIntact ==
  ASSUME Listed(mem', Nodes', FreeNodes')
  PROVE  FreeListsIntact' /\ ListsEnd'
<1>1. \A a \in FreeNodes' : IsFree(a)'
  BY DEF FreeNodes
<1>2. \A a \in FreeNodes' : FollowsPrevious(a)' /\ PrecedesNext(a)'
  BY <1>1 DEF Listed, PreviousListed, NextListed, FollowsPrevious, PrecedesNext
<1>3. \A l \in Levels : Nodes'[l] # Null =>
        IsFree(Nodes[l])' /\ mem'[Nodes'[l]].Level = l /\ mem'[Nodes'[l]].SizeNext = Null
  BY <1>1 DEF Listed, HeadsListed
<1> QED BY <1>2, <1>3 DEF FreeListsIntact, ListsEnd, Listed, EndListed

PushEffect(m, heads, node, pointer, level, m2, heads2) ==
  /\ DOMAIN m2 = Slots(KernelMmap)
  /\ m2[node].Pointer = pointer
  /\ \A a \in Slots(KernelMmap) \ {node} : m2[a].Pointer = m[a].Pointer
  /\ Pushes(m, heads, Slots(KernelMmap) \ {node}, node, level, m2, heads2)

LEMMA PushedFields ==
  ASSUME NEW m \in [Slots(KernelMmap) -> NodeRecords], NEW heads \in [Levels -> Slot],
         NEW node \in Slots(KernelMmap), NEW pointer \in Nat,
         NEW previous \in Slot, NEW next \in Slot, NEW level \in Levels,
         NEW m2, m2 = Pushed(m, heads, node, pointer, previous, next, level),
         NEW heads2, heads2 = [heads EXCEPT ![level] = node]
  PROVE  PushEffect(m, heads, node, pointer, level, m2, heads2)
<1>1. m2 = [a \in Slots(KernelMmap) |->
     IF a = node
     THEN [Pointer |-> pointer, PosPrevious |-> previous, PosNext |-> next,
           SizePrevious |-> heads[level], SizeNext |-> Null, Level |-> level]
     ELSE [m[a] EXCEPT !.PosNext     = IF a = previous THEN node ELSE @,
                       !.PosPrevious = IF a = next THEN node ELSE @,
                       !.SizeNext    = IF a = heads[level] THEN node ELSE @]]
  BY DEF Pushed
<1>2. \A a \in Slots(KernelMmap) : m[a] \in NodeRecords
  OBVIOUS
<1>3. m2[node] = [Pointer |-> pointer, PosPrevious |-> previous, PosNext |-> next,
                  SizePrevious |-> heads[level], SizeNext |-> Null, Level |-> level]
  BY <1>1
<1>4. ASSUME NEW a \in Slots(KernelMmap) \ {node}
      PROVE  /\ m2[a].Pointer = m[a].Pointer
             /\ m2[a].Level = m[a].Level
             /\ m2[a].SizePrevious = m[a].SizePrevious
             /\ m2[a].SizeNext = IF a = heads[level] THEN node ELSE m[a].SizeNext
  <2>1. PICK own : own = m[a]
    OBVIOUS
  <2>2. m2[a] = [own EXCEPT !.PosNext     = IF a = previous THEN node ELSE own.PosNext,
                            !.PosPrevious = IF a = next THEN node ELSE own.PosPrevious,
                            !.SizeNext    = IF a = heads[level] THEN node ELSE own.SizeNext]
    BY <1>1, <2>1
  <2>3. own \in NodeRecords
    BY <1>2, <2>1
  <2> QED BY <2>1, <2>2, <2>3 DEF NodeRecords
<1>5. heads2[level] = node /\ \A l \in Levels \ {level} : heads2[l] = heads[l]
  OBVIOUS
<1>6. DOMAIN m2 = Slots(KernelMmap)
  BY <1>1
<1> QED BY <1>3, <1>4, <1>5, <1>6 DEF PushEffect, Pushes

LEMMA PoppedFields ==
  ASSUME TypeOK, FreeListsIntact, ListsEnd,
         NEW level \in Levels, CanPop(level), PopBlock(level)
  PROVE  /\ Nodes[level] \in FreeNodes /\ mem[Nodes[level]].Level = level
         /\ DOMAIN mem' = Slots(KernelMmap)
         /\ mem'[Nodes[level]].Pointer = Null
         /\ \A a \in Slots(KernelMmap) \ {Nodes[level]} :
              mem'[a].Pointer = mem[a].Pointer /\ mem'[a].Level = mem[a].Level
         /\ Unlinks(mem, Nodes, FreeNodes, Nodes[level], mem', Nodes')
<1> DEFINE node == Nodes[level]
           own  == mem[node]
<1>1. /\ node \in Slots(KernelMmap) /\ node \in FreeNodes
      /\ mem[node].Level = level /\ mem[node].SizeNext = Null
  BY DEF CanPop, TypeOK, Slot, FreeListsIntact, FreeNodes
<1>2. mem' = [a \in Slots(KernelMmap) |->
           IF a = node THEN EmptyNode
           ELSE [mem[a] EXCEPT
                   !.PosNext     = IF a = own.PosPrevious THEN own.PosNext ELSE @,
                   !.PosPrevious = IF a = own.PosNext THEN own.PosPrevious ELSE @,
                   !.SizeNext    = IF a = own.SizePrevious THEN Null ELSE @]]
  BY DEF PopBlock, TypeOK
<1>3. \A a \in Slots(KernelMmap) : mem[a] \in NodeRecords
  BY DEF TypeOK
<1>4. Nodes' = [Nodes EXCEPT ![level] = own.SizePrevious] /\ Nodes \in [Levels -> Slot]
  BY DEF PopBlock, TypeOK
<1>5. Null \notin FreeNodes /\ FreeNodes \subseteq Slots(KernelMmap)
  BY SlotsAreNat DEF TypeOK, Null, FreeNodes
<1> HIDE DEF own
<1>6. /\ mem'[node] = EmptyNode
      /\ \A a \in Slots(KernelMmap) \ {node} :
              /\ mem'[a].Pointer = mem[a].Pointer
              /\ mem'[a].Level = mem[a].Level
              /\ mem'[a].SizePrevious = mem[a].SizePrevious
              /\ mem'[a].SizeNext =
                   IF a = own.SizePrevious THEN Null ELSE mem[a].SizeNext
  BY <1>1, <1>2, <1>3 DEF NodeRecords
<1>7. Nodes'[level] = own.SizePrevious /\ \A l \in Levels \ {level} : Nodes'[l] = Nodes[l]
  BY <1>4
<1>8. Unlinks(mem, Nodes, FreeNodes, node, mem', Nodes')
  BY <1>1, <1>5, <1>6, <1>7 DEF Unlinks, HeadWithout, own
<1>9. DOMAIN mem' = Slots(KernelMmap) /\ mem'[node].Pointer = Null
  <2>1. DOMAIN mem' = Slots(KernelMmap)
    BY <1>2
  <2>2. EmptyNode.Pointer = Null
    BY DEF EmptyNode
  <2> QED BY <1>6, <2>1, <2>2
<1> QED BY <1>1, <1>6, <1>8, <1>9

(***************************************************************************)
(* A block becomes free that is apart from all that are, or ceases to be.  *)
(***************************************************************************)
FreeKeep(nodes) ==
  /\ Listed(mem', Nodes', FreeNodes')
  /\ DOMAIN mem' = DOMAIN mem
  /\ \A a \in nodes : mem'[a].Level = mem[a].Level /\ FreeExtent(a)' = FreeExtent(a)
  /\ \A a \in FreeNodes' : NodeAt(KernelMmap, a, mem'[a].Pointer, mem'[a].Level)

LEMMA PushStep ==
  ASSUME TypeOK, HeapInv, UNCHANGED KernelMmap,
         NEW level \in Levels, NEW node, NEW pointer, NodeAt(KernelMmap, node, pointer, level),
         NEW previous \in Slot, NEW next \in Slot,
         PushBlock(node, pointer, previous, next, level),
         \A a \in FreeNodes : FreeExtent(a) \cap (pointer .. pointer + BlockSize(level) - 1) = {}
  PROVE  /\ FreeKeep(FreeNodes)
         /\ node \notin FreeNodes /\ FreeNodes' = FreeNodes \cup {node}
         /\ FreeExtent(node)' = pointer .. pointer + BlockSize(level) - 1
         /\ Nodes'[level] = node
<1> DEFINE piece == pointer .. pointer + BlockSize(level) - 1
<1>1. /\ node \in Slots(KernelMmap) /\ pointer \in Nat \ {Null}
      /\ piece \subseteq Memory /\ pointer \in piece
  BY NodeAtFacts, LevelTypes, BlockSizes DEF Null
<1>2. \A a \in Slots(KernelMmap) : mem[a].Level \in Levels
  BY DEF TypeOK, NodeRecords
<1>3. node \notin FreeNodes
  <2>1. SUFFICES ASSUME node \in FreeNodes PROVE FALSE
    OBVIOUS
  <2>3. NodeAt(KernelMmap, node, mem[node].Pointer, mem[node].Level)
    BY <2>1 DEF HeapInv, NodesMatchBlocks
  <2>4. mem[node].Pointer = pointer
    BY <1>1, <1>2, <2>3, NodeAtUnique, LevelTypes
  <2>5. pointer \in FreeExtent(node)
    <3>1. BlockSize(mem[node].Level) \in Nat \ {0}
      BY <1>1, <1>2, LevelTypes, BlockSizes
    <3> QED BY <1>1, <2>4, <3>1 DEF FreeExtent
  <2> QED BY <1>1, <2>1, <2>5
<1>4. /\ DOMAIN mem' = Slots(KernelMmap)
      /\ mem'[node].Pointer = pointer
      /\ \A a \in Slots(KernelMmap) \ {node} : mem'[a].Pointer = mem[a].Pointer
      /\ Pushes(mem, Nodes, Slots(KernelMmap) \ {node}, node, level, mem', Nodes')
  <2>1. /\ mem' = Pushed(mem, Nodes, node, pointer, previous, next, level)
        /\ Nodes' = [Nodes EXCEPT ![level] = node]
    BY DEF PushBlock
  <2>2. mem \in [Slots(KernelMmap) -> NodeRecords] /\ Nodes \in [Levels -> Slot]
    BY DEF TypeOK
  <2> HIDE DEF piece
  <2>3. PushEffect(mem, Nodes, node, pointer, level, mem', Nodes')
    <3>1. node \in Slots(KernelMmap) /\ pointer \in Nat
      BY <1>1
    <3> QED BY <2>1, <2>2, <3>1, PushedFields
  <2> QED BY <2>3 DEF PushEffect
<1>5. FreeNodes' = FreeNodes \cup {node}
  BY <1>1, <1>4 DEF TypeOK, FreeNodes, IsFree
<1>6. Listed(mem', Nodes', FreeNodes \cup {node})
  <2>1. Listed(mem, Nodes, FreeNodes)
    BY IntactIsListed DEF HeapInv
  <2>2. Pushes(mem, Nodes, FreeNodes, node, level, mem', Nodes')
    BY <1>3, <1>4 DEF Pushes, FreeNodes, TypeOK
  <2>3. node # Null
    BY <1>1, SlotsAreNat DEF TypeOK, Null
  <2> QED BY <1>3, <2>1, <2>2, <2>3, PushKeepsListed
<1>7. /\ mem'[node].Level = level
      /\ \A a \in FreeNodes :
           mem'[a].Level = mem[a].Level /\ mem'[a].Pointer = mem[a].Pointer
  BY <1>3, <1>4 DEF Pushes, FreeNodes, TypeOK
<1>8. /\ FreeExtent(node)' = piece
      /\ \A a \in FreeNodes : FreeExtent(a)' = FreeExtent(a)
  BY <1>4, <1>7 DEF FreeExtent
<1>9. \A a \in FreeNodes' : NodeAt(KernelMmap, a, mem'[a].Pointer, mem'[a].Level)
  BY <1>4, <1>5, <1>7 DEF HeapInv, NodesMatchBlocks
<1>10. Nodes'[level] = node
  BY <1>4 DEF Pushes
<1> QED BY <1>3, <1>4, <1>5, <1>6, <1>7, <1>8, <1>9, <1>10 DEF FreeKeep, TypeOK

LEMMA PopStep ==
  ASSUME TypeOK, HeapInv, UNCHANGED KernelMmap,
         NEW level \in Levels, CanPop(level), PopBlock(level)
  PROVE  /\ FreeKeep(FreeNodes')
         /\ Nodes[level] \in FreeNodes /\ mem[Nodes[level]].Level = level
         /\ FreeNodes' = FreeNodes \ {Nodes[level]}
<1>1. PICK node : node = Nodes[level]
  OBVIOUS
<1>2. /\ node \in FreeNodes /\ mem[node].Level = level
      /\ DOMAIN mem' = Slots(KernelMmap)
      /\ mem'[node].Pointer = Null
      /\ \A a \in Slots(KernelMmap) \ {node} :
           mem'[a].Pointer = mem[a].Pointer /\ mem'[a].Level = mem[a].Level
      /\ Unlinks(mem, Nodes, FreeNodes, node, mem', Nodes')
  BY <1>1, PoppedFields DEF HeapInv
<1>3. FreeNodes' = FreeNodes \ {node}
  BY <1>2 DEF FreeNodes, IsFree, TypeOK
<1>4. Listed(mem', Nodes', FreeNodes \ {node})
  <2>1. Listed(mem, Nodes, FreeNodes)
    BY IntactIsListed DEF HeapInv
  <2> QED BY <1>2, <2>1, UnlinkKeepsListed
<1>5. \A a \in FreeNodes' : /\ mem'[a].Pointer = mem[a].Pointer
                            /\ mem'[a].Level = mem[a].Level
                            /\ FreeExtent(a)' = FreeExtent(a)
  BY <1>2, <1>3 DEF FreeNodes, FreeExtent, TypeOK
<1>6. \A a \in FreeNodes' : NodeAt(KernelMmap, a, mem'[a].Pointer, mem'[a].Level)
  BY <1>3, <1>5 DEF HeapInv, NodesMatchBlocks
<1>7. DOMAIN mem' = DOMAIN mem
  BY <1>2 DEF TypeOK
<1> QED BY <1>1, <1>2, <1>3, <1>4, <1>5, <1>6, <1>7 DEF FreeKeep


-----------------------------------------------------------------------------
(***************************************************************************)
(* Buddies: two nodes as far apart as their blocks are wide stand for two  *)
(* blocks that lie next to each other, in one entry.                       *)
(***************************************************************************)
LEMMA BuddiesJoin ==
  ASSUME TypeOK, NEW l \in Levels, NEW left, NEW right, NEW p, NEW q,
         NodeAt(KernelMmap, left, p, l), NodeAt(KernelMmap, right, q, l),
         right - left = BlockPages[l]
  PROVE  q = p + BlockSize(l) /\ NodeAt(KernelMmap, left, p, l + 1)
<1>1. PICK e \in DOMAIN KernelMmap :
        \E i \in 0 .. DataPages(KernelMmap[e]) - BlockPages[l] :
          left = KernelMmap[e].Base + i /\ p = PagePointer(KernelMmap[e], i)
  BY DEF NodeAt
<1>1a. PICK i \in 0 .. DataPages(KernelMmap[e]) - BlockPages[l] :
        left = KernelMmap[e].Base + i /\ p = PagePointer(KernelMmap[e], i)
  BY <1>1
<1>2. PICK f \in DOMAIN KernelMmap :
        \E j \in 0 .. DataPages(KernelMmap[f]) - BlockPages[l] :
          right = KernelMmap[f].Base + j /\ q = PagePointer(KernelMmap[f], j)
  BY DEF NodeAt
<1>2a. PICK j \in 0 .. DataPages(KernelMmap[f]) - BlockPages[l] :
        right = KernelMmap[f].Base + j /\ q = PagePointer(KernelMmap[f], j)
  BY <1>2
<1> DEFINE pages == BlockPages[l]
<1>3. /\ KernelMmap[e].Base \in Nat /\ KernelMmap[e].Limit \in Nat
      /\ DataStart(KernelMmap[e]) \in Nat
      /\ DataPages(KernelMmap[e]) \in Int /\ DataPages(KernelMmap[e]) < KernelMmap[e].Limit
      /\ KernelMmap[f].Base \in Nat /\ KernelMmap[f].Limit \in Nat
      /\ DataPages(KernelMmap[f]) \in Int /\ DataPages(KernelMmap[f]) < KernelMmap[f].Limit
  BY EntryShape DEF TypeOK
<1>4. pages \in Nat \ {0} /\ BlockPages[l + 1] = 2 * pages
  BY LevelTypes, LevelAssumption
<1>5. right = KernelMmap[e].Base + (i + pages)
  BY <1>1a, <1>2a, <1>3, <1>4
<1> HIDE DEF pages
<1>6. /\ i \in 0 .. DataPages(KernelMmap[e]) - pages
      /\ j \in 0 .. DataPages(KernelMmap[f]) - pages
  BY DEF pages
<1>7. right < KernelMmap[e].Base + KernelMmap[e].Limit /\ KernelMmap[e].Base <= right
  BY <1>3, <1>4, <1>5, <1>6
<1>8. right < KernelMmap[f].Base + KernelMmap[f].Limit /\ KernelMmap[f].Base <= right
        /\ right \in Int
  BY <1>2a, <1>3, <1>4, <1>6
<1>9. e \in Int /\ f \in Int
  BY MapIsSequence DEF TypeOK
<1>10. /\ e < f => KernelMmap[e].Base + KernelMmap[e].Limit <= KernelMmap[f].Base
       /\ f < e => KernelMmap[f].Base + KernelMmap[f].Limit <= KernelMmap[e].Base
  BY MemoryMapAssumption DEF TypeOK
<1>11. e = f
  BY <1>3, <1>7, <1>8, <1>9, <1>10
<1>12. j = i + pages /\ i \in 0 .. DataPages(KernelMmap[e]) - 2 * pages
  BY <1>2a, <1>3, <1>4, <1>5, <1>6, <1>11
<1>13. q = p + BlockSize(l)
  <2>1. j * ScalingFactor = i * ScalingFactor + pages * ScalingFactor
    BY <1>4, <1>6, <1>12, ScalingFactorAssumption
  <2>2. i * ScalingFactor \in Int /\ pages * ScalingFactor \in Int
    BY <1>4, <1>6, ScalingFactorAssumption
  <2>3. /\ p = DataStart(KernelMmap[e]) + i * ScalingFactor
        /\ q = DataStart(KernelMmap[e]) + j * ScalingFactor
        /\ BlockSize(l) = pages * ScalingFactor
    BY <1>1a, <1>2a, <1>11 DEF PagePointer, BlockSize, pages
  <2> QED BY <1>3, <2>1, <2>2, <2>3
<1>14. NodeAt(KernelMmap, left, p, l + 1)
  BY <1>1a, <1>4, <1>12 DEF NodeAt
<1> QED BY <1>13, <1>14

(***************************************************************************)
(* FreeBlock() finds the entry and the node of a block again.              *)
(***************************************************************************)
LEMMA NodeFound ==
  ASSUME TypeOK, NEW l \in Levels, NEW a, NEW pointer, NodeAt(KernelMmap, a, pointer, l)
  PROVE  LET entry == KernelMmap[EntryOf(pointer)] IN
           /\ EntryOf(pointer) \in DOMAIN KernelMmap
           /\ a = entry.Base + (pointer - DataStart(entry)) \div ScalingFactor
           /\ a \in Nat /\ entry.Base <= a /\ a < DataStart(entry)
<1>1. PICK e \in DOMAIN KernelMmap :
        \E i \in 0 .. DataPages(KernelMmap[e]) - BlockPages[l] :
          a = KernelMmap[e].Base + i /\ pointer = PagePointer(KernelMmap[e], i)
  BY DEF NodeAt
<1>1a. PICK i \in 0 .. DataPages(KernelMmap[e]) - BlockPages[l] :
        a = KernelMmap[e].Base + i /\ pointer = PagePointer(KernelMmap[e], i)
  BY <1>1
<1>2. /\ KernelMmap[e].Base \in Nat \ {0} /\ KernelMmap[e].Limit \in Nat
      /\ DataStart(KernelMmap[e]) \in Nat
      /\ DataStart(KernelMmap[e]) = KernelMmap[e].Base + ReservedSpace(KernelMmap[e])
      /\ ReservedSpace(KernelMmap[e]) \in Nat
      /\ DataPages(KernelMmap[e]) \in Int
      /\ DataPages(KernelMmap[e]) <= ReservedSpace(KernelMmap[e])
      /\ DataStart(KernelMmap[e]) + DataPages(KernelMmap[e]) * ScalingFactor
           = KernelMmap[e].Base + KernelMmap[e].Limit
  BY EntryShape DEF TypeOK, DataStart
<1>3. PICK pages \in Nat \ {0} : pages = BlockPages[l]
  BY LevelTypes
<1>4. i \in Nat /\ i < DataPages(KernelMmap[e])
  <2>1. PICK total \in Int : total = DataPages(KernelMmap[e])
    BY <1>2
  <2>2. i \in 0 .. total - pages
    BY <1>3, <2>1
  <2>3. i \in Nat /\ i < total
    BY <2>2
  <2> QED BY <2>1, <2>3
<1>5. /\ i * ScalingFactor \in Nat /\ DataPages(KernelMmap[e]) * ScalingFactor \in Nat
      /\ i * ScalingFactor <= DataPages(KernelMmap[e]) * ScalingFactor
  BY <1>2, <1>4, ScalingFactorAssumption
<1>6. pointer = DataStart(KernelMmap[e]) + i * ScalingFactor
  BY <1>1a DEF PagePointer
<1>7. i < ReservedSpace(KernelMmap[e])
  BY <1>2, <1>4
<1>8. /\ KernelMmap[e].Base < pointer /\ pointer \in Nat
      /\ pointer <= KernelMmap[e].Base + KernelMmap[e].Limit
  BY <1>2, <1>4, <1>5, <1>6, <1>7
<1>9. DOMAIN KernelMmap = 1 .. Len(KernelMmap) /\ Len(KernelMmap) \in Nat
  BY MapIsSequence DEF TypeOK
<1>10. ASSUME NEW f \in 1 .. e - 1
       PROVE  ~Holds(f, pointer)
  <2>1. f \in DOMAIN KernelMmap /\ f < e
    BY <1>9
  <2>2. /\ KernelMmap[f].Base + KernelMmap[f].Limit <= KernelMmap[e].Base
        /\ KernelMmap[f].Base \in Nat /\ KernelMmap[f].Limit \in Nat
    BY <2>1, MemoryMapAssumption, EntryShape DEF TypeOK
  <2> QED BY <1>2, <1>8, <2>2 DEF Holds
<1>11. Holds(e, pointer)
  BY <1>2, <1>8 DEF Holds
<1>12. /\ EntryOf(pointer) \in DOMAIN KernelMmap /\ Holds(EntryOf(pointer), pointer)
       /\ \A f \in 1 .. EntryOf(pointer) - 1 : ~Holds(f, pointer)
  BY <1>10, <1>11, Zenon DEF EntryOf
<1>13. EntryOf(pointer) = e
  <2>1. PICK d : d = EntryOf(pointer)
    OBVIOUS
  <2>2. d \in 1 .. Len(KernelMmap) /\ e \in 1 .. Len(KernelMmap)
    BY <1>9, <1>12, <2>1
  <2>3. ~(d < e)
    BY <1>9, <1>10, <1>12, <2>1, <2>2
  <2>4. ~(e < d)
    BY <1>9, <1>11, <1>12, <2>1, <2>2
  <2> QED BY <1>9, <2>1, <2>2, <2>3, <2>4
<1>14. (pointer - DataStart(KernelMmap[e])) \div ScalingFactor = i
  <2>1. pointer - DataStart(KernelMmap[e]) = i * ScalingFactor
    BY <1>2, <1>5, <1>6
  <2>2. (i * ScalingFactor) \div ScalingFactor = i
    BY <1>4, ScalingFactorAssumption
  <2> QED BY <2>1, <2>2
<1>15. a \in Nat /\ KernelMmap[e].Base <= a /\ a < DataStart(KernelMmap[e])
  BY <1>1a, <1>2, <1>4, <1>7
<1> QED BY <1>1a, <1>12, <1>13, <1>14, <1>15

-----------------------------------------------------------------------------
(***************************************************************************)
(* The inductive invariant.  Every step of the allocator hands memory from *)
(* one owner to another: a free block, a block of a client, or the call in *)
(* progress.                                                               *)
(***************************************************************************)
Owned(x) ==
  \/ \E a \in FreeNodes : x \in FreeExtent(a)
  \/ \E i \in DOMAIN live : x \in LiveExtent(i)
  \/ x \in Pending

OwnersKept == \A x : Owned(x)' <=> Owned(x)

\* The i-th block that clients hold is nobody's any more.
OwnersButOf(i) == \A x : Owned(x)' <=> Owned(x) /\ x \notin LiveExtent(i)

LiveAreBlocks ==
  \A i \in DOMAIN live : \E a \in DOMAIN mem :
    NodeAt(KernelMmap, a, live[i].ptr, SizeLevel(live[i].size))

CallIsSound ==
  /\ call.op = "divide" => NodeAt(KernelMmap, call.address, call.location, call.level + 1)
  /\ call.op = "divideLast" => NodeAt(KernelMmap, call.address, call.location, call.level)
  /\ DivisionSucceeds
  /\ NullOnlyWhenExhausted

LEMMA HeapInvFrom ==
  ASSUME UNCHANGED KernelMmap, FreeKeep({}), LiveAreBlocks', CallIsSound',
         BlocksDisjoint', PendingUnowned'
  PROVE  HeapInv'
<1>1. FreeListsIntact' /\ ListsEnd'
  BY ListedIsIntact DEF FreeKeep
<1>2. NodesMatchBlocks'
  BY DEF NodesMatchBlocks, FreeKeep, LiveAreBlocks, CallIsSound
<1> QED BY <1>1, <1>2 DEF HeapInv, CallIsSound

LEMMA LiveSame ==
  ASSUME HeapInv, UNCHANGED <<KernelMmap, live>>, DOMAIN mem' = DOMAIN mem
  PROVE  /\ LiveAreBlocks'
         /\ \A i \in DOMAIN live : LiveExtent(i)' = LiveExtent(i)
         /\ Memory' = Memory
BY DEF LiveAreBlocks, LiveExtent, HeapInv, NodesMatchBlocks, Memory

LEMMA FreeSame ==
  ASSUME TypeOK, HeapInv, UNCHANGED <<KernelMmap, Nodes, mem>>
  PROVE  /\ FreeKeep({}) /\ FreeNodes' = FreeNodes
         /\ \A a \in FreeNodes : FreeExtent(a)' = FreeExtent(a)
<1>1. FreeNodes' = FreeNodes /\ \A a \in FreeNodes : FreeExtent(a)' = FreeExtent(a)
  BY DEF FreeNodes, IsFree, FreeExtent
<1>2. Listed(mem', Nodes', FreeNodes')
  <2>1. Listed(mem, Nodes, FreeNodes)
    BY IntactIsListed DEF HeapInv
  <2> QED BY <1>1, <2>1
<1> QED BY <1>1, <1>2 DEF FreeKeep, HeapInv, NodesMatchBlocks

LEMMA UnchangedInv ==
  ASSUME TypeOK, HeapInv, UNCHANGED <<KernelMmap, Nodes, mem, live>>,
         Pending' = Pending, CallIsSound'
  PROVE  HeapInv' /\ OwnersKept
<1>1. /\ FreeKeep({}) /\ FreeNodes' = FreeNodes
      /\ \A a \in FreeNodes : FreeExtent(a)' = FreeExtent(a)
  BY FreeSame
<1>2. LiveAreBlocks' /\ \A i \in DOMAIN live : LiveExtent(i)' = LiveExtent(i)
  BY LiveSame
<1>3. BlocksDisjoint' /\ PendingUnowned'
  BY <1>1, <1>2 DEF BlocksDisjoint, PendingUnowned, HeapInv
<1>4. OwnersKept
  BY <1>1, <1>2 DEF OwnersKept, Owned
<1> QED BY <1>1, <1>2, <1>3, <1>4, HeapInvFrom

LEMMA PushPending ==
  ASSUME TypeOK, HeapInv, UNCHANGED <<KernelMmap, live>>,
         NEW level \in Levels, NEW node, NEW pointer, NodeAt(KernelMmap, node, pointer, level),
         NEW previous \in Slot, NEW next \in Slot,
         PushBlock(node, pointer, previous, next, level),
         NEW piece, piece = pointer .. pointer + BlockSize(level) - 1,
         piece \subseteq Pending, Pending' = Pending \ piece, CallIsSound'
  PROVE  HeapInv' /\ OwnersKept
<1>1. \A a \in FreeNodes : FreeExtent(a) \cap piece = {}
  BY DEF HeapInv, PendingUnowned
<1>2. \A i \in DOMAIN live : LiveExtent(i) \cap piece = {}
  BY DEF HeapInv, PendingUnowned
<1>3. /\ FreeKeep(FreeNodes)
      /\ FreeNodes' = FreeNodes \cup {node}
      /\ FreeExtent(node)' = piece
  BY <1>1, PushStep
<1>4. \A a \in FreeNodes : FreeExtent(a)' = FreeExtent(a)
  BY <1>3 DEF FreeKeep
<1>5. FreeKeep({}) /\ DOMAIN mem' = DOMAIN mem
  BY <1>3 DEF FreeKeep
<1>6. LiveAreBlocks' /\ \A i \in DOMAIN live : LiveExtent(i)' = LiveExtent(i)
  BY <1>5, LiveSame
<1>7. BlocksDisjoint'
  <2>1. \A a, b \in FreeNodes' : a # b => FreeExtent(a)' \cap FreeExtent(b)' = {}
    <3>1. \A a, b \in FreeNodes : a # b => FreeExtent(a) \cap FreeExtent(b) = {}
      BY DEF BlocksDisjoint, HeapInv
    <3>2. \A a \in FreeNodes : FreeExtent(a)' \cap FreeExtent(node)' = {}
      BY <1>1, <1>3, <1>4
    <3>3. \A a, b \in FreeNodes : a # b => FreeExtent(a)' \cap FreeExtent(b)' = {}
      BY <1>4, <3>1
    <3>4. \A a \in FreeNodes' : a = node \/ a \in FreeNodes
      BY <1>3
    <3> QED BY <3>2, <3>3, <3>4
  <2>2. \A a \in FreeNodes', i \in DOMAIN live : FreeExtent(a)' \cap LiveExtent(i)' = {}
    BY <1>2, <1>3, <1>4, <1>6 DEF BlocksDisjoint, HeapInv
  <2>3. \A i, j \in DOMAIN live : i # j => LiveExtent(i)' \cap LiveExtent(j)' = {}
    BY <1>6 DEF BlocksDisjoint, HeapInv
  <2> QED BY <2>1, <2>2, <2>3 DEF BlocksDisjoint
<1>8. PendingUnowned'
  BY <1>3, <1>4, <1>6 DEF PendingUnowned, HeapInv
<1>9. OwnersKept
  BY <1>3, <1>4, <1>6 DEF OwnersKept, Owned
<1> QED BY <1>5, <1>6, <1>7, <1>8, <1>9, HeapInvFrom

LEMMA HeapInit == Init => HeapInv
<1> SUFFICES ASSUME Init PROVE HeapInv
  OBVIOUS
<1>1. FreeNodes = {} /\ DOMAIN live = {}
  BY DEF Init, FreeNodes, IsFree, EmptyNode
<1>2. FreeListsIntact /\ ListsEnd
  BY <1>1 DEF Init, FreeListsIntact, ListsEnd
<1> QED BY <1>1, <1>2
        DEF Init, HeapInv, NodesMatchBlocks, BlocksDisjoint, PendingUnowned,
            DivisionSucceeds, NullOnlyWhenExhausted

(***************************************************************************)
(* Allocate().  A level without a head has no free block.                  *)
(***************************************************************************)
LEMMA NoHeadNoBlock ==
  ASSUME TypeOK, HeapInv, NEW level \in Levels, Nodes[level] = Null, Larger(level) = {}
  PROVE  \A a \in FreeNodes : mem[a].Level < level
<1> SUFFICES ASSUME NEW a \in FreeNodes
             PROVE  mem[a].Level < level
  OBVIOUS
<1>1. Listed(mem, Nodes, FreeNodes)
  BY IntactIsListed DEF HeapInv
<1>2. Nodes[mem[a].Level] # Null /\ mem[a].Level \in Levels
  BY <1>1, HeadExists DEF Listed
<1>3. PICK l \in Levels : l = mem[a].Level
  BY <1>2
<1>4. ~(l > level) /\ l # level
  BY <1>2, <1>3 DEF Larger
<1>5. l \in Int /\ level \in Int
  BY LevelTypes
<1> QED BY <1>3, <1>4, <1>5

LEMMA HeadPops ==
  ASSUME TypeOK, HeapInv, NEW level \in Levels, Nodes[level] # Null
  PROVE  CanPop(level) /\ IsFree(Nodes[level])
BY DEF CanPop, HeapInv, FreeListsIntact

LEMMA PopAndReturnInv ==
  ASSUME TypeOK, HeapInv, NEW size \in Sizes, PopAndReturn(SizeLevel(size), size),
         Nodes[SizeLevel(size)] = Null => Larger(SizeLevel(size)) = {},
         UNCHANGED KernelMmap, Pending = {}
  PROVE  HeapInv' /\ OwnersKept
<1>0. PICK level \in Levels : level = SizeLevel(size)
  BY SizeLevelFits
<1>1. CASE ~CanPop(level)
  <2>1. call' = [op |-> "null", size |-> size] /\ UNCHANGED <<Nodes, mem, live>>
    BY <1>0, <1>1 DEF PopAndReturn
  <2>2. Nodes[level] = Null /\ Larger(level) = {}
    BY <1>0, <1>1, HeadPops
  <2>3. \A a \in FreeNodes : mem[a].Level < level
    BY <2>2, NoHeadNoBlock
  <2>4. NullOnlyWhenExhausted'
    BY <1>0, <2>1, <2>3 DEF NullOnlyWhenExhausted, FreeNodes, IsFree
  <2>5. CallIsSound' /\ Pending' = {}
    BY <2>1, <2>4 DEF CallIsSound, DivisionSucceeds, Pending
  <2> QED BY <2>1, <2>5, UnchangedInv
<1>2. CASE CanPop(level)
  <2>1. PICK node, block :
          /\ node = Nodes[level]
          /\ block = [ptr |-> mem[node].Pointer, size |-> size]
    OBVIOUS
  <2>2. PopBlock(level) /\ live' = Append(live, block) /\ call' = Idle
    BY <1>0, <1>2, <2>1 DEF PopAndReturn
  <2>3. /\ FreeKeep(FreeNodes')
        /\ node \in FreeNodes /\ mem[node].Level = level
        /\ FreeNodes' = FreeNodes \ {node}
    BY <1>2, <2>1, <2>2, PopStep
  <2>4. /\ FreeKeep({}) /\ DOMAIN mem' = DOMAIN mem
        /\ \A a \in FreeNodes' : FreeExtent(a)' = FreeExtent(a)
    BY <2>3 DEF FreeKeep
  <2>5. Pending' = {} /\ CallIsSound'
    BY <2>2 DEF Idle, Pending, CallIsSound, DivisionSucceeds, NullOnlyWhenExhausted
  <2>6. PICK n \in Nat :
          /\ DOMAIN live = 1 .. n - 1
          /\ DOMAIN live' = 1 .. n /\ n \in DOMAIN live'
          /\ live'[n] = block
          /\ \A i \in DOMAIN live : live'[i] = live[i]
    <3>1. /\ DOMAIN live = 1 .. Len(live) /\ Len(live) \in Nat
          /\ DOMAIN live' = 1 .. Len(live) + 1
          /\ live'[Len(live) + 1] = block
          /\ \A i \in DOMAIN live : live'[i] = live[i]
      BY <2>2, LenProperties DEF TypeOK
    <3> QED BY <3>1
  <2>7. \A i \in DOMAIN live : LiveExtent(i)' = LiveExtent(i)
    BY <2>6 DEF LiveExtent
  <2>8. LiveExtent(n)' = FreeExtent(node)
    BY <1>0, <2>1, <2>3, <2>6 DEF LiveExtent, FreeExtent
  <2>9. NodeAt(KernelMmap, node, mem[node].Pointer, level)
    BY <2>3 DEF HeapInv, NodesMatchBlocks
  <2>10. LiveAreBlocks'
    <3> SUFFICES ASSUME NEW i \in DOMAIN live'
                 PROVE  \E a \in DOMAIN mem :
                          NodeAt(KernelMmap, a, live'[i].ptr, SizeLevel(live'[i].size))
      BY <2>4 DEF LiveAreBlocks
    <3>1. CASE i = n
      BY <1>0, <2>1, <2>3, <2>6, <2>9, <3>1 DEF FreeNodes
    <3>2. CASE i # n
      <4>1. i \in DOMAIN live
        BY <2>6, <3>2
      <4> QED BY <2>6, <4>1 DEF HeapInv, NodesMatchBlocks
    <3> QED BY <3>1, <3>2
  <2>11. \A i \in DOMAIN live' : i = n \/ i \in DOMAIN live
    BY <2>6
  <2>12. BlocksDisjoint'
    <3>1. \A i \in DOMAIN live : LiveExtent(i) \cap FreeExtent(node) = {}
      BY <2>3 DEF HeapInv, BlocksDisjoint
    <3>2. \A i, j \in DOMAIN live' : i # j => LiveExtent(i)' \cap LiveExtent(j)' = {}
      BY <2>7, <2>8, <2>11, <3>1 DEF HeapInv, BlocksDisjoint
    <3>3. \A a \in FreeNodes', i \in DOMAIN live' : FreeExtent(a)' \cap LiveExtent(i)' = {}
      BY <2>3, <2>4, <2>7, <2>8, <2>11 DEF HeapInv, BlocksDisjoint
    <3>4. \A a, b \in FreeNodes' : a # b => FreeExtent(a)' \cap FreeExtent(b)' = {}
      BY <2>3, <2>4 DEF HeapInv, BlocksDisjoint
    <3> QED BY <3>2, <3>3, <3>4 DEF BlocksDisjoint
  <2>13. OwnersKept
    <3> SUFFICES ASSUME NEW x PROVE Owned(x)' <=> Owned(x)
      BY DEF OwnersKept
    <3>1. ASSUME NEW a \in FreeNodes, x \in FreeExtent(a) PROVE Owned(x)'
      <4>1. CASE a = node
        BY <2>6, <2>8, <3>1, <4>1 DEF Owned
      <4>2. CASE a # node
        BY <2>3, <2>4, <3>1, <4>2 DEF Owned
      <4> QED BY <4>1, <4>2
    <3>2. ASSUME NEW i \in DOMAIN live, x \in LiveExtent(i) PROVE Owned(x)'
      <4>1. i \in DOMAIN live'
        BY <2>6
      <4> QED BY <2>7, <3>2, <4>1 DEF Owned
    <3>3. ASSUME NEW a \in FreeNodes', x \in FreeExtent(a)' PROVE Owned(x)
      BY <2>3, <2>4, <3>3 DEF Owned
    <3>4. ASSUME NEW i \in DOMAIN live', x \in LiveExtent(i)' PROVE Owned(x)
      <4>1. CASE i = n
        BY <2>3, <2>8, <3>4, <4>1 DEF Owned
      <4>2. CASE i # n
        BY <2>7, <2>11, <3>4, <4>2 DEF Owned
      <4> QED BY <4>1, <4>2
    <3> QED BY <2>5, <3>1, <3>2, <3>3, <3>4 DEF Owned
  <2> QED BY <2>4, <2>5, <2>10, <2>12, <2>13, HeapInvFrom DEF PendingUnowned
<1> QED BY <1>1, <1>2

(***************************************************************************)
(* Carving the memory map.                                                 *)
(***************************************************************************)
LEMMA CarvedPiece ==
  ASSUME TypeOK, call.op = "carve", call \in CallRecords, call.entry \in DOMAIN KernelMmap,
         NEW level \in Levels,
         BlockPages[level] <= DataPages(KernelMmap[call.entry]) - call.page,
         NEW pointer, pointer = PagePointer(KernelMmap[call.entry], call.page)
  PROVE  /\ pointer \in Nat /\ BlockSize(level) \in Nat \ {0}
         /\ PagePointer(KernelMmap[call.entry], call.page + BlockPages[level])
              = pointer + BlockSize(level)
         /\ pointer .. pointer + BlockSize(level) - 1 \subseteq EntryMemory(KernelMmap[call.entry])
         /\ NodeAt(KernelMmap, KernelMmap[call.entry].Base + call.page, pointer, level)
<1>1. PICK e \in DOMAIN KernelMmap, i \in Nat, pages \in Nat \ {0} :
        e = call.entry /\ i = call.page /\ pages = BlockPages[level]
  BY CallTypes, LevelTypes
<1> DEFINE entry == KernelMmap[e]
<1>2. /\ entry.Base \in Nat /\ entry.Limit \in Nat
      /\ DataStart(entry) \in Nat /\ DataPages(entry) \in Int
      /\ DataStart(entry) + DataPages(entry) * ScalingFactor = entry.Base + entry.Limit
  BY EntryShape DEF TypeOK
<1>3. pages <= DataPages(entry) - i
  BY <1>1
<1>4. NodeAt(KernelMmap, entry.Base + i, pointer, level)
  <2>1. i \in 0 .. DataPages(entry) - pages
    BY <1>1, <1>2, <1>3
  <2> QED BY <1>1, <2>1 DEF NodeAt
<1>5. /\ i * ScalingFactor \in Nat /\ pages * ScalingFactor \in Nat \ {0}
      /\ (i + pages) * ScalingFactor = i * ScalingFactor + pages * ScalingFactor
      /\ DataPages(entry) * ScalingFactor \in Int
      /\ (i + pages) * ScalingFactor <= DataPages(entry) * ScalingFactor
  <2>1. PICK k \in Nat, total \in Int : k = ScalingFactor /\ k # 0 /\ total = DataPages(entry)
    BY <1>2, ScalingFactorAssumption
  <2>2. i * k \in Nat /\ pages * k \in Nat \ {0} /\ total * k \in Int
    BY <2>1
  <2>3. (i + pages) * k = i * k + pages * k
    BY <2>1
  <2>4. i + pages <= total
    BY <1>3, <2>1
  <2>5. (i + pages) * k <= total * k
    BY <2>1, <2>4
  <2> QED BY <2>1, <2>2, <2>3, <2>5
<1>6. /\ pointer = DataStart(entry) + i * ScalingFactor
      /\ PagePointer(entry, i + pages) = DataStart(entry) + (i + pages) * ScalingFactor
      /\ BlockSize(level) = pages * ScalingFactor
  BY <1>1 DEF PagePointer, BlockSize
<1> HIDE DEF entry
<1>7. /\ pointer \in Nat /\ BlockSize(level) \in Nat \ {0}
      /\ PagePointer(entry, i + pages) = pointer + BlockSize(level)
      /\ DataStart(entry) <= pointer
      /\ pointer + BlockSize(level) <= entry.Base + entry.Limit
  BY <1>2, <1>5, <1>6
<1>8. pointer .. pointer + BlockSize(level) - 1 \subseteq EntryMemory(entry)
  BY <1>2, <1>7 DEF EntryMemory
<1> QED BY <1>1, <1>4, <1>7, <1>8 DEF entry

LEMMA EntriesApart ==
  ASSUME TypeOK, NEW e \in DOMAIN KernelMmap, NEW f \in DOMAIN KernelMmap,
         NEW x \in EntryMemory(KernelMmap[e]), x \in EntryMemory(KernelMmap[f])
  PROVE  e = f
<1>1. /\ KernelMmap[e].Base \in Nat /\ KernelMmap[e].Limit \in Nat
      /\ DataStart(KernelMmap[e]) \in Nat
      /\ DataStart(KernelMmap[e]) = KernelMmap[e].Base + ReservedSpace(KernelMmap[e])
      /\ ReservedSpace(KernelMmap[e]) \in Nat
      /\ KernelMmap[f].Base \in Nat /\ KernelMmap[f].Limit \in Nat
      /\ DataStart(KernelMmap[f]) \in Nat
      /\ DataStart(KernelMmap[f]) = KernelMmap[f].Base + ReservedSpace(KernelMmap[f])
      /\ ReservedSpace(KernelMmap[f]) \in Nat
  BY EntryShape DEF TypeOK, DataStart
<1>2. /\ x \in Int
      /\ KernelMmap[e].Base <= x /\ x < KernelMmap[e].Base + KernelMmap[e].Limit
      /\ KernelMmap[f].Base <= x /\ x < KernelMmap[f].Base + KernelMmap[f].Limit
  BY <1>1 DEF EntryMemory
<1>3. /\ e < f => KernelMmap[e].Base + KernelMmap[e].Limit <= KernelMmap[f].Base
      /\ f < e => KernelMmap[f].Base + KernelMmap[f].Limit <= KernelMmap[e].Base
  BY MemoryMapAssumption DEF TypeOK
<1>4. e \in Int /\ f \in Int
  BY MapIsSequence DEF TypeOK
<1> QED BY <1>1, <1>2, <1>3, <1>4

LEMMA CarveInv == TypeOK /\ HeapInv /\ Carve => HeapInv' /\ OwnersKept
<1> SUFFICES ASSUME TypeOK, HeapInv, Carve PROVE HeapInv' /\ OwnersKept
  OBVIOUS
<1>1. /\ call \in [op : {"carve"}, entry : Nat \ {0}, page : Nat, previous : Slot]
      /\ call \in CallRecords /\ call.op = "carve"
  BY CallTypes DEF TypeOK, Carve, CarveBlock, CarveNextEntry, CarveDone
<1>2. Memory' = Memory /\ UNCHANGED <<KernelMmap, live>>
  BY DEF Memory, Carve, CarveBlock, CarveNextEntry, CarveDone
<1>3. CASE CarveBlock
  <2>1. PICK e \in DOMAIN KernelMmap : e = call.entry
    BY <1>3 DEF CarveBlock
  <2>2. PICK level \in Levels :
          /\ BlockPages[level] <= DataPages(KernelMmap[e]) - call.page
          /\ PushBlock(KernelMmap[e].Base + call.page, PagePointer(KernelMmap[e], call.page),
                       call.previous, Null, level)
          /\ call' = [call EXCEPT !.page = call.page + BlockPages[level],
                                  !.previous = KernelMmap[e].Base + call.page]
    BY <1>3, <2>1 DEF CarveBlock
  <2>3. PICK pointer, node, end, piece, after :
          /\ pointer = PagePointer(KernelMmap[e], call.page)
          /\ node = KernelMmap[e].Base + call.page
          /\ end = pointer + BlockSize(level)
          /\ piece = pointer .. pointer + BlockSize(level) - 1
          /\ after = call.page + BlockPages[level]
    OBVIOUS
  <2>4. /\ pointer \in Nat /\ BlockSize(level) \in Nat \ {0}
        /\ PagePointer(KernelMmap[e], after) = end
        /\ piece \subseteq EntryMemory(KernelMmap[e])
        /\ NodeAt(KernelMmap, node, pointer, level)
    BY <1>1, <2>1, <2>2, <2>3, CarvedPiece
  <2>5. call'.op = "carve" /\ call'.entry = e /\ call'.page = after
    BY <1>1, <2>1, <2>2, <2>3
  <2>6. /\ Pending = {x \in Memory : \E f \in DOMAIN KernelMmap :
                        /\ x \in EntryMemory(KernelMmap[f])
                        /\ f >= e
                        /\ f = e => x >= pointer}
        /\ Pending' = {x \in Memory : \E f \in DOMAIN KernelMmap :
                        /\ x \in EntryMemory(KernelMmap[f])
                        /\ f >= e
                        /\ f = e => x >= end}
    BY <1>1, <1>2, <2>1, <2>3, <2>4, <2>5 DEF Pending
  <2>7. e >= e
    BY MapIsSequence DEF TypeOK
  <2>8. piece \subseteq Pending
    <3>1. \A x \in piece : x \in Memory /\ x >= pointer
      BY <2>3, <2>4 DEF Memory
    <3> QED BY <2>4, <2>6, <2>7, <3>1
  <2>9. ASSUME NEW x \in EntryMemory(KernelMmap[e])
        PROVE  x >= end <=> x >= pointer /\ x \notin piece
    <3>1. x \in Int
      BY <2>9 DEF EntryMemory
    <3> QED BY <2>3, <2>4, <3>1
  <2>10. Pending' = Pending \ piece
    <3>1. ASSUME NEW x \in Pending' PROVE x \in Pending \ piece
      <4>1. PICK f \in DOMAIN KernelMmap :
              x \in EntryMemory(KernelMmap[f]) /\ f >= e /\ (f = e => x >= end)
        BY <2>6, <3>1
      <4>2. x \in piece => f = e
        BY <2>4, <4>1, EntriesApart
      <4>3. x \notin piece
        BY <2>9, <4>1, <4>2
      <4> QED BY <2>6, <2>9, <3>1, <4>1, <4>3
    <3>2. ASSUME NEW x \in Pending \ piece PROVE x \in Pending'
      <4>1. PICK f \in DOMAIN KernelMmap :
              x \in EntryMemory(KernelMmap[f]) /\ f >= e /\ (f = e => x >= pointer)
        BY <2>6, <3>2
      <4> QED BY <2>6, <2>9, <3>2, <4>1
    <3> QED BY <3>1, <3>2
  <2>11. CallIsSound'
    BY <2>5 DEF CallIsSound, DivisionSucceeds, NullOnlyWhenExhausted
  <2>12. call.previous \in Slot /\ Null \in Slot
    BY <1>1 DEF Slot
  <2>13. PushBlock(node, pointer, call.previous, Null, level)
    BY <2>2, <2>3
  <2> QED BY <1>2, <2>3, <2>4, <2>8, <2>10, <2>11, <2>12, <2>13, PushPending
<1>4. CASE CarveNextEntry
  <2>1. PICK e \in DOMAIN KernelMmap : e = call.entry
    BY <1>4 DEF CarveNextEntry
  <2>2. /\ call' = [call EXCEPT !.entry = e + 1, !.page = 0]
        /\ DataPages(KernelMmap[e]) <= call.page
        /\ UNCHANGED <<KernelMmap, Nodes, mem, live>>
    BY <1>4, <2>1 DEF CarveNextEntry
  <2>3. call'.op = "carve" /\ call'.entry = e + 1 /\ call'.page = 0
    BY <1>1, <2>2
  <2>4. \A f \in DOMAIN KernelMmap : f \in Int
    BY MapIsSequence DEF TypeOK
  <2>5. ASSUME NEW x \in EntryMemory(KernelMmap[e])
        PROVE  ~(x >= PagePointer(KernelMmap[e], call.page))
    <3>1. PICK i \in Nat : i = call.page
      BY <1>1
    <3>2. /\ KernelMmap[e].Base \in Nat /\ KernelMmap[e].Limit \in Nat
          /\ DataStart(KernelMmap[e]) \in Nat /\ DataPages(KernelMmap[e]) \in Int
          /\ DataStart(KernelMmap[e]) + DataPages(KernelMmap[e]) * ScalingFactor
               = KernelMmap[e].Base + KernelMmap[e].Limit
      BY EntryShape DEF TypeOK
    <3>3. /\ DataPages(KernelMmap[e]) * ScalingFactor <= i * ScalingFactor
          /\ i * ScalingFactor \in Nat /\ DataPages(KernelMmap[e]) * ScalingFactor \in Int
      BY <2>2, <3>1, <3>2, ScalingFactorAssumption
    <3>4. x \in Int /\ x < KernelMmap[e].Base + KernelMmap[e].Limit
      BY <2>5, <3>2 DEF EntryMemory
    <3>5. PagePointer(KernelMmap[e], call.page) = DataStart(KernelMmap[e]) + i * ScalingFactor
      BY <3>1 DEF PagePointer
    <3> QED BY <3>2, <3>3, <3>4, <3>5
  <2>6. /\ Pending = {x \in Memory : \E f \in DOMAIN KernelMmap :
                        /\ x \in EntryMemory(KernelMmap[f])
                        /\ f >= e
                        /\ f = e => x >= PagePointer(KernelMmap[f], call.page)}
        /\ Pending' = {x \in Memory : \E f \in DOMAIN KernelMmap :
                        /\ x \in EntryMemory(KernelMmap[f])
                        /\ f >= e + 1
                        /\ f = e + 1 => x >= PagePointer(KernelMmap[f], 0)}
    BY <1>1, <1>2, <2>1, <2>3 DEF Pending
  <2>7. ASSUME NEW f \in DOMAIN KernelMmap, NEW x \in EntryMemory(KernelMmap[f])
        PROVE  /\ x >= PagePointer(KernelMmap[f], 0)
               /\ (f >= e /\ f # e) <=> f >= e + 1
    <3>1. DataStart(KernelMmap[f]) \in Nat
      BY EntryShape DEF TypeOK
    <3>2. PagePointer(KernelMmap[f], 0) = DataStart(KernelMmap[f]) /\ x >= DataStart(KernelMmap[f])
      BY <2>7, <3>1, ScalingFactorAssumption DEF PagePointer, EntryMemory
    <3> QED BY <2>4, <3>2
  <2>8. Pending' = Pending
    <3>1. ASSUME NEW x \in Pending' PROVE x \in Pending
      <4>1. PICK f \in DOMAIN KernelMmap : x \in EntryMemory(KernelMmap[f]) /\ f >= e + 1
        BY <2>6, <3>1
      <4> QED BY <2>6, <2>7, <3>1, <4>1
    <3>2. ASSUME NEW x \in Pending PROVE x \in Pending'
      <4>1. PICK f \in DOMAIN KernelMmap :
              /\ x \in EntryMemory(KernelMmap[f]) /\ f >= e
              /\ f = e => x >= PagePointer(KernelMmap[f], call.page)
        BY <2>6, <3>2
      <4>2. f # e
        BY <2>5, <4>1
      <4> QED BY <2>6, <2>7, <3>2, <4>1, <4>2
    <3> QED BY <3>1, <3>2
  <2>9. CallIsSound'
    BY <2>3 DEF CallIsSound, DivisionSucceeds, NullOnlyWhenExhausted
  <2> QED BY <2>2, <2>8, <2>9, UnchangedInv
<1>5. CASE CarveDone
  <2>1. UNCHANGED <<KernelMmap, Nodes, mem, live>> /\ call' = Idle
    BY <1>5 DEF CarveDone
  <2>2. Pending' = {} /\ CallIsSound'
    BY <2>1 DEF Idle, Pending, CallIsSound, DivisionSucceeds, NullOnlyWhenExhausted
  <2>3. Pending = {}
    <3>1. DOMAIN KernelMmap = 1 .. Len(KernelMmap) /\ Len(KernelMmap) \in Nat
      BY MapIsSequence DEF TypeOK
    <3>2. call.entry \notin DOMAIN KernelMmap /\ call.entry \in Nat \ {0}
      BY <1>1, <1>5 DEF CarveDone
    <3>3. \A f \in DOMAIN KernelMmap : ~(f >= call.entry)
      BY <3>1, <3>2
    <3> QED BY <1>1, <3>3 DEF Pending
  <2> QED BY <2>1, <2>2, <2>3, UnchangedInv
<1> QED BY <1>3, <1>4, <1>5 DEF Carve

(***************************************************************************)
(* DivideBlock().                                                          *)
(***************************************************************************)
LEMMA AllocateDivideInv ==
  ASSUME TypeOK, HeapInv, NEW size \in Sizes, AllocateDivide(size)
  PROVE  HeapInv' /\ OwnersKept
<1>1. PICK l \in Levels :
        /\ l > SizeLevel(size)
        /\ Nodes[l] # Null
        /\ IF IsFree(Nodes[l])
           THEN /\ PopBlock(l)
                /\ call' = [op |-> "divide", size |-> size, level |-> l - 1,
                            address |-> Nodes[l], location |-> mem[Nodes[l]].Pointer,
                            previous |-> mem[Nodes[l]].PosPrevious,
                            next |-> mem[Nodes[l]].PosNext]
           ELSE /\ call' = [op |-> "null", size |-> size]
                /\ UNCHANGED <<Nodes, mem>>
  BY DEF AllocateDivide, Larger
<1>2. PICK node : node = Nodes[l]
  OBVIOUS
<1>3. UNCHANGED <<KernelMmap, live>> /\ call = Idle
  BY DEF AllocateDivide, Larger
<1>4. CanPop(l) /\ IsFree(node)
  BY <1>1, <1>2, HeadPops
<1>5. /\ PopBlock(l)
      /\ call'.op = "divide" /\ call'.level = l - 1
      /\ call'.address = node /\ call'.location = mem[node].Pointer
  BY <1>1, <1>2, <1>4
<1>6. l - 1 + 1 = l
  BY LevelTypes
<1>7. /\ FreeKeep(FreeNodes')
      /\ node \in FreeNodes /\ mem[node].Level = l
      /\ FreeNodes' = FreeNodes \ {node}
  BY <1>2, <1>3, <1>4, <1>5, PopStep
<1>8. /\ FreeKeep({}) /\ DOMAIN mem' = DOMAIN mem
      /\ \A a \in FreeNodes' : FreeExtent(a)' = FreeExtent(a)
  BY <1>7 DEF FreeKeep
<1>9. NodeAt(KernelMmap, node, mem[node].Pointer, l)
  BY <1>7 DEF HeapInv, NodesMatchBlocks
<1>10. CallIsSound'
  BY <1>3, <1>5, <1>6, <1>9 DEF CallIsSound, DivisionSucceeds, NullOnlyWhenExhausted
<1>11. Pending' = FreeExtent(node) /\ Pending = {}
  BY <1>3, <1>5, <1>6, <1>7 DEF Pending, FreeExtent, BlockSize, Idle
<1>12. LiveAreBlocks' /\ \A i \in DOMAIN live : LiveExtent(i)' = LiveExtent(i)
  BY <1>3, <1>8, LiveSame
<1>13. BlocksDisjoint'
  BY <1>3, <1>7, <1>8, <1>12 DEF BlocksDisjoint, HeapInv
<1>14. PendingUnowned'
  <2>1. \A a \in FreeNodes' : FreeExtent(a)' \cap Pending' = {}
    BY <1>7, <1>8, <1>11 DEF HeapInv, BlocksDisjoint
  <2>2. \A i \in DOMAIN live' : LiveExtent(i)' \cap Pending' = {}
    BY <1>3, <1>7, <1>11, <1>12 DEF HeapInv, BlocksDisjoint
  <2> QED BY <2>1, <2>2 DEF PendingUnowned
<1>15. OwnersKept
  BY <1>3, <1>7, <1>8, <1>11, <1>12 DEF OwnersKept, Owned
<1> QED BY <1>3, <1>8, <1>10, <1>12, <1>13, <1>14, <1>15, HeapInvFrom

LEMMA DividePushInv == TypeOK /\ HeapInv /\ DividePush => HeapInv' /\ OwnersKept
<1> SUFFICES ASSUME TypeOK, HeapInv, DividePush PROVE HeapInv' /\ OwnersKept
  OBVIOUS
<1>1. call \in [op : {"divide", "divideLast"}, size : Sizes, level : Levels,
                address : Nat, location : Nat, previous : Slot, next : Slot]
  BY CallTypes DEF TypeOK, DividePush
<1>1a. PICK l \in Levels : l = call.level
  BY <1>1
<1>2. PICK half, address, location, piece :
        /\ l = call.level
        /\ half = BlockSize(l)
        /\ address = call.address
        /\ location = call.location
        /\ piece = location .. location + half - 1
  BY <1>1a
<1>3. PICK last \in BOOLEAN : last = (l = SizeLevel(call.size))
  OBVIOUS
<1>4. NodeAt(KernelMmap, address, location, l + 1) /\ UNCHANGED <<KernelMmap, live>>
  BY <1>2 DEF DividePush, HeapInv, NodesMatchBlocks
<1>5. /\ NodeAt(KernelMmap, address, location, l)
      /\ NodeAt(KernelMmap, address + BlockPages[l], location + half, l)
  BY <1>2, <1>4, NodeAtHalves
<1>6. address \in DOMAIN mem
  BY <1>2, <1>5, NodeAtFacts, LevelTypes DEF TypeOK
<1>7. /\ PushBlock(address, location, call.previous, call.next, l)
      /\ call' = [call EXCEPT
               !.op = IF last THEN "divideLast" ELSE @,
               !.level = IF last THEN @ ELSE @ - 1,
               !.address = @ + BlockPages[l],
               !.location = @ + BlockPages[l] * ScalingFactor,
               !.previous = call.address]
  BY <1>2, <1>3, <1>6 DEF DividePush, AtTargetLevel
<1>8. /\ call'.op = IF last THEN "divideLast" ELSE "divide"
      /\ call'.level = IF last THEN l ELSE l - 1
      /\ call'.address = address + BlockPages[l]
      /\ call'.location = location + half
      /\ call'.size = call.size
  BY <1>1, <1>2, <1>7 DEF BlockSize, DividePush
<1>9. half \in Nat \ {0} /\ BlockSize(l + 1) = 2 * half /\ l - 1 + 1 = l
  BY <1>2, LevelTypes, BlockSizes
<1>10. Pending = location .. location + 2 * half - 1
  BY <1>2, <1>9 DEF Pending, DividePush
<1>11. Pending' = location + half .. location + half + half - 1
  BY <1>2, <1>8, <1>9 DEF Pending, BlockSize
<1>12. /\ call'.op = "divide" =>
            NodeAt(KernelMmap, call'.address, call'.location, call'.level + 1)
       /\ call'.op = "divideLast" =>
            NodeAt(KernelMmap, call'.address, call'.location, call'.level)
  BY <1>5, <1>8, <1>9
<1>13. CallIsSound'
  BY <1>3, <1>4, <1>8, <1>12 DEF CallIsSound, DivisionSucceeds, NullOnlyWhenExhausted
<1>14. piece \subseteq Pending /\ Pending' = Pending \ piece
  <2>1. location \in Nat
    BY <1>1, <1>2
  <2>2. ASSUME NEW x
        PROVE  /\ x \in Pending <=> x \in Int /\ location <= x /\ x < location + 2 * half
               /\ x \in piece <=> x \in Int /\ location <= x /\ x < location + half
               /\ x \in Pending' <=> x \in Int /\ location + half <= x /\ x < location + 2 * half
    <3>1. x \in Pending <=> x \in Int /\ location <= x /\ x < location + 2 * half
      BY <1>9, <1>10, <2>1
    <3>2. x \in piece <=> x \in Int /\ location <= x /\ x < location + half
      BY <1>2, <1>9, <2>1
    <3>3. x \in Pending' <=> x \in Int /\ location + half <= x /\ x < location + 2 * half
      BY <1>9, <1>11, <2>1
    <3> QED BY <3>1, <3>2, <3>3
  <2>3. ASSUME NEW x
        PROVE  /\ x \in piece => x \in Pending
               /\ x \in Pending' <=> x \in Pending /\ x \notin piece
    <3>1. half \in Nat
      BY <1>9
    <3> QED BY <2>1, <2>2, <3>1
  <2> QED BY <2>3
<1>15. call.previous \in Slot /\ call.next \in Slot
  BY <1>1
<1> QED BY <1>2, <1>4, <1>5, <1>7, <1>13, <1>14, <1>15, PushPending

LEMMA DivideLastInv == TypeOK /\ HeapInv /\ DivideLast => HeapInv' /\ OwnersKept
<1> SUFFICES ASSUME TypeOK, HeapInv, DivideLast PROVE HeapInv' /\ OwnersKept
  OBVIOUS
<1>1. call \in [op : {"divide", "divideLast"}, size : Sizes, level : Levels,
                address : Nat, location : Nat, previous : Slot, next : Slot]
  BY CallTypes DEF TypeOK, DivideLast
<1>1a. PICK l \in Levels : l = call.level
  BY <1>1
<1>2. PICK address, location, piece :
        /\ l = call.level
        /\ address = call.address
        /\ location = call.location
        /\ piece = location .. location + BlockSize(l) - 1
  BY <1>1a
<1>3. NodeAt(KernelMmap, address, location, l) /\ UNCHANGED <<KernelMmap, live>>
  BY <1>2 DEF DivideLast, HeapInv, NodesMatchBlocks
<1>4. address \in Slots(KernelMmap) /\ address \in DOMAIN mem
  BY <1>3, NodeAtFacts, LevelTypes DEF TypeOK
<1>5. /\ PushBlock(address, location, call.previous, call.next, l)
      /\ call' = [op |-> "pop", size |-> call.size]
  BY <1>2, <1>4 DEF DivideLast
<1>6. Pending = piece /\ Pending' = {}
  BY <1>2, <1>5 DEF Pending, DivideLast
<1>7. Nodes'[l] # Null
  BY <1>4, <1>5, SlotsAreNat DEF PushBlock, TypeOK, Null
<1>8. l = SizeLevel(call.size)
  BY <1>2 DEF HeapInv, DivisionSucceeds, DivideLast
<1>9. CallIsSound'
  BY <1>5, <1>7, <1>8 DEF CallIsSound, DivisionSucceeds, NullOnlyWhenExhausted
<1>10. call.previous \in Slot /\ call.next \in Slot
  BY <1>1
<1> QED BY <1>2, <1>3, <1>5, <1>6, <1>9, <1>10, PushPending

(***************************************************************************)
(* Free().  What clients hold once they have given back a block.           *)
(***************************************************************************)
\* What is left of a sequence without its i-th element.
LEMMA WithoutElement ==
  ASSUME NEW S, NEW s \in Seq(S), NEW i \in 1 .. Len(s), NEW t,
         t = SubSeq(s, 1, i - 1) \o SubSeq(s, i + 1, Len(s))
  PROVE  /\ t \in Seq(S)
         /\ Len(t) = Len(s) - 1
         /\ \A j \in 1 .. Len(s) - 1 : t[j] = s[IF j < i THEN j ELSE j + 1]
<1>1. PICK n \in Nat : n = Len(s)
  BY LenProperties
<1>2. i \in 1 .. n
  BY <1>1
<1>3. PICK front, back : front = SubSeq(s, 1, i - 1) /\ back = SubSeq(s, i + 1, n)
  OBVIOUS
<1>4. /\ front \in Seq(S) /\ Len(front) = i - 1
      /\ \A j \in 1 .. i - 1 : front[j] = s[j]
  BY <1>1, <1>2, <1>3, SubSeqProperties
<1>5. /\ back \in Seq(S) /\ Len(back) = n - i
      /\ \A j \in 1 .. n - i : back[j] = s[j + i]
  <2>1. /\ i + 1 \in 1 .. n + 1 /\ n \in i .. n
        /\ IF i + 1 <= n THEN n - (i + 1) + 1 = n - i ELSE 0 = n - i
    BY <1>2
  <2>2. /\ back \in Seq(S)
        /\ Len(back) = IF i + 1 <= n THEN n - (i + 1) + 1 ELSE 0
        /\ \A j \in 1 .. n - (i + 1) + 1 : back[j] = s[i + 1 + j - 1]
    BY <1>1, <1>3, <2>1, SubSeqProperties
  <2>3. \A j \in 1 .. n - i : j \in 1 .. n - (i + 1) + 1 /\ i + 1 + j - 1 = j + i
    BY <1>2
  <2> QED BY <2>1, <2>2, <2>3
<1>6. t = front \o back
  BY <1>1, <1>3
<1>7. /\ t \in Seq(S) /\ Len(t) = n - 1
      /\ \A j \in 1 .. n - 1 : t[j] = IF j < i THEN front[j] ELSE back[j - (i - 1)]
  <2>1. /\ t \in Seq(S) /\ Len(t) = Len(front) + Len(back)
        /\ \A j \in 1 .. Len(front) + Len(back) :
             t[j] = IF j <= Len(front) THEN front[j] ELSE back[j - Len(front)]
    <3>1. front \in Seq(S) /\ back \in Seq(S)
      BY <1>4, <1>5
    <3>2. /\ front \o back \in Seq(S)
          /\ Len(front \o back) = Len(front) + Len(back)
          /\ \A j \in 1 .. Len(front) + Len(back) :
               (front \o back)[j] = IF j <= Len(front) THEN front[j] ELSE back[j - Len(front)]
      BY <3>1, ConcatProperties, Zenon
    <3> QED BY <1>6, <3>2, Zenon
  <2>2. Len(front) + Len(back) = n - 1
    BY <1>2, <1>4, <1>5
  <2>3. \A j \in 1 .. n - 1 : j <= Len(front) <=> j < i
    BY <1>2, <1>4
  <2> QED BY <1>4, <2>1, <2>2, <2>3
<1>8. ASSUME NEW j \in 1 .. n - 1
      PROVE  t[j] = s[IF j < i THEN j ELSE j + 1]
  <2>1. CASE j < i
    <3>1. j \in 1 .. i - 1
      BY <1>2, <2>1
    <3>2. t[j] = front[j]
      BY <1>7, <2>1
    <3> QED BY <1>4, <2>1, <3>1, <3>2
  <2>2. CASE ~(j < i)
    <3>1. j - (i - 1) \in 1 .. n - i /\ (j - (i - 1)) + i = j + 1
      BY <1>2, <2>2
    <3>2. t[j] = back[j - (i - 1)]
      BY <1>7, <2>2
    <3> QED BY <1>5, <2>2, <3>1, <3>2
  <2> QED BY <2>1, <2>2
<1> QED BY <1>1, <1>7, <1>8

LEMMA DroppedShift ==
  ASSUME TypeOK, NEW i \in DOMAIN live, live' = Dropped(i)
  PROVE  \E Shift \in [DOMAIN live' -> DOMAIN live \ {i}] :
           /\ \A j \in DOMAIN live' : live'[j] = live[Shift[j]]
           /\ \A j, k \in DOMAIN live' : Shift[j] = Shift[k] => j = k
           /\ \A k \in DOMAIN live \ {i} : \E j \in DOMAIN live' : Shift[j] = k
<1>1. PICK n \in Nat : n = Len(live) /\ DOMAIN live = 1 .. n
  BY LenProperties DEF TypeOK
<1>2. PICK S : live \in Seq(S)
  BY DEF TypeOK
<1>3. i \in 1 .. n
  BY <1>1
<1>4. /\ live' \in Seq(S) /\ Len(live') = n - 1
      /\ \A j \in 1 .. n - 1 : live'[j] = live[IF j < i THEN j ELSE j + 1]
  <2>1. PICK s, t : s = live /\ t = live'
    OBVIOUS
  <2>2. s \in Seq(S) /\ i \in 1 .. Len(s) /\ Len(s) = n
    BY <1>1, <1>2, <2>1
  <2>3. t = SubSeq(s, 1, i - 1) \o SubSeq(s, i + 1, Len(s))
    BY <2>1 DEF Dropped
  <2>4. /\ t \in Seq(S) /\ Len(t) = Len(s) - 1
        /\ \A j \in 1 .. Len(s) - 1 : t[j] = s[IF j < i THEN j ELSE j + 1]
    BY <2>2, <2>3, WithoutElement
  <2> QED BY <2>1, <2>2, <2>4
<1> DEFINE Shift == [j \in 1 .. n - 1 |-> IF j < i THEN j ELSE j + 1]
<1>5. DOMAIN live' = 1 .. n - 1
  BY <1>4, LenProperties
<1>6. \A j \in 1 .. n - 1 : live'[j] = live[Shift[j]]
  BY <1>4
<1>7. Shift \in [1 .. n - 1 -> (1 .. n) \ {i}]
  BY <1>3
<1>8. \A j, k \in 1 .. n - 1 : Shift[j] = Shift[k] => j = k
  BY <1>3
<1>9. ASSUME NEW k \in (1 .. n) \ {i}
       PROVE  \E j \in 1 .. n - 1 : Shift[j] = k
  <2>1. CASE k < i
    <3>1. k \in 1 .. n - 1 /\ Shift[k] = k
      BY <1>3, <2>1
    <3> QED BY <3>1
  <2>2. CASE ~(k < i)
    <3>1. k - 1 \in 1 .. n - 1 /\ Shift[k - 1] = k
      BY <1>3, <2>2
    <3> QED BY <3>1
  <2> QED BY <2>1, <2>2
<1>10. Shift \in [DOMAIN live' -> DOMAIN live \ {i}]
  BY <1>1, <1>5, <1>7
<1> HIDE DEF Shift
<1> WITNESS Shift \in [DOMAIN live' -> DOMAIN live \ {i}]
<1> QED BY <1>1, <1>5, <1>6, <1>8, <1>9

LEMMA DroppedExtents ==
  ASSUME TypeOK, HeapInv, UNCHANGED KernelMmap, DOMAIN mem' = DOMAIN mem,
         NEW i \in DOMAIN live, live' = Dropped(i)
  PROVE  /\ LiveAreBlocks'
         /\ \A j \in DOMAIN live' : \E k \in DOMAIN live \ {i} : LiveExtent(j)' = LiveExtent(k)
         /\ \A k \in DOMAIN live \ {i} : \E j \in DOMAIN live' : LiveExtent(j)' = LiveExtent(k)
         /\ \A j, k \in DOMAIN live' : j # k => LiveExtent(j)' \cap LiveExtent(k)' = {}
<1>1. PICK Shift \in [DOMAIN live' -> DOMAIN live \ {i}] :
           /\ \A j \in DOMAIN live' : live'[j] = live[Shift[j]]
           /\ \A j, k \in DOMAIN live' : Shift[j] = Shift[k] => j = k
           /\ \A k \in DOMAIN live \ {i} : \E j \in DOMAIN live' : Shift[j] = k
  BY DroppedShift
<1>2. \A j \in DOMAIN live' : /\ Shift[j] \in DOMAIN live \ {i}
                              /\ LiveExtent(j)' = LiveExtent(Shift[j])
  BY <1>1 DEF LiveExtent
<1>3. LiveAreBlocks'
  <2> SUFFICES ASSUME NEW j \in DOMAIN live'
               PROVE  \E a \in DOMAIN mem :
                        NodeAt(KernelMmap, a, live'[j].ptr, SizeLevel(live'[j].size))
    BY DEF LiveAreBlocks
  <2>1. PICK k \in DOMAIN live : k = Shift[j]
    BY <1>2
  <2>2. live'[j] = live[k]
    BY <1>1, <2>1
  <2> QED BY <2>2 DEF HeapInv, NodesMatchBlocks
<1>4. \A j, k \in DOMAIN live' : j # k => LiveExtent(j)' \cap LiveExtent(k)' = {}
  <2> SUFFICES ASSUME NEW j \in DOMAIN live', NEW k \in DOMAIN live', j # k
               PROVE  LiveExtent(j)' \cap LiveExtent(k)' = {}
    OBVIOUS
  <2>1. PICK b \in DOMAIN live, c \in DOMAIN live : b = Shift[j] /\ c = Shift[k]
    BY <1>2
  <2>2. b # c
    BY <1>1, <2>1
  <2>3. LiveExtent(b) \cap LiveExtent(c) = {}
    BY <2>2 DEF HeapInv, BlocksDisjoint
  <2> QED BY <1>2, <2>1, <2>3
<1>5. \A k \in DOMAIN live \ {i} : \E j \in DOMAIN live' : LiveExtent(j)' = LiveExtent(k)
  BY <1>1, <1>2
<1> QED BY <1>2, <1>3, <1>4, <1>5

\* A block is given back to nobody: Free() refuses it, or reads a node that is none.
LEMMA GivenUpInv ==
  ASSUME TypeOK, HeapInv, UNCHANGED <<KernelMmap, Nodes, mem>>,
         NEW i \in DOMAIN live, live' = Dropped(i), call'.op \in {"false", "wild"}
  PROVE  HeapInv' /\ (call = Idle => OwnersButOf(i))
<1>1. /\ FreeKeep({}) /\ FreeNodes' = FreeNodes
      /\ \A a \in FreeNodes : FreeExtent(a)' = FreeExtent(a)
  BY FreeSame
<1>2. /\ LiveAreBlocks'
      /\ \A j \in DOMAIN live' : \E k \in DOMAIN live \ {i} : LiveExtent(j)' = LiveExtent(k)
      /\ \A k \in DOMAIN live \ {i} : \E j \in DOMAIN live' : LiveExtent(j)' = LiveExtent(k)
      /\ \A j, k \in DOMAIN live' : j # k => LiveExtent(j)' \cap LiveExtent(k)' = {}
  BY DroppedExtents
<1>3. Pending' = {} /\ CallIsSound'
  BY DEF Pending, CallIsSound, DivisionSucceeds, NullOnlyWhenExhausted
<1>4. BlocksDisjoint'
  <2>1. \A a \in FreeNodes', j \in DOMAIN live' : FreeExtent(a)' \cap LiveExtent(j)' = {}
    BY <1>1, <1>2 DEF BlocksDisjoint, HeapInv
  <2>2. \A a, b \in FreeNodes' : a # b => FreeExtent(a)' \cap FreeExtent(b)' = {}
    BY <1>1 DEF BlocksDisjoint, HeapInv
  <2> QED BY <1>2, <2>1, <2>2 DEF BlocksDisjoint
<1>5. ASSUME call = Idle PROVE OwnersButOf(i)
  <2> SUFFICES ASSUME NEW x PROVE Owned(x)' <=> Owned(x) /\ x \notin LiveExtent(i)
    BY DEF OwnersButOf
  <2>1. Pending = {}
    BY <1>5 DEF Idle, Pending
  <2>2. ASSUME NEW a \in FreeNodes
        PROVE  FreeExtent(a)' = FreeExtent(a) /\ FreeExtent(a) \cap LiveExtent(i) = {}
    BY <1>1 DEF HeapInv, BlocksDisjoint
  <2>3. (\E a \in FreeNodes' : x \in FreeExtent(a)')
          <=> (\E a \in FreeNodes : x \in FreeExtent(a)) /\ x \notin LiveExtent(i)
    BY <1>1, <2>2
  <2>4. \A k \in DOMAIN live \ {i} : LiveExtent(k) \cap LiveExtent(i) = {}
    BY DEF HeapInv, BlocksDisjoint
  <2>5. (\E j \in DOMAIN live' : x \in LiveExtent(j)')
          <=> (\E k \in DOMAIN live : x \in LiveExtent(k)) /\ x \notin LiveExtent(i)
    BY <1>2, <2>4
  <2> QED BY <1>3, <2>1, <2>3, <2>5 DEF Owned
<1> QED BY <1>1, <1>2, <1>3, <1>4, <1>5, HeapInvFrom DEF PendingUnowned

LEMMA FreeBlockInv ==
  ASSUME TypeOK, HeapInv, NEW i \in DOMAIN live, FreeBlock(i)
  PROVE  HeapInv' /\ IF call'.op = "wild" THEN OwnersButOf(i) ELSE OwnersKept
<1>1. PICK e, pointer, limit, address, level :
        /\ pointer = live[i].ptr
        /\ e = EntryOf(pointer)
        /\ limit = DataStart(KernelMmap[e])
        /\ address = KernelMmap[e].Base + (pointer - limit) \div ScalingFactor
        /\ level = SizeLevel(live[i].size)
  OBVIOUS
<1>2. live' = Dropped(i) /\ UNCHANGED KernelMmap /\ call = Idle
  BY DEF FreeBlock
<1>3. CASE call' = Wild /\ UNCHANGED <<Nodes, mem>>
  <2>1. call'.op = "wild"
    BY <1>3 DEF Wild
  <2> QED BY <1>2, <1>3, <2>1, GivenUpInv
<1>4. CASE /\ PushBlock(address, pointer, PreviousNode(KernelMmap[e].Base, address),
                        NextNode(limit, address), level)
           /\ call' = [op |-> "merge", node |-> address, level |-> level]
  <2>1. level \in Levels
    <3>1. live[i] \in [ptr : Nat, size : Sizes]
      BY LenProperties, ElementOfSeq DEF TypeOK
    <3>2. live[i].size \in Sizes
      BY <3>1
    <3> QED BY <1>1, <3>2, SizeLevelFits
  <2>2. PICK a : NodeAt(KernelMmap, a, pointer, level)
    BY <1>1 DEF HeapInv, NodesMatchBlocks
  <2>3. /\ e \in DOMAIN KernelMmap /\ a = address
        /\ address \in Nat /\ KernelMmap[e].Base <= address /\ address < limit
    BY <1>1, <2>1, <2>2, NodeFound
  <2>4. limit \in Nat /\ KernelMmap[e].Base \in Nat
    BY <1>1, <2>3, EntryShape DEF TypeOK
  <2>5. PICK previous \in Slot, next \in Slot :
          /\ previous = PreviousNode(KernelMmap[e].Base, address)
          /\ next = NextNode(limit, address)
    <3>1. address <= limit
      BY <2>3, <2>4
    <3> QED BY <1>1, <2>3, <3>1, NeighbourTypes
  <2>6. PICK piece : piece = pointer .. pointer + BlockSize(level) - 1
    OBVIOUS
  <2>7. piece = LiveExtent(i)
    BY <1>1, <2>6 DEF LiveExtent
  <2>8. \A b \in FreeNodes : FreeExtent(b) \cap piece = {}
    BY <2>7 DEF HeapInv, BlocksDisjoint
  <2>9. PushBlock(address, pointer, previous, next, level)
    BY <1>4, <2>5
  <2>10. /\ FreeKeep(FreeNodes)
         /\ FreeNodes' = FreeNodes \cup {address}
         /\ FreeExtent(address)' = piece
    BY <1>2, <2>1, <2>2, <2>3, <2>6, <2>8, <2>9, PushStep
  <2>11. /\ FreeKeep({}) /\ DOMAIN mem' = DOMAIN mem
         /\ \A b \in FreeNodes : FreeExtent(b)' = FreeExtent(b)
    BY <2>10 DEF FreeKeep
  <2>12. /\ LiveAreBlocks'
         /\ \A j \in DOMAIN live' : \E k \in DOMAIN live \ {i} : LiveExtent(j)' = LiveExtent(k)
         /\ \A k \in DOMAIN live \ {i} : \E j \in DOMAIN live' : LiveExtent(j)' = LiveExtent(k)
         /\ \A j, k \in DOMAIN live' : j # k => LiveExtent(j)' \cap LiveExtent(k)' = {}
    BY <1>2, <2>11, DroppedExtents
  <2>13. Pending' = {} /\ CallIsSound' /\ Pending = {}
    BY <1>2, <1>4
       DEF Pending, Idle, CallIsSound, DivisionSucceeds, NullOnlyWhenExhausted
  <2>14. BlocksDisjoint'
    <3>1. \A b, c \in FreeNodes' : b # c => FreeExtent(b)' \cap FreeExtent(c)' = {}
      BY <2>8, <2>10, <2>11 DEF BlocksDisjoint, HeapInv
    <3>2. ASSUME NEW b \in FreeNodes', NEW j \in DOMAIN live'
          PROVE  FreeExtent(b)' \cap LiveExtent(j)' = {}
      <4>1. PICK k \in DOMAIN live \ {i} : LiveExtent(j)' = LiveExtent(k)
        BY <2>12
      <4>2. piece \cap LiveExtent(k) = {}
        BY <2>7 DEF HeapInv, BlocksDisjoint
      <4>3. \A c \in FreeNodes : FreeExtent(c) \cap LiveExtent(k) = {}
        BY DEF HeapInv, BlocksDisjoint
      <4> QED BY <2>10, <2>11, <4>1, <4>2, <4>3
    <3> QED BY <2>12, <3>1, <3>2 DEF BlocksDisjoint
  <2>15. OwnersKept
    <3> SUFFICES ASSUME NEW x PROVE Owned(x)' <=> Owned(x)
      BY DEF OwnersKept
    <3>1. ASSUME NEW b \in FreeNodes, x \in FreeExtent(b) PROVE Owned(x)'
      BY <2>10, <2>11, <3>1 DEF Owned
    <3>2. ASSUME NEW k \in DOMAIN live, x \in LiveExtent(k) PROVE Owned(x)'
      <4>1. CASE k = i
        BY <2>7, <2>10, <3>2, <4>1 DEF Owned
      <4>2. CASE k # i
        BY <2>12, <3>2, <4>2 DEF Owned
      <4> QED BY <4>1, <4>2
    <3>3. ASSUME NEW b \in FreeNodes', x \in FreeExtent(b)' PROVE Owned(x)
      BY <2>7, <2>10, <2>11, <3>3 DEF Owned
    <3>4. ASSUME NEW j \in DOMAIN live', x \in LiveExtent(j)' PROVE Owned(x)
      BY <2>12, <3>4 DEF Owned
    <3> QED BY <2>13, <3>1, <3>2, <3>3, <3>4 DEF Owned
  <2>16. call'.op = "merge"
    BY <1>4
  <2> QED BY <1>2, <2>11, <2>12, <2>13, <2>14, <2>15, <2>16, HeapInvFrom DEF PendingUnowned
<1> QED BY <1>1, <1>3, <1>4 DEF FreeBlock

Given == call.op \notin {"wild", "false"}

LEMMA FreeInv ==
  ASSUME TypeOK, HeapInv, NEW i \in DOMAIN live, Free(i)
  PROVE  HeapInv' /\ IF Given' THEN OwnersKept ELSE OwnersButOf(i)
<1>1. CASE FreeRefused(i)
  <2>1. call'.op = "false"
    BY <1>1 DEF FreeRefused
  <2> QED BY <1>1, <2>1, GivenUpInv DEF FreeRefused, Given
<1>2. CASE FreeBlock(i)
  <2>1. call'.op # "false"
    BY <1>2 DEF FreeBlock, Wild
  <2> QED BY <1>2, <2>1, FreeBlockInv DEF Given
<1> QED BY <1>1, <1>2 DEF Free

-----------------------------------------------------------------------------
(***************************************************************************)
(* MergeBlock().  Neighbours and lists are unlinked one after the other.   *)
(***************************************************************************)
SameSizes(m, m2) ==
  /\ DOMAIN m2 = Slots(KernelMmap)
  /\ \A a \in Slots(KernelMmap) :
       /\ m2[a].Pointer = m[a].Pointer
       /\ m2[a].Level = m[a].Level
       /\ m2[a].SizePrevious = m[a].SizePrevious
       /\ m2[a].SizeNext = m[a].SizeNext

LEMMA PosUnlinkedFields ==
  ASSUME NEW m \in [Slots(KernelMmap) -> NodeRecords], NEW before, NEW after,
         NEW m2, m2 = PosUnlinked(m, before, after)
  PROVE  SameSizes(m, m2)
<1>1. DOMAIN m2 = Slots(KernelMmap)
  BY DEF PosUnlinked
<1>2. ASSUME NEW a \in Slots(KernelMmap)
      PROVE  /\ m2[a].Pointer = m[a].Pointer
             /\ m2[a].Level = m[a].Level
             /\ m2[a].SizePrevious = m[a].SizePrevious
             /\ m2[a].SizeNext = m[a].SizeNext
  <2>1. PICK own \in NodeRecords : own = m[a]
    OBVIOUS
  <2>2. m2[a] = [own EXCEPT !.PosNext     = IF a = before THEN after ELSE own.PosNext,
                            !.PosPrevious = IF a = after THEN before ELSE own.PosPrevious]
    BY <2>1 DEF PosUnlinked
  <2> QED BY <2>1, <2>2 DEF NodeRecords
<1> QED BY <1>1, <1>2 DEF SameSizes

SizesWithout(m, node, m2) ==
  /\ DOMAIN m2 = Slots(KernelMmap)
  /\ \A a \in Slots(KernelMmap) :
       /\ m2[a].Pointer = m[a].Pointer
       /\ m2[a].Level = m[a].Level
       /\ m2[a].SizeNext = IF a = m[node].SizePrevious THEN m[node].SizeNext ELSE m[a].SizeNext
       /\ m2[a].SizePrevious = IF a = m[node].SizeNext THEN m[node].SizePrevious
                               ELSE m[a].SizePrevious

LEMMA SizeUnlinkedFields ==
  ASSUME NEW m \in [Slots(KernelMmap) -> NodeRecords], NEW node,
         NEW m2, m2 = SizeUnlinked(m, node)
  PROVE  SizesWithout(m, node, m2)
<1>1. PICK below, above : below = m[node].SizePrevious /\ above = m[node].SizeNext
  OBVIOUS
<1>2. DOMAIN m2 = Slots(KernelMmap)
  BY DEF SizeUnlinked
<1>3. ASSUME NEW a \in Slots(KernelMmap)
      PROVE  /\ m2[a].Pointer = m[a].Pointer
             /\ m2[a].Level = m[a].Level
             /\ m2[a].SizeNext = IF a = below THEN above ELSE m[a].SizeNext
             /\ m2[a].SizePrevious = IF a = above THEN below ELSE m[a].SizePrevious
  <2>1. PICK own \in NodeRecords : own = m[a]
    OBVIOUS
  <2>2. m2[a] = [own EXCEPT !.SizeNext     = IF a = below THEN above ELSE own.SizeNext,
                            !.SizePrevious = IF a = above THEN below ELSE own.SizePrevious]
    BY <1>1, <2>1 DEF SizeUnlinked
  <2> QED BY <2>1, <2>2 DEF NodeRecords
<1> QED BY <1>1, <1>2, <1>3 DEF SizesWithout

LEMMA UnlinkKeeps ==
  ASSUME NEW m, NEW heads, NEW F \in SUBSET Slots(KernelMmap), Listed(m, heads, F),
         NEW node \in F, NEW level \in Levels, m[node].Level = level,
         NEW m2, SizesWithout(m, node, m2),
         NEW heads2, heads2[level] = HeadWithout(m, node, heads[level]),
         \A l \in Levels \ {level} : heads2[l] = heads[l]
  PROVE  Listed(m2, heads2, F \ {node})
<1>1. Unlinks(m, heads, F, node, m2, heads2)
  BY DEF Unlinks, SizesWithout
<1> QED BY <1>1, UnlinkKeepsListed

LEMMA MergedNodes ==
  ASSUME TypeOK, HeapInv, call.op = "merge", call.level < MaxLevel,
         NEW left \in Slots(KernelMmap), NEW right \in Slots(KernelMmap),
         SoundMerge(left, right), Merge(left, right)
  PROVE  /\ Listed(mem', Nodes', FreeNodes')
         /\ DOMAIN mem' = Slots(KernelMmap)
         /\ FreeNodes' = FreeNodes \ {right}
         /\ mem'[left].Pointer = mem[left].Pointer
         /\ mem'[left].Level = call.level + 1
         /\ \A a \in FreeNodes' \ {left} :
              mem'[a].Pointer = mem[a].Pointer /\ mem'[a].Level = mem[a].Level
<1>1. PICK level, before, after, first, second, third, heads, cleared, without :
        /\ level   = call.level
        /\ before  = mem[left].PosPrevious
        /\ after   = mem[right].PosNext
        /\ first   = PosUnlinked(mem, before, after)
        /\ second  = SizeUnlinked(first, left)
        /\ third   = SizeUnlinked(second, right)
        /\ heads   = [Nodes EXCEPT
                        ![level] = HeadAfter(second, right, HeadAfter(first, left, @))]
        /\ cleared = [third EXCEPT ![left] = EmptyNode, ![right] = EmptyNode]
        /\ without = SizeUnlinked(mem, left)
  OBVIOUS
<1>2. level \in Levels /\ level + 1 \in Levels
  <2>1. call \in [op : {"merge"}, node : Slots(KernelMmap), level : Levels]
    BY CallTypes DEF TypeOK
  <2> QED BY <1>1, <2>1, LevelAbove
<1>3. /\ mem' = Pushed(cleared, heads, left, mem[left].Pointer, before, after, level + 1)
      /\ Nodes' = [heads EXCEPT ![level + 1] = left]
  BY <1>1 DEF Merge
<1>4. mem \in [Slots(KernelMmap) -> NodeRecords] /\ Nodes \in [Levels -> Slot]
  BY DEF TypeOK
<1>5. before \in Slot /\ after \in Slot /\ mem[left].Pointer \in Nat
  BY <1>1, <1>4 DEF NodeRecords
<1>6. first \in [Slots(KernelMmap) -> NodeRecords] /\ SameSizes(mem, first)
  BY <1>1, <1>4, <1>5, UnlinkedTypes, PosUnlinkedFields
<1>7. second \in [Slots(KernelMmap) -> NodeRecords] /\ SizesWithout(first, left, second)
  BY <1>1, <1>6, UnlinkedTypes, SizeUnlinkedFields
<1>8. third \in [Slots(KernelMmap) -> NodeRecords] /\ SizesWithout(second, right, third)
  BY <1>1, <1>7, UnlinkedTypes, SizeUnlinkedFields
<1>9. SizesWithout(mem, left, without)
  BY <1>1, <1>4, SizeUnlinkedFields
<1>10. /\ left \in FreeNodes /\ right \in FreeNodes /\ left # right
       /\ mem[left].Level = level /\ mem[right].Level = level
  <2>1. /\ IsFree(left) /\ IsFree(right) /\ right - left = BlockPages[level]
        /\ mem[left].Level = level /\ mem[right].Level = level
    BY <1>1 DEF SoundMerge, AreBuddies
  <2>2. left \in Nat /\ BlockPages[level] \in Nat \ {0}
    BY <1>2, LevelTypes, SlotsAreNat DEF TypeOK
  <2>3. left # right
    BY <2>1, <2>2
  <2> QED BY <1>4, <2>1, <2>3 DEF FreeNodes
<1>11. PICK head, one, two :
         /\ head = Nodes[level]
         /\ one = HeadWithout(first, left, head)
         /\ two = HeadWithout(second, right, one)
  OBVIOUS
<1>12. heads[level] = two /\ \A l \in Levels \ {level} : heads[l] = Nodes[l]
  <2>1. /\ HeadAfter(first, left, head) = HeadAfter(mem, left, head)
        /\ HeadWithout(first, left, head) = HeadWithout(mem, left, head)
    BY <1>6 DEF SameSizes, HeadAfter, HeadWithout
  <2>2. /\ second[right].SizeNext = without[right].SizeNext
        /\ second[right].SizePrevious = without[right].SizePrevious
    BY <1>6, <1>7, <1>9 DEF SameSizes, SizesWithout
  <2>3. HeadAfter(without, right, HeadAfter(mem, left, head))
          = HeadWithout(without, right, HeadWithout(mem, left, head))
    BY <1>1, <1>11 DEF SoundMerge, HeadIsRight
  <2>4. HeadAfter(second, right, HeadAfter(first, left, head)) = two
    BY <1>11, <2>1, <2>2, <2>3 DEF HeadAfter, HeadWithout
  <2> QED BY <1>1, <1>2, <1>4, <1>11, <2>4
<1>13. PICK heads1 :
         heads1 = [l \in Levels |-> IF l = level THEN one ELSE Nodes[l]]
  OBVIOUS
<1>14. FreeNodes \in SUBSET Slots(KernelMmap)
  BY <1>4 DEF FreeNodes
<1>15. Listed(first, Nodes, FreeNodes)
  <2>1. Listed(mem, Nodes, FreeNodes)
    BY IntactIsListed DEF HeapInv
  <2>2. SameLists(mem, Nodes, FreeNodes, first, Nodes)
    BY <1>6, <1>14 DEF SameLists, SameSizes
  <2> QED BY <2>1, <2>2, SameKeepsListed
<1>16. Listed(second, heads1, FreeNodes \ {left})
  <2>1. first[left].Level = level
    BY <1>6, <1>10 DEF SameSizes
  <2>2. heads1[level] = HeadWithout(first, left, Nodes[level])
    BY <1>2, <1>11, <1>13
  <2>3. \A l \in Levels \ {level} : heads1[l] = Nodes[l]
    BY <1>13
  <2> QED BY <1>2, <1>7, <1>10, <1>14, <1>15, <2>1, <2>2, <2>3, UnlinkKeeps
<1>17. Listed(third, heads, (FreeNodes \ {left}) \ {right})
  <2>1. second[right].Level = level
    BY <1>6, <1>7, <1>10 DEF SameSizes, SizesWithout
  <2>2. heads[level] = HeadWithout(second, right, heads1[level])
    BY <1>2, <1>11, <1>12, <1>13
  <2>3. \A l \in Levels \ {level} : heads[l] = heads1[l]
    BY <1>12, <1>13
  <2>4. FreeNodes \ {left} \in SUBSET Slots(KernelMmap) /\ right \in FreeNodes \ {left}
    BY <1>10, <1>14
  <2> QED BY <1>2, <1>8, <1>16, <2>1, <2>2, <2>3, <2>4, UnlinkKeeps
<1>18. PICK rest : rest = (FreeNodes \ {left}) \ {right}
  OBVIOUS
<1>19. /\ cleared \in [Slots(KernelMmap) -> NodeRecords]
       /\ cleared[left] = EmptyNode /\ cleared[right] = EmptyNode
       /\ \A a \in Slots(KernelMmap) \ {left, right} : cleared[a] = third[a]
  BY <1>1, <1>8, EmptyNodeType
<1>20. heads \in [Levels -> Slot]
  <2>1. HeadAfter(first, left, Nodes[level]) \in Slot
    BY <1>2, <1>4, <1>6, UnlinkedTypes
  <2>2. HeadAfter(second, right, HeadAfter(first, left, Nodes[level])) \in Slot
    BY <1>7, <2>1, UnlinkedTypes
  <2> QED BY <1>1, <1>4, <2>2
<1>21. Listed(cleared, heads, rest)
  <2>1. SameLists(third, heads, rest, cleared, heads)
    BY <1>14, <1>18, <1>19 DEF SameLists
  <2> QED BY <1>17, <1>18, <2>1, SameKeepsListed
<1>22. PushEffect(cleared, heads, left, mem[left].Pointer, level + 1, mem', Nodes')
  <2>1. PICK up, pointer : up = level + 1 /\ pointer = mem[left].Pointer
    OBVIOUS
  <2> QED BY <1>2, <1>3, <1>5, <1>19, <1>20, <2>1, PushedFields
<1>23. Listed(mem', Nodes', rest \cup {left})
  <2>1. Pushes(cleared, heads, rest, left, level + 1, mem', Nodes')
    BY <1>14, <1>18, <1>22 DEF PushEffect, Pushes
  <2>2. left # Null /\ left \notin rest
    BY <1>18, SlotsAreNat DEF TypeOK, Null
  <2> QED BY <1>2, <1>21, <2>1, <2>2, PushKeepsListed
<1>24. /\ DOMAIN mem' = Slots(KernelMmap)
       /\ mem'[left].Pointer = mem[left].Pointer /\ mem'[left].Level = level + 1
  BY <1>22 DEF PushEffect, Pushes
<1>25. mem'[right].Pointer = Null
  <2>1. EmptyNode.Pointer = Null
    BY DEF EmptyNode
  <2> QED BY <1>10, <1>19, <1>22, <2>1 DEF PushEffect
<1>26. ASSUME NEW a \in Slots(KernelMmap) \ {left, right}
       PROVE  mem'[a].Pointer = mem[a].Pointer /\ mem'[a].Level = mem[a].Level
  <2>1. mem'[a].Pointer = cleared[a].Pointer /\ mem'[a].Level = cleared[a].Level
    BY <1>22 DEF PushEffect, Pushes
  <2>2. cleared[a] = third[a]
    BY <1>19
  <2>3. third[a].Pointer = mem[a].Pointer /\ third[a].Level = mem[a].Level
    BY <1>6, <1>7, <1>8 DEF SameSizes, SizesWithout
  <2> QED BY <2>1, <2>2, <2>3
<1>27. FreeNodes' = rest \cup {left} /\ rest \cup {left} = FreeNodes \ {right}
  <2>1. ASSUME NEW a \in Slots(KernelMmap)
        PROVE  mem'[a].Pointer # Null <=> a \in rest \cup {left}
    <3>1. CASE a = left
      BY <1>10, <1>24, <3>1 DEF FreeNodes, IsFree
    <3>2. CASE a = right
      BY <1>10, <1>18, <1>25, <3>2
    <3>3. CASE a \notin {left, right}
      BY <1>4, <1>18, <1>26, <3>3 DEF FreeNodes, IsFree
    <3> QED BY <3>1, <3>2, <3>3
  <2>2. rest \cup {left} = FreeNodes \ {right}
    BY <1>10, <1>18
  <2> QED BY <1>10, <1>14, <1>24, <2>1, <2>2 DEF FreeNodes, IsFree
<1>28. \A a \in FreeNodes' \ {left} : a \in Slots(KernelMmap) \ {left, right}
  BY <1>14, <1>27
<1> QED BY <1>1, <1>23, <1>24, <1>26, <1>27, <1>28

LEMMA MergeInv ==
  ASSUME TypeOK, HeapInv, call.op = "merge", call.level < MaxLevel,
         NEW left \in Slots(KernelMmap), NEW right \in Slots(KernelMmap),
         SoundMerge(left, right), Merge(left, right), UNCHANGED <<KernelMmap, live>>
  PROVE  HeapInv' /\ OwnersKept
<1>1. PICK level \in Levels : level = call.level
  BY CallTypes DEF TypeOK
<1>2. /\ Listed(mem', Nodes', FreeNodes')
      /\ DOMAIN mem' = Slots(KernelMmap)
      /\ FreeNodes' = FreeNodes \ {right}
      /\ mem'[left].Pointer = mem[left].Pointer
      /\ mem'[left].Level = level + 1
      /\ \A a \in FreeNodes' \ {left} :
           mem'[a].Pointer = mem[a].Pointer /\ mem'[a].Level = mem[a].Level
  BY <1>1, MergedNodes
<1>3. /\ left \in FreeNodes /\ right \in FreeNodes
      /\ mem[left].Level = level /\ mem[right].Level = level
      /\ right - left = BlockPages[level]
  BY <1>1 DEF SoundMerge, AreBuddies, FreeNodes, TypeOK
<1>4. PICK p, q : p = mem[left].Pointer /\ q = mem[right].Pointer
  OBVIOUS
<1>5. NodeAt(KernelMmap, left, p, level) /\ NodeAt(KernelMmap, right, q, level)
  BY <1>3, <1>4 DEF HeapInv, NodesMatchBlocks
<1>6. q = p + BlockSize(level) /\ NodeAt(KernelMmap, left, p, level + 1)
  BY <1>3, <1>5, BuddiesJoin
<1>7. p \in Nat /\ BlockSize(level) \in Nat \ {0} /\ BlockSize(level + 1) = 2 * BlockSize(level)
  BY <1>5, NodeAtFacts, LevelTypes, BlockSizes
<1>8. FreeExtent(left)' = FreeExtent(left) \cup FreeExtent(right)
  <2>1. /\ FreeExtent(left)' = p .. p + BlockSize(level + 1) - 1
        /\ FreeExtent(left) = p .. p + BlockSize(level) - 1
        /\ FreeExtent(right) = q .. q + BlockSize(level) - 1
    BY <1>2, <1>3, <1>4 DEF FreeExtent, BlockSize
  <2> QED BY <1>6, <1>7, <2>1
<1>9. \A a \in FreeNodes' \ {left} : FreeExtent(a)' = FreeExtent(a)
  BY <1>2 DEF FreeExtent
<1>10. left # right
  BY <1>3, LevelTypes, SlotsAreNat DEF TypeOK
<1>11. \A a \in FreeNodes' : NodeAt(KernelMmap, a, mem'[a].Pointer, mem'[a].Level)
  BY <1>2, <1>4, <1>6 DEF HeapInv, NodesMatchBlocks
<1>12. DOMAIN mem' = DOMAIN mem /\ FreeKeep({})
  BY <1>2, <1>11 DEF FreeKeep, TypeOK
<1>13. LiveAreBlocks' /\ \A i \in DOMAIN live : LiveExtent(i)' = LiveExtent(i)
  BY <1>12, LiveSame
<1>14. call'.op = "merge"
  <2>1. call \in [op : {"merge"}, node : Slots(KernelMmap), level : Levels]
    BY CallTypes DEF TypeOK
  <2>2. call' = [call EXCEPT !.node = left, !.level = level + 1]
    BY <1>1 DEF Merge
  <2> QED BY <2>1, <2>2
<1>15. Pending' = {} /\ CallIsSound' /\ Pending = {}
  BY <1>14 DEF Pending, CallIsSound, DivisionSucceeds, NullOnlyWhenExhausted
<1>16. BlocksDisjoint'
  <2>1. \A a \in FreeNodes' \ {left} :
          /\ a \in FreeNodes /\ a # left /\ a # right
          /\ FreeExtent(a) \cap FreeExtent(left) = {}
          /\ FreeExtent(a) \cap FreeExtent(right) = {}
    BY <1>2, <1>3 DEF HeapInv, BlocksDisjoint
  <2>2. \A a \in FreeNodes' \ {left} : FreeExtent(a)' \cap FreeExtent(left)' = {}
    BY <1>8, <1>9, <2>1
  <2>3. \A a, b \in FreeNodes' \ {left} : a # b => FreeExtent(a)' \cap FreeExtent(b)' = {}
    BY <1>9, <2>1 DEF HeapInv, BlocksDisjoint
  <2>4. \A a, b \in FreeNodes' : a # b => FreeExtent(a)' \cap FreeExtent(b)' = {}
    BY <2>2, <2>3
  <2>5. \A i \in DOMAIN live :
          /\ FreeExtent(left) \cap LiveExtent(i) = {}
          /\ FreeExtent(right) \cap LiveExtent(i) = {}
          /\ \A a \in FreeNodes' \ {left} : FreeExtent(a) \cap LiveExtent(i) = {}
    BY <1>3, <2>1 DEF HeapInv, BlocksDisjoint
  <2>6. \A a \in FreeNodes', i \in DOMAIN live : FreeExtent(a)' \cap LiveExtent(i)' = {}
    BY <1>8, <1>9, <1>13, <2>5
  <2>7. \A i, j \in DOMAIN live : i # j => LiveExtent(i)' \cap LiveExtent(j)' = {}
    BY <1>13 DEF HeapInv, BlocksDisjoint
  <2> QED BY <2>4, <2>6, <2>7 DEF BlocksDisjoint
<1>17. OwnersKept
  <2> SUFFICES ASSUME NEW x PROVE Owned(x)' <=> Owned(x)
    BY DEF OwnersKept
  <2>1. ASSUME NEW a \in FreeNodes, x \in FreeExtent(a) PROVE Owned(x)'
    <3>1. CASE a \in {left, right}
      BY <1>2, <1>3, <1>8, <1>10, <2>1, <3>1 DEF Owned
    <3>2. CASE a \notin {left, right}
      BY <1>2, <1>9, <2>1, <3>2 DEF Owned
    <3> QED BY <3>1, <3>2
  <2>2. ASSUME NEW i \in DOMAIN live, x \in LiveExtent(i) PROVE Owned(x)'
    BY <1>13, <2>2 DEF Owned
  <2>3. ASSUME NEW a \in FreeNodes', x \in FreeExtent(a)' PROVE Owned(x)
    <3>1. CASE a = left
      BY <1>3, <1>8, <2>3, <3>1 DEF Owned
    <3>2. CASE a # left
      BY <1>2, <1>9, <2>3, <3>2 DEF Owned
    <3> QED BY <3>1, <3>2
  <2>4. ASSUME NEW i \in DOMAIN live, x \in LiveExtent(i)' PROVE Owned(x)
    BY <1>13, <2>4 DEF Owned
  <2> QED BY <1>15, <2>1, <2>2, <2>3, <2>4 DEF Owned
<1> QED BY <1>12, <1>13, <1>15, <1>16, <1>17, HeapInvFrom DEF PendingUnowned

LEMMA MergeBlockInv ==
  ASSUME TypeOK, HeapInv, MergesAreSound, MergeBlock
  PROVE  HeapInv' /\ OwnersKept
<1>1. /\ call \in [op : {"merge"}, node : Slots(KernelMmap), level : Levels]
      /\ call.op = "merge" /\ UNCHANGED <<KernelMmap, live>>
  BY CallTypes DEF TypeOK, MergeBlock, MergePrevious, MergeNext, MergeDone
<1>2. mem[call.node].PosPrevious \in Slot /\ mem[call.node].PosNext \in Slot
  BY <1>1 DEF TypeOK, NodeRecords
<1>3. CASE MergePrevious
  <2>1. mem[call.node].PosPrevious \in Slots(KernelMmap)
    BY <1>2, <1>3 DEF MergePrevious, MatchesPrevious, Slot
  <2>2. SoundMerge(mem[call.node].PosPrevious, call.node)
    BY <1>3 DEF MergePrevious, MergesAreSound
  <2> QED BY <1>1, <1>3, <2>1, <2>2, MergeInv DEF MergePrevious
<1>4. CASE MergeNext
  <2>1. mem[call.node].PosNext \in Slots(KernelMmap)
    BY <1>2, <1>4 DEF MergeNext, MatchesNext, Slot
  <2>2. SoundMerge(call.node, mem[call.node].PosNext)
    BY <1>4 DEF MergeNext, MergesAreSound
  <2> QED BY <1>1, <1>4, <2>1, <2>2, MergeInv DEF MergeNext
<1>5. CASE MergeDone
  <2>1. UNCHANGED <<KernelMmap, Nodes, mem, live>> /\ call' = Idle
    BY <1>5 DEF MergeDone
  <2>2. Pending' = Pending /\ CallIsSound'
    BY <1>1, <2>1 DEF Idle, Pending, CallIsSound, DivisionSucceeds, NullOnlyWhenExhausted
  <2> QED BY <2>1, <2>2, UnchangedInv
<1> QED BY <1>3, <1>4, <1>5 DEF MergeBlock

-----------------------------------------------------------------------------
(***************************************************************************)
(* Every step keeps the invariant.  It also keeps exactly the owned        *)
(* addresses, until Free() refuses a block or reads a node that is none.   *)
(***************************************************************************)
LEMMA AllocateInv ==
  ASSUME TypeOK, HeapInv, Allocate
  PROVE  HeapInv' /\ OwnersKept /\ Given
<1>1. ASSUME NEW size \in Sizes, AllocatePop(size)
      PROVE  HeapInv' /\ OwnersKept /\ Given
  <2>1. /\ PopAndReturn(SizeLevel(size), size) /\ UNCHANGED KernelMmap /\ call = Idle
        /\ Nodes[SizeLevel(size)] = Null => Larger(SizeLevel(size)) = {}
    BY <1>1 DEF AllocatePop
  <2>2. Pending = {} /\ Given
    BY <2>1 DEF Idle, Pending, Given
  <2> QED BY <2>1, <2>2, PopAndReturnInv
<1>2. ASSUME NEW size \in Sizes, AllocateDivide(size)
      PROVE  HeapInv' /\ OwnersKept /\ Given
  BY <1>2, AllocateDivideInv DEF AllocateDivide, Idle, Given
<1>3. CASE DividePush
  BY <1>3, DividePushInv DEF DividePush, Given
<1>4. CASE DivideLast
  BY <1>4, DivideLastInv DEF DivideLast, Given
<1>5. CASE DividePop
  <2>1. /\ call \in [op : {"null", "pop"}, size : Sizes] /\ call.op = "pop"
        /\ PopAndReturn(SizeLevel(call.size), call.size) /\ UNCHANGED KernelMmap
    BY <1>5, CallTypes DEF DividePop, TypeOK
  <2>2. Pending = {} /\ Given /\ call.size \in Sizes
    BY <2>1 DEF Pending, Given
  <2>3. Nodes[SizeLevel(call.size)] # Null
    BY <2>1 DEF HeapInv, DivisionSucceeds
  <2> QED BY <2>1, <2>2, <2>3, PopAndReturnInv
<1>6. CASE NullSeen
  <2>1. UNCHANGED <<KernelMmap, Nodes, mem, live>> /\ call' = Idle /\ call.op = "null"
    BY <1>6 DEF NullSeen
  <2>2. Pending' = Pending /\ CallIsSound' /\ Given
    BY <2>1
       DEF Idle, Pending, CallIsSound, DivisionSucceeds, NullOnlyWhenExhausted, Given
  <2> QED BY <2>1, <2>2, UnchangedInv
<1> QED BY <1>1, <1>2, <1>3, <1>4, <1>5, <1>6 DEF Allocate

LEMMA FalseSeenInv ==
  ASSUME TypeOK, HeapInv, FalseSeen
  PROVE  HeapInv' /\ OwnersKept
<1>1. UNCHANGED <<KernelMmap, Nodes, mem, live>> /\ call' = Idle /\ call.op = "false"
  BY DEF FalseSeen
<1>2. Pending' = Pending /\ CallIsSound'
  BY <1>1 DEF Idle, Pending, CallIsSound, DivisionSucceeds, NullOnlyWhenExhausted
<1> QED BY <1>1, <1>2, UnchangedInv

LEMMA StutterInv ==
  ASSUME TypeOK, HeapInv, UNCHANGED vars
  PROVE  HeapInv' /\ OwnersKept /\ Given' = Given
<1>1. UNCHANGED <<KernelMmap, Nodes, mem, live, call>>
  BY DEF vars
<1>2. Pending' = Pending /\ Given' = Given
  BY <1>1 DEF Pending, Memory, Given
<1>3. CallIsSound'
  BY <1>1 DEF HeapInv, NodesMatchBlocks, CallIsSound, DivisionSucceeds,
              NullOnlyWhenExhausted, FreeNodes, IsFree
<1> QED BY <1>1, <1>2, <1>3, UnchangedInv

LEMMA NextInv ==
  ASSUME TypeOK, HeapInv, MergesAreSound, [Next]_vars
  PROVE  HeapInv' /\ (Given' /\ ~FalseSeen => OwnersKept /\ Given)
<1>1. CASE Carve
  <2>1. Given
    BY <1>1 DEF Given, Carve, CarveBlock, CarveNextEntry, CarveDone
  <2> QED BY <1>1, <2>1, CarveInv
<1>2. CASE Allocate
  BY <1>2, AllocateInv
<1>3. ASSUME NEW i \in DOMAIN live, Free(i)
      PROVE  HeapInv' /\ (Given' => OwnersKept /\ Given)
  <2>1. Given
    BY <1>3 DEF Given, Free, FreeRefused, FreeBlock, Idle
  <2> QED BY <1>3, <2>1, FreeInv
<1>4. CASE MergeBlock
  <2>1. Given
    BY <1>4 DEF Given, MergeBlock, MergePrevious, MergeNext, MergeDone
  <2> QED BY <1>4, <2>1, MergeBlockInv
<1>5. CASE FalseSeen
  BY <1>5, FalseSeenInv
<1>6. CASE UNCHANGED vars
  BY <1>6, StutterInv
<1> QED BY <1>1, <1>2, <1>3, <1>4, <1>5, <1>6 DEF Next

LEMMA HeapSafety == Spec /\ []MergesAreSound => [](TypeOK /\ HeapInv)
<1>1. Init => TypeOK /\ HeapInv
  BY InitTypeOK, HeapInit
<1>2. (TypeOK /\ HeapInv) /\ MergesAreSound /\ [Next]_vars => (TypeOK /\ HeapInv)'
  BY NextTypeOK, NextInv
<1> QED BY <1>1, <1>2, PTL DEF Spec

(***************************************************************************)
(* Whatever clients ask for and free, in whichever order: as long as       *)
(* MergeBlock() merges only what may become one, the lists, the nodes, the *)
(* blocks that clients hold and the call in progress agree at every step.  *)
(***************************************************************************)
THEOREM HeapInvariant == Spec /\ []MergesAreSound => []HeapInv
BY HeapSafety, PTL

(***************************************************************************)
(* As long as merges are sound, no memory is ever in two blocks.           *)
(***************************************************************************)
THEOREM BlocksAlwaysDisjoint == Spec /\ []MergesAreSound => []BlocksDisjoint
<1>1. TypeOK /\ HeapInv => BlocksDisjoint
  BY DEF HeapInv
<1> QED BY <1>1, HeapSafety, PTL

(***************************************************************************)
(* As long as merges are sound, Allocate() returns NULL only when no free  *)
(* block is large enough: DivideBlock() always finds the block it looks    *)
(* for, and leaves one of the size that was asked for.                     *)
(***************************************************************************)
THEOREM NullMeansExhausted == Spec /\ []MergesAreSound => []NullOnlyWhenExhausted
<1>1. TypeOK /\ HeapInv => NullOnlyWhenExhausted
  BY DEF HeapInv
<1> QED BY <1>1, HeapSafety, PTL

-----------------------------------------------------------------------------
(***************************************************************************)
(* No page is lost.                                                        *)
(***************************************************************************)
Covered == Given => \A x \in Memory : Owned(x)

LEMMA CoveredInit == TypeOK /\ Init => Covered
<1> SUFFICES ASSUME TypeOK, Init, NEW x \in Memory
             PROVE  x \in Pending
  BY DEF Covered, Owned
<1>1. call.op = "carve" /\ call.entry = 1 /\ call.page = 0
  BY DEF Init
<1>2. PICK e \in DOMAIN KernelMmap : x \in EntryMemory(KernelMmap[e])
  BY DEF Memory
<1>3. e >= 1
  BY MapIsSequence DEF TypeOK
<1>4. DataStart(KernelMmap[e]) \in Nat
  BY EntryShape DEF TypeOK
<1>5. x >= PagePointer(KernelMmap[e], 0)
  BY <1>2, <1>4, ScalingFactorAssumption DEF EntryMemory, PagePointer
<1> QED BY <1>1, <1>2, <1>3, <1>5 DEF Pending

LEMMA MemoryKept ==
  ASSUME [Next]_vars
  PROVE  Memory' = Memory
<1>1. UNCHANGED KernelMmap
  BY DEF Next, Carve, CarveBlock, CarveNextEntry, CarveDone, Allocate, AllocatePop,
         AllocateDivide, DividePush, DivideLast, DividePop, NullSeen, Free, FreeRefused,
         FreeBlock, MergeBlock, MergePrevious, MergeNext, MergeDone, FalseSeen, vars
<1> QED BY <1>1 DEF Memory

LEMMA CoveredNext ==
  ASSUME TypeOK, HeapInv, MergesAreSound, Covered, [Next /\ ~FalseSeen]_vars
  PROVE  Covered'
<1>1. Memory' = Memory
  BY MemoryKept
<1>2. CASE Next /\ ~FalseSeen
  <2>1. Given' => OwnersKept /\ Given
    BY <1>2, NextInv
  <2> QED BY <1>1, <2>1 DEF Covered, OwnersKept
<1>3. CASE UNCHANGED vars
  <2>1. Given' = Given /\ OwnersKept
    BY <1>3, StutterInv
  <2> QED BY <1>1, <2>1 DEF Covered, OwnersKept
<1> QED BY <1>2, <1>3

LEMMA DataInMemory ==
  ASSUME TypeOK, NEW pointer \in DataPointers
  PROVE  pointer \in Memory
<1>1. PICK e \in DOMAIN KernelMmap :
        \E page \in 0 .. DataPages(KernelMmap[e]) - 1 : pointer = PagePointer(KernelMmap[e], page)
  BY DEF DataPointers
<1>1a. PICK page \in 0 .. DataPages(KernelMmap[e]) - 1 :
         pointer = PagePointer(KernelMmap[e], page)
  BY <1>1
<1>2. /\ KernelMmap[e].Base \in Nat /\ KernelMmap[e].Limit \in Nat
      /\ DataStart(KernelMmap[e]) \in Nat /\ DataPages(KernelMmap[e]) \in Int
      /\ DataStart(KernelMmap[e]) + DataPages(KernelMmap[e]) * ScalingFactor
           = KernelMmap[e].Base + KernelMmap[e].Limit
  BY EntryShape DEF TypeOK
<1>3. page \in Nat /\ page + 1 <= DataPages(KernelMmap[e])
  BY <1>2
<1>4. /\ (page + 1) * ScalingFactor <= DataPages(KernelMmap[e]) * ScalingFactor
      /\ (page + 1) * ScalingFactor = page * ScalingFactor + ScalingFactor
      /\ page * ScalingFactor \in Nat /\ DataPages(KernelMmap[e]) * ScalingFactor \in Int
  BY <1>2, <1>3, ScalingFactorAssumption
<1>5. pointer = DataStart(KernelMmap[e]) + page * ScalingFactor
  BY <1>1a DEF PagePointer
<1>6. pointer \in EntryMemory(KernelMmap[e])
  BY <1>2, <1>4, <1>5, ScalingFactorAssumption DEF EntryMemory
<1> QED BY <1>6 DEF Memory

LEMMA OwnerIsUnique ==
  ASSUME HeapInv, call = Idle, NEW pointer, Owned(pointer)
  PROVE  \E owner \in Owners(pointer) : Owners(pointer) = {owner}
<1>1. pointer \notin Pending
  BY DEF Idle, Pending
<1>2. ASSUME NEW a \in FreeNodes, pointer \in FreeExtent(a)
      PROVE  Owners(pointer) = {<<"free", a>>}
  <2>1. {b \in FreeNodes : pointer \in FreeExtent(b)} = {a}
    BY <1>2 DEF HeapInv, BlocksDisjoint
  <2>2. {j \in DOMAIN live : pointer \in LiveExtent(j)} = {}
    BY <1>2 DEF HeapInv, BlocksDisjoint
  <2> QED BY <2>1, <2>2 DEF Owners
<1>3. ASSUME NEW i \in DOMAIN live, pointer \in LiveExtent(i)
      PROVE  Owners(pointer) = {<<"live", i>>}
  <2>1. {b \in FreeNodes : pointer \in FreeExtent(b)} = {}
    BY <1>3 DEF HeapInv, BlocksDisjoint
  <2>2. {j \in DOMAIN live : pointer \in LiveExtent(j)} = {i}
    BY <1>3 DEF HeapInv, BlocksDisjoint
  <2> QED BY <2>1, <2>2 DEF Owners
<1> QED BY <1>1, <1>2, <1>3 DEF Owned

LEMMA CoveredIsExact ==
  ASSUME TypeOK, HeapInv, Covered
  PROVE  EveryPageHasOneOwner
BY DataInMemory, OwnerIsUnique DEF EveryPageHasOneOwner, Covered, Given, Idle

(***************************************************************************)
(* As long as merges are sound, and callers give up when Free() reports a  *)
(* failure, every page of every entry belongs to exactly one block between *)
(* calls: DivideBlock() and MergeBlock() lose no page.                     *)
(***************************************************************************)
THEOREM NoPageIsLost ==
  Init /\ [][Next /\ ~FalseSeen]_vars /\ []MergesAreSound => []EveryPageHasOneOwner
<1>1. Init => TypeOK /\ HeapInv /\ Covered
  BY InitTypeOK, HeapInit, CoveredInit
<1>2. /\ TypeOK /\ HeapInv /\ Covered
      /\ MergesAreSound
      /\ [Next /\ ~FalseSeen]_vars
      => (TypeOK /\ HeapInv /\ Covered)'
  BY NextTypeOK, NextInv, CoveredNext
<1>3. TypeOK /\ HeapInv /\ Covered => EveryPageHasOneOwner
  BY CoveredIsExact
<1> QED BY <1>1, <1>2, <1>3, PTL

-----------------------------------------------------------------------------
(***************************************************************************)
(* Every step of the allocator is a step of the heap that clients are      *)
(* promised, or no step of it.                                             *)
(***************************************************************************)
LEMMA BlockFits ==
  ASSUME NEW p \in Nat, NEW size \in Sizes
  PROVE  /\ size \in Nat \ {0}
         /\ p .. p + size - 1 \subseteq p .. p + BlockSize(SizeLevel(size)) - 1
<1>1. size \in Nat \ {0} /\ size <= BlockSize(SizeLevel(size))
  BY SizeLevelFits, SizeAssumption
<1>2. BlockSize(SizeLevel(size)) \in Nat
  BY SizeLevelFits, LevelTypes, BlockSizes
<1> QED BY <1>1, <1>2

LEMMA PopRefines ==
  ASSUME TypeOK, TypeOK', HeapInv', NEW size \in Sizes,
         PopAndReturn(SizeLevel(size), size), UNCHANGED KernelMmap
  PROVE  Promise!HeapAllocate \/ UNCHANGED <<Memory, live>>
<1>1. Memory' = Memory
  BY DEF Memory
<1>2. CASE ~CanPop(SizeLevel(size))
  BY <1>1, <1>2 DEF PopAndReturn
<1>3. CASE CanPop(SizeLevel(size))
  <2>1. PICK block : live' = Append(live, block)
    BY <1>3 DEF PopAndReturn
  <2>2. PICK n \in Nat :
          /\ Len(live) = n /\ DOMAIN live = 1 .. n
          /\ Len(live') = n + 1 /\ DOMAIN live' = 1 .. n + 1
          /\ live'[n + 1] = block
          /\ \A i \in DOMAIN live : live'[i] = live[i]
    BY <2>1, LenProperties DEF TypeOK
  <2>3. PICK k : k = n + 1 /\ k \in DOMAIN live' /\ k \notin DOMAIN live
    BY <2>2
  <2>4. ASSUME NEW i \in DOMAIN live'
        PROVE  /\ live'[i] \in [ptr : Nat, size : Nat \ {0}]
               /\ live'[i].ptr .. live'[i].ptr + live'[i].size - 1 \subseteq LiveExtent(i)'
               /\ LiveExtent(i)' \subseteq Memory
    <3>1. live'[i] \in [ptr : Nat, size : Sizes]
      BY LenProperties, ElementOfSeq DEF TypeOK
    <3>2. PICK p \in Nat, s \in Sizes : p = live'[i].ptr /\ s = live'[i].size
      BY <3>1
    <3>3. LiveExtent(i)' = p .. p + BlockSize(SizeLevel(s)) - 1
      BY <3>2 DEF LiveExtent
    <3>4. PICK a : NodeAt(KernelMmap, a, p, SizeLevel(s))
      BY <3>2 DEF HeapInv, NodesMatchBlocks
    <3>5. LiveExtent(i)' \subseteq Memory
      BY <3>3, <3>4, NodeAtFacts, SizeLevelFits, LevelTypes
    <3>6. s \in Nat \ {0} /\ p .. p + s - 1 \subseteq LiveExtent(i)'
      BY <3>3, BlockFits
    <3> QED BY <3>1, <3>2, <3>5, <3>6
  <2>5. \A i \in DOMAIN live : LiveExtent(k)' \cap LiveExtent(i)' = {} /\ i \in DOMAIN live'
    BY <2>2, <2>3 DEF HeapInv, BlocksDisjoint
  <2>6. Promise!Block = [ptr : Nat, size : Nat \ {0}]
    BY DEF Promise!Block
  <2>7. live'[k] = block
    BY <2>2, <2>3
  <2>8. Promise!Extent(block) \subseteq Memory /\ block \in Promise!Block
    BY <2>3, <2>4, <2>6, <2>7 DEF Promise!Extent
  <2>9. \A i \in DOMAIN live : Promise!Extent(block) \cap Promise!Extent(live[i]) = {}
    <3> SUFFICES ASSUME NEW i \in DOMAIN live
                 PROVE  Promise!Extent(block) \cap Promise!Extent(live[i]) = {}
      OBVIOUS
    <3>1. live'[i] = live[i] /\ i \in DOMAIN live' /\ LiveExtent(k)' \cap LiveExtent(i)' = {}
      BY <2>2, <2>5
    <3>2. Promise!Extent(live[i]) \subseteq LiveExtent(i)'
      BY <2>4, <3>1 DEF Promise!Extent
    <3>3. Promise!Extent(block) \subseteq LiveExtent(k)'
      BY <2>3, <2>4, <2>7 DEF Promise!Extent
    <3> QED BY <3>1, <3>2, <3>3
  <2>10. live'[Len(live')] = block /\ Len(live') = Len(live) + 1
    BY <2>2
  <2> QED BY <1>1, <2>1, <2>8, <2>9, <2>10 DEF Promise!HeapAllocate
<1> QED BY <1>2, <1>3

LEMMA NextRefines ==
  ASSUME TypeOK, TypeOK', HeapInv', [Next]_vars
  PROVE  Promise!HeapNext \/ UNCHANGED <<Memory, live>>
<1>1. ASSUME UNCHANGED <<KernelMmap, live>>
      PROVE  UNCHANGED <<Memory, live>>
  BY <1>1 DEF Memory
<1>2. CASE Carve
  BY <1>1, <1>2 DEF Carve, CarveBlock, CarveNextEntry, CarveDone
<1>3. ASSUME NEW size \in Sizes, AllocatePop(size)
      PROVE  Promise!HeapNext \/ UNCHANGED <<Memory, live>>
  BY <1>3, PopRefines DEF AllocatePop, Promise!HeapNext
<1>4. ASSUME NEW size \in Sizes, AllocateDivide(size)
      PROVE  UNCHANGED <<Memory, live>>
  BY <1>1, <1>4 DEF AllocateDivide
<1>5. CASE DividePush \/ DivideLast \/ NullSeen \/ FalseSeen \/ MergeBlock
  BY <1>1, <1>5 DEF DividePush, DivideLast, NullSeen, FalseSeen, MergeBlock, MergePrevious,
                    MergeNext, MergeDone
<1>6. CASE DividePop
  BY <1>6, CallTypes, PopRefines DEF DividePop, TypeOK, Promise!HeapNext
<1>7. ASSUME NEW i \in DOMAIN live, Free(i)
      PROVE  Promise!HeapNext
  <2>1. live' = Dropped(i) /\ UNCHANGED KernelMmap
    BY <1>7 DEF Free, FreeRefused, FreeBlock
  <2>2. UNCHANGED Memory
    BY <2>1 DEF Memory
  <2>3. Promise!HeapFree
    BY <2>1, <2>2 DEF Promise!HeapFree, Dropped
  <2> QED BY <2>3 DEF Promise!HeapNext
<1>8. CASE UNCHANGED vars
  BY <1>1, <1>8 DEF vars
<1> QED BY <1>2, <1>3, <1>4, <1>5, <1>6, <1>7, <1>8 DEF Next, Allocate

LEMMA InitRefines == Init => Promise!HeapInit
<1> SUFFICES ASSUME Init PROVE Promise!HeapInit
  OBVIOUS
<1>1. Memory \subseteq Nat
  BY EntryShape DEF Init, Memory, EntryMemory
<1> QED BY <1>1 DEF Init, Promise!HeapInit

(***************************************************************************)
(* As long as merges are sound, the allocator is a heap: a block that is   *)
(* returned is of the size asked for, within the data part of one of the   *)
(* entries of the memory map, and apart from every block that clients      *)
(* still hold, whatever they have given back.                              *)
(***************************************************************************)
THEOREM HeapImplemented == Spec /\ []MergesAreSound => ImplementsHeap
<1>1. Init => Promise!HeapInit
  BY InitRefines
<1>2. TypeOK /\ TypeOK' /\ HeapInv' /\ [Next]_vars => [Promise!HeapNext]_<<Memory, live>>
  BY NextRefines
<1>3. Spec => Init /\ [][Next]_vars
  BY PTL DEF Spec
<1> QED BY <1>1, <1>2, <1>3, HeapSafety, PTL
        DEF ImplementsHeap, Promise!HeapSpec, Promise!heapVars

-----------------------------------------------------------------------------
(***************************************************************************)
(* While nothing is freed nothing is merged, and the allocator is a heap   *)
(* without further assumptions.                                            *)
(***************************************************************************)
LEMMA PermanentStep ==
  ASSUME TypeOK, call.op \notin {"merge", "false"}, [NextPermanent]_vars
  PROVE  [Next /\ ~FalseSeen]_vars /\ call'.op \notin {"merge", "false"}
<1>1. ~FalseSeen
  BY DEF FalseSeen
<1>2. [Next]_vars
  BY DEF NextPermanent, Next
<1>3. call'.op \notin {"merge", "false"}
  <2>1. CASE CarveBlock
    <3>1. call \in [op : {"carve"}, entry : Nat \ {0}, page : Nat, previous : Slot]
      BY <2>1, CallTypes DEF TypeOK, CarveBlock
    <3>2. PICK page, previous : call' = [call EXCEPT !.page = page, !.previous = previous]
      BY <2>1 DEF CarveBlock
    <3> QED BY <3>1, <3>2
  <2>2. CASE CarveNextEntry
    <3>1. call \in [op : {"carve"}, entry : Nat \ {0}, page : Nat, previous : Slot]
      BY <2>2, CallTypes DEF TypeOK, CarveNextEntry
    <3> QED BY <2>2, <3>1 DEF CarveNextEntry
  <2>3. CASE CarveDone \/ NullSeen
    BY <2>3 DEF CarveDone, NullSeen, Idle
  <2>4. CASE DividePop \/ \E size \in Sizes : AllocatePop(size)
    <3>1. PICK level, size : PopAndReturn(level, size)
      BY <2>4 DEF DividePop, AllocatePop
    <3>2. call' = Idle \/ call' = [op |-> "null", size |-> size]
      BY <3>1 DEF PopAndReturn
    <3> QED BY <3>2 DEF Idle
  <2>5. CASE \E size \in Sizes : AllocateDivide(size)
    BY <2>5 DEF AllocateDivide
  <2>6. CASE DividePush
    <3>1. call \in [op : {"divide", "divideLast"}, size : Sizes, level : Levels,
                    address : Nat, location : Nat, previous : Slot, next : Slot]
      BY <2>6, CallTypes DEF TypeOK, DividePush
    <3>2. CASE call' = Wild
      BY <3>2 DEF Wild
    <3>3. CASE call' # Wild
      <4>1. call' = [call EXCEPT
               !.op = IF AtTargetLevel THEN "divideLast" ELSE @,
               !.level = IF AtTargetLevel THEN @ ELSE @ - 1,
               !.address = @ + BlockPages[call.level],
               !.location = @ + BlockPages[call.level] * ScalingFactor,
               !.previous = call.address]
        BY <2>6, <3>3 DEF DividePush
      <4>2. call'.op = IF AtTargetLevel THEN "divideLast" ELSE call.op
        BY <3>1, <4>1
      <4> QED BY <4>2
    <3> QED BY <3>2, <3>3
  <2>7. CASE DivideLast
    BY <2>7 DEF DivideLast, Wild
  <2>8. CASE UNCHANGED vars
    BY <2>8 DEF vars
  <2> QED BY <2>1, <2>2, <2>3, <2>4, <2>5, <2>6, <2>7, <2>8 DEF NextPermanent, Carve, Allocate
<1> QED BY <1>1, <1>2, <1>3

LEMMA PermanentSafety ==
  SpecPermanent => /\ [](TypeOK /\ HeapInv /\ Covered)
                   /\ [][Next]_vars
<1> DEFINE P == TypeOK /\ HeapInv /\ Covered /\ call.op \notin {"merge", "false"}
<1>1. Init => P
  BY InitTypeOK, HeapInit, CoveredInit DEF Init
<1>2. P /\ [NextPermanent]_vars => P' /\ [Next]_vars
  <2> SUFFICES ASSUME P, [NextPermanent]_vars PROVE P' /\ [Next]_vars
    OBVIOUS
  <2>1. [Next /\ ~FalseSeen]_vars /\ call'.op \notin {"merge", "false"}
    BY PermanentStep
  <2>2. MergesAreSound
    BY DEF MergesAreSound
  <2>3. [Next]_vars
    BY <2>1
  <2> QED BY <2>1, <2>2, <2>3, NextTypeOK, NextInv, CoveredNext
<1>3. P => TypeOK /\ HeapInv /\ Covered
  OBVIOUS
<1> HIDE DEF P
<1> QED BY <1>1, <1>2, <1>3, PTL DEF SpecPermanent

(***************************************************************************)
(* While nothing is freed, the lists, the nodes and the blocks in use      *)
(* agree at every step.  (Mm.c:48-140, :402-482, :653-721)                 *)
(***************************************************************************)
THEOREM PermanentInvariant == SpecPermanent => []HeapInv
BY PermanentSafety, PTL

(***************************************************************************)
(* While nothing is freed, the carving of the memory map and the division  *)
(* of blocks lose no page and hand none out twice.                         *)
(***************************************************************************)
THEOREM PermanentPagesKept == SpecPermanent => []EveryPageHasOneOwner
<1>1. TypeOK /\ HeapInv /\ Covered => EveryPageHasOneOwner
  BY CoveredIsExact
<1> QED BY <1>1, PermanentSafety, PTL

(***************************************************************************)
(* While nothing is freed, the allocator is a heap: every block returned   *)
(* is of the size asked for, within the data part of one of the entries of *)
(* the memory map, and apart from every block returned before.             *)
(***************************************************************************)
THEOREM PermanentImplementsHeap == SpecPermanent => ImplementsHeap
<1>1. Init => Promise!HeapInit
  BY InitRefines
<1>2. TypeOK /\ TypeOK' /\ HeapInv' /\ [Next]_vars => [Promise!HeapNext]_<<Memory, live>>
  BY NextRefines
<1>3. SpecPermanent => Init
  BY DEF SpecPermanent
<1> QED BY <1>1, <1>2, <1>3, PermanentSafety, PTL
        DEF ImplementsHeap, Promise!HeapSpec, Promise!heapVars

-----------------------------------------------------------------------------
(***************************************************************************)
(* The kernel as the client of its allocator: what is shown above of any   *)
(* client, for the blocks that the kernel asks for, and what its own order *)
(* of calls adds.                                                          *)
(***************************************************************************)
allVars == <<vars, kernelVars>>

-----------------------------------------------------------------------------
(***************************************************************************)
(* The places.  HeldAt(place) are the buffers of the detection of a volume *)
(* that the kernel holds when it gets there.                               *)
(***************************************************************************)
Buffers == {"temp", "primary", "backup", "array"}

BlockNames == Buffers \cup {"test", "buffer", "handles", "protocols"}

HeldAt(place) ==
  CASE place = "sectorRead" -> {"temp"}
    [] place \in {"backup", "freeOnly"} -> {"primary"}
    [] place \in {"readPrimary", "readBackup", "readInVain", "array", "freePrimary"} ->
         {"primary", "backup"}
    [] place \in {"primaryRead", "backupRead", "vainRead"} -> {"primary", "backup", "temp"}
    [] place \in {"readArray", "freeArray"} -> {"primary", "backup", "array"}
    [] place = "arrayRead" -> {"primary", "backup", "array", "temp"}
    [] place = "freeBackup" -> {"backup"}
    [] OTHER -> {}

(***************************************************************************)
(* What a place does agrees with what is held there and where it leads.    *)
(***************************************************************************)
AllocatesRightly(place, k) ==
  /\ k.does = "allocate"
  /\ k.sizes \subseteq Sizes
  /\ k.block \in BlockNames \ HeldAt(place)
  /\ k.ok \cup k.bad \subseteq Places \cup {"stop"}
  /\ \A p \in k.ok : HeldAt(p) = HeldAt(place) \cup ({k.block} \cap Buffers)
  /\ \A p \in k.bad : HeldAt(p) = HeldAt(place)

FreesRightly(place, k) ==
  /\ k.does = "free"
  /\ k.block \in BlockNames
  /\ k.ok \cup k.bad \subseteq Places \cup {"stop"}
  /\ \A p \in k.ok \cup k.bad : HeldAt(p) = HeldAt(place) \ {k.block}

IsRight(place) ==
  AllocatesRightly(place, Kernel[place]) \/ FreesRightly(place, Kernel[place])

LEMMA Allocating ==
  ASSUME NEW place, NEW block \in BlockNames \ HeldAt(place), NEW sizes \in SUBSET Sizes,
         NEW ok \in SUBSET (Places \cup {"stop"}), NEW bad \in SUBSET (Places \cup {"stop"}),
         Kernel[place] = Allocates(block, sizes, ok, bad),
         \A p \in ok : HeldAt(p) = HeldAt(place) \cup ({block} \cap Buffers),
         \A p \in bad : HeldAt(p) = HeldAt(place)
  PROVE  IsRight(place)
BY DEF IsRight, AllocatesRightly, Allocates

LEMMA AllocatingBuffer ==
  ASSUME NEW place, NEW block \in Buffers, block \notin HeldAt(place),
         NEW sizes \in SUBSET Sizes,
         NEW ok \in SUBSET (Places \cup {"stop"}), NEW bad \in SUBSET (Places \cup {"stop"}),
         Kernel[place] = Allocates(block, sizes, ok, bad),
         \A p \in ok : HeldAt(p) = HeldAt(place) \cup {block},
         \A p \in bad : HeldAt(p) = HeldAt(place)
  PROVE  IsRight(place)
<1>1. block \in BlockNames \ HeldAt(place)
  BY DEF BlockNames
<1>2. {block} \cap Buffers = {block}
  OBVIOUS
<1>3. \A p \in ok : HeldAt(p) = HeldAt(place) \cup ({block} \cap Buffers)
  BY <1>2
<1> QED BY <1>1, <1>3, Allocating

LEMMA Freeing ==
  ASSUME NEW place, NEW block \in BlockNames,
         NEW ok \in SUBSET (Places \cup {"stop"}), NEW bad \in SUBSET (Places \cup {"stop"}),
         Kernel[place] = Frees(block, ok, bad),
         \A p \in ok \cup bad : HeldAt(p) = HeldAt(place) \ {block}
  PROVE  IsRight(place)
BY DEF IsRight, FreesRightly, Frees

LEMMA PlacesAre ==
  /\ DOMAIN Verify = {"testHalf", "freeHalf", "testOne", "freeOne", "testTwo",
                      "freeTwo"}
  /\ DOMAIN Graphics = {"buffer"}
  /\ DOMAIN Disk = {"handles", "protocols"}
  /\ DOMAIN Filesystem = {"bootsector", "sectorRead"}
  /\ DOMAIN Detect = {"primary", "backup", "backupOnly", "freeOnly", "readPrimary",
                      "primaryRead", "readBackup", "backupRead", "readInVain",
                      "vainRead", "array", "readArray", "arrayRead", "freeArray",
                      "freePrimary", "freeBackup"}
BY DEF Verify, Graphics, Disk, Filesystem, Detect

LEMMA PartsOfKernel ==
  /\ \A place \in DOMAIN Verify : place \in Places /\ Kernel[place] = Verify[place]
  /\ \A place \in DOMAIN Graphics : place \in Places /\ Kernel[place] = Graphics[place]
  /\ \A place \in DOMAIN Disk : place \in Places /\ Kernel[place] = Disk[place]
  /\ \A place \in DOMAIN Filesystem : place \in Places /\ Kernel[place] = Filesystem[place]
  /\ \A place \in DOMAIN Detect : place \in Places /\ Kernel[place] = Detect[place]
<1>1. ASSUME NEW place \in DOMAIN Verify
      PROVE  place \in Places /\ Kernel[place] = Verify[place]
  BY <1>1, PlacesAre DEF Kernel, Places
<1>2. ASSUME NEW place \in DOMAIN Graphics
      PROVE  place \in Places /\ Kernel[place] = Graphics[place]
  BY <1>2, PlacesAre DEF Kernel, Places
<1>3. ASSUME NEW place \in DOMAIN Disk
      PROVE  place \in Places /\ Kernel[place] = Disk[place]
  BY <1>3, PlacesAre DEF Kernel, Places
<1>4. ASSUME NEW place \in DOMAIN Filesystem
      PROVE  place \in Places /\ Kernel[place] = Filesystem[place]
  BY <1>4, PlacesAre DEF Kernel, Places
<1>5. ASSUME NEW place \in DOMAIN Detect
      PROVE  place \in Places /\ Kernel[place] = Detect[place]
  BY <1>5, PlacesAre DEF Kernel, Places
<1> QED BY <1>1, <1>2, <1>3, <1>4, <1>5

LEMMA PlacesListed ==
  Places = {"testHalf", "freeHalf", "testOne", "freeOne", "testTwo", "freeTwo",
            "buffer", "handles", "protocols", "bootsector", "sectorRead", "primary",
            "backup", "backupOnly", "freeOnly", "readPrimary", "primaryRead",
            "readBackup", "backupRead", "readInVain", "vainRead", "array", "readArray",
            "arrayRead", "freeArray", "freePrimary", "freeBackup"}
BY PlacesAre DEF Places

LEMMA PlacesAreRight ==
  ASSUME volume \in Volumes, NEW place \in Places
  PROVE  IsRight(place)
<1>1. /\ Page \div 2 \in Sizes /\ Page \in Sizes /\ 2 * Page \in Sizes
      /\ ListSize \in Sizes /\ BufferSizes \subseteq Sizes
  BY RequestAssumption
<1>2. PICK sector \in Sizes, array \in Sizes, forSector \in Sizes, forArray \in SUBSET Sizes :
        /\ sector = volume.sector /\ array = volume.array
        /\ forSector = SectorBuffer(volume) /\ forArray = ArrayBuffers(volume)
  BY RequestAssumption
<1>3. CASE place \in DOMAIN Verify
  <2>1. Kernel[place] = Verify[place]
    BY <1>3, PartsOfKernel
  <2>2. CASE place = "testHalf"
    <3>1. Kernel[place] = Allocates("test", {Page \div 2}, {"freeHalf"}, {"stop"})
      BY <2>1, <2>2 DEF Verify
    <3> QED BY <1>1, <2>2, <3>1, PlacesListed, Allocating DEF HeldAt, BlockNames, Buffers, NextVolume
  <2>3. CASE place = "freeHalf"
    <3>1. Kernel[place] = Frees("test", {"testOne"}, {"stop"})
      BY <2>1, <2>3 DEF Verify
    <3> QED BY <2>3, <3>1, PlacesListed, Freeing DEF HeldAt, BlockNames, Buffers, NextVolume
  <2>4. CASE place = "testOne"
    <3>1. Kernel[place] = Allocates("test", {Page}, {"freeOne"}, {"stop"})
      BY <2>1, <2>4 DEF Verify
    <3> QED BY <1>1, <2>4, <3>1, PlacesListed, Allocating DEF HeldAt, BlockNames, Buffers, NextVolume
  <2>5. CASE place = "freeOne"
    <3>1. Kernel[place] = Frees("test", {"testTwo"}, {"stop"})
      BY <2>1, <2>5 DEF Verify
    <3> QED BY <2>5, <3>1, PlacesListed, Freeing DEF HeldAt, BlockNames, Buffers, NextVolume
  <2>6. CASE place = "testTwo"
    <3>1. Kernel[place] = Allocates("test", {2 * Page}, {"freeTwo"}, {"stop"})
      BY <2>1, <2>6 DEF Verify
    <3> QED BY <1>1, <2>6, <3>1, PlacesListed, Allocating DEF HeldAt, BlockNames, Buffers, NextVolume
  <2>7. CASE place = "freeTwo"
    <3>1. Kernel[place] = Frees("test", {"buffer", "handles", "bootsector"}, {"stop"})
      BY <2>1, <2>7 DEF Verify
    <3> QED BY <2>7, <3>1, PlacesListed, Freeing DEF HeldAt, BlockNames, Buffers, NextVolume
  <2> QED BY <1>3, <2>2, <2>3, <2>4, <2>5, <2>6, <2>7, PlacesAre
<1>4. CASE place \in DOMAIN Graphics
  <2>1. Kernel[place] = Graphics[place]
    BY <1>4, PartsOfKernel
  <2>2. CASE place = "buffer"
    <3>1. Kernel[place] = Allocates("buffer", BufferSizes, {"handles", "bootsector"}, {"stop"})
      BY <2>1, <2>2 DEF Graphics
    <3> QED BY <1>1, <2>2, <3>1, PlacesListed, Allocating DEF HeldAt, BlockNames, Buffers, NextVolume
  <2> QED BY <1>4, <2>2, PlacesAre
<1>5. CASE place \in DOMAIN Disk
  <2>1. Kernel[place] = Disk[place]
    BY <1>5, PartsOfKernel
  <2>2. CASE place = "handles"
    <3>1. Kernel[place] = Allocates("handles", {ListSize}, {"protocols", "stop"}, {"stop"})
      BY <2>1, <2>2 DEF Disk
    <3> QED BY <1>1, <2>2, <3>1, PlacesListed, Allocating DEF HeldAt, BlockNames, Buffers, NextVolume
  <2>3. CASE place = "protocols"
    <3>1. Kernel[place] = Allocates("protocols", {ListSize}, {"bootsector", "stop"}, {"stop"})
      BY <2>1, <2>3 DEF Disk
    <3> QED BY <1>1, <2>3, <3>1, PlacesListed, Allocating DEF HeldAt, BlockNames, Buffers, NextVolume
  <2> QED BY <1>5, <2>2, <2>3, PlacesAre
<1>6. CASE place \in DOMAIN Filesystem
  <2>1. Kernel[place] = Filesystem[place]
    BY <1>6, PartsOfKernel
  <2>2. CASE place = "bootsector"
    <3>1. Kernel[place] = Allocates("temp", {forSector}, {"sectorRead"}, NextVolume)
      BY <1>2, <2>1, <2>2 DEF Filesystem
    <3>2. /\ \A p \in {"sectorRead"} : HeldAt(p) = HeldAt(place) \cup {"temp"}
          /\ \A p \in NextVolume : HeldAt(p) = HeldAt(place)
          /\ "temp" \notin HeldAt(place)
      BY <2>2 DEF HeldAt, NextVolume
    <3>3. {forSector} \in SUBSET Sizes
      BY <1>2
    <3>4. /\ {"sectorRead"} \in SUBSET (Places \cup {"stop"})
          /\ NextVolume \in SUBSET (Places \cup {"stop"})
          /\ "temp" \in Buffers
      BY PlacesListed DEF NextVolume, Buffers
    <3> QED BY <3>1, <3>2, <3>3, <3>4, AllocatingBuffer
  <2>3. CASE place = "sectorRead"
    <3>1. Kernel[place] = Frees("temp", {"primary"} \cup NextVolume, NextVolume)
      BY <2>1, <2>3 DEF Filesystem
    <3> QED BY <2>3, <3>1, PlacesListed, Freeing DEF HeldAt, BlockNames, Buffers, NextVolume
  <2> QED BY <1>6, <2>2, <2>3, PlacesAre
<1>7. CASE place \in DOMAIN Detect
  <2>1. Kernel[place] = Detect[place]
    BY <1>7, PartsOfKernel
  <2>2. CASE place = "primary"
    <3>1. Kernel[place] = Allocates("primary", {sector}, {"backup"}, {"backupOnly"})
      BY <1>2, <2>1, <2>2 DEF Detect
    <3>2. /\ \A p \in {"backup"} : HeldAt(p) = HeldAt(place) \cup {"primary"}
          /\ \A p \in {"backupOnly"} : HeldAt(p) = HeldAt(place)
          /\ "primary" \notin HeldAt(place)
      BY <2>2 DEF HeldAt, NextVolume
    <3>3. {sector} \in SUBSET Sizes
      BY <1>2
    <3>4. /\ {"backup"} \in SUBSET (Places \cup {"stop"})
          /\ {"backupOnly"} \in SUBSET (Places \cup {"stop"})
          /\ "primary" \in Buffers
      BY PlacesListed DEF NextVolume, Buffers
    <3> QED BY <3>1, <3>2, <3>3, <3>4, AllocatingBuffer
  <2>3. CASE place = "backup"
    <3>1. Kernel[place] = Allocates("backup", {sector}, {"readPrimary"}, {"freeOnly"})
      BY <1>2, <2>1, <2>3 DEF Detect
    <3>2. /\ \A p \in {"readPrimary"} : HeldAt(p) = HeldAt(place) \cup {"backup"}
          /\ \A p \in {"freeOnly"} : HeldAt(p) = HeldAt(place)
          /\ "backup" \notin HeldAt(place)
      BY <2>3 DEF HeldAt, NextVolume
    <3>3. {sector} \in SUBSET Sizes
      BY <1>2
    <3>4. /\ {"readPrimary"} \in SUBSET (Places \cup {"stop"})
          /\ {"freeOnly"} \in SUBSET (Places \cup {"stop"})
          /\ "backup" \in Buffers
      BY PlacesListed DEF NextVolume, Buffers
    <3> QED BY <3>1, <3>2, <3>3, <3>4, AllocatingBuffer
  <2>4. CASE place = "backupOnly"
    <3>1. Kernel[place] = Allocates("backup", {sector}, {"freeBackup"}, NextVolume)
      BY <1>2, <2>1, <2>4 DEF Detect
    <3>2. /\ \A p \in {"freeBackup"} : HeldAt(p) = HeldAt(place) \cup {"backup"}
          /\ \A p \in NextVolume : HeldAt(p) = HeldAt(place)
          /\ "backup" \notin HeldAt(place)
      BY <2>4 DEF HeldAt, NextVolume
    <3>3. {sector} \in SUBSET Sizes
      BY <1>2
    <3>4. /\ {"freeBackup"} \in SUBSET (Places \cup {"stop"})
          /\ NextVolume \in SUBSET (Places \cup {"stop"})
          /\ "backup" \in Buffers
      BY PlacesListed DEF NextVolume, Buffers
    <3> QED BY <3>1, <3>2, <3>3, <3>4, AllocatingBuffer
  <2>5. CASE place = "freeOnly"
    <3>1. Kernel[place] = Frees("primary", NextVolume, NextVolume)
      BY <2>1, <2>5 DEF Detect
    <3> QED BY <2>5, <3>1, PlacesListed, Freeing DEF HeldAt, BlockNames, Buffers, NextVolume
  <2>6. CASE place = "readPrimary"
    <3>1. Kernel[place] = Allocates("temp", {forSector}, {"primaryRead"}, {"readInVain"})
      BY <1>2, <2>1, <2>6 DEF Detect
    <3>2. /\ \A p \in {"primaryRead"} : HeldAt(p) = HeldAt(place) \cup {"temp"}
          /\ \A p \in {"readInVain"} : HeldAt(p) = HeldAt(place)
          /\ "temp" \notin HeldAt(place)
      BY <2>6 DEF HeldAt, NextVolume
    <3>3. {forSector} \in SUBSET Sizes
      BY <1>2
    <3>4. /\ {"primaryRead"} \in SUBSET (Places \cup {"stop"})
          /\ {"readInVain"} \in SUBSET (Places \cup {"stop"})
          /\ "temp" \in Buffers
      BY PlacesListed DEF NextVolume, Buffers
    <3> QED BY <3>1, <3>2, <3>3, <3>4, AllocatingBuffer
  <2>7. CASE place = "primaryRead"
    <3>1. Kernel[place] = Frees("temp", {"readBackup", "readInVain"}, {"readInVain"})
      BY <2>1, <2>7 DEF Detect
    <3> QED BY <2>7, <3>1, PlacesListed, Freeing DEF HeldAt, BlockNames, Buffers, NextVolume
  <2>8. CASE place = "readBackup"
    <3>1. Kernel[place] = Allocates("temp", {forSector}, {"backupRead"}, {"freePrimary"})
      BY <1>2, <2>1, <2>8 DEF Detect
    <3>2. /\ \A p \in {"backupRead"} : HeldAt(p) = HeldAt(place) \cup {"temp"}
          /\ \A p \in {"freePrimary"} : HeldAt(p) = HeldAt(place)
          /\ "temp" \notin HeldAt(place)
      BY <2>8 DEF HeldAt, NextVolume
    <3>3. {forSector} \in SUBSET Sizes
      BY <1>2
    <3>4. /\ {"backupRead"} \in SUBSET (Places \cup {"stop"})
          /\ {"freePrimary"} \in SUBSET (Places \cup {"stop"})
          /\ "temp" \in Buffers
      BY PlacesListed DEF NextVolume, Buffers
    <3> QED BY <3>1, <3>2, <3>3, <3>4, AllocatingBuffer
  <2>9. CASE place = "backupRead"
    <3>1. Kernel[place] = Frees("temp", {"array", "freePrimary"}, {"freePrimary"})
      BY <2>1, <2>9 DEF Detect
    <3> QED BY <2>9, <3>1, PlacesListed, Freeing DEF HeldAt, BlockNames, Buffers, NextVolume
  <2>10. CASE place = "readInVain"
    <3>1. Kernel[place] = Allocates("temp", {forSector}, {"vainRead"}, {"freePrimary"})
      BY <1>2, <2>1, <2>10 DEF Detect
    <3>2. /\ \A p \in {"vainRead"} : HeldAt(p) = HeldAt(place) \cup {"temp"}
          /\ \A p \in {"freePrimary"} : HeldAt(p) = HeldAt(place)
          /\ "temp" \notin HeldAt(place)
      BY <2>10 DEF HeldAt, NextVolume
    <3>3. {forSector} \in SUBSET Sizes
      BY <1>2
    <3>4. /\ {"vainRead"} \in SUBSET (Places \cup {"stop"})
          /\ {"freePrimary"} \in SUBSET (Places \cup {"stop"})
          /\ "temp" \in Buffers
      BY PlacesListed DEF NextVolume, Buffers
    <3> QED BY <3>1, <3>2, <3>3, <3>4, AllocatingBuffer
  <2>11. CASE place = "vainRead"
    <3>1. Kernel[place] = Frees("temp", {"freePrimary"}, {"freePrimary"})
      BY <2>1, <2>11 DEF Detect
    <3> QED BY <2>11, <3>1, PlacesListed, Freeing DEF HeldAt, BlockNames, Buffers, NextVolume
  <2>12. CASE place = "array"
    <3>1. Kernel[place] = Allocates("array", {array}, ReadsArray(volume), {"freePrimary"})
      BY <1>2, <2>1, <2>12 DEF Detect
    <3>2. /\ \A p \in ReadsArray(volume) : HeldAt(p) = HeldAt(place) \cup {"array"}
          /\ \A p \in {"freePrimary"} : HeldAt(p) = HeldAt(place)
          /\ "array" \notin HeldAt(place)
      BY <2>12 DEF HeldAt, NextVolume, ReadsArray
    <3>3. {array} \in SUBSET Sizes
      BY <1>2
    <3>4. /\ ReadsArray(volume) \in SUBSET (Places \cup {"stop"})
          /\ {"freePrimary"} \in SUBSET (Places \cup {"stop"})
          /\ "array" \in Buffers
      BY PlacesListed DEF NextVolume, Buffers, ReadsArray
    <3> QED BY <3>1, <3>2, <3>3, <3>4, AllocatingBuffer
  <2>13. CASE place = "readArray"
    <3>1. Kernel[place] = Allocates("temp", forArray, {"arrayRead"}, {"freeArray"})
      BY <1>2, <2>1, <2>13 DEF Detect
    <3>2. /\ \A p \in {"arrayRead"} : HeldAt(p) = HeldAt(place) \cup {"temp"}
          /\ \A p \in {"freeArray"} : HeldAt(p) = HeldAt(place)
          /\ "temp" \notin HeldAt(place)
      BY <2>13 DEF HeldAt, NextVolume
    <3>3. forArray \in SUBSET Sizes
      BY <1>2
    <3>4. /\ {"arrayRead"} \in SUBSET (Places \cup {"stop"})
          /\ {"freeArray"} \in SUBSET (Places \cup {"stop"})
          /\ "temp" \in Buffers
      BY PlacesListed DEF NextVolume, Buffers
    <3> QED BY <3>1, <3>2, <3>3, <3>4, AllocatingBuffer
  <2>14. CASE place = "arrayRead"
    <3>1. Kernel[place] = Frees("temp", {"freeArray"}, {"freeArray"})
      BY <2>1, <2>14 DEF Detect
    <3> QED BY <2>14, <3>1, PlacesListed, Freeing DEF HeldAt, BlockNames, Buffers, NextVolume
  <2>15. CASE place = "freeArray"
    <3>1. Kernel[place] = Frees("array", {"freePrimary"}, {"freePrimary"})
      BY <2>1, <2>15 DEF Detect
    <3> QED BY <2>15, <3>1, PlacesListed, Freeing DEF HeldAt, BlockNames, Buffers, NextVolume
  <2>16. CASE place = "freePrimary"
    <3>1. Kernel[place] = Frees("primary", {"freeBackup"}, {"freeBackup"})
      BY <2>1, <2>16 DEF Detect
    <3> QED BY <2>16, <3>1, PlacesListed, Freeing DEF HeldAt, BlockNames, Buffers, NextVolume
  <2>17. CASE place = "freeBackup"
    <3>1. Kernel[place] = Frees("backup", NextVolume, NextVolume)
      BY <2>1, <2>17 DEF Detect
    <3> QED BY <2>17, <3>1, PlacesListed, Freeing DEF HeldAt, BlockNames, Buffers, NextVolume
  <2> QED BY <1>7, <2>2, <2>3, <2>4, <2>5, <2>6, <2>7, <2>8, <2>9, <2>10, <2>11, <2>12, <2>13, <2>14, <2>15, <2>16, <2>17, PlacesAre
<1> QED BY <1>3, <1>4, <1>5, <1>6, <1>7 DEF Places

-----------------------------------------------------------------------------
(***************************************************************************)
(* The invariant.  The blocks that the kernel holds are the ones that it   *)
(* should hold where it is, whether it is about to make a call, or waits   *)
(* for one that has already given or taken a block.                        *)
(***************************************************************************)
Held == {names[i] : i \in DOMAIN names} \cap Buffers

NamesMatch ==
  /\ names \in Seq(BlockNames)
  /\ Len(names) = Len(live)
  /\ \A i, j \in DOMAIN names : names[i] = names[j] /\ names[i] \in Buffers => i = j

Gained == IF call = Idle THEN {Kernel[at].block} \cap Buffers ELSE {}

CallMatches ==
  /\ ~busy => call.op \in {"carve", "idle"} /\ Held = HeldAt(at)
  /\ busy => at \in Places
  /\ busy /\ Kernel[at].does = "allocate" =>
       /\ call.op \in {"idle", "divide", "divideLast", "pop", "null", "wild"}
       /\ Held = HeldAt(at) \cup Gained
  /\ busy /\ Kernel[at].does = "free" =>
       /\ call.op \in {"idle", "merge", "false", "wild"}
       /\ Held = HeldAt(at) \ {Kernel[at].block}

KernelInv ==
  /\ volume \in Volumes
  /\ at \in Places \cup {"stop"}
  /\ busy \in BOOLEAN
  /\ NamesMatch
  /\ CallMatches

LEMMA KernelSame ==
  ASSUME UNCHANGED volume
  PROVE  Kernel' = Kernel
<1>1. Filesystem' = Filesystem /\ Detect' = Detect
  BY DEF Filesystem, Detect, Allocates, Frees, SectorBuffer, ArrayBuffers,
         ReadsArray, NextVolume
<1> QED BY <1>1 DEF Kernel, Places

LEMMA PlaceIsRight ==
  ASSUME KernelInv, at # "stop"
  PROVE  /\ at \in Places
         /\ Kernel[at].does = "allocate" => AllocatesRightly(at, Kernel[at])
         /\ Kernel[at].does = "free" => FreesRightly(at, Kernel[at])
         /\ Kernel[at].does \in {"allocate", "free"}
<1>1. at \in Places /\ IsRight(at)
  BY PlacesAreRight DEF KernelInv
<1> QED BY <1>1 DEF IsRight, AllocatesRightly, FreesRightly

\* The kernel does nothing with its allocator but what any client may do.
LEMMA KernelIsClient ==
  ASSUME KernelInv, KernelNext
  PROVE  [Next]_vars
<1>1. CASE Starts
  BY <1>1 DEF Starts, Next
<1>2. CASE CallsAllocate
  <2>1. PICK size \in Kernel[at].sizes : AllocatePop(size) \/ AllocateDivide(size)
    BY <1>2 DEF CallsAllocate
  <2>2. size \in Sizes
    BY <1>2, PlaceIsRight DEF CallsAllocate, AllocatesRightly
  <2> QED BY <2>1, <2>2 DEF Next, Allocate
<1>3. CASE CallsFree
  <2>1. PICK i \in DOMAIN names : Free(i)
    BY <1>3 DEF CallsFree
  <2>2. i \in DOMAIN live
    BY LenProperties DEF KernelInv, NamesMatch
  <2> QED BY <2>1, <2>2 DEF Next
<1>4. CASE Works
  BY <1>4 DEF Works, Next, Allocate
<1>5. CASE Returns
  BY <1>5 DEF Returns, Next, Allocate, vars
<1> QED BY <1>1, <1>2, <1>3, <1>4, <1>5 DEF KernelNext

(***************************************************************************)
(* What becomes of the names.                                              *)
(***************************************************************************)
LEMMA NothingNamed ==
  ASSUME NamesMatch, UNCHANGED live, Named
  PROVE  NamesMatch' /\ Held' = Held
<1>1. Len(live') = Len(live) /\ ~(Len(live) > Len(live))
  BY LenProperties DEF NamesMatch
<1>2. UNCHANGED names
  BY <1>1 DEF Named
<1> QED BY <1>1, <1>2 DEF NamesMatch, Held

LEMMA BlockNamed ==
  ASSUME TypeOK, NamesMatch, Named, NEW block \in BlockNames, block = Kernel[at].block,
         block \notin Held, NEW b, live' = Append(live, b)
  PROVE  NamesMatch' /\ Held' = Held \cup ({block} \cap Buffers)
<1>1. PICK n \in Nat : n = Len(names) /\ n = Len(live) /\ DOMAIN names = 1 .. n
  BY LenProperties DEF NamesMatch
<1>2. Len(live') = n + 1
  BY <1>1 DEF TypeOK
<1>3. names' = Append(names, block)
  BY <1>1, <1>2 DEF Named
<1>4. /\ names' \in Seq(BlockNames) /\ Len(names') = n + 1 /\ DOMAIN names' = 1 .. n + 1
      /\ \A i \in 1 .. n : names'[i] = names[i]
      /\ names'[n + 1] = block
  <2>1. names \in Seq(BlockNames)
    BY DEF NamesMatch
  <2>2. names' \in Seq(BlockNames) /\ Len(names') = n + 1
    BY <1>1, <1>3, <2>1, AppendProperties
  <2>3. (\A i \in 1 .. n : names'[i] = names[i]) /\ names'[n + 1] = block
    BY <1>1, <1>3, <2>1, AppendProperties
  <2> QED BY <2>2, <2>3, LenProperties
<1>5. {names'[i] : i \in 1 .. n + 1} = {names[i] : i \in 1 .. n} \cup {block}
  <2>1. 1 .. n + 1 = (1 .. n) \cup {n + 1}
    OBVIOUS
  <2> QED BY <1>4, <2>1
<1>6. Held' = Held \cup ({block} \cap Buffers)
  BY <1>1, <1>4, <1>5 DEF Held
<1>7. ASSUME NEW i \in 1 .. n + 1, NEW j \in 1 .. n + 1,
             names'[i] = names'[j], names'[i] \in Buffers
      PROVE  i = j
  <2>1. \A k \in 1 .. n : names[k] \in Buffers => names[k] # block
    BY <1>1 DEF Held
  <2>2. CASE i = n + 1
    BY <1>4, <1>7, <2>1, <2>2
  <2>3. CASE j = n + 1
    BY <1>4, <1>7, <2>1, <2>3
  <2>4. CASE i \in 1 .. n /\ j \in 1 .. n
    BY <1>1, <1>4, <1>7, <2>4 DEF NamesMatch
  <2> QED BY <2>2, <2>3, <2>4
<1> QED BY <1>2, <1>4, <1>6, <1>7 DEF NamesMatch

LEMMA BlockUnnamed ==
  ASSUME TypeOK, NamesMatch, NEW i \in DOMAIN names, live' = Dropped(i),
         names' = SubSeq(names, 1, i - 1) \o SubSeq(names, i + 1, Len(names))
  PROVE  NamesMatch' /\ Held' = Held \ {names[i]}
<1>1. PICK n, s, t :
        n \in Nat /\ s = names /\ t = names' /\ n = Len(s) /\ n = Len(live) /\ DOMAIN s = 1 .. n
  BY LenProperties DEF NamesMatch
<1>2. s \in Seq(BlockNames) /\ i \in 1 .. Len(s)
  BY <1>1 DEF NamesMatch
<1>3. t = SubSeq(s, 1, i - 1) \o SubSeq(s, i + 1, Len(s))
  BY <1>1
<1>4. /\ t \in Seq(BlockNames) /\ Len(t) = Len(s) - 1
      /\ \A j \in 1 .. Len(s) - 1 : t[j] = s[IF j < i THEN j ELSE j + 1]
  BY <1>2, <1>3, WithoutElement
<1>5. DOMAIN t = 1 .. n - 1
  BY <1>1, <1>4, LenProperties
<1>6. ASSUME NEW j \in 1 .. n - 1
      PROVE  \E k \in (1 .. n) \ {i} : t[j] = s[k] /\ k = IF j < i THEN j ELSE j + 1
  <2>1. PICK k : k = IF j < i THEN j ELSE j + 1
    OBVIOUS
  <2>2. k \in (1 .. n) \ {i}
    BY <1>1, <1>2, <2>1
  <2>3. t[j] = s[k]
    BY <1>1, <1>4, <2>1
  <2> QED BY <2>1, <2>2, <2>3
<1>7. ASSUME NEW k \in (1 .. n) \ {i}
      PROVE  \E j \in 1 .. n - 1 : t[j] = s[k]
  <2>1. CASE k < i
    <3>1. k \in 1 .. n - 1
      BY <1>1, <1>2, <2>1
    <3> QED BY <1>1, <1>4, <2>1, <3>1
  <2>2. CASE ~(k < i)
    <3>1. k - 1 \in 1 .. n - 1 /\ ~(k - 1 < i) /\ (k - 1) + 1 = k
      BY <1>1, <1>2, <2>2
    <3> QED BY <1>1, <1>4, <3>1
  <2> QED BY <2>1, <2>2
<1>8. \A k, l \in 1 .. n : s[k] = s[l] /\ s[k] \in Buffers => k = l
  BY <1>1 DEF NamesMatch
<1>9. Held' = Held \ {names[i]}
  <2> SUFFICES ASSUME NEW x \in Buffers
               PROVE  (\E j \in 1 .. n - 1 : x = t[j])
                        <=> (\E k \in 1 .. n : x = s[k]) /\ x # s[i]
    BY <1>1, <1>5 DEF Held
  <2>1. ASSUME NEW j \in 1 .. n - 1, x = t[j]
        PROVE  (\E k \in 1 .. n : x = s[k]) /\ x # s[i]
    BY <1>1, <1>2, <1>6, <1>8, <2>1
  <2>2. ASSUME NEW k \in 1 .. n, x = s[k], x # s[i]
        PROVE  \E j \in 1 .. n - 1 : x = t[j]
    BY <1>7, <2>2
  <2> QED BY <2>1, <2>2
<1>10. ASSUME NEW j \in 1 .. n - 1, NEW l \in 1 .. n - 1, t[j] = t[l], t[j] \in Buffers
       PROVE  j = l
  <2>1. PICK k \in (1 .. n) \ {i} : t[j] = s[k] /\ k = IF j < i THEN j ELSE j + 1
    BY <1>6
  <2>2. PICK m \in (1 .. n) \ {i} : t[l] = s[m] /\ m = IF l < i THEN l ELSE l + 1
    BY <1>6
  <2>3. k = m
    BY <1>8, <1>10, <2>1, <2>2
  <2> QED BY <1>1, <1>2, <2>1, <2>2, <2>3
<1>11. Len(live') = n - 1
  <2>1. PICK m : m = live /\ m \in Seq([ptr : Nat, size : Sizes])
    BY DEF TypeOK
  <2>2. i \in 1 .. Len(m)
    BY <1>1, <2>1
  <2> QED BY <1>1, <2>1, <2>2, WithoutElement DEF Dropped
<1> QED BY <1>1, <1>4, <1>5, <1>9, <1>10, <1>11 DEF NamesMatch

LEMMA PlacesSame == Places' = Places
<1>1. /\ DOMAIN Filesystem' = DOMAIN Filesystem /\ DOMAIN Detect' = DOMAIN Detect
      /\ DOMAIN Verify' = DOMAIN Verify /\ DOMAIN Graphics' = DOMAIN Graphics
      /\ DOMAIN Disk' = DOMAIN Disk
  BY DEF Filesystem, Detect, Verify, Graphics, Disk
<1> QED BY <1>1 DEF Places

LEMMA KernelInitInv == KernelInit => KernelInv
<1> SUFFICES ASSUME KernelInit PROVE KernelInv
  OBVIOUS
<1>1. /\ names = <<>> /\ live = <<>> /\ at = "testHalf" /\ ~busy /\ busy = FALSE
      /\ call.op = "carve" /\ volume \in Volumes
  BY DEF KernelInit, Init
<1>2. NamesMatch /\ Held = {}
  BY <1>1 DEF NamesMatch, Held
<1>3. at \in Places /\ HeldAt(at) = {}
  BY <1>1, PlacesListed DEF HeldAt
<1> QED BY <1>1, <1>2, <1>3 DEF KernelInv, CallMatches

(***************************************************************************)
(* A call to Allocate() gives a block when it comes back, and not before.  *)
(***************************************************************************)
LEMMA AllocateGives ==
  ASSUME TypeOK,
         \/ \E size \in Sizes : AllocatePop(size) \/ AllocateDivide(size)
         \/ DividePush \/ DivideLast \/ DividePop
  PROVE  \/ call' = Idle /\ \E b : live' = Append(live, b)
         \/ UNCHANGED live /\ call'.op \in {"divide", "divideLast", "pop", "null", "wild"}
<1>1. ASSUME NEW level, NEW size, PopAndReturn(level, size)
      PROVE  \/ call' = Idle /\ \E b : live' = Append(live, b)
             \/ UNCHANGED live /\ call'.op = "null"
  BY <1>1 DEF PopAndReturn
<1>2. ASSUME NEW size \in Sizes, AllocatePop(size)
      PROVE  \/ call' = Idle /\ \E b : live' = Append(live, b)
             \/ UNCHANGED live /\ call'.op = "null"
  BY <1>1, <1>2 DEF AllocatePop
<1>3. ASSUME NEW size \in Sizes, AllocateDivide(size)
      PROVE  UNCHANGED live /\ call'.op \in {"divide", "null"}
  BY <1>3 DEF AllocateDivide
<1>4. CASE DividePush
  <2>1. call.op = "divide" /\ UNCHANGED live
    BY <1>4 DEF DividePush
  <2>2. call \in [op : {"divide", "divideLast"}, size : Sizes, level : Levels,
                  address : Nat, location : Nat, previous : Slot, next : Slot]
    BY <2>1, CallTypes DEF TypeOK
  <2>3. call'.op \in {"divide", "divideLast", "wild"}
    <3>1. CASE call' = Wild
      BY <3>1 DEF Wild
    <3>2. CASE call' # Wild
      <4>1. call' = [call EXCEPT
               !.op = IF AtTargetLevel THEN "divideLast" ELSE call.op,
               !.level = IF AtTargetLevel THEN call.level ELSE call.level - 1,
               !.address = call.address + BlockPages[call.level],
               !.location = call.location + BlockPages[call.level] * ScalingFactor,
               !.previous = call.address]
        BY <1>4, <3>2 DEF DividePush
      <4>2. PICK op, level, address, location :
              /\ op = IF AtTargetLevel THEN "divideLast" ELSE call.op
              /\ level = IF AtTargetLevel THEN call.level ELSE call.level - 1
              /\ address = call.address + BlockPages[call.level]
              /\ location = call.location + BlockPages[call.level] * ScalingFactor
        OBVIOUS
      <4>3. op \in {"divide", "divideLast"}
        BY <2>1, <4>2
      <4>4. call' = [call EXCEPT !.op = op, !.level = level, !.address = address,
                                 !.location = location, !.previous = call.address]
        BY <4>1, <4>2
      <4> QED BY <2>2, <4>3, <4>4
    <3> QED BY <3>1, <3>2
  <2> QED BY <2>1, <2>3
<1>5. CASE DivideLast
  BY <1>5 DEF DivideLast, Wild
<1>6. CASE DividePop
  BY <1>1, <1>6 DEF DividePop
<1> QED BY <1>2, <1>3, <1>4, <1>5, <1>6

\* What the steps of the other calls leave in progress.
LEMMA CarveGoesOn ==
  ASSUME TypeOK, Carve
  PROVE  call.op = "carve" /\ call'.op \in {"carve", "idle"} /\ UNCHANGED live
<1>1. call.op = "carve" /\ UNCHANGED live
  BY DEF Carve, CarveBlock, CarveNextEntry, CarveDone
<1>2. call \in [op : {"carve"}, entry : Nat \ {0}, page : Nat, previous : Slot]
  BY <1>1, CallTypes DEF TypeOK
<1>3. CASE CarveBlock
  <2>1. PICK page, node : call' = [call EXCEPT !.page = page, !.previous = node]
    <3>1. PICK level \in Levels :
            call' = [call EXCEPT
                       !.page = call.page + BlockPages[level],
                       !.previous = KernelMmap[call.entry].Base + call.page]
      BY <1>3 DEF CarveBlock
    <3> QED BY <3>1
  <2> QED BY <1>1, <1>2, <2>1
<1>4. CASE CarveNextEntry
  <2>1. PICK entry : call' = [call EXCEPT !.entry = entry, !.page = 0]
    <3>1. call' = [call EXCEPT !.entry = call.entry + 1, !.page = 0]
      BY <1>4 DEF CarveNextEntry
    <3> QED BY <3>1
  <2> QED BY <1>1, <1>2, <2>1
<1>5. CASE CarveDone
  BY <1>1, <1>5 DEF CarveDone, Idle
<1> QED BY <1>1, <1>3, <1>4, <1>5 DEF Carve

LEMMA MergeGoesOn ==
  ASSUME TypeOK, MergeBlock
  PROVE  call.op = "merge" /\ call'.op \in {"merge", "idle"} /\ UNCHANGED live
<1>1. call.op = "merge" /\ UNCHANGED live
  BY DEF MergeBlock, MergePrevious, MergeNext, MergeDone
<1>2. call \in [op : {"merge"}, node : Slots(KernelMmap), level : Levels]
  BY <1>1, CallTypes DEF TypeOK
<1>3. ASSUME NEW left, NEW right, Merge(left, right)
      PROVE  call'.op = "merge"
  <2>1. call' = [call EXCEPT !.node = left, !.level = call.level + 1]
    BY <1>3 DEF Merge
  <2> QED BY <1>1, <1>2, <2>1
<1> QED BY <1>1, <1>3 DEF MergeBlock, MergePrevious, MergeNext, MergeDone, Idle

\* A step of a call of a place that allocates.
LEMMA AllocatingStep ==
  ASSUME TypeOK, KernelInv, at # "stop", Kernel[at].does = "allocate",
         Held = HeldAt(at), Named, busy' = TRUE, UNCHANGED <<at, volume>>,
         \/ \E size \in Sizes : AllocatePop(size) \/ AllocateDivide(size)
         \/ DividePush \/ DivideLast \/ DividePop
  PROVE  KernelInv'
<1>1. PICK k : k = Kernel[at]
  OBVIOUS
<1>2. /\ at \in Places /\ k.does = "allocate" /\ k.block \in BlockNames \ Held
      /\ Kernel'[at'] = k
  BY <1>1, PlaceIsRight, KernelSame DEF AllocatesRightly
<1>3. NamesMatch' /\ Held' = Held \cup Gained'
      /\ call'.op \in {"idle", "divide", "divideLast", "pop", "null", "wild"}
  <2>1. CASE call' = Idle /\ \E b : live' = Append(live, b)
    <3>1. NamesMatch' /\ Held' = Held \cup ({k.block} \cap Buffers)
      BY <1>1, <1>2, <2>1, BlockNamed DEF KernelInv
    <3>2. Gained' = {k.block} \cap Buffers
      BY <1>2, <2>1 DEF Gained
    <3> QED BY <2>1, <3>1, <3>2 DEF Idle
  <2>2. CASE UNCHANGED live /\ call'.op \in {"divide", "divideLast", "pop", "null", "wild"}
    <3>1. NamesMatch' /\ Held' = Held
      BY <2>2, NothingNamed DEF KernelInv
    <3>2. Gained' = {}
      BY <2>2 DEF Gained, Idle
    <3> QED BY <2>2, <3>1, <3>2
  <2> QED BY <2>1, <2>2, AllocateGives
<1>4. CallMatches'
  BY <1>2, <1>3, PlacesSame DEF CallMatches
<1> QED BY <1>2, <1>3, <1>4, PlacesSame DEF KernelInv

\* A return to where the kernel goes on with the blocks that it has now.
LEMMA ReturningStep ==
  ASSUME KernelInv, NEW places, GoesOn(places), UNCHANGED live, call' = Idle,
         places \subseteq Places \cup {"stop"},
         \A p \in places : HeldAt(p) = Held
  PROVE  KernelInv'
<1>1. /\ at' \in Places \cup {"stop"} /\ HeldAt(at') = Held /\ UNCHANGED names
      /\ busy' = FALSE /\ volume' \in Volumes
  BY DEF GoesOn, KernelInv
<1>2. NamesMatch' /\ Held' = Held
  BY <1>1 DEF KernelInv, NamesMatch, Held
<1>3. CallMatches'
  BY <1>1, <1>2 DEF CallMatches, Idle
<1> QED BY <1>1, <1>2, <1>3, PlacesSame DEF KernelInv

LEMMA KernelNextInv ==
  ASSUME TypeOK, KernelInv, [KernelNext]_allVars
  PROVE  KernelInv'
<1>1. CASE Starts
  <2>1. /\ call.op = "carve" /\ call'.op \in {"carve", "idle"} /\ UNCHANGED live
    BY <1>1, CarveGoesOn DEF Starts
  <2>2. ~busy
    <3>1. busy => at \in Places /\ at # "stop"
      BY PlacesListed DEF KernelInv, CallMatches
    <3> QED BY <2>1, <3>1, PlaceIsRight DEF KernelInv, CallMatches
  <2>3. UNCHANGED <<at, busy, names, volume>>
    BY <1>1 DEF Starts, kernelVars
  <2>4. NamesMatch' /\ Held' = Held
    BY <2>1, <2>3 DEF KernelInv, NamesMatch, Held
  <2>5. CallMatches'
    BY <2>1, <2>2, <2>3, <2>4 DEF KernelInv, CallMatches
  <2> QED BY <2>2, <2>3, <2>4, <2>5, PlacesSame DEF KernelInv
<1>2. CASE CallsAllocate
  <2>1. \E size \in Sizes : AllocatePop(size) \/ AllocateDivide(size)
    BY <1>2, PlaceIsRight DEF CallsAllocate, AllocatesRightly
  <2>2. Held = HeldAt(at)
    BY <1>2 DEF CallsAllocate, KernelInv, CallMatches
  <2> QED BY <1>2, <2>1, <2>2, AllocatingStep DEF CallsAllocate
<1>3. CASE CallsFree
  <2>1. PICK k : k = Kernel[at]
    OBVIOUS
  <2>2. PICK i \in DOMAIN names :
          /\ names[i] = k.block
          /\ Free(i)
          /\ names' = SubSeq(names, 1, i - 1) \o SubSeq(names, i + 1, Len(names))
    BY <1>3, <2>1 DEF CallsFree
  <2>3. /\ ~busy /\ busy' = TRUE /\ UNCHANGED <<at, volume>> /\ at \in Places
        /\ k.does = "free" /\ Kernel'[at'] = k /\ Held = HeldAt(at)
    BY <1>3, <2>1, PlaceIsRight, KernelSame DEF CallsFree, KernelInv, CallMatches
  <2>4. live' = Dropped(i) /\ call'.op \in {"false", "merge", "wild"}
    BY <2>2 DEF Free, FreeRefused, FreeBlock, Wild
  <2>5. NamesMatch' /\ Held' = Held \ {k.block}
    BY <2>2, <2>4, BlockUnnamed DEF KernelInv
  <2>6. CallMatches'
    BY <2>3, <2>4, <2>5, PlacesSame DEF CallMatches
  <2> QED BY <2>3, <2>5, <2>6, PlacesSame DEF KernelInv
<1>4. CASE Works
  <2>1. /\ busy /\ busy' = TRUE /\ UNCHANGED <<at, volume>> /\ Named
        /\ at \in Places /\ at # "stop"
    BY <1>4, PlacesListed DEF Works, KernelInv, CallMatches
  <2>2. CASE Kernel[at].does = "allocate"
    <3>1. call.op \in {"idle", "divide", "divideLast", "pop", "null", "wild"}
      BY <2>1, <2>2 DEF KernelInv, CallMatches
    <3>2. (DividePush \/ DivideLast \/ DividePop) /\ call # Idle
      BY <1>4, <3>1
         DEF Works, MergeBlock, MergePrevious, MergeNext, MergeDone, DividePush,
             DivideLast, DividePop, Idle
    <3>3. Held = HeldAt(at)
      BY <2>1, <2>2, <3>2 DEF KernelInv, CallMatches, Gained
    <3> QED BY <2>1, <2>2, <3>2, <3>3, AllocatingStep
  <2>3. CASE Kernel[at].does = "free"
    <3>1. /\ call.op \in {"idle", "merge", "false", "wild"}
          /\ Held = HeldAt(at) \ {Kernel[at].block}
      BY <2>1, <2>3 DEF KernelInv, CallMatches
    <3>2. MergeBlock
      BY <1>4, <3>1 DEF Works, DividePush, DivideLast, DividePop
    <3>3. call'.op \in {"idle", "merge"} /\ UNCHANGED live
      BY <3>2, MergeGoesOn
    <3>4. NamesMatch' /\ Held' = Held
      BY <2>1, <3>3, NothingNamed DEF KernelInv
    <3>5. Kernel'[at'] = Kernel[at]
      BY <2>1, KernelSame
    <3>6. CallMatches'
      BY <2>1, <2>3, <3>1, <3>3, <3>4, <3>5, PlacesSame DEF CallMatches
    <3> QED BY <2>1, <3>4, <3>6, PlacesSame DEF KernelInv
  <2> QED BY <2>1, <2>2, <2>3, PlaceIsRight
<1>5. CASE Returns
  <2>1. /\ busy /\ at \in Places /\ at # "stop"
    BY <1>5, PlacesListed DEF Returns, KernelInv, CallMatches
  <2>2. PICK k : k = Kernel[at]
    OBVIOUS
  <2>3. CASE call = Idle /\ GoesOn(k.ok) /\ UNCHANGED vars
    <3>1. k.ok \subseteq Places \cup {"stop"} /\ \A p \in k.ok : HeldAt(p) = Held
      BY <2>1, <2>2, <2>3, PlaceIsRight
         DEF AllocatesRightly, FreesRightly, KernelInv, CallMatches, Gained
    <3> QED BY <2>3, <3>1, ReturningStep DEF vars
  <2>4. CASE (NullSeen \/ FalseSeen) /\ GoesOn(k.bad)
    <3>1. call' = Idle /\ UNCHANGED live /\ call.op \in {"null", "false"}
      BY <2>4 DEF NullSeen, FalseSeen
    <3>2. k.bad \subseteq Places \cup {"stop"} /\ \A p \in k.bad : HeldAt(p) = Held
      BY <2>1, <2>2, <3>1, PlaceIsRight
         DEF AllocatesRightly, FreesRightly, KernelInv, CallMatches, Gained, Idle
    <3> QED BY <2>4, <3>1, <3>2, ReturningStep
  <2> QED BY <1>5, <2>2, <2>3, <2>4 DEF Returns
<1>6. CASE UNCHANGED allVars
  <2>1. UNCHANGED <<call, live, at, busy, names, volume>> /\ Kernel' = Kernel
    BY <1>6, KernelSame DEF allVars, vars, kernelVars
  <2> QED BY <2>1, PlacesSame DEF KernelInv, NamesMatch, CallMatches, Held, Gained
<1> QED BY <1>1, <1>2, <1>3, <1>4, <1>5, <1>6 DEF KernelNext

LEMMA NothingHeld ==
  ASSUME KernelInv
  PROVE  NothingKept
<1> SUFFICES ASSUME ~busy, at \in NextVolume, NEW i \in DOMAIN names
             PROVE  names[i] \in {"test", "buffer", "handles", "protocols"}
  BY DEF NothingKept
<1>1. Held = {}
  BY DEF KernelInv, CallMatches, HeldAt, NextVolume
<1>2. names[i] \in BlockNames
  BY LenProperties, ElementOfSeq DEF KernelInv, NamesMatch
<1> QED BY <1>1, <1>2 DEF Held, BlockNames

LEMMA KernelSafety ==
  KernelInit /\ [][KernelNext]_allVars => [](TypeOK /\ KernelInv)
<1>1. KernelInit => TypeOK /\ KernelInv
  BY InitTypeOK, KernelInitInv DEF KernelInit
<1>2. TypeOK /\ KernelInv /\ [KernelNext]_allVars => (TypeOK /\ KernelInv)'
  <2>1. ASSUME TypeOK, KernelInv, [KernelNext]_allVars
        PROVE  [Next]_vars
    BY <2>1, KernelIsClient DEF allVars
  <2> QED BY <2>1, NextTypeOK, KernelNextInv
<1> QED BY <1>1, <1>2, PTL

(***************************************************************************)
(* Fs.c:691: "No matter what, we *have* to free what we allocated".        *)
(* Whatever Allocate() and Free() answer, for every memory map, sizes of   *)
(* sectors and arrays, and even once merges are not sound, the detection   *)
(* of a volume keeps no buffer when the kernel goes on to the next volume  *)
(* or stops.                                                               *)
(***************************************************************************)
THEOREM NothingAlwaysKept == KernelSpec => []NothingKept
<1>1. TypeOK /\ KernelInv => NothingKept
  BY NothingHeld
<1> QED BY <1>1, KernelSafety, PTL DEF KernelSpec, allVars

-----------------------------------------------------------------------------
(***************************************************************************)
(* What becomes of memory in a step of the kernel whose merge, if it is    *)
(* one, is sound: the same addresses have an owner, unless a block is      *)
(* given up.                                                               *)
(***************************************************************************)
GivesUp(i) ==
  /\ i \in DOMAIN live
  /\ OwnersButOf(i)
  /\ \/ call'.op = "false" /\ lost' = lost \cup {live[i]}
     \/ call'.op = "wild" /\ UNCHANGED lost

LEMMA KernelStepOwners ==
  ASSUME TypeOK, HeapInv, KernelInv, SoundKernelNext
  PROVE  /\ HeapInv'
         /\ call'.op # "wild" => call.op # "wild"
         /\ (OwnersKept /\ UNCHANGED lost) \/ \E i : GivesUp(i)
<1>1. CASE Starts
  <2>1. HeapInv' /\ OwnersKept /\ UNCHANGED lost
    BY <1>1, CarveInv DEF Starts, kernelVars
  <2>2. call.op = "carve"
    BY <1>1, CarveGoesOn DEF Starts
  <2> QED BY <2>1, <2>2
<1>2. CASE CallsAllocate
  <2>1. Allocate
    BY <1>2, PlaceIsRight DEF CallsAllocate, AllocatesRightly, Allocate
  <2> QED BY <1>2, <2>1, AllocateInv DEF CallsAllocate, Given
<1>3. CASE CallsFree
  <2>1. PICK i \in DOMAIN names :
          Free(i) /\ lost' = IF call'.op = "false" THEN lost \cup {live[i]} ELSE lost
    BY <1>3 DEF CallsFree
  <2>2. i \in DOMAIN live
    BY LenProperties DEF KernelInv, NamesMatch
  <2>3. HeapInv' /\ IF Given' THEN OwnersKept ELSE OwnersButOf(i)
    BY <2>1, <2>2, FreeInv
  <2>4. call.op = "idle"
    BY <2>1 DEF Free, FreeRefused, FreeBlock, Idle
  <2>5. CASE Given'
    BY <2>1, <2>3, <2>4, <2>5 DEF Given
  <2>6. CASE ~Given'
    <3>1. GivesUp(i)
      BY <2>1, <2>2, <2>3, <2>6 DEF Given, GivesUp
    <3> QED BY <2>3, <2>4, <3>1
  <2> QED BY <2>5, <2>6
<1>4. CASE Works
  <2>1. CASE MergeBlock
    BY <1>4, <2>1, MergeBlockInv, MergeGoesOn DEF Works, SoundKernelNext
  <2>2. CASE ~MergeBlock
    <3>1. Allocate
      BY <1>4, <2>2 DEF Works, Allocate
    <3> QED BY <1>4, <3>1, AllocateInv DEF Works, Given
  <2> QED BY <2>1, <2>2
<1>5. CASE Returns
  <2>1. UNCHANGED lost
    BY <1>5 DEF Returns, GoesOn
  <2>2. CASE UNCHANGED vars
    <3>1. UNCHANGED call
      BY <2>2 DEF vars
    <3> QED BY <2>1, <2>2, <3>1, StutterInv
  <2>3. CASE NullSeen
    <3>1. Allocate
      BY <2>3 DEF Allocate
    <3> QED BY <2>1, <3>1, AllocateInv DEF Given
  <2>4. CASE FalseSeen
    <3>1. call.op = "false"
      BY <2>4 DEF FalseSeen
    <3> QED BY <2>1, <2>4, <3>1, FalseSeenInv
  <2> QED BY <1>5, <2>2, <2>3, <2>4 DEF Returns
<1> QED BY <1>1, <1>2, <1>3, <1>4, <1>5 DEF SoundKernelNext, KernelNext

LEMMA KernelStutters ==
  ASSUME TypeOK, HeapInv, UNCHANGED allVars
  PROVE  HeapInv' /\ UNCHANGED call /\ OwnersKept /\ UNCHANGED lost
BY StutterInv DEF allVars, vars, kernelVars

(***************************************************************************)
(* The blocks that Free() refused: nothing of them is owned, so that no    *)
(* address is in two of them.                                              *)
(***************************************************************************)
LostApart ==
  /\ \A b \in lost : \A x \in LostExtent(b) : ~Owned(x)
  /\ \A b, c \in lost : b # c => LostExtent(b) \cap LostExtent(c) = {}

Accounted(x) == Owned(x) \/ \E b \in lost : x \in LostExtent(b)

NothingMissing == call.op # "wild" => \A x \in Memory : Accounted(x)

LEMMA OwnersKeptLost ==
  ASSUME LostApart, NothingMissing, OwnersKept, UNCHANGED lost, Memory' = Memory,
         call'.op # "wild" => call.op # "wild"
  PROVE  LostApart' /\ NothingMissing'
<1>1. \A b : LostExtent(b)' = LostExtent(b)
  BY DEF LostExtent
<1>2. LostApart'
  BY <1>1 DEF LostApart, OwnersKept
<1>3. \A x : Accounted(x)' <=> Accounted(x)
  BY <1>1 DEF Accounted, OwnersKept
<1> QED BY <1>2, <1>3 DEF NothingMissing

LEMMA GivenUpLost ==
  ASSUME HeapInv, LostApart, NothingMissing, NEW i, GivesUp(i), Memory' = Memory,
         call'.op # "wild" => call.op # "wild"
  PROVE  LostApart' /\ NothingMissing'
<1>1. \A b : LostExtent(b)' = LostExtent(b)
  BY DEF LostExtent
<1>2. LostExtent(live[i]) = LiveExtent(i)
  BY DEF LostExtent, LiveExtent
<1>3. \A x \in LiveExtent(i) : Owned(x) /\ ~Owned(x)'
  BY DEF GivesUp, OwnersButOf, Owned
<1>4. \A x : Owned(x)' => Owned(x)
  BY DEF GivesUp, OwnersButOf
<1>5. \A b \in lost : LostExtent(b) \cap LiveExtent(i) = {}
  BY <1>3 DEF LostApart
<1>6. lost' \subseteq lost \cup {live[i]}
  BY DEF GivesUp
<1>7. LostApart'
  <2>1. \A b \in lost' : \A x \in LostExtent(b) : ~Owned(x)'
    BY <1>2, <1>3, <1>4, <1>6 DEF LostApart
  <2>2. \A b, c \in lost' : b # c => LostExtent(b) \cap LostExtent(c) = {}
    BY <1>2, <1>5, <1>6 DEF LostApart
  <2> QED BY <1>1, <2>1, <2>2 DEF LostApart
<1>8. ASSUME call'.op # "wild", NEW x \in Memory
      PROVE  Accounted(x)'
  <2>1. lost' = lost \cup {live[i]}
    BY <1>8 DEF GivesUp
  <2>2. Accounted(x)
    BY <1>8 DEF NothingMissing
  <2>3. CASE x \in LiveExtent(i)
    BY <1>1, <1>2, <2>1, <2>3 DEF Accounted
  <2>4. CASE x \notin LiveExtent(i)
    <3>1. Owned(x)' <=> Owned(x)
      BY <2>4 DEF GivesUp, OwnersButOf
    <3> QED BY <1>1, <2>1, <2>2, <3>1 DEF Accounted
  <2> QED BY <2>3, <2>4
<1> QED BY <1>7, <1>8 DEF NothingMissing

LEMMA AccountedExactly ==
  ASSUME TypeOK, HeapInv, LostApart, NothingMissing
  PROVE  EveryPageAccounted
<1> SUFFICES ASSUME call = Idle, NEW pointer \in DataPointers
             PROVE  LET owners == Owners(pointer)
                          \cup {<<"lost", b>> : b \in {c \in lost : pointer \in LostExtent(c)}}
                    IN  \E owner \in owners : owners = {owner}
  BY DEF EveryPageAccounted
<1>1. Accounted(pointer)
  BY DataInMemory DEF NothingMissing, Idle
<1>2. CASE Owned(pointer)
  <2>1. PICK owner \in Owners(pointer) : Owners(pointer) = {owner}
    BY <1>2, OwnerIsUnique
  <2>2. {c \in lost : pointer \in LostExtent(c)} = {}
    BY <1>2 DEF LostApart
  <2> QED BY <2>1, <2>2
<1>3. CASE ~Owned(pointer)
  <2>1. Owners(pointer) = {}
    BY <1>3 DEF Owned, Owners
  <2>2. PICK b \in lost : pointer \in LostExtent(b)
    BY <1>1, <1>3 DEF Accounted
  <2>3. {c \in lost : pointer \in LostExtent(c)} = {b}
    BY <2>2 DEF LostApart
  <2>4. Owners(pointer) \cup {<<"lost", c>> : c \in {d \in lost : pointer \in LostExtent(d)}}
          = {<<"lost", b>>}
    BY <2>1, <2>3
  <2> QED BY <2>4
<1> QED BY <1>2, <1>3

(***************************************************************************)
(* Altogether.                                                             *)
(***************************************************************************)
MemoryInv == TypeOK /\ KernelInv /\ HeapInv /\ LostApart /\ NothingMissing

LEMMA MemoryInit == KernelInit => MemoryInv
<1> SUFFICES ASSUME KernelInit PROVE MemoryInv
  OBVIOUS
<1>1. TypeOK /\ KernelInv /\ HeapInv /\ Covered
  BY InitTypeOK, HeapInit, CoveredInit, KernelInitInv DEF KernelInit
<1>2. lost = {} /\ call.op = "carve"
  BY DEF KernelInit, Init
<1> QED BY <1>1, <1>2 DEF MemoryInv, LostApart, NothingMissing, Covered, Given, Accounted

LEMMA MemoryNext == MemoryInv /\ [SoundKernelNext]_allVars => MemoryInv'
<1> SUFFICES ASSUME MemoryInv, [SoundKernelNext]_allVars PROVE MemoryInv'
  OBVIOUS
<1>1. [KernelNext]_allVars
  BY DEF SoundKernelNext
<1>2. [Next]_vars
  BY <1>1, KernelIsClient DEF allVars, MemoryInv
<1>3. TypeOK' /\ KernelInv' /\ Memory' = Memory
  BY <1>1, <1>2, NextTypeOK, KernelNextInv, MemoryKept DEF MemoryInv
<1>4. CASE SoundKernelNext
  BY <1>3, <1>4, KernelStepOwners, OwnersKeptLost, GivenUpLost DEF MemoryInv
<1>5. CASE UNCHANGED allVars
  BY <1>3, <1>5, KernelStutters, OwnersKeptLost DEF MemoryInv
<1> QED BY <1>4, <1>5

LEMMA MemorySafety == SoundKernelSpec => []MemoryInv
BY MemoryInit, MemoryNext, PTL DEF SoundKernelSpec, allVars

(***************************************************************************)
(* As long as merges are sound, the blocks that the kernel has, to test    *)
(* the allocator, for graphics, for the lists of handles and for the       *)
(* detection of volumes, never overlap each other or what is free.         *)
(***************************************************************************)
THEOREM KernelBlocksDisjoint == SoundKernelSpec => []BlocksDisjoint
<1>1. MemoryInv => BlocksDisjoint
  BY DEF MemoryInv, HeapInv
<1> QED BY <1>1, MemorySafety, PTL

(***************************************************************************)
(* As long as merges are sound, and whatever Free() refuses, between calls *)
(* every page is in exactly one block: a free one, one in use, or one that *)
(* was refused.  The kernel loses no other memory.                         *)
(***************************************************************************)
THEOREM KernelPagesAccounted == SoundKernelSpec => []EveryPageAccounted
<1>1. MemoryInv => EveryPageAccounted
  BY AccountedExactly DEF MemoryInv
<1> QED BY <1>1, MemorySafety, PTL
=============================================================================
