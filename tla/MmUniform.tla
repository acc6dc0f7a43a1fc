----------------------------- MODULE MmUniform ------------------------------
(***************************************************************************)
(* Why the merges of clients of SpecUniform are sound: the inductive       *)
(* invariant of that discipline.                                           *)
(*                                                                         *)
(* An entry of n pages is carved into one block for each bit of n, and a   *)
(* division splits a block in one way only.  What is free of an entry is   *)
(* therefore told by one number, the page at which its blocks in use       *)
(* begin, and by the level L of these blocks: the bits of that number from *)
(* L on, and those of n below L.                                           *)
(***************************************************************************)
EXTENDS MmProperties

Node(mmap, e, p) == mmap[e].Base + p

Pages(mmap, e) == DataPages(mmap[e])

Aligned(p, l) == p % BlockPages[l] = 0

\* The block at page p is the one for bit l of u.
Digit(u, p, l) ==
  Aligned(p, l + 1) /\ p + BlockPages[l] <= u /\ u < p + BlockPages[l + 1]

LowestBit(p, l) == Aligned(p, l) /\ ~Aligned(p, l + 1)

CarveStart(pages, p) == \E l \in Levels : Digit(pages, p, l)

\* The pages of an entry that blocks of level L are made of.
Whole(pages, L) == pages - (pages % BlockPages[L])

(***************************************************************************)
(* Two entries lie such that a block of one is as large as its distance to *)
(* a node of the other.  The constructor links the first block of an entry *)
(* to the last one before (Mm.c:108-113), and MergeBlock() takes the       *)
(* distance to it for a size.                                              *)
(***************************************************************************)
Bridged(mmap) ==
  \E f \in DOMAIN mmap : \E e \in 1 .. f - 1 :
    \E c \in 0 .. Pages(mmap, e) - 1 : \E l \in Levels :
      BlockPages[l] <= Pages(mmap, f) /\ Node(mmap, f, 0) - Node(mmap, e, c) = BlockPages[l]

NoBridges == ~Bridged(KernelMmap)

-----------------------------------------------------------------------------
(***************************************************************************)
(* Blocks: their entry, first page and level.                              *)
(***************************************************************************)
Blocks(mmap) == (DOMAIN mmap) \X (0 .. BlockPages[MaxLevel + 1]) \X Levels

FreeBlocks(mmap, m) ==
  {b \in Blocks(mmap) :
     /\ b[2] < Pages(mmap, b[1])
     /\ m[Node(mmap, b[1], b[2])].Pointer # Null
     /\ m[Node(mmap, b[1], b[2])].Level = b[3]}

\* Those that are free if blocks of level L are in use from page F[e] of each entry on.
FreeBelow(mmap, L, F) ==
  {b \in Blocks(mmap) :
     IF L <= b[3] THEN Digit(F[b[1]], b[2], b[3]) ELSE Digit(Pages(mmap, b[1]), b[2], b[3])}

(***************************************************************************)
(* Positions.  A link to an entry before may be of any age.                *)
(***************************************************************************)
IsEarlier(mmap, e, x) ==
  x = Null \/ \E f \in 1 .. e - 1 : \E c \in 0 .. Pages(mmap, f) - 1 : x = Node(mmap, f, c)

IsLater(mmap, e, y) ==
  \E f \in DOMAIN mmap : \E c \in 0 .. Pages(mmap, f) - 1 :
    e < f /\ CarveStart(Pages(mmap, f), c) /\ y = Node(mmap, f, c)

\* The block in front of page p is the one for the lowest bit of p, if that one is whole.
PrecededBy(mmap, S, e, p, x) ==
  IF p = 0 THEN IsEarlier(mmap, e, x)
  ELSE \E k \in Levels :
         /\ LowestBit(p, k)
         /\ \/ x = Node(mmap, e, p - BlockPages[k])
            \/ /\ CarveStart(Pages(mmap, e), p)
               /\ IsEarlier(mmap, e, x) \/ <<e, p - BlockPages[k], k>> \notin S

FollowedBy(mmap, S, e, p, end, y) ==
  \/ y = Null
  \/ IsLater(mmap, e, y)
  \/ \E c \in end .. Pages(mmap, e) - 1 :
       /\ y = Node(mmap, e, c)
       /\ \/ /\ CarveStart(Pages(mmap, e), c)
             /\ \A q \in p + 1 .. c - 1, m \in Levels : <<e, q, m>> \notin S
          \/ c = end /\ \E m \in Levels : <<e, c, m>> \in S

\* With P and N for the links of nodes to the previous and to the next position.
Placed(mmap, S, P, N) ==
  \A e \in DOMAIN mmap : \A p \in 0 .. BlockPages[MaxLevel + 1], l \in Levels :
    <<e, p, l>> \in S =>
      /\ PrecededBy(mmap, S, e, p, P[Node(mmap, e, p)])
      /\ FollowedBy(mmap, S, e, p, p + BlockPages[l], N[Node(mmap, e, p)])

Previous(m) == [a \in DOMAIN m |-> m[a].PosPrevious]

Following(m) == [a \in DOMAIN m |-> m[a].PosNext]

\* No node in front of page p but x has a next one behind it.
Bounded(mmap, S, N, e, p, x) ==
  \A q \in 0 .. p - 1, m \in Levels : \A c \in p + 1 .. Pages(mmap, e) - 1 :
    <<e, q, m>> \in S /\ N[Node(mmap, e, q)] = Node(mmap, e, c) => x = Node(mmap, e, q)

(***************************************************************************)
(* History: H[i] is where the blocks in use begin in each entry when there *)
(* are i of them, and E[i] the entry of the i-th.                          *)
(***************************************************************************)
\* An entry whose lowest block is to be divided has no smaller ones, nor has another.
NoneSmaller(L, V, e) ==
  \A l \in Levels : L < l /\ Aligned(V[e], l) =>
    \A f \in DOMAIN V : \A k \in L .. l - 1 : \A p \in 0 .. V[f] : ~Digit(V[f], p, k)

Allocated(mmap, L, V, e, W, block) ==
  /\ SizeLevel(block.size) = L
  /\ e \in DOMAIN mmap
  /\ BlockPages[L] <= V[e]
  /\ W = [V EXCEPT ![e] = V[e] - BlockPages[L]]
  /\ block.ptr = PagePointer(mmap[e], V[e] - BlockPages[L])
  /\ NoneSmaller(L, V, e)

History(mmap, L, H, E, blocks) ==
  /\ H[0] = [e \in DOMAIN mmap |-> Whole(Pages(mmap, e), L)]
  /\ \A i \in DOMAIN blocks : Allocated(mmap, L, H[i - 1], E[i], H[i], blocks[i])

-----------------------------------------------------------------------------
(***************************************************************************)
(* The invariant at each step of a call, where V says of each entry where  *)
(* the blocks in use begin.                                                *)
(***************************************************************************)
Vacant == FreeBlocks(KernelMmap, mem)

PositionsRight == Placed(KernelMmap, Vacant, Previous(mem), Following(mem))

CarvedTo ==
  [e \in DOMAIN KernelMmap |->
     IF e < call.entry THEN Pages(KernelMmap, e) ELSE IF e = call.entry THEN call.page ELSE 0]

CarveRight ==
  /\ Vacant = FreeBelow(KernelMmap, 0, CarvedTo)
  /\ call.entry \in DOMAIN KernelMmap =>
       /\ PrecededBy(KernelMmap, Vacant, call.entry, call.page, call.previous)
       /\ Bounded(KernelMmap, Vacant, Following(mem), call.entry, call.page, call.previous)
       /\ \E l \in 0 .. MaxLevel + 1 :
            /\ Aligned(call.page, l)
            /\ call.page <= Pages(KernelMmap, call.entry)
            /\ Pages(KernelMmap, call.entry) < call.page + BlockPages[l]

\* What is left of a block that is divided begins at page p.
DivideRight(L, V, e, p) ==
  /\ SizeLevel(call.size) = L /\ L <= call.level
  /\ call.address = Node(KernelMmap, e, p)
  /\ IF call.op = "divide"
     THEN Aligned(p, call.level + 1) /\ V[e] = p + BlockPages[call.level + 1]
     ELSE LowestBit(p, L) /\ V[e] = p + BlockPages[L]
  /\ Vacant = FreeBelow(KernelMmap, L, [V EXCEPT ![e] = p])
  /\ NoneSmaller(L, V, e)
  /\ PrecededBy(KernelMmap, Vacant, e, p, call.previous)
  /\ Bounded(KernelMmap, Vacant, Following(mem), e, p, call.previous)
  /\ FollowedBy(KernelMmap, Vacant, e, p, V[e], call.next)

\* The block of level k at page p is yet to be merged, or to be popped.
ExtraRight(L, V, e, p, node, k) ==
  /\ node = Node(KernelMmap, e, p)
  /\ L <= k /\ Aligned(p, k) /\ V[e] = p + BlockPages[k]
  /\ Vacant = FreeBelow(KernelMmap, L, [V EXCEPT ![e] = p]) \cup {<<e, p, k>>}
  /\ NoneSmaller(L, V, e)

\* In MergeBlock(), the next node is the first one above all blocks of level L.
NextRight(L, V, e) ==
  LET whole == Whole(Pages(KernelMmap, e), L)
      next  == mem[call.node].PosNext
      first == Node(KernelMmap, e, whole)
  IN  /\ next = Null \/ (whole < Pages(KernelMmap, e) /\ next = first)
      /\ whole < Pages(KernelMmap, e) /\ V[e] = whole =>
           next = first /\ mem[first].PosPrevious = call.node

CallRight(L, V) ==
  CASE call.op = "carve" -> L = 0 /\ live = <<>> /\ CarveRight
    [] call.op \in {"divide", "divideLast"} ->
         \E e \in DOMAIN KernelMmap : \E p \in 0 .. V[e] : DivideRight(L, V, e, p)
    [] call.op = "pop" ->
         /\ SizeLevel(call.size) = L
         /\ \E e \in DOMAIN KernelMmap : \E p \in 0 .. V[e] : ExtraRight(L, V, e, p, Nodes[L], L)
    [] call.op = "merge" ->
         \E e \in DOMAIN KernelMmap : \E p \in 0 .. V[e] :
           ExtraRight(L, V, e, p, call.node, call.level) /\ NextRight(L, V, e)
    [] call.op \in {"idle", "null"} -> Vacant = FreeBelow(KernelMmap, L, V)
    [] OTHER -> TRUE

UniformWith(L, H, E) ==
  /\ History(KernelMmap, L, H, E, live)
  /\ PositionsRight
  /\ CallRight(L, H[Len(live)])

UniformInv ==
  call.op \in {"wild", "false"} \/ \E L \in Levels : \E H, E : UniformWith(L, H, E)
=============================================================================
