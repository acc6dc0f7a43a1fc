-------------------------------- MODULE Heap --------------------------------
(***************************************************************************)
(* What a memory allocator promises its clients, whatever its algorithm:   *)
(* Allocate() returns memory of its own that nobody else is using, and     *)
(* Free() takes one block back and leaves the others alone.                *)
(***************************************************************************)
EXTENDS Integers, Sequences

VARIABLES
  memory,  \* The addresses that the allocator may hand out.
  blocks   \* The blocks that clients hold, oldest first.

heapVars == <<memory, blocks>>

Block == [ptr : Nat, size : Nat \ {0}]

Extent(b) == b.ptr .. b.ptr + b.size - 1

HeapInit ==
  /\ memory \subseteq Nat
  /\ blocks = <<>>

HeapAllocate ==
  /\ Len(blocks') = Len(blocks) + 1
  /\ LET b == blocks'[Len(blocks')] IN
       /\ b \in Block
       /\ blocks' = Append(blocks, b)
       /\ Extent(b) \subseteq memory
       /\ \A i \in DOMAIN blocks : Extent(b) \cap Extent(blocks[i]) = {}
  /\ UNCHANGED memory

HeapFree ==
  /\ \E i \in DOMAIN blocks :
       blocks' = SubSeq(blocks, 1, i - 1) \o SubSeq(blocks, i + 1, Len(blocks))
  /\ UNCHANGED memory

HeapNext == HeapAllocate \/ HeapFree

HeapSpec == HeapInit /\ [][HeapNext]_heapVars
=============================================================================
