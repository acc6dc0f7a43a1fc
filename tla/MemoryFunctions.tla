-------------------------- MODULE MemoryFunctions --------------------------
(***************************************************************************)
(* The functions that copy and fill memory: those of the kernel            *)
(* (Common/Kernel/Memory: Memory.c, x64/Memcpy.asm, x64/Memset.asm), which *)
(* choose a routine by size and CPU, and those of the bootloaders          *)
(* (Boot/Efi/Memory, Boot/Legacy/Shared/Memory) that use SSE.              *)
(*                                                                         *)
(* What a routine does is a sequence of moves that depends on addresses    *)
(* and sizes alone, and is then executed one move after the other.  The    *)
(* content of a byte is where it was at first.  All sizes are scaled: the  *)
(* 16 bytes of an SSE register are Paragraph bytes here.                   *)
(***************************************************************************)
EXTENDS Integers, SequencesExt

CONSTANTS
  Paragraph,   \* 16 in the code, a power of two here.
  Word,        \* 2^64 in the code: sizes wrap around there.
  Top,         \* The last address.
  Stack,       \* Where the functions have their local arrays, or the block to fill with.
  Starts, Sizes, BlockSizes   \* What the functions are called with.

ASSUME MemoryAssumption ==
  /\ Paragraph \in Nat \ {0} /\ Word \in Nat \ {0} /\ Top \in Nat
  /\ Stack \in Nat /\ Stack % (16 * Paragraph) = 0
  /\ Starts \subseteq Nat /\ Sizes \subseteq Nat /\ BlockSizes \subseteq Nat

\* What CpuFeaturesAvailable says, as far as it matters.
Cpus == {"Erms", "Avx512f", "Avx", "Sse2"}

Addresses == 0 .. Top

VARIABLES
  memory,   \* What each byte holds: the address where that was, or Character.
  call,     \* The call in progress.
  todo,     \* The moves that are left of it.
  faulted   \* An access that must be aligned was not.

vars == <<memory, call, todo, faulted>>

Character == -1

-----------------------------------------------------------------------------
(***************************************************************************)
(* Moves.  "bytes" is rep movsb or a loop upwards, "block" loads all       *)
(* registers before it stores them, "back" is a loop downwards, "fill" is  *)
(* rep stosb or a store of equal bytes.                                    *)
(***************************************************************************)
Move(kind, to, from, size, align) ==
  IF size = 0 THEN <<>>
  ELSE <<[kind |-> kind, to |-> to, from |-> from, size |-> size, align |-> align]>>

Bytes(to, from, size) == Move("bytes", to, from, size, 1)

Fill(to, value, size) == Move("fill", to, value, size, 1)

Blocks(number, Of(_)) == FlattenSeq([k \in 1 .. number |-> Of(k - 1)])

Read(address) == IF address \in Addresses THEN memory[address] ELSE address

Execute ==
  /\ todo # <<>>
  /\ LET m == Head(todo)
         inside == m.to .. (m.to + m.size - 1)
         distance == m.to - m.from
         \* Upwards, bytes that were copied before are copied again.
         period == IF m.kind = "bytes" /\ distance \in 1 .. (m.size - 1) THEN distance ELSE m.size
     IN /\ memory' = [a \in Addresses |->
                        IF a \notin inside THEN memory[a]
                        ELSE IF m.kind = "fill" THEN m.from
                        ELSE Read(m.from + ((a - m.to) % period))]
        /\ faulted' = (faulted \/ m.to % m.align # 0)
  /\ todo' = Tail(todo)
  /\ UNCHANGED call

-----------------------------------------------------------------------------
(***************************************************************************)
(* x64/Memcpy.asm.                                                         *)
(***************************************************************************)
\* The first part aligns nothing, as it is as long as the distance from the last boundary.
Memcpy_RepMovsb(to, from, size) ==
  LET first == IF size < Paragraph THEN 0 ELSE to % Paragraph
  IN Bytes(to, from, first) \o Bytes(to + first, from + first, (size - first) % Word)

\* Up to a boundary, by blocks of four registers, and the rest.
VectorCopy(register, to, from, size) ==
  LET block == 4 * register
      first == (register - (to % register)) % register
      left == (size - first) % Word
      number == left \div block
      last == first + number * block
  IN Bytes(to, from, first)
     \o Blocks(number, LAMBDA k : Move("block", to + first + k * block, from + first + k * block, block, register))
     \o Bytes(to + last, from + last, left % block)

Memcpy_Sse2(to, from, size) == VectorCopy(Paragraph, to, from, size)

Memcpy_Avx(to, from, size) == VectorCopy(2 * Paragraph, to, from, size)

Memcpy_Avx512f(to, from, size) == VectorCopy(4 * Paragraph, to, from, size)

-----------------------------------------------------------------------------
(***************************************************************************)
(* x64/Memset.asm.  What is filled first is never nothing: from an aligned *)
(* address, it is as long as a register.                                   *)
(***************************************************************************)
Memset_RepStosb(to, value, size) ==
  LET first == IF size < Paragraph THEN 0 ELSE Paragraph - (to % Paragraph)
  IN Fill(to, value, first) \o Fill(to + first, value, (size - first) % Word)

\* A fault: the rest is as long as if no part had been filled before the blocks.
RestOfWhole(size, left, block) == size % block

RestOfFill(size, left, block) == left % block

VectorFill(register, to, value, size) ==
  LET block == 4 * register
      first == register - (to % register)
      left == (size - first) % Word
      number == left \div block
  IN Fill(to, value, first)
     \o Blocks(number, LAMBDA k : Move("fill", to + first + k * block, value, block, register))
     \o Fill(to + first + number * block, value, RestOfFill(size, left, block))

Memset_Sse2(to, value, size) == VectorFill(Paragraph, to, value, size)

Memset_Avx(to, value, size) == VectorFill(2 * Paragraph, to, value, size)

Memset_Avx512f(to, value, size) == VectorFill(4 * Paragraph, to, value, size)

-----------------------------------------------------------------------------
(***************************************************************************)
(* The kernel's Memory.c.                                                  *)
(***************************************************************************)
Small(size) == size < 4 * Paragraph

Memcpy(cpu, to, from, size) ==
  IF Small(size) \/ cpu = "Erms" THEN Memcpy_RepMovsb(to, from, size)
  ELSE CASE cpu = "Avx512f" -> Memcpy_Avx512f(to, from, size)
         [] cpu = "Avx" -> Memcpy_Avx(to, from, size)
         [] OTHER -> Memcpy_Sse2(to, from, size)

\* A fault: the two directions are swapped.
CopiesDown(to, from) == to >= from

CopiesUp(to, from) == to < from

Near(to, from) == (IF to < from THEN from - to ELSE to - from) < 4 * Paragraph

Memmove(cpu, to, from, size) ==
  IF ~Near(to, from) THEN Memcpy(cpu, to, from, size)
  ELSE IF CopiesUp(to, from) THEN Bytes(to, from, size)
  ELSE Move("back", to, from, size, 1)

Memset(cpu, to, value, size) ==
  IF Small(size) \/ cpu = "Erms" THEN Memset_RepStosb(to, value, size)
  ELSE CASE cpu = "Avx512f" -> Memset_Avx512f(to, value, size)
         [] cpu = "Avx" -> Memset_Avx(to, value, size)
         [] OTHER -> Memset_Sse2(to, value, size)

\* What is stored at a time, for blocks of 2 to 8 bytes.
Width(blockSize) == CHOOSE w \in {2, 4, 8} : blockSize <= w /\ \A v \in {2, 4, 8} : blockSize <= v => w <= v

Rounds(size, blockSize) == (size + blockSize - 1) \div blockSize

MemsetBlock(cpu, to, block, size, blockSize) ==
  IF blockSize <= 1 THEN Memset(cpu, to, block, size)
  ELSE Blocks(Rounds(size, blockSize),
              LAMBDA k : IF blockSize <= 8
                         THEN Move("block", to + k * blockSize, block, Width(blockSize), 1)
                         ELSE Memcpy(cpu, to + k * blockSize, block, blockSize))

-----------------------------------------------------------------------------
(***************************************************************************)
(* The bootloaders.  Blocks are of 16 registers in the EFI bootloader, and *)
(* of 8 in the Legacy one.                                                 *)
(***************************************************************************)
BlockOf(loader) == IF loader = "Efi" THEN 16 * Paragraph ELSE 8 * Paragraph

BootMemcpy(to, from, size) == Bytes(to, from, size)

BootMemmove(to, from, size) ==
  IF CopiesUp(to, from) THEN Bytes(to, from, size) ELSE Move("back", to, from, size, 1)

SecondFrom(b) == Stack

EfiMemswap(a, b, size) ==
  BootMemcpy(Stack, a, size) \o BootMemcpy(a, b, size) \o BootMemcpy(b, SecondFrom(b), size)

LegacyMemswap(a, b, size) ==
  BootMemmove(Stack, a, size) \o BootMemmove(a, b, size) \o BootMemmove(b, SecondFrom(b), size)

\* By the address of the source, whereas the destination must be aligned too.  What is copied
\* first does not count.
SseCopy(block, to, from, size) ==
  LET first == (Paragraph - (from % Paragraph)) % Paragraph
      number == size \div block
      last == first + number * block
  IN BootMemcpy(to, from, first)
     \o Blocks(number, LAMBDA k : Move("block", to + first + k * block, from + first + k * block, block, Paragraph))
     \o BootMemcpy(to + last, from + last, size % block)

EfiSseMemcpy(to, from, size) == SseCopy(BlockOf("Efi"), to, from, size)

LegacySseMemcpy(to, from, size) == SseCopy(BlockOf("Legacy"), to, from, size)

\* A fault: the blocks do not begin where the first bytes end.
FromTheStart(first, k, block) == k * block

BlockStart(first, k, block) == first + k * block

\* Blocks are written until there is nothing left, and then the remainder of the size again.
SseFill(block, to, size) ==
  LET first == (Paragraph - (to % Paragraph)) % Paragraph
      number == IF size <= first THEN 0 ELSE (size - first + block - 1) \div block
  IN Fill(Stack, Character, block) \o Fill(to, Character, first)
     \o Blocks(number, LAMBDA k : SseCopy(block, to + BlockStart(first, k, block), Stack, block))
     \o Fill(to + first + number * block, Character, size % block)

EfiSseMemset(to, size) == SseFill(BlockOf("Efi"), to, size)

LegacySseMemset(to, size) == SseFill(BlockOf("Legacy"), to, size)

-----------------------------------------------------------------------------
Init ==
  /\ memory = [a \in Addresses |-> a]
  /\ call = [op |-> "none", to |-> 0, from |-> 0, size |-> 0]
  /\ todo = <<>> /\ faulted = FALSE

Begin(op, to, from, size, moves) ==
  /\ call.op = "none"
  /\ call' = [op |-> op, to |-> to, from |-> from, size |-> size]
  /\ todo' = moves
  /\ UNCHANGED <<memory, faulted>>

Apart(a, b, size) == a + size <= b \/ b + size <= a

CallMemcpy == \E cpu \in Cpus, to, from \in Starts, size \in Sizes :
  Begin("Memcpy", to, from, size, Memcpy(cpu, to, from, size))

CallMemmove == \E cpu \in Cpus, to, from \in Starts, size \in Sizes :
  Begin("Memmove", to, from, size, Memmove(cpu, to, from, size))

CallMemset == \E cpu \in Cpus, to \in Starts, size \in Sizes :
  Begin("Memset", to, Character, size, Memset(cpu, to, Character, size))

\* `from' is the size of the block here.
CallMemsetBlock == \E cpu \in Cpus, to \in Starts, size \in Sizes, blockSize \in BlockSizes :
  Begin("MemsetBlock", to, blockSize, size, MemsetBlock(cpu, to, Stack, size, blockSize))

CallBootMemmove == \E to, from \in Starts, size \in Sizes :
  Begin("BootMemmove", to, from, size, BootMemmove(to, from, size))

CallMemswap == \E a, b \in Starts, size \in Sizes :
  /\ Apart(a, b, size)
  /\ \/ Begin("Memswap", a, b, size, EfiMemswap(a, b, size))
     \/ Begin("Memswap", a, b, size, LegacyMemswap(a, b, size))

CallSseMemcpy == \E to, from \in Starts, size \in Sizes :
  /\ Apart(to, from, size + Paragraph)
  /\ \/ Begin("SseMemcpy", to, from, size, EfiSseMemcpy(to, from, size))
     \/ Begin("SseMemcpy", to, from, size, LegacySseMemcpy(to, from, size))

\* `from' is the size of a block here.
CallSseMemset == \E to \in Starts, size \in Sizes :
  \/ Begin("SseMemset", to, BlockOf("Efi"), size, EfiSseMemset(to, size))
  \/ Begin("SseMemset", to, BlockOf("Legacy"), size, LegacySseMemset(to, size))

Next ==
  \/ CallMemcpy \/ CallMemmove \/ CallMemset \/ CallMemsetBlock
  \/ CallBootMemmove \/ CallMemswap \/ CallSseMemcpy \/ CallSseMemset
  \/ Execute

Spec == Init /\ [][Next]_vars
-----------------------------------------------------------------------------
(***************************************************************************)
(* Properties.                                                             *)
(***************************************************************************)
Finished(ops) == call.op \in ops /\ todo = <<>>

Moved(to, from, size) ==
  [a \in Addresses |-> IF a \in to .. (to + size - 1) THEN a - to + from ELSE a]

TypeOK ==
  /\ DOMAIN memory = Addresses /\ \A a \in Addresses : memory[a] \in Addresses \cup {Character}
  /\ faulted \in BOOLEAN
  /\ \A i \in DOMAIN todo : todo[i].size \in 1 .. (Top + 1) /\ todo[i].align >= 1

(***************************************************************************)
(* Every byte arrives and nothing else is written, on every CPU, at every  *)
(* alignment: of Memcpy() also if the destination overlaps the source from *)
(* below, of Memmove() also from above by less than the threshold, though  *)
(* the vector routines write memory that they read later.                  *)
(* (Memory.c:129, :190, Memcpy.asm)                                        *)
(***************************************************************************)
MovesAreExact ==
  Finished({"Memcpy", "Memmove", "BootMemmove"}) =>
    \/ memory = Moved(call.to, call.from, call.size)
    \/ /\ call.to > call.from /\ ~Apart(call.to, call.from, call.size)
       /\ call.op = "Memcpy" \/ (call.op = "Memmove" /\ ~Near(call.to, call.from))

(***************************************************************************)
(* Exactly the given range is filled, on every CPU, at every alignment;    *)
(* the rest that rep movsb or rep stosb is given never wraps around.       *)
(* (Memory.c:259, Memset.asm)                                              *)
(***************************************************************************)
FillsAreExact ==
  Finished({"Memset"}) =>
    memory = [a \in Addresses |-> IF a \in call.to .. (call.to + call.size - 1) THEN Character ELSE a]

(***************************************************************************)
(* The buffer holds the block over and over; what is written behind it is  *)
(* less than a block and what the store is wider than it.                  *)
(* (Memory.c:340-399)                                                      *)
(***************************************************************************)
BlocksRepeat ==
  Finished({"MemsetBlock"}) =>
    LET size == IF call.from <= 1 THEN 1 ELSE call.from
        wider == IF size \in 2 .. 8 THEN Width(size) - size ELSE 0
        written == IF call.size = 0 THEN 0 ELSE call.size + ((-call.size) % size) + wider
    IN \A a \in Addresses :
         /\ a \in call.to .. (call.to + call.size - 1) => memory[a] = Stack + ((a - call.to) % size)
         /\ a \notin call.to .. (call.to + written - 1) => memory[a] = a

(***************************************************************************)
(* SseMemset() fills all it is asked to, and what it writes behind is less *)
(* than two blocks; SseMemcpy() copies less than a paragraph too much, if  *)
(* its source is not aligned.  (Boot/Efi/Memory/Memory.c:255, :341)        *)
(***************************************************************************)
OverrunIsBounded ==
  /\ Finished({"SseMemset"}) =>
       \A a \in Addresses \ (Stack .. (Stack + call.from - 1)) :
         /\ a \in call.to .. (call.to + call.size - 1) => memory[a] = Character
         /\ a \notin call.to .. (call.to + call.size + 2 * (call.from - 1)) => memory[a] = a
  /\ Finished({"SseMemcpy"}) =>
       LET extra == (-call.from) % Paragraph
       IN memory = Moved(call.to, call.from, call.size + extra)

(***************************************************************************)
(* Two ranges that do not overlap are exchanged, by way of the stack.      *)
(* (Boot/Efi/Memory/Memory.c:231, Boot/Legacy/Shared/Memory/Memory.c:221)  *)
(***************************************************************************)
SwapsAreExact ==
  Finished({"Memswap"}) =>
    \A a \in Addresses \ (Stack .. (Stack + call.size - 1)) :
      memory[a] = IF a \in call.to .. (call.to + call.size - 1) THEN a - call.to + call.from
                  ELSE IF a \in call.from .. (call.from + call.size - 1) THEN a - call.from + call.to
                  ELSE a

(***************************************************************************)
(* No store of a register that must be aligned is not, except that of      *)
(* SseMemcpy() if its two addresses are aligned differently.               *)
(* (Memcpy.asm, Memset.asm, Boot/Efi/Memory/Memory.c:299)                  *)
(***************************************************************************)
AlignedStores ==
  faulted => call.op = "SseMemcpy" /\ (call.to - call.from) % Paragraph # 0

(***************************************************************************)
(* Copies and exchanges: of every size, at every alignment, no operation   *)
(* that they consist of leaves what was asked for.  (Memory.c:88-236)      *)
(***************************************************************************)
CopiesAreExact == TypeOK /\ MovesAreExact /\ SwapsAreExact

(***************************************************************************)
(* Fills, by a character or by a block.  (Memory.c:240-399)                *)
(***************************************************************************)
FillsAreRight == FillsAreExact /\ BlocksRepeat

(***************************************************************************)
(* The vector functions of the bootloaders, and the kernel's stores: none  *)
(* writes much more than it should, and addresses are aligned where they   *)
(* must be.  (Boot/Efi/Memory/Memory.c:252-394)                            *)
(***************************************************************************)
VectorsStayInBounds == OverrunIsBounded /\ AlignedStores
=============================================================================
