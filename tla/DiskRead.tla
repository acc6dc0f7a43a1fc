------------------------------ MODULE DiskRead ------------------------------
(***************************************************************************)
(* ReadDisk() of Common/Kernel/Disk/Disk.c: a read of any bytes of a       *)
(* volume into a buffer at any address, over drivers that only read whole  *)
(* sectors, and for some devices only to aligned addresses.                *)
(*                                                                         *)
(* A byte of the drive is represented by its position on the drive, and    *)
(* Old stands for what the memory held before the call.  The steps are the *)
(* calls to the drivers and to the allocator, with the copying that        *)
(* follows each.  Either may fail at any time.                             *)
(***************************************************************************)
EXTENDS Integers

CONSTANTS
  BytesPerSector,
  DriveSectors,    \* The number of sectors on the drive.
  SectorsPerRead,  \* What fits in the transfer buffer of int 13h.
  MoveThreshold,   \* Memmove() leaves moves over this many bytes or more to Memcpy().
  Volumes,         \* The volumes that may be read, see Volume.
  Addresses,       \* The memory.
  Buffers,         \* The addresses that callers read to.
  Offsets, Sizes,  \* The offsets and sizes that callers ask for.
  TempAddresses    \* The addresses that Allocate() may return.

Null == 0

Old == -1

Volume ==
  [Method : {"Efi", "Int13"}, IsPartition : BOOLEAN, PartitionOffset : Nat,
   Alignment : Nat \ {0}, NumSectors : Nat]

ASSUME DriveAssumption ==
  /\ BytesPerSector \in Nat \ {0}
  /\ DriveSectors \in Nat \ {0}
  /\ SectorsPerRead \in Nat \ {0}
  /\ MoveThreshold \in Nat \ {0}
  /\ Volumes \subseteq Volume

Bytes(address, n) == address .. address + n - 1

\* Callers have the memory that they ask ReadDisk() to fill.
ASSUME RequestAssumption ==
  /\ Addresses \subseteq Nat \ {0}
  /\ Buffers \subseteq Nat \ {0}
  /\ TempAddresses \subseteq Nat \ {0}
  /\ Offsets \subseteq Nat
  /\ Sizes \subseteq Nat
  /\ \A buffer \in Buffers, n \in Sizes : Bytes(buffer, n) \subseteq Addresses

VARIABLES
  request,  \* The arguments.
  at,       \* What ReadDisk() is waiting for, or about to do.
  io,       \* The call of ReadSectors(): where to, from which sector, how many are left.
  memory,
  temp,     \* The temporary buffer, and its size.
  status    \* The result so far.

vars == <<request, at, io, memory, temp, status>>

NoIo == [to |-> Null, lba |-> 0, left |-> 0]

NoTemp == [ptr |-> Null, size |-> 0]

-----------------------------------------------------------------------------
(***************************************************************************)
(* The numbers that ReadDisk() derives from its arguments.                 *)
(***************************************************************************)
Start ==
  request.Offset +
    (IF request.Volume.IsPartition THEN BytesPerSector * request.Volume.PartitionOffset ELSE 0)

End == Start + request.Size - 1

FirstSector == Start \div BytesPerSector

LastSector == End \div BytesPerSector

StartOffset == Start % BytesPerSector

EndOffset == (End % BytesPerSector) + 1

NumSectors == 1 + LastSector - FirstSector

Alignment == request.Volume.Alignment

\* A fault: reads of two sectors go directly to the buffer as well.
BufferAlignedForTwo == request.Buffer % Alignment = 0 /\ NumSectors >= 2

BufferAligned == request.Buffer % Alignment = 0 /\ NumSectors >= 3

StartAligned == StartOffset = 0

EndAligned == EndOffset = BytesPerSector

\* The sectors that are left once the last one has been dealt with.
SectorsLeft == IF EndAligned THEN NumSectors ELSE NumSectors - 1

\* A fault: the temporary buffer is used as it comes.
TempAsItComes(pointer) == pointer

TempAddress(pointer) ==
  IF pointer % Alignment = 0 THEN pointer ELSE pointer + Alignment - (pointer % Alignment)

-----------------------------------------------------------------------------
(***************************************************************************)
(* What Allocate() may return (see MmAllocator): memory that is nobody's,  *)
(* so that none of it belongs to the buffer of the caller.                 *)
(***************************************************************************)
Grants(pointer, n) ==
  /\ Bytes(pointer, n) \subseteq Addresses
  /\ Bytes(pointer, n) \cap Bytes(request.Buffer, request.Size) = {}

Moved(m, to, from, n) ==
  [a \in DOMAIN m |-> IF a \in Bytes(to, n) THEN m[from + (a - to)] ELSE m[a]]

\* Of a copy that goes on from the first byte to the last, to an area that starts d bytes
\* further up: the byte of the source that byte i gets.  Once the copy reaches what it has
\* itself written, the first d bytes repeat.
Forward(d, i) == IF d > 0 THEN i % d ELSE i

\* All of Memcpy.asm copies forward.  (Where the areas overlap, the routines that load more
\* than d bytes at a time get some of these bytes right after all.)
Memcpy(m, to, from, n) ==
  [a \in DOMAIN m |->
     IF a \in Bytes(to, n) THEN m[from + Forward(to - from, a - to)] ELSE m[a]]

\* Copies in the order that suits the areas, but only when they are close together.
Memmove(m, to, from, n) ==
  IF to - from \in 1 - MoveThreshold .. MoveThreshold - 1
  THEN Moved(m, to, from, n)
  ELSE Memcpy(m, to, from, n)

FromDisk(m, to, lba, n) ==
  [a \in DOMAIN m |->
     IF a \in Bytes(to, n * BytesPerSector) THEN lba * BytesPerSector + (a - to) ELSE m[a]]

-----------------------------------------------------------------------------
Init ==
  /\ request \in [Volume : Volumes, Buffer : Buffers, Offset : Offsets, Size : Sizes]
  /\ at = "begin"
  /\ io = NoIo
  /\ memory = [a \in Addresses |-> Old]
  /\ temp = NoTemp
  /\ status = FALSE

Return(result) ==
  /\ at' = "done"
  /\ status' = result

Reads(to, lba, n) == io' = [to |-> to, lba |-> lba, left |-> n]

BeginEmpty ==
  /\ at = "begin"
  /\ request.Size = 0
  /\ Return(TRUE)
  /\ UNCHANGED <<request, io, memory, temp>>

OutOfBounds == LastSector >= request.Volume.NumSectors

BeginRefused ==
  /\ at = "begin"
  /\ request.Size > 0
  /\ OutOfBounds
  /\ Return(FALSE)
  /\ UNCHANGED <<request, io, memory, temp>>

\* The first sectors: all at once, or all but the first of them.
ReadStart ==
  IF StartAligned
  THEN at' = "whole" /\ Reads(request.Buffer, FirstSector, SectorsLeft)
  ELSE at' = "middle" /\ Reads(request.Buffer, FirstSector + 1, SectorsLeft - 1)

BeginAligned ==
  /\ at = "begin"
  /\ request.Size > 0
  /\ ~OutOfBounds
  /\ BufferAligned
  /\ IF EndAligned
     THEN ReadStart
     ELSE at' = "last" /\ Reads(request.Buffer, LastSector, 1)
  /\ UNCHANGED <<request, memory, temp, status>>

BeginMisaligned ==
  /\ at = "begin"
  /\ request.Size > 0
  /\ ~OutOfBounds
  /\ ~BufferAligned
  /\ \/ \E pointer \in TempAddresses :
          /\ Grants(pointer, Alignment + NumSectors * BytesPerSector)
          /\ temp' = [ptr |-> pointer, size |-> Alignment + NumSectors * BytesPerSector]
          /\ Reads(TempAddress(pointer), FirstSector, NumSectors)
          /\ at' = "bounce"
          /\ UNCHANGED status
     \/ Return(FALSE) /\ UNCHANGED <<io, temp>>
  /\ UNCHANGED <<request, memory>>

-----------------------------------------------------------------------------
(***************************************************************************)
(* ReadSectors(): one call of ReadBlocks(), or as many calls of int 13h as *)
(* its transfer buffer needs.                                              *)
(***************************************************************************)
SectorsRead ==
  /\ io.left > 0
  /\ io.lba + io.left <= DriveSectors
  /\ LET n == IF request.Volume.Method = "Efi" \/ io.left < SectorsPerRead
              THEN io.left ELSE SectorsPerRead
     IN  /\ memory' = FromDisk(memory, io.to, io.lba, n)
         /\ io' = [to |-> io.to + n * BytesPerSector, lba |-> io.lba + n, left |-> io.left - n]
  /\ UNCHANGED <<request, at, temp, status>>

\* A fault: a temporary buffer is not freed when the read fails.
SectorsFailAtOnce ==
  /\ io.left > 0
  /\ io' = NoIo
  /\ Return(FALSE)
  /\ UNCHANGED <<request, memory, temp>>

\* A fault: a read that fails is started again.
SectorsFailAndRetry ==
  /\ io.left > 0
  /\ io' = NoIo
  /\ at' = "begin"
  /\ UNCHANGED <<request, memory, temp, status>>

\* The drive fails, or is out of range, or has been removed.
SectorsFail ==
  /\ io.left > 0
  /\ io' = NoIo
  /\ IF temp = NoTemp THEN Return(FALSE) ELSE at' = "free" /\ status' = FALSE
  /\ UNCHANGED <<request, memory, temp>>

Arrived(place) == at = place /\ io.left = 0

-----------------------------------------------------------------------------
LastRead ==
  /\ Arrived("last")
  /\ memory' = Memcpy(memory, request.Buffer + request.Size - EndOffset, request.Buffer, EndOffset)
  /\ ReadStart
  /\ UNCHANGED <<request, temp, status>>

WholeRead ==
  /\ Arrived("whole")
  /\ Return(TRUE)
  /\ UNCHANGED <<request, io, memory, temp>>

\* What was read moves to its place, and the start of it into the temporary buffer.
MiddleRead ==
  /\ Arrived("middle")
  /\ LET moved == Memmove(memory, request.Buffer + BytesPerSector - StartOffset, request.Buffer,
                          (SectorsLeft - 1) * BytesPerSector)
     IN  \/ \E pointer \in TempAddresses :
              /\ Grants(pointer, BytesPerSector)
              /\ temp' = [ptr |-> pointer, size |-> BytesPerSector]
              /\ memory' = Memcpy(moved, pointer, request.Buffer, BytesPerSector)
              /\ Reads(request.Buffer, FirstSector, 1)
              /\ at' = "first"
              /\ UNCHANGED status
         \/ memory' = moved /\ Return(FALSE) /\ UNCHANGED <<io, temp>>
  /\ UNCHANGED request

\* A fault: what the first sector has overwritten is not restored.
FirstReadUnrestored ==
  /\ Arrived("first")
  /\ memory' = Memmove(memory, request.Buffer, request.Buffer + StartOffset, BytesPerSector - StartOffset)
  /\ at' = "free"
  /\ status' = TRUE
  /\ UNCHANGED <<request, io, temp>>

FirstRead ==
  /\ Arrived("first")
  /\ LET rest  == BytesPerSector - StartOffset
         moved == Memmove(memory, request.Buffer, request.Buffer + StartOffset, rest)
     IN  memory' = Memcpy(moved, request.Buffer + rest, temp.ptr + rest, StartOffset)
  /\ at' = "free"
  /\ status' = TRUE
  /\ UNCHANGED <<request, io, temp>>

BounceRead ==
  /\ Arrived("bounce")
  /\ memory' = Memmove(memory, request.Buffer, TempAddress(temp.ptr) + StartOffset, request.Size)
  /\ at' = "free"
  /\ status' = TRUE
  /\ UNCHANGED <<request, io, temp>>

\* Free() may refuse the block; the read has then failed.
FreeTemp ==
  /\ at = "free"
  /\ \E freed \in BOOLEAN : Return(status /\ freed)
  /\ temp' = NoTemp
  /\ UNCHANGED <<request, io, memory>>

Next ==
  \/ BeginEmpty \/ BeginRefused \/ BeginAligned \/ BeginMisaligned
  \/ SectorsRead \/ SectorsFail
  \/ LastRead \/ WholeRead \/ MiddleRead \/ FirstRead \/ BounceRead
  \/ FreeTemp

Spec == Init /\ [][Next]_vars /\ WF_vars(Next)

-----------------------------------------------------------------------------
(***************************************************************************)
(* The bytes of the drive that are lost when the middle of the buffer      *)
(* moves up by MoveThreshold bytes or more: all that moves, but for the    *)
(* first of these bytes.  Memmove() "is essentially just a memcpy that can *)
(* deal with overlapping areas" (Memory.c:178), and ReadDisk() relies on   *)
(* it (Disk.c:353), but it leaves such moves to Memcpy().                  *)
(***************************************************************************)
Distance == BytesPerSector - StartOffset

Lost ==
  IF BufferAligned /\ ~StartAligned /\ Distance >= MoveThreshold
  THEN Start + 2 * Distance .. Start + Distance + (SectorsLeft - 1) * BytesPerSector - 1
  ELSE {}

(***************************************************************************)
(* When ReadDisk() returns true, every byte that the caller asked for is   *)
(* in its place, whichever way the sectors took to the buffer and whatever *)
(* was overwritten and restored on the way, except those that Memmove()    *)
(* loses.                                                                  *)
(***************************************************************************)
BytesArrive ==
  at = "done" /\ status =>
    \A i \in 0 .. request.Size - 1 :
      Start + i \notin Lost => memory[request.Buffer + i] = Start + i

(***************************************************************************)
(* At no step has anything been written outside of the buffer of the       *)
(* caller and the temporary buffer.                                        *)
(***************************************************************************)
WritesStayInside ==
  at # "done" => \A a \in Addresses :
    memory[a] # Old =>
      a \in Bytes(request.Buffer, request.Size) \cup Bytes(temp.ptr, temp.size)

(***************************************************************************)
(* Disk.c:272: some volumes require transfer buffers to be aligned.  Every *)
(* transfer goes to an address that suits the volume.                      *)
(***************************************************************************)
TransfersAligned == io.left > 0 /\ request.Volume.Method = "Efi" => io.to % Alignment = 0

(***************************************************************************)
(* Disk.c:465: "No matter what, we *have* to free the buffer".  On every   *)
(* path, whatever fails, the temporary buffer has been given to Free().    *)
(***************************************************************************)
TempGivenBack == at = "done" => temp = NoTemp

(***************************************************************************)
(* Every read comes to an end.                                             *)
(***************************************************************************)
ReadReturns == <>(at = "done")

-----------------------------------------------------------------------------
(***************************************************************************)
(* The inductive invariant.  For each place in ReadDisk(), the sectors of  *)
(* the transfer in progress go to an area that starts at an aligned        *)
(* address and that the buffer of the caller, or the temporary one, has    *)
(* room for; and there is a temporary buffer only where one is freed.      *)
(* What has been read, and moved, so far is where the next steps expect it *)
(* to be.                                                                  *)
(***************************************************************************)
TypeOK ==
  /\ request \in [Volume : Volumes, Buffer : Buffers, Offset : Offsets, Size : Sizes]
  /\ at \in {"begin", "last", "whole", "middle", "first", "bounce", "free", "done"}
  /\ io \in [to : Int, lba : Int, left : Nat]
  /\ DOMAIN memory = Addresses
  /\ temp \in [ptr : Nat, size : Nat]
  /\ status \in BOOLEAN

Fills(address, n) ==
  /\ address <= io.to
  /\ io.to + io.left * BytesPerSector = address + n * BytesPerSector

TransferInv ==
  /\ at \in {"begin", "free", "done"} => io.left = 0
  /\ at \in {"last", "whole", "middle", "first"} => request.Size > 0 /\ BufferAligned
  /\ at = "last" => ~EndAligned /\ Fills(request.Buffer, 1)
  /\ at = "whole" => StartAligned /\ Fills(request.Buffer, SectorsLeft)
  /\ at = "middle" => ~StartAligned /\ Fills(request.Buffer, SectorsLeft - 1)
  /\ at = "first" => ~StartAligned /\ Fills(request.Buffer, 1)
  /\ at = "bounce" =>
       /\ request.Size > 0
       /\ temp.size = Alignment + NumSectors * BytesPerSector
       /\ Fills(TempAddress(temp.ptr), NumSectors)
  /\ temp # NoTemp => at \in {"first", "bounce", "free"}

PlacesInv == TypeOK /\ TransferInv /\ TransfersAligned /\ WritesStayInside

\* n bytes of the drive, from this one on, are at the address, except those that are lost.
Holds(m, lost, address, byte, n) ==
  \A i \in 0 .. n - 1 : byte + i \notin lost => m[address + i] = byte + i

\* Of a transfer to the address, from this byte of the drive on: what has arrived.
Fetched(address, byte) ==
  /\ io.lba * BytesPerSector = byte + (io.to - address)
  /\ Holds(memory, Lost, address, byte, io.to - address)

Filled == Holds(memory, Lost, request.Buffer, Start, request.Size)

\* The buffer has its last n bytes.
EndsWith(n) ==
  Holds(memory, Lost, request.Buffer + (request.Size - n), Start + (request.Size - n), n)

EndKept == EndAligned \/ EndsWith(EndOffset)

ContentInv ==
  /\ at = "last" => Fetched(request.Buffer, Start + (request.Size - EndOffset))
  /\ at = "whole" => EndKept /\ Fetched(request.Buffer, Start)
  /\ at = "middle" =>
       EndKept /\ Fetched(request.Buffer, Start + (BytesPerSector - StartOffset))
  /\ at = "first" =>
       /\ Grants(temp.ptr, BytesPerSector)
       /\ Fetched(request.Buffer, Start - StartOffset)
       /\ Holds(memory, Lost, temp.ptr + (BytesPerSector - StartOffset),
                Start + (BytesPerSector - StartOffset), StartOffset)
       /\ EndsWith(request.Size - BytesPerSector)
  /\ at = "bounce" =>
       /\ Grants(temp.ptr, temp.size)
       /\ Fetched(TempAddress(temp.ptr), Start - StartOffset)
  /\ at \in {"free", "done"} /\ status => Filled

ReadInv == PlacesInv /\ ContentInv
=============================================================================
