--------------------------- MODULE DiskReadProofs ---------------------------
(***************************************************************************)
(* Proofs about ReadDisk(), for every sector size, alignment, volume and   *)
(* request: whatever the drivers and the allocator answer, every transfer  *)
(* is aligned, nothing is written outside of the buffers, temporary ones   *)
(* are given back, and a read that succeeds has read what was asked for,   *)
(* as far as Memmove() does not lose it.                                   *)
(***************************************************************************)
EXTENDS DiskRead, TLAPS

-----------------------------------------------------------------------------
(***************************************************************************)
(* Arithmetic.                                                             *)
(***************************************************************************)
LEMMA Division ==
  ASSUME NEW n \in Nat, NEW b \in Nat \ {0}
  PROVE  /\ n \div b \in Nat
         /\ n % b \in 0 .. b - 1
         /\ n = (n \div b) * b + (n % b)
OBVIOUS

LEMMA Order ==
  ASSUME NEW m \in Nat, NEW n \in Nat, NEW b \in Nat \ {0}, m <= n
  PROVE  m \div b <= n \div b
OBVIOUS

LEMMA Minus ==
  ASSUME NEW i \in Int, NEW j \in Int, NEW b \in Int
  PROVE  (i - j) * b = i * b - j * b
OBVIOUS

LEMMA Products ==
  ASSUME NEW i \in Int, NEW b \in Nat
  PROVE  i * b \in Int /\ (i >= 0 => i * b >= 0) /\ (i >= 1 => i * b >= b)
OBVIOUS

LEMMA MultipleRemainder ==
  ASSUME NEW i \in Nat, NEW b \in Nat \ {0}
  PROVE  (i * b) % b = 0
OBVIOUS

-----------------------------------------------------------------------------
(***************************************************************************)
(* What is asked for takes up all sectors but the start of the first one   *)
(* and the end of the last one.                                            *)
(***************************************************************************)
LEMMA RequestTypes ==
  ASSUME TypeOK
  PROVE  /\ BytesPerSector \in Nat \ {0}
         /\ request.Buffer \in Nat \ {0}
         /\ request.Size \in Nat
         /\ Alignment \in Nat \ {0}
         /\ Start \in Nat
<1>1. /\ request.Volume \in Volume
      /\ request.Buffer \in Nat \ {0}
      /\ request.Offset \in Nat
      /\ request.Size \in Nat
  BY DriveAssumption, RequestAssumption DEF TypeOK
<1>2. BytesPerSector \in Nat \ {0} /\ request.Volume.PartitionOffset \in Nat
      /\ request.Volume.Alignment \in Nat \ {0}
  BY <1>1, DriveAssumption DEF Volume
<1>3. BytesPerSector * request.Volume.PartitionOffset \in Nat
  <2> DEFINE n == BytesPerSector
             k == request.Volume.PartitionOffset
  <2>1. n \in Nat /\ k \in Nat
    BY <1>2
  <2> HIDE DEF n, k
  <2>2. n * k \in Nat
    BY <2>1
  <2> QED BY <2>2 DEF n, k
<1> QED BY <1>1, <1>2, <1>3 DEF Start, Alignment

LEMMA Geometry ==
  ASSUME TypeOK, request.Size > 0
  PROVE  /\ NumSectors \in Nat \ {0}
         /\ StartOffset \in 0 .. BytesPerSector - 1
         /\ EndOffset \in 1 .. BytesPerSector
         /\ NumSectors * BytesPerSector \in Nat
         /\ NumSectors * BytesPerSector = request.Size + StartOffset + BytesPerSector - EndOffset
<1> DEFINE b == BytesPerSector
           s == Start
           e == Start + request.Size - 1
<1>1. b \in Nat \ {0} /\ s \in Nat /\ e \in Nat /\ s <= e /\ e - s + 1 = request.Size
      /\ request.Size \in Nat
  BY RequestTypes
<1>2. End = e
  BY DEF End
<1> HIDE DEF b, s, e
<1>3. /\ s \div b \in Nat /\ s % b \in 0 .. b - 1 /\ s = (s \div b) * b + (s % b)
      /\ e \div b \in Nat /\ e % b \in 0 .. b - 1 /\ e = (e \div b) * b + (e % b)
      /\ s \div b <= e \div b
  BY <1>1, Division, Order
<1> DEFINE first == s \div b
           last == e \div b
           so == s % b
           eo == (e % b) + 1
<1>4. FirstSector = first /\ LastSector = last /\ StartOffset = so /\ EndOffset = eo
      /\ NumSectors = 1 + last - first
  BY <1>2 DEF FirstSector, LastSector, StartOffset, EndOffset, NumSectors, b, s, e
<1>5. /\ first \in Nat /\ so \in 0 .. b - 1 /\ s = first * b + so
      /\ last \in Nat /\ eo \in 1 .. b /\ e = last * b + eo - 1
      /\ first <= last
  <2>1. e % b \in 0 .. b - 1 => eo \in 1 .. b /\ e % b = eo - 1
    BY <1>1
  <2> QED BY <1>1, <1>3, <2>1
<1> HIDE DEF first, last, so, eo
<1>6. (1 + last - first) * b = b + last * b - first * b
      /\ first * b \in Int /\ last * b \in Int
  BY <1>1, <1>5
<1>7. (1 + last - first) * b = request.Size + so + b - eo
  <2> DEFINE f == first * b
             l == last * b
  <2>1. f \in Int /\ l \in Int /\ s = f + so /\ e = l + eo - 1
        /\ (1 + last - first) * b = b + l - f
    BY <1>5, <1>6
  <2> HIDE DEF f, l
  <2> QED BY <1>1, <1>5, <2>1
<1>8. NumSectors \in Nat \ {0}
  BY <1>4, <1>5
<1>9. NumSectors * b \in Nat
  BY <1>1, <1>8, Products
<1> QED BY <1>1, <1>4, <1>5, <1>7, <1>8, <1>9 DEF b

(***************************************************************************)
(* The transfers that go directly to the buffer have room in it, and so    *)
(* has what moves afterwards.                                              *)
(***************************************************************************)
LEMMA DirectRoom ==
  ASSUME TypeOK, request.Size > 0, BufferAligned
  PROVE  /\ SectorsLeft \in Nat \ {0, 1}
         /\ SectorsLeft * BytesPerSector \in Nat
         /\ (SectorsLeft - 1) * BytesPerSector = SectorsLeft * BytesPerSector - BytesPerSector
         /\ 1 * BytesPerSector = BytesPerSector
         /\ SectorsLeft * BytesPerSector >= 2 * BytesPerSector
         /\ SectorsLeft * BytesPerSector - StartOffset <= request.Size
         /\ BytesPerSector + EndOffset <= request.Size
<1> DEFINE b == BytesPerSector
           n == NumSectors
           left == SectorsLeft
<1>1. /\ b \in Nat \ {0} /\ request.Size \in Nat
      /\ n \in Nat /\ n >= 3 /\ n * b \in Nat
      /\ StartOffset \in 0 .. b - 1 /\ EndOffset \in 1 .. b
      /\ n * b = request.Size + StartOffset + b - EndOffset
  BY RequestTypes, Geometry DEF BufferAligned
<1>2. left = (IF EndOffset = b THEN n ELSE n - 1)
  BY DEF SectorsLeft, EndAligned
<1> HIDE DEF b, n, left
<1>3. left \in Nat \ {0, 1} /\ (left = n \/ left = n - 1)
  BY <1>1, <1>2
<1>4. /\ (n - 1) * b = n * b - b
      /\ (left - 1) * b = left * b - b
      /\ left * b \in Nat /\ left * b >= 2 * b
      /\ n * b >= 3 * b
      /\ 1 * b = b
  <2>1. (n - 1) * b = n * b - b /\ (left - 1) * b = left * b - b /\ 1 * b = b
    BY <1>1, <1>3, Minus
  <2>2. (left - 2) * b >= 0 /\ (n - 3) * b >= 0
    BY <1>1, <1>3, Products
  <2>3. (left - 2) * b = left * b - 2 * b /\ (n - 3) * b = n * b - 3 * b
    BY <1>1, <1>3, Minus
  <2>4. left * b \in Int /\ n * b \in Int /\ 2 * b \in Nat /\ 3 * b \in Nat
    BY <1>1, <1>3, Products
  <2> QED BY <2>1, <2>2, <2>3, <2>4
<1>5. left * b = (IF EndOffset = b THEN n * b ELSE n * b - b)
  BY <1>2, <1>4
<1> DEFINE nb == n * b
           lb == left * b
<1>6. /\ nb \in Nat /\ lb \in Nat /\ lb = (IF EndOffset = b THEN nb ELSE nb - b)
      /\ nb = request.Size + StartOffset + b - EndOffset
      /\ nb >= 3 * b
  BY <1>1, <1>4, <1>5
<1> HIDE DEF nb, lb
<1>7. lb - StartOffset <= request.Size /\ b + EndOffset <= request.Size
  BY <1>1, <1>6
<1> QED BY <1>3, <1>4, <1>7 DEF lb, b, left
(***************************************************************************)
(* The aligned address in the temporary buffer, for which Allocate() was   *)
(* asked for an alignment more than the sectors need.                      *)
(***************************************************************************)
LEMMA TempAligned ==
  ASSUME TypeOK, NEW p \in Nat
  PROVE  /\ TempAddress(p) \in Nat
         /\ TempAddress(p) % Alignment = 0
         /\ TempAddress(p) >= p
         /\ TempAddress(p) <= p + Alignment
<1> DEFINE g == Alignment
           q == p \div g
           r == p % g
<1>1. g \in Nat \ {0}
  BY RequestTypes
<1>2. TempAddress(p) = (IF r = 0 THEN p ELSE p + g - r)
  BY DEF TempAddress
<1> HIDE DEF g
<1>3. q \in Nat /\ r \in 0 .. g - 1 /\ p = q * g + r
  BY <1>1, Division
<1>4. CASE r = 0
  BY <1>1, <1>2, <1>4 DEF g
<1>5. CASE r # 0
  <2> HIDE DEF q, r
  <2>1. (q + 1) * g = q * g + g
    BY <1>1, <1>3
  <2>2. ((q + 1) * g) % g = 0
    BY <1>1, <1>3, MultipleRemainder
  <2>3. q * g \in Nat
    BY <1>1, <1>3
  <2>4. p + g - r = (q + 1) * g
    <3> DEFINE k == q * g
    <3>1. k \in Nat /\ p = k + r /\ (q + 1) * g = k + g
      BY <1>3, <2>1, <2>3
    <3> HIDE DEF k
    <3> QED BY <1>1, <1>3, <3>1
  <2>5. /\ p + g - r \in Nat /\ (p + g - r) % g = 0
        /\ p + g - r >= p /\ p + g - r <= p + g
    BY <1>1, <1>3, <2>2, <2>4
  <2> QED BY <1>2, <1>5, <2>5 DEF g
<1> QED BY <1>4, <1>5

-----------------------------------------------------------------------------
(***************************************************************************)
(* What the copies and the transfers leave alone.                          *)
(***************************************************************************)
WritesOnly(old, new, area) ==
  /\ DOMAIN new = DOMAIN old
  /\ \A a \in DOMAIN old : a \notin area => new[a] = old[a]

LEMMA CopyWrites ==
  ASSUME NEW m, NEW to, NEW from, NEW n
  PROVE  /\ WritesOnly(m, Memmove(m, to, from, n), Bytes(to, n))
         /\ WritesOnly(m, Memcpy(m, to, from, n), Bytes(to, n))
BY DEF WritesOnly, Memmove, Memcpy, Moved

LEMMA DiskWrites ==
  ASSUME NEW m, NEW to, NEW lba, NEW n
  PROVE  WritesOnly(m, FromDisk(m, to, lba, n), Bytes(to, n * BytesPerSector))
BY DEF WritesOnly, FromDisk

LEMMA TwoWrites ==
  ASSUME NEW m, NEW moved, NEW new, NEW one, NEW two, NEW area,
         WritesOnly(m, moved, one), WritesOnly(moved, new, two),
         one \subseteq area, two \subseteq area
  PROVE  WritesOnly(m, new, area)
BY DEF WritesOnly

LEMMA Within ==
  ASSUME NEW p \in Int, NEW n \in Int, NEW q \in Int, NEW k \in Int,
         q <= p, p + n <= q + k
  PROVE  Bytes(p, n) \subseteq Bytes(q, k)
BY DEF Bytes

BufferArea == Bytes(request.Buffer, request.Size)

TempArea == Bytes(temp.ptr, temp.size)

\* What a step writes is inside, and what was inside still is.
LEMMA InsideKept ==
  ASSUME TypeOK, WritesStayInside, at # "done", request' = request,
         temp' = temp \/ temp = NoTemp,
         NEW area, WritesOnly(memory, memory', area), area \subseteq BufferArea \cup TempArea'
  PROVE  DOMAIN memory' = Addresses /\ WritesStayInside'
<1>1. DOMAIN memory' = Addresses
  BY DEF TypeOK, WritesOnly
<1>2. BufferArea \cup TempArea \subseteq BufferArea \cup TempArea'
  <2>1. CASE temp' = temp
    BY <2>1 DEF TempArea
  <2>2. CASE temp = NoTemp
    <3>1. TempArea = {}
      BY <2>2 DEF NoTemp, Null, TempArea, Bytes
    <3> QED BY <3>1
  <2> QED BY <2>1, <2>2
<1>3. ASSUME NEW a \in Addresses, memory'[a] # Old
      PROVE  a \in BufferArea \cup TempArea'
  <2>1. CASE a \in area
    BY <2>1
  <2>2. CASE a \notin area
    <3>1. memory'[a] = memory[a]
      BY <2>2 DEF WritesOnly, TypeOK
    <3>2. a \in BufferArea \cup TempArea
      BY <1>3, <3>1 DEF WritesStayInside, BufferArea, TempArea
    <3> QED BY <1>2, <3>2
  <2> QED BY <2>1, <2>2
<1>4. BufferArea' = BufferArea
  BY DEF BufferArea
<1>5. \A a \in Addresses : memory'[a] # Old => a \in BufferArea' \cup TempArea'
  BY <1>3, <1>4
<1> QED BY <1>1, <1>5 DEF WritesStayInside, BufferArea, TempArea
\* What is derived from the arguments changes no more than they do.
LEMMA RequestKept ==
  ASSUME request' = request
  PROVE  /\ Start' = Start /\ FirstSector' = FirstSector /\ LastSector' = LastSector
         /\ StartOffset' = StartOffset /\ EndOffset' = EndOffset
         /\ NumSectors' = NumSectors /\ SectorsLeft' = SectorsLeft
         /\ Alignment' = Alignment /\ BufferAligned' = BufferAligned
         /\ StartAligned' = StartAligned /\ EndAligned' = EndAligned
         /\ Lost' = Lost
         /\ \A p : TempAddress(p)' = TempAddress(p)
<1>1. Start' = Start
  BY DEF Start
<1>2. FirstSector' = FirstSector /\ LastSector' = LastSector
  BY <1>1 DEF FirstSector, LastSector, End
<1>3. StartOffset' = StartOffset /\ EndOffset' = EndOffset
  BY <1>1 DEF StartOffset, EndOffset, End
<1>4. NumSectors' = NumSectors
  BY <1>2 DEF NumSectors
<1>5. Alignment' = Alignment /\ BufferAligned' = BufferAligned
  BY <1>4 DEF Alignment, BufferAligned
<1>6. StartAligned' = StartAligned /\ EndAligned' = EndAligned
  BY <1>3 DEF StartAligned, EndAligned
<1>7. SectorsLeft' = SectorsLeft
  BY <1>4, <1>6 DEF SectorsLeft
<1>8. \A p : TempAddress(p)' = TempAddress(p)
  BY <1>5 DEF TempAddress
<1>9. Lost' = Lost
  BY <1>1, <1>3, <1>5, <1>6, <1>7 DEF Lost, Distance
<1> QED BY <1>1, <1>2, <1>3, <1>4, <1>5, <1>6, <1>7, <1>8, <1>9

-----------------------------------------------------------------------------
(***************************************************************************)
(* Every action keeps the invariant.                                       *)
(***************************************************************************)
LEMMA InitKeeps == Init => PlacesInv
<1> SUFFICES ASSUME Init PROVE PlacesInv
  OBVIOUS
<1>1. TypeOK
  <2>1. DOMAIN memory = Addresses
    BY DEF Init
  <2>2. NoIo \in [to : Int, lba : Int, left : Nat] /\ NoTemp \in [ptr : Nat, size : Nat]
    BY DEF NoIo, NoTemp, Null
  <2> QED BY <2>1, <2>2 DEF Init, TypeOK
<1>2. TransferInv /\ TransfersAligned
  BY DEF Init, TransferInv, TransfersAligned, NoIo, NoTemp
<1>3. WritesStayInside
  BY DEF Init, WritesStayInside
<1> QED BY <1>1, <1>2, <1>3 DEF PlacesInv

\* A step after which ReadDisk() has returned, without a temporary buffer.
LEMMA ReturnKeeps ==
  ASSUME PlacesInv, request' = request, DOMAIN memory' = DOMAIN memory, temp' = NoTemp,
         NEW result \in BOOLEAN, Return(result),
         io' \in [to : Int, lba : Int, left : Nat], io'.left = 0
  PROVE  PlacesInv'
<1>1. TypeOK'
  BY DEF PlacesInv, TypeOK, Return, NoTemp, Null
<1>2. TransferInv' /\ TransfersAligned' /\ WritesStayInside'
  BY DEF TransferInv, TransfersAligned, WritesStayInside, Return
<1> QED BY <1>1, <1>2 DEF PlacesInv

LEMMA NothingToRead ==
  ASSUME PlacesInv, BeginEmpty \/ BeginRefused \/ WholeRead
  PROVE  PlacesInv'
<1>1. temp = NoTemp /\ io.left = 0 /\ io \in [to : Int, lba : Int, left : Nat]
  BY DEF PlacesInv, TypeOK, TransferInv, BeginEmpty, BeginRefused, WholeRead, Arrived
<1>2. PICK result \in BOOLEAN : Return(result)
  BY DEF BeginEmpty, BeginRefused, WholeRead
<1>3. request' = request /\ memory' = memory /\ temp' = temp /\ io' = io
  BY DEF BeginEmpty, BeginRefused, WholeRead
<1> QED BY <1>1, <1>2, <1>3, ReturnKeeps

\* The first sectors are read next, directly to the buffer.
LEMMA StartKeeps ==
  ASSUME PlacesInv, ReadStart, request.Size > 0, BufferAligned, request' = request,
         temp = NoTemp, temp' = temp, status' = status,
         DOMAIN memory' = Addresses, WritesStayInside'
  PROVE  PlacesInv'
<1>1. /\ BytesPerSector \in Nat \ {0} /\ request.Buffer \in Nat
      /\ SectorsLeft \in Nat \ {0, 1} /\ FirstSector \in Int
      /\ SectorsLeft * BytesPerSector \in Nat
      /\ (SectorsLeft - 1) * BytesPerSector \in Int
  <2>1. FirstSector \in Int
    BY RequestTypes, Division DEF FirstSector, PlacesInv
  <2> QED BY <2>1, RequestTypes, DirectRoom DEF PlacesInv
<1>2. \/ /\ at' = "whole" /\ StartAligned
         /\ io' = [to |-> request.Buffer, lba |-> FirstSector, left |-> SectorsLeft]
      \/ /\ at' = "middle" /\ ~StartAligned
         /\ io' = [to |-> request.Buffer, lba |-> FirstSector + 1, left |-> SectorsLeft - 1]
  BY DEF ReadStart, Reads
<1>3. TypeOK'
  BY <1>1, <1>2 DEF PlacesInv, TypeOK
<1>4. TransfersAligned'
  BY <1>2, RequestKept DEF TransfersAligned, BufferAligned
<1>5. TransferInv'
  <2>1. CASE at' = "whole"
    BY <1>1, <1>2, <2>1, RequestKept DEF TransferInv, Fills
  <2>2. CASE at' = "middle"
    BY <1>1, <1>2, <2>2, RequestKept DEF TransferInv, Fills
  <2> QED BY <1>2, <2>1, <2>2
<1> QED BY <1>3, <1>4, <1>5 DEF PlacesInv
LEMMA BeginAlignedKeeps ==
  ASSUME PlacesInv, BeginAligned
  PROVE  PlacesInv'
<1>1. /\ at = "begin" /\ temp = NoTemp /\ request.Size > 0 /\ BufferAligned
      /\ request' = request /\ memory' = memory /\ temp' = temp /\ status' = status
  BY DEF PlacesInv, TransferInv, TypeOK, BeginAligned
<1>2. DOMAIN memory' = Addresses /\ WritesStayInside'
  BY <1>1, RequestKept DEF PlacesInv, TypeOK, WritesStayInside
<1>3. CASE EndAligned
  BY <1>1, <1>2, <1>3, StartKeeps DEF BeginAligned
<1>4. CASE ~EndAligned
  <2>1. at' = "last" /\ io' = [to |-> request.Buffer, lba |-> LastSector, left |-> 1]
    BY <1>4 DEF BeginAligned, Reads
  <2>2. /\ request.Buffer \in Nat /\ LastSector \in Int
        /\ BytesPerSector \in Nat \ {0} /\ 1 * BytesPerSector = BytesPerSector
    <3>1. Start + request.Size - 1 \in Nat /\ BytesPerSector \in Nat \ {0}
      BY <1>1, RequestTypes DEF PlacesInv
    <3>2. LastSector \in Int
      BY <3>1, Division DEF LastSector, End
    <3> QED BY <1>1, <3>2, RequestTypes, DirectRoom DEF PlacesInv
  <2>3. TypeOK'
    BY <1>1, <2>1, <2>2 DEF PlacesInv, TypeOK
  <2>4. TransfersAligned'
    BY <1>1, <2>1, RequestKept DEF TransfersAligned, BufferAligned
  <2>5. TransferInv'
    <3>1. Fills(request.Buffer, 1)'
      BY <1>1, <2>1, <2>2 DEF Fills
    <3>2. ~EndAligned' /\ BufferAligned' /\ request'.Size > 0
      BY <1>1, <1>4, RequestKept
    <3> QED BY <1>1, <2>1, <3>1, <3>2 DEF TransferInv
  <2> QED BY <1>2, <2>3, <2>4, <2>5 DEF PlacesInv
<1> QED BY <1>3, <1>4

LEMMA BeginMisalignedKeeps ==
  ASSUME PlacesInv, BeginMisaligned
  PROVE  PlacesInv'
<1>1. /\ at = "begin" /\ temp = NoTemp /\ request.Size > 0
      /\ request' = request /\ memory' = memory
      /\ io \in [to : Int, lba : Int, left : Nat] /\ io.left = 0
  BY DEF PlacesInv, TransferInv, TypeOK, BeginMisaligned
<1>2. CASE Return(FALSE) /\ io' = io /\ temp' = temp
  BY <1>1, <1>2, ReturnKeeps
<1>3. ASSUME NEW p \in TempAddresses,
             temp' = [ptr |-> p, size |-> Alignment + NumSectors * BytesPerSector],
             Reads(TempAddress(p), FirstSector, NumSectors), at' = "bounce", status' = status
      PROVE  PlacesInv'
  <2>1. /\ p \in Nat \ {0} /\ Alignment \in Nat \ {0} /\ BytesPerSector \in Nat \ {0}
        /\ NumSectors \in Nat \ {0} /\ NumSectors * BytesPerSector \in Nat
        /\ FirstSector \in Int
        /\ TempAddress(p) \in Nat /\ TempAddress(p) % Alignment = 0
    <3>1. p \in Nat \ {0}
      BY RequestAssumption
    <3>2. FirstSector \in Int
      BY RequestTypes, Division DEF FirstSector, PlacesInv
    <3> QED BY <1>1, <3>1, <3>2, RequestTypes, Geometry, TempAligned DEF PlacesInv
  <2>2. io' = [to |-> TempAddress(p), lba |-> FirstSector, left |-> NumSectors]
    BY <1>3 DEF Reads
  <2>3. TypeOK'
    BY <1>1, <1>3, <2>1, <2>2 DEF PlacesInv, TypeOK
  <2>4. TransfersAligned'
    BY <1>1, <2>1, <2>2, RequestKept DEF TransfersAligned
  <2>5. TransferInv'
    <3>1. TempAddress(temp.ptr)' = TempAddress(p)
      BY <1>1, <1>3, RequestKept DEF TempAddress
    <3> QED BY <1>1, <1>3, <2>1, <2>2, <3>1, RequestKept DEF TransferInv, Fills
  <2>6. WritesStayInside'
    <3>1. WritesOnly(memory, memory', {})
      BY <1>1 DEF WritesOnly
    <3> QED BY <1>1, <3>1, InsideKept DEF PlacesInv
  <2> QED BY <2>3, <2>4, <2>5, <2>6 DEF PlacesInv
<1> QED BY <1>1, <1>2, <1>3 DEF BeginMisaligned

LEMMA SectorsFailKeeps ==
  ASSUME PlacesInv, SectorsFail
  PROVE  PlacesInv'
<1>1. /\ request' = request /\ memory' = memory /\ temp' = temp
      /\ io' = NoIo /\ NoIo \in [to : Int, lba : Int, left : Nat] /\ NoIo.left = 0
  BY DEF SectorsFail, NoIo, Null
<1>2. CASE temp = NoTemp
  BY <1>1, <1>2, ReturnKeeps DEF SectorsFail
<1>3. CASE temp # NoTemp
  <2>1. at' = "free" /\ status' = FALSE
    BY <1>3 DEF SectorsFail
  <2>2. TypeOK'
    BY <1>1, <2>1 DEF PlacesInv, TypeOK
  <2>3. TransfersAligned' /\ TransferInv'
    BY <1>1, <2>1 DEF TransfersAligned, TransferInv
  <2>4. WritesStayInside'
    <3>1. at # "done"
      BY DEF SectorsFail, PlacesInv, TypeOK, TransferInv
    <3> QED BY <1>1, <3>1 DEF PlacesInv, WritesStayInside
  <2> QED BY <2>2, <2>3, <2>4 DEF PlacesInv
<1> QED BY <1>2, <1>3
\* Where a transfer has room, the part of it that a call has read was inside.
LEMMA TransferInside ==
  ASSUME PlacesInv, io.left > 0, NEW n \in 1 .. io.left
  PROVE  Bytes(io.to, n * BytesPerSector) \subseteq BufferArea \cup TempArea
<1> DEFINE b == BytesPerSector
<1>1. /\ b \in Nat \ {0} /\ request.Buffer \in Nat \ {0} /\ request.Size \in Nat
      /\ io.to \in Int /\ io.left \in Nat /\ temp.ptr \in Nat /\ temp.size \in Nat
  BY RequestTypes DEF PlacesInv, TypeOK
<1>2. /\ n * b \in Nat /\ io.left * b \in Nat /\ n * b <= io.left * b
  <2> HIDE DEF b
  <2>1. (io.left - n) * b >= 0 /\ n * b \in Int /\ n * b >= 0 /\ io.left * b \in Int
    BY <1>1, Products
  <2>2. (io.left - n) * b = io.left * b - n * b
    BY <1>1, Minus
  <2> QED BY <2>1, <2>2
<1>3. at \in {"last", "whole", "middle", "first", "bounce"}
  BY DEF PlacesInv, TypeOK, TransferInv
<1>4. CASE at \in {"last", "whole", "middle", "first"}
  <2>1. /\ io.to >= request.Buffer
        /\ io.to + io.left * b <= request.Buffer + request.Size
    <3>1. /\ request.Size > 0 /\ BufferAligned
          /\ \/ Fills(request.Buffer, 1)
             \/ Fills(request.Buffer, SectorsLeft) /\ StartOffset = 0
             \/ Fills(request.Buffer, SectorsLeft - 1)
      BY <1>4 DEF PlacesInv, TransferInv, StartAligned
    <3>2. /\ (SectorsLeft - 1) * b = SectorsLeft * b - b /\ SectorsLeft * b \in Nat
          /\ SectorsLeft * b - StartOffset <= request.Size /\ b + EndOffset <= request.Size
          /\ 1 * b = b /\ StartOffset \in 0 .. b - 1 /\ EndOffset \in 1 .. b
      BY <3>1, DirectRoom, Geometry DEF PlacesInv
    <3> QED BY <1>1, <1>2, <3>1, <3>2 DEF Fills
  <2>2. Bytes(io.to, n * b) \subseteq BufferArea
    BY <1>1, <1>2, <2>1, Within DEF BufferArea
  <2> QED BY <2>2
<1>5. CASE at = "bounce"
  <2>1. /\ request.Size > 0 /\ temp.size = Alignment + NumSectors * b
        /\ Fills(TempAddress(temp.ptr), NumSectors)
    BY <1>5 DEF PlacesInv, TransferInv
  <2>2. /\ TempAddress(temp.ptr) \in Nat /\ TempAddress(temp.ptr) >= temp.ptr
        /\ TempAddress(temp.ptr) <= temp.ptr + Alignment
        /\ Alignment \in Nat /\ NumSectors * b \in Nat
    BY <1>1, <2>1, TempAligned, RequestTypes, Geometry DEF PlacesInv
  <2>3. /\ io.to >= temp.ptr
        /\ io.to + n * b <= temp.ptr + temp.size
    BY <1>1, <1>2, <2>1, <2>2 DEF Fills
  <2>4. Bytes(io.to, n * b) \subseteq TempArea
    BY <1>1, <1>2, <2>3, Within DEF TempArea
  <2> QED BY <2>4
<1> QED BY <1>3, <1>4, <1>5
LEMMA SectorsReadKeeps ==
  ASSUME PlacesInv, SectorsRead
  PROVE  PlacesInv'
<1> DEFINE b == BytesPerSector
           n == IF request.Volume.Method = "Efi" \/ io.left < SectorsPerRead
                THEN io.left ELSE SectorsPerRead
<1>1. /\ io.left > 0 /\ request' = request /\ at' = at /\ temp' = temp /\ status' = status
      /\ memory' = FromDisk(memory, io.to, io.lba, n)
      /\ io' = [to |-> io.to + n * b, lba |-> io.lba + n, left |-> io.left - n]
  BY DEF SectorsRead
<1>2. /\ io.left \in Nat /\ io.to \in Int /\ io.lba \in Int /\ b \in Nat \ {0}
      /\ n \in 1 .. io.left
      /\ request.Volume.Method = "Efi" => n = io.left
  BY <1>1, DriveAssumption DEF PlacesInv, TypeOK
<1>3. WritesStayInside' /\ DOMAIN memory' = Addresses
  <2>1. WritesOnly(memory, memory', Bytes(io.to, n * BytesPerSector))
    BY <1>1, DiskWrites
  <2>2. Bytes(io.to, n * BytesPerSector) \subseteq BufferArea \cup TempArea
    BY <1>1, <1>2, TransferInside
  <2>3. TempArea' = TempArea
    BY <1>1 DEF TempArea
  <2>4. at # "done"
    BY <1>1 DEF PlacesInv, TypeOK, TransferInv
  <2> QED BY <1>1, <2>1, <2>2, <2>3, <2>4, InsideKept DEF PlacesInv
<1> HIDE DEF n
<1>4. /\ n * b \in Nat /\ (io.left - n) * b = io.left * b - n * b
      /\ io.left * b \in Nat
  <2>1. n \in Nat
    BY <1>2
  <2> QED BY <1>2, <2>1, Products, Minus
<1>5. TypeOK'
  <2>1. io' \in [to : Int, lba : Int, left : Nat]
    BY <1>1, <1>2, <1>4
  <2> QED BY <1>1, <1>3, <2>1 DEF PlacesInv, TypeOK
<1>6. TransfersAligned'
  BY <1>1, <1>2, RequestKept DEF TransfersAligned
<1>7. ASSUME NEW address \in Int, NEW k \in Int, Fills(address, k)
      PROVE  Fills(address, k)'
  <2>1. /\ io'.to = io.to + n * b /\ io'.left * b = io.left * b - n * b
    BY <1>1, <1>4
  <2> DEFINE x == n * b
             y == io.left * b
             z == k * b
  <2>2. x \in Nat /\ y \in Nat /\ z \in Int /\ io.to \in Int
    BY <1>2, <1>4, Products
  <2>3. io'.to = io.to + x /\ io'.left * b = y - x /\ address <= io.to /\ io.to + y = address + z
    BY <1>7, <2>1 DEF Fills
  <2> HIDE DEF x, y, z
  <2>4. address <= io'.to /\ io'.to + io'.left * b = address + z
    BY <2>2, <2>3
  <2> QED BY <2>4 DEF Fills, z
<1>8. TransferInv'
  <2>1. at \in {"last", "whole", "middle", "first", "bounce"}
    BY <1>1 DEF PlacesInv, TypeOK, TransferInv
  <2>2. request.Buffer \in Int /\ request.Size > 0 /\ temp.ptr \in Nat
    BY <2>1, RequestTypes DEF PlacesInv, TypeOK, TransferInv
  <2>3. NumSectors \in Int /\ TempAddress(temp.ptr) \in Int /\ SectorsLeft \in Int
    BY <2>2, Geometry, TempAligned DEF PlacesInv, SectorsLeft
  <2>4. TempAddress(temp.ptr)' = TempAddress(temp.ptr)
    BY <1>1, RequestKept DEF TempAddress
  <2>5. CASE at = "last"
    BY <1>1, <1>7, <2>2, <2>5, RequestKept DEF PlacesInv, TransferInv
  <2>6. CASE at = "whole"
    BY <1>1, <1>7, <2>2, <2>3, <2>6, RequestKept DEF PlacesInv, TransferInv
  <2>7. CASE at = "middle"
    BY <1>1, <1>7, <2>2, <2>3, <2>7, RequestKept DEF PlacesInv, TransferInv
  <2>8. CASE at = "first"
    BY <1>1, <1>7, <2>2, <2>8, RequestKept DEF PlacesInv, TransferInv
  <2>9. CASE at = "bounce"
    BY <1>1, <1>7, <2>2, <2>3, <2>4, <2>9, RequestKept DEF PlacesInv, TransferInv
  <2> QED BY <2>1, <2>5, <2>6, <2>7, <2>8, <2>9
<1> QED BY <1>3, <1>5, <1>6, <1>8 DEF PlacesInv
\* What the copies between the transfers rely on.
LEMMA DirectPlaces ==
  ASSUME PlacesInv, at \in {"last", "middle", "first"}
  PROVE  /\ request.Size \in Nat /\ request.Size > 0 /\ BufferAligned
         /\ request.Buffer \in Nat
         /\ BytesPerSector \in Nat \ {0}
         /\ StartOffset \in 0 .. BytesPerSector - 1
         /\ EndOffset \in 1 .. BytesPerSector
         /\ BytesPerSector + EndOffset <= request.Size
         /\ (SectorsLeft - 1) * BytesPerSector \in Int
         /\ (SectorsLeft - 1) * BytesPerSector + BytesPerSector - StartOffset <= request.Size
         /\ 1 * BytesPerSector = BytesPerSector
<1>1. request.Size > 0 /\ BufferAligned
  BY DEF PlacesInv, TransferInv
<1> QED BY <1>1, RequestTypes, Geometry, DirectRoom DEF PlacesInv

LEMMA LastReadKeeps ==
  ASSUME PlacesInv, LastRead
  PROVE  PlacesInv'
<1>1. /\ at = "last" /\ temp = NoTemp
      /\ request' = request /\ temp' = temp /\ status' = status /\ ReadStart
      /\ memory' = Memcpy(memory, request.Buffer + request.Size - EndOffset, request.Buffer,
                          EndOffset)
  BY DEF PlacesInv, TransferInv, LastRead, Arrived
<1> DEFINE area == Bytes(request.Buffer + request.Size - EndOffset, EndOffset)
<1>2. area \subseteq BufferArea
  BY <1>1, DirectPlaces, Within DEF BufferArea
<1>3. WritesOnly(memory, memory', area)
  BY <1>1, CopyWrites
<1>4. DOMAIN memory' = Addresses /\ WritesStayInside'
  BY <1>1, <1>2, <1>3, InsideKept DEF PlacesInv
<1> QED BY <1>1, <1>4, DirectPlaces, StartKeeps

LEMMA MiddleReadKeeps ==
  ASSUME PlacesInv, MiddleRead
  PROVE  PlacesInv'
<1> DEFINE n == (SectorsLeft - 1) * BytesPerSector
           to == request.Buffer + BytesPerSector - StartOffset
           moved == Memmove(memory, to, request.Buffer, n)
<1>1. /\ at = "middle" /\ temp = NoTemp /\ ~StartAligned /\ request' = request
      /\ io \in [to : Int, lba : Int, left : Nat] /\ io.left = 0
  BY DEF PlacesInv, TypeOK, TransferInv, MiddleRead, Arrived
<1>2. WritesOnly(memory, moved, Bytes(to, n)) /\ Bytes(to, n) \subseteq BufferArea
  <2>1. WritesOnly(memory, moved, Bytes(to, n))
    BY CopyWrites
  <2>2. n \in Int /\ n + BytesPerSector - StartOffset <= request.Size
    BY <1>1, DirectPlaces
  <2> HIDE DEF n
  <2>3. Bytes(to, n) \subseteq BufferArea
    BY <1>1, <2>2, DirectPlaces, Within DEF BufferArea
  <2> QED BY <2>1, <2>3
<1> HIDE DEF n, to, moved
<1>3. CASE memory' = moved /\ Return(FALSE) /\ io' = io /\ temp' = temp
  <2>1. DOMAIN memory' = DOMAIN memory
    BY <1>2, <1>3 DEF WritesOnly
  <2> QED BY <1>1, <1>3, <2>1, ReturnKeeps
<1>4. ASSUME NEW p \in TempAddresses,
             temp' = [ptr |-> p, size |-> BytesPerSector],
             memory' = Memcpy(moved, p, request.Buffer, BytesPerSector),
             Reads(request.Buffer, FirstSector, 1), at' = "first", status' = status
      PROVE  PlacesInv'
  <2>1. /\ p \in Nat \ {0} /\ FirstSector \in Int
        /\ io' = [to |-> request.Buffer, lba |-> FirstSector, left |-> 1]
    <3>1. FirstSector \in Int
      BY RequestTypes, Division DEF FirstSector, PlacesInv
    <3> QED BY <1>4, <3>1, RequestAssumption DEF Reads
  <2>2. WritesStayInside' /\ DOMAIN memory' = Addresses
    <3>1. TempArea' = Bytes(p, BytesPerSector)
      BY <1>4 DEF TempArea
    <3>2. WritesOnly(moved, memory', TempArea')
      BY <1>4, <3>1, CopyWrites
    <3>3. WritesOnly(memory, memory', BufferArea \cup TempArea')
      BY <1>2, <3>2, TwoWrites
    <3> QED BY <1>1, <3>3, InsideKept DEF PlacesInv
  <2>3. TypeOK'
    BY <1>1, <1>4, <2>1, <2>2, DirectPlaces DEF PlacesInv, TypeOK
  <2>4. TransfersAligned'
    BY <1>1, <2>1, DirectPlaces, RequestKept DEF TransfersAligned, BufferAligned
  <2>5. TransferInv'
    <3>1. Fills(request.Buffer, 1)'
      BY <1>1, <2>1, DirectPlaces DEF Fills
    <3>2. ~StartAligned' /\ BufferAligned' /\ request'.Size > 0
      BY <1>1, DirectPlaces, RequestKept
    <3> QED BY <1>4, <2>1, <3>1, <3>2 DEF TransferInv
  <2> QED BY <2>2, <2>3, <2>4, <2>5 DEF PlacesInv
<1> QED BY <1>3, <1>4 DEF MiddleRead, n, to, moved

\* A step after which the temporary buffer is freed.
LEMMA FreeNextKeeps ==
  ASSUME PlacesInv, at # "done", io.left = 0, at' = "free", status' = TRUE,
         UNCHANGED <<request, io, temp>>, WritesOnly(memory, memory', BufferArea)
  PROVE  PlacesInv'
<1>1. DOMAIN memory' = Addresses /\ WritesStayInside'
  BY InsideKept DEF PlacesInv
<1>2. TypeOK'
  BY <1>1 DEF PlacesInv, TypeOK
<1>3. TransfersAligned' /\ TransferInv'
  BY DEF TransfersAligned, TransferInv
<1> QED BY <1>1, <1>2, <1>3 DEF PlacesInv

LEMMA FirstReadKeeps ==
  ASSUME PlacesInv, FirstRead
  PROVE  PlacesInv'
<1> DEFINE rest == BytesPerSector - StartOffset
           moved == Memmove(memory, request.Buffer, request.Buffer + StartOffset, rest)
<1>1. /\ at = "first" /\ io.left = 0 /\ at' = "free" /\ status' = TRUE
      /\ UNCHANGED <<request, io, temp>>
      /\ memory' = Memcpy(moved, request.Buffer + rest, temp.ptr + rest, StartOffset)
  BY DEF FirstRead, Arrived
<1>2. WritesOnly(memory, moved, Bytes(request.Buffer, rest))
  BY CopyWrites
<1>3. WritesOnly(moved, memory', Bytes(request.Buffer + rest, StartOffset))
  BY <1>1, CopyWrites
<1>4. Bytes(request.Buffer, rest) \subseteq BufferArea
  BY <1>1, DirectPlaces, Within DEF BufferArea
<1>5. Bytes(request.Buffer + rest, StartOffset) \subseteq BufferArea
  BY <1>1, DirectPlaces, Within DEF BufferArea
<1>6. WritesOnly(memory, memory', BufferArea)
  BY <1>2, <1>3, <1>4, <1>5, TwoWrites
<1> QED BY <1>1, <1>6, FreeNextKeeps

LEMMA BounceReadKeeps ==
  ASSUME PlacesInv, BounceRead
  PROVE  PlacesInv'
<1>1. WritesOnly(memory, memory', BufferArea)
  BY CopyWrites DEF BounceRead, BufferArea
<1>2. /\ at = "bounce" /\ io.left = 0 /\ at' = "free" /\ status' = TRUE
      /\ UNCHANGED <<request, io, temp>>
  BY DEF BounceRead, Arrived
<1> QED BY <1>1, <1>2, FreeNextKeeps

LEMMA FreeTempKeeps ==
  ASSUME PlacesInv, FreeTemp
  PROVE  PlacesInv'
<1>1. PICK freed \in BOOLEAN : Return(status /\ freed)
  BY DEF FreeTemp
<1>2. (status /\ freed) \in BOOLEAN
  OBVIOUS
<1>3. /\ request' = request /\ memory' = memory /\ temp' = NoTemp
      /\ io' \in [to : Int, lba : Int, left : Nat] /\ io'.left = 0
  BY DEF FreeTemp, PlacesInv, TypeOK, TransferInv
<1> QED BY <1>1, <1>2, <1>3, ReturnKeeps

LEMMA NextKeeps ==
  ASSUME PlacesInv, [Next]_vars
  PROVE  PlacesInv'
<1>1. CASE UNCHANGED vars
  <2>1. /\ request' = request /\ at' = at /\ io' = io
        /\ memory' = memory /\ temp' = temp /\ status' = status
    BY <1>1 DEF vars
  <2>2. TypeOK' /\ WritesStayInside'
    BY <2>1 DEF PlacesInv, TypeOK, WritesStayInside
  <2>3. TransfersAligned' /\ TransferInv'
    BY <2>1, RequestKept DEF PlacesInv, TransfersAligned, TransferInv, Fills
  <2> QED BY <2>2, <2>3 DEF PlacesInv
<1>2. CASE Next
  BY <1>2, NothingToRead, BeginAlignedKeeps, BeginMisalignedKeeps, SectorsReadKeeps,
     SectorsFailKeeps, LastReadKeeps, MiddleReadKeeps, FirstReadKeeps, BounceReadKeeps,
     FreeTempKeeps
  DEF Next
<1> QED BY <1>1, <1>2

-----------------------------------------------------------------------------
(***************************************************************************)
(* What is read is what was asked for: bytes of the drive that an area     *)
(* holds, and how the copies and the transfers add to them.                *)
(***************************************************************************)
LEMMA SmallRemainder ==
  ASSUME NEW d \in Nat, NEW i \in Nat, i < d
  PROVE  i % d = i
<1> DEFINE q == i \div d
           r == i % d
<1>1. q \in Nat /\ r \in 0 .. d - 1 /\ i = q * d + r
  <2>1. d \in Nat \ {0}
    OBVIOUS
  <2> QED BY <2>1, Division
<1> HIDE DEF q, r
<1>2. q = 0
  <2>1. CASE q >= 1
    <3>1. q * d >= d /\ q * d \in Int
      BY <1>1, <2>1, Products
    <3> DEFINE k == q * d
    <3>2. k >= d /\ k \in Int /\ i = k + r
      BY <1>1, <3>1
    <3> HIDE DEF k
    <3> QED BY <1>1, <3>2
  <2> QED BY <1>1, <2>1
<1>3. 0 * d = 0
  OBVIOUS
<1>4. i = r
  BY <1>1, <1>2, <1>3
<1> QED BY <1>4 DEF r

\* A copy that goes forward brings what it copies, unless it goes up into what it copies.
LEMMA ForwardHolds ==
  ASSUME NEW m, NEW lost, NEW to \in Int, NEW from \in Int, NEW n \in Int, NEW byte \in Int,
         Holds(m, lost, from, byte, n), Bytes(to, n) \subseteq DOMAIN m,
         to <= from \/ to - from >= n
  PROVE  Holds(Memcpy(m, to, from, n), lost, to, byte, n)
<1> DEFINE new == Memcpy(m, to, from, n)
<1> SUFFICES ASSUME NEW i \in 0 .. n - 1, byte + i \notin lost
             PROVE  new[to + i] = byte + i
  BY DEF Holds
<1>1. to + i \in Bytes(to, n) /\ (to + i) - to = i
  BY DEF Bytes
<1>2. Forward(to - from, i) = i
  <2>1. CASE to - from > 0
    <3>1. to - from \in Nat /\ i \in Nat /\ i < to - from
      BY <2>1
    <3>2. i % (to - from) = i
      BY <3>1, SmallRemainder
    <3> QED BY <2>1, <3>2 DEF Forward
  <2>2. CASE ~(to - from > 0)
    BY <2>2 DEF Forward
  <2> QED BY <2>1, <2>2
<1>3. new[to + i] = m[from + Forward(to - from, i)]
  BY <1>1 DEF Memcpy
<1>4. new[to + i] = m[from + i]
  BY <1>2, <1>3
<1> QED BY <1>4 DEF Holds

\* So does a move, unless it goes up by so much that it is left to Memcpy().
LEMMA MoveHolds ==
  ASSUME NEW m, NEW lost, NEW to \in Int, NEW from \in Int, NEW n \in Int, NEW byte \in Int,
         Holds(m, lost, from, byte, n), Bytes(to, n) \subseteq DOMAIN m,
         to - from < MoveThreshold \/ to - from >= n
  PROVE  Holds(Memmove(m, to, from, n), lost, to, byte, n)
<1>1. MoveThreshold \in Nat \ {0}
  BY DriveAssumption
<1>2. CASE to - from \in 1 - MoveThreshold .. MoveThreshold - 1
  <2> DEFINE new == Moved(m, to, from, n)
  <2>1. ASSUME NEW i \in 0 .. n - 1, byte + i \notin lost
        PROVE  new[to + i] = byte + i
    <3>1. to + i \in Bytes(to, n) /\ from + ((to + i) - to) = from + i
      BY DEF Bytes
    <3>2. new[to + i] = m[from + i]
      BY <3>1 DEF Moved
    <3> QED BY <2>1, <3>2 DEF Holds
  <2> HIDE DEF new
  <2>2. Holds(new, lost, to, byte, n)
    BY <2>1 DEF Holds
  <2> QED BY <1>2, <2>2 DEF Memmove, new
<1>3. CASE to - from \notin 1 - MoveThreshold .. MoveThreshold - 1
  <2>1. to <= from \/ to - from >= n
    BY <1>1, <1>3
  <2> QED BY <1>3, <2>1, ForwardHolds DEF Memmove
<1> QED BY <1>2, <1>3

\* And a move that is left to Memcpy() loses no more than what lies beyond the distance.
LEMMA MoveLoses ==
  ASSUME NEW m, NEW lost, NEW to \in Int, NEW from \in Int, NEW n \in Int, NEW byte \in Int,
         NEW d \in Nat, to - from = d, d >= MoveThreshold,
         Holds(m, lost, from, byte, n), Bytes(to, n) \subseteq DOMAIN m,
         byte + d .. byte + n - 1 \subseteq lost
  PROVE  Holds(Memmove(m, to, from, n), lost, to, byte, n)
<1> DEFINE new == Memcpy(m, to, from, n)
<1>1. MoveThreshold \in Nat \ {0}
  BY DriveAssumption
<1>2. Memmove(m, to, from, n) = new
  BY <1>1 DEF Memmove
<1>3. ASSUME NEW i \in 0 .. n - 1, byte + i \notin lost
      PROVE  new[to + i] = byte + i
  <2>1. i < d
    <3>1. byte + i \notin byte + d .. byte + n - 1
      BY <1>3
    <3> QED BY <3>1
  <2>2. to + i \in Bytes(to, n) /\ (to + i) - to = i /\ d > 0 /\ i \in Nat
    BY <1>1, <2>1 DEF Bytes
  <2>3. Forward(d, i) = i
    <3>1. i % d = i
      BY <2>1, <2>2, SmallRemainder
    <3> QED BY <2>2, <3>1 DEF Forward
  <2>4. new[to + i] = m[from + Forward(d, i)]
    BY <2>2 DEF Memcpy
  <2>5. new[to + i] = m[from + i]
    BY <2>3, <2>4
  <2> QED BY <1>3, <2>5 DEF Holds
<1> HIDE DEF new
<1>4. Holds(new, lost, to, byte, n)
  BY <1>3 DEF Holds
<1> QED BY <1>2, <1>4

\* Between areas that do not overlap, the direction makes no difference.
LEMMA CopyHolds ==
  ASSUME NEW m, NEW lost, NEW to \in Int, NEW from \in Int, NEW n \in Int, NEW byte \in Int,
         Holds(m, lost, from, byte, n), Bytes(to, n) \subseteq DOMAIN m,
         Bytes(to, n) \cap Bytes(from, n) = {}
  PROVE  /\ Holds(Memcpy(m, to, from, n), lost, to, byte, n)
         /\ Holds(Memmove(m, to, from, n), lost, to, byte, n)
<1>1. CASE n <= 0
  <2>1. 0 .. n - 1 = {}
    BY <1>1
  <2> QED BY <2>1 DEF Holds
<1>2. CASE n > 0
  <2>1. to <= from \/ to - from >= n
    <3>1. to \in Bytes(to, n)
      BY <1>2 DEF Bytes
    <3>2. to \notin Bytes(from, n)
      BY <3>1
    <3> QED BY <3>2 DEF Bytes
  <2>2. to - from < MoveThreshold \/ to - from >= n
    BY <2>1, DriveAssumption
  <2> QED BY <2>1, <2>2, ForwardHolds, MoveHolds
<1> QED BY <1>1, <1>2

LEMMA KeepHolds ==
  ASSUME NEW old, NEW lost, NEW new, NEW area, WritesOnly(old, new, area),
         NEW address \in Int, NEW n \in Int, NEW byte \in Int, Holds(old, lost, address, byte, n),
         Bytes(address, n) \subseteq DOMAIN old, Bytes(address, n) \cap area = {}
  PROVE  Holds(new, lost, address, byte, n)
<1> SUFFICES ASSUME NEW i \in 0 .. n - 1, byte + i \notin lost
             PROVE  new[address + i] = byte + i
  BY DEF Holds
<1>1. address + i \in Bytes(address, n)
  BY DEF Bytes
<1> QED BY <1>1 DEF Holds, WritesOnly

LEMMA PartHolds ==
  ASSUME NEW m, NEW lost, NEW address \in Int, NEW n \in Int, NEW byte \in Int,
         Holds(m, lost, address, byte, n), NEW d \in Nat, NEW k \in Int, d + k <= n
  PROVE  Holds(m, lost, address + d, byte + d, k)
<1> SUFFICES ASSUME NEW i \in 0 .. k - 1, byte + d + i \notin lost
             PROVE  m[address + d + i] = byte + d + i
  BY DEF Holds
<1>1. d + i \in 0 .. n - 1 /\ address + (d + i) = address + d + i /\ byte + (d + i) = byte + d + i
  OBVIOUS
<1> QED BY <1>1 DEF Holds

LEMMA JoinedHolds ==
  ASSUME NEW m, NEW lost, NEW address \in Int, NEW n \in Nat, NEW k \in Int, NEW byte \in Int,
         Holds(m, lost, address, byte, n), Holds(m, lost, address + n, byte + n, k)
  PROVE  Holds(m, lost, address, byte, n + k)
<1> SUFFICES ASSUME NEW i \in 0 .. (n + k) - 1, byte + i \notin lost
             PROVE  m[address + i] = byte + i
  BY DEF Holds
<1>1. CASE i < n
  BY <1>1 DEF Holds
<1>2. CASE i >= n
  <2>1. i - n \in 0 .. k - 1 /\ address + n + (i - n) = address + i /\ byte + n + (i - n) = byte + i
    BY <1>2
  <2> QED BY <2>1 DEF Holds
<1> QED BY <1>1, <1>2

LEMMA DiskHolds ==
  ASSUME NEW m, NEW lost, NEW to \in Int, NEW lba \in Int, NEW n \in Int,
         n * BytesPerSector \in Int, lba * BytesPerSector \in Int,
         Bytes(to, n * BytesPerSector) \subseteq DOMAIN m
  PROVE  Holds(FromDisk(m, to, lba, n), lost, to, lba * BytesPerSector, n * BytesPerSector)
<1> DEFINE k == n * BytesPerSector
           byte == lba * BytesPerSector
           new == FromDisk(m, to, lba, n)
<1> SUFFICES ASSUME NEW i \in 0 .. k - 1, byte + i \notin lost
             PROVE  new[to + i] = byte + i
  BY DEF Holds
<1>1. k \in Int /\ byte \in Int
  OBVIOUS
<1>2. to + i \in DOMAIN m =>
        new[to + i] = IF to + i \in Bytes(to, k) THEN byte + ((to + i) - to) ELSE m[to + i]
  BY DEF FromDisk
<1> HIDE DEF k, byte, new
<1>3. to + i \in Bytes(to, k) /\ (to + i) - to = i
  BY <1>1 DEF Bytes
<1> QED BY <1>2, <1>3 DEF k

LEMMA Apart ==
  ASSUME NEW p \in Int, NEW n \in Int, NEW q \in Int, NEW k \in Int,
         p + n <= q \/ q + k <= p
  PROVE  Bytes(p, n) \cap Bytes(q, k) = {}
BY DEF Bytes

LEMMA BufferIsMemory ==
  ASSUME TypeOK
  PROVE  BufferArea \subseteq DOMAIN memory
BY RequestAssumption DEF TypeOK, BufferArea

\* The sectors of the first and of the last byte start where the offsets say.
LEMMA SectorBytes ==
  ASSUME TypeOK, request.Size > 0
  PROVE  /\ FirstSector \in Nat /\ LastSector \in Nat
         /\ FirstSector * BytesPerSector = Start - StartOffset
         /\ (FirstSector + 1) * BytesPerSector = Start + (BytesPerSector - StartOffset)
         /\ LastSector * BytesPerSector = Start + (request.Size - EndOffset)
<1> DEFINE b == BytesPerSector
           s == Start
           e == Start + request.Size - 1
<1>1. b \in Nat \ {0} /\ s \in Nat /\ e \in Nat /\ request.Size \in Nat
      /\ e = s + request.Size - 1
  BY RequestTypes
<1>2. /\ FirstSector = s \div b /\ StartOffset = s % b
      /\ LastSector = e \div b /\ EndOffset = (e % b) + 1
  BY DEF FirstSector, LastSector, StartOffset, EndOffset, End
<1> HIDE DEF b, s, e
<1> DEFINE f == s \div b
           l == e \div b
           so == s % b
           eo == (e % b) + 1
<1>3. /\ f \in Nat /\ so \in Nat /\ s = f * b + so
      /\ l \in Nat /\ eo \in Nat /\ e = l * b + (eo - 1)
  <2>1. /\ s \div b \in Nat /\ s % b \in 0 .. b - 1 /\ s = (s \div b) * b + (s % b)
        /\ e \div b \in Nat /\ e % b \in 0 .. b - 1 /\ e = (e \div b) * b + (e % b)
    BY <1>1, Division
  <2>2. (e % b) + 1 - 1 = e % b /\ (e % b) + 1 \in Nat
    BY <1>1, <2>1
  <2> QED BY <2>1, <2>2
<1> HIDE DEF f, l, so, eo
<1>4. (f + 1) * b = f * b + b /\ f * b \in Int /\ l * b \in Int
  BY <1>1, <1>3
<1> DEFINE fb == f * b
           lb == l * b
<1>5. /\ fb \in Int /\ lb \in Int /\ s = fb + so /\ e = lb + (eo - 1)
      /\ (f + 1) * b = fb + b
  BY <1>3, <1>4
<1> HIDE DEF fb, lb
<1>6. fb = s - so /\ fb + b = s + (b - so) /\ lb = s + (request.Size - eo)
  BY <1>1, <1>3, <1>5
<1> QED BY <1>2, <1>3, <1>5, <1>6 DEF fb, lb, f, l, so, eo, b, s

\* The first n bytes.
LEMMA PrefixHolds ==
  ASSUME NEW m, NEW lost, NEW address \in Int, NEW n \in Int, NEW byte \in Int,
         Holds(m, lost, address, byte, n), NEW k \in Int, k <= n
  PROVE  Holds(m, lost, address, byte, k)
<1>1. \A i \in 0 .. k - 1 : i \in 0 .. n - 1
  OBVIOUS
<1> QED BY <1>1 DEF Holds

\* Of a copy, the part whose source holds bytes of the drive.
LEMMA CopyPart ==
  ASSUME NEW m, NEW lost, NEW to \in Int, NEW from \in Int, NEW n \in Int, NEW byte \in Int,
         NEW d \in Nat, NEW k \in Int, d + k <= n, Holds(m, lost, from + d, byte, k),
         Bytes(to, n) \subseteq DOMAIN m, Bytes(to, n) \cap Bytes(from, n) = {}
  PROVE  Holds(Memcpy(m, to, from, n), lost, to + d, byte, k)
<1> DEFINE new == Memcpy(m, to, from, n)
<1> SUFFICES ASSUME NEW i \in 0 .. k - 1, byte + i \notin lost
             PROVE  new[to + d + i] = byte + i
  BY DEF Holds
<1>1. /\ to + d + i \in Bytes(to, n) /\ (to + d + i) - to = d + i /\ from + (d + i) = from + d + i
      /\ d + i \in Nat /\ d + i < n
  BY DEF Bytes
<1>2. Forward(to - from, d + i) = d + i
  <2>1. CASE to - from > 0
    <3>1. to \in Bytes(to, n)
      BY <1>1 DEF Bytes
    <3>2. to \notin Bytes(from, n)
      BY <3>1
    <3>3. to - from >= n
      BY <2>1, <3>2 DEF Bytes
    <3>4. to - from \in Nat /\ d + i < to - from
      BY <1>1, <2>1, <3>3
    <3>5. (d + i) % (to - from) = d + i
      BY <1>1, <3>4, SmallRemainder
    <3> QED BY <2>1, <3>5 DEF Forward
  <2>2. CASE ~(to - from > 0)
    BY <2>2 DEF Forward
  <2> QED BY <2>1, <2>2
<1>3. new[to + d + i] = m[from + Forward(to - from, d + i)]
  BY <1>1 DEF Memcpy
<1>4. new[to + d + i] = m[from + d + i]
  BY <1>1, <1>2, <1>3
<1> QED BY <1>4 DEF Holds

LEMMA NothingHolds ==
  ASSUME NEW m, NEW lost, NEW address, NEW byte
  PROVE  Holds(m, lost, address, byte, 0)
<1>1. 0 .. 0 - 1 = {}
  OBVIOUS
<1> QED BY <1>1 DEF Holds

\* A transfer that starts has everything that it has read.
LEMMA StartsFetched ==
  ASSUME NEW m, NEW lost, NEW call, NEW address \in Int, NEW byte \in Int,
         call.to = address, call.lba * BytesPerSector = byte
  PROVE  /\ call.lba * BytesPerSector = byte + (call.to - address)
         /\ Holds(m, lost, address, byte, call.to - address)
<1>1. call.to - address = 0 /\ byte + 0 = byte
  OBVIOUS
<1> QED BY <1>1, NothingHolds

\* The sectors that go directly to the buffer, and the end of it if that is not one of them.
LEMMA LeftBytes ==
  ASSUME TypeOK, request.Size > 0, BufferAligned
  PROVE  /\ EndAligned => SectorsLeft * BytesPerSector = request.Size + StartOffset
         /\ ~EndAligned => SectorsLeft * BytesPerSector = request.Size + StartOffset - EndOffset
<1> DEFINE b == BytesPerSector
           n == NumSectors
           nb == n * b
<1>1. /\ b \in Nat \ {0} /\ n \in Nat \ {0} /\ request.Size \in Nat
      /\ StartOffset \in 0 .. b - 1 /\ EndOffset \in 1 .. b
      /\ nb = request.Size + StartOffset + b - EndOffset
  BY RequestTypes, Geometry
<1>2. (n - 1) * b = nb - b
  <2>1. n \in Int /\ b \in Int
    BY <1>1
  <2>2. (n - 1) * b = n * b - 1 * b /\ 1 * b = b
    BY <2>1, Minus
  <2> QED BY <2>2
<1>3. SectorsLeft * b = IF EndOffset = b THEN nb ELSE (n - 1) * b
  BY DEF SectorsLeft, EndAligned
<1> HIDE DEF nb
<1> QED BY <1>1, <1>2, <1>3 DEF EndAligned

\* What the steps between the transfers know of the request.
LEMMA Numbers ==
  ASSUME TypeOK, request.Size > 0
  PROVE  /\ request.Size \in Nat /\ request.Buffer \in Nat /\ Start \in Nat
         /\ BytesPerSector \in Nat \ {0}
         /\ StartOffset \in 0 .. BytesPerSector - 1
         /\ EndOffset \in 1 .. BytesPerSector
BY RequestTypes, Geometry

LEMMA StartContent ==
  ASSUME PlacesInv, ReadStart, request.Size > 0, BufferAligned, request' = request, EndKept'
  PROVE  ContentInv'
<1>1. /\ request.Buffer \in Int /\ Start \in Int
      /\ StartOffset \in 0 .. BytesPerSector - 1 /\ BytesPerSector \in Nat \ {0}
  BY Numbers DEF PlacesInv
<1>2. /\ FirstSector * BytesPerSector = Start - StartOffset
      /\ (FirstSector + 1) * BytesPerSector = Start + (BytesPerSector - StartOffset)
  BY SectorBytes DEF PlacesInv
<1>3. CASE StartAligned
  <2>1. at' = "whole" /\ io'.to = request.Buffer /\ io'.lba = FirstSector
    BY <1>3 DEF ReadStart, Reads
  <2>2. io'.lba * BytesPerSector = Start
    BY <1>1, <1>2, <1>3, <2>1 DEF StartAligned
  <2>3. /\ request'.Buffer \in Int /\ Start' \in Int
        /\ io'.to = request'.Buffer /\ io'.lba * BytesPerSector = Start'
    BY <1>1, <2>1, <2>2, RequestKept
  <2>4. Fetched(request.Buffer, Start)'
    BY <2>3, StartsFetched DEF Fetched
  <2> QED BY <2>1, <2>4 DEF ContentInv
<1>4. CASE ~StartAligned
  <2> DEFINE byte == Start + (BytesPerSector - StartOffset)
  <2>1. at' = "middle" /\ io'.to = request.Buffer /\ io'.lba = FirstSector + 1
    BY <1>4 DEF ReadStart, Reads
  <2>2. /\ request'.Buffer \in Int /\ byte' \in Int
        /\ io'.to = request'.Buffer /\ io'.lba * BytesPerSector = byte'
    BY <1>1, <1>2, <2>1, RequestKept
  <2>3. Fetched(request.Buffer, byte)'
    BY <2>2, StartsFetched DEF Fetched
  <2> QED BY <2>1, <2>3 DEF ContentInv
<1> QED BY <1>3, <1>4

LEMMA BeginContent ==
  ASSUME ReadInv, BeginEmpty \/ BeginRefused \/ BeginAligned \/ BeginMisaligned
  PROVE  ContentInv'
<1>1. PlacesInv /\ request' = request /\ memory' = memory
  BY DEF ReadInv, BeginEmpty, BeginRefused, BeginAligned, BeginMisaligned
<1>2. CASE BeginEmpty
  <2>1. at' = "done" /\ request'.Size = 0
    BY <1>2 DEF BeginEmpty, Return
  <2> QED BY <2>1, NothingHolds DEF ContentInv, Filled
<1>3. CASE BeginRefused
  BY <1>3 DEF BeginRefused, Return, ContentInv
<1>4. CASE BeginAligned
  <2>1. request.Size > 0 /\ BufferAligned
    BY <1>4 DEF BeginAligned
  <2>2. CASE EndAligned
    <3>1. EndKept'
      BY <1>1, <2>2, RequestKept DEF EndKept
    <3> QED BY <1>1, <1>4, <2>1, <2>2, <3>1, StartContent DEF BeginAligned
  <2>3. CASE ~EndAligned
    <3> DEFINE byte == Start + (request.Size - EndOffset)
    <3>1. at' = "last" /\ io'.to = request.Buffer /\ io'.lba = LastSector
      BY <1>4, <2>3 DEF BeginAligned, Reads
    <3>2. request.Buffer \in Int /\ byte \in Int /\ LastSector * BytesPerSector = byte
      BY <1>1, <2>1, Numbers, SectorBytes DEF PlacesInv
    <3>3. /\ request'.Buffer \in Int /\ byte' \in Int
          /\ io'.to = request'.Buffer /\ io'.lba * BytesPerSector = byte'
      BY <1>1, <3>1, <3>2, RequestKept
    <3>4. Fetched(request.Buffer, byte)'
      BY <3>3, StartsFetched DEF Fetched
    <3> QED BY <3>1, <3>4 DEF ContentInv
  <2> QED BY <2>2, <2>3
<1>5. CASE BeginMisaligned
  <2>1. CASE Return(FALSE)
    BY <2>1 DEF Return, ContentInv
  <2>2. ASSUME NEW p \in TempAddresses,
               Grants(p, Alignment + NumSectors * BytesPerSector),
               temp' = [ptr |-> p, size |-> Alignment + NumSectors * BytesPerSector],
               Reads(TempAddress(p), FirstSector, NumSectors), at' = "bounce"
        PROVE  ContentInv'
    <3>1. /\ temp'.ptr = p /\ temp'.size = Alignment + NumSectors * BytesPerSector
          /\ io'.to = TempAddress(p) /\ io'.lba = FirstSector
      BY <2>2 DEF Reads
    <3>2. Grants(temp.ptr, temp.size)'
      BY <1>1, <2>2, <3>1 DEF Grants
    <3>3. TempAddress(temp.ptr)' = TempAddress(p)
      BY <1>1, <3>1, RequestKept DEF TempAddress
    <3>4. /\ TempAddress(p) \in Int /\ Start - StartOffset \in Int
          /\ FirstSector * BytesPerSector = Start - StartOffset
      <4>1. p \in Nat
        BY RequestAssumption
      <4>2. request.Size > 0
        BY <1>5 DEF BeginMisaligned
      <4> QED BY <1>1, <4>1, <4>2, TempAligned, Numbers, SectorBytes DEF PlacesInv
    <3>5. Fetched(TempAddress(temp.ptr), Start - StartOffset)'
      <4>1. /\ TempAddress(temp.ptr)' \in Int /\ (Start - StartOffset)' \in Int
            /\ io'.to = TempAddress(temp.ptr)'
            /\ io'.lba * BytesPerSector = (Start - StartOffset)'
        BY <1>1, <3>1, <3>3, <3>4, RequestKept
      <4> QED BY <4>1, StartsFetched DEF Fetched
    <3> QED BY <2>2, <3>2, <3>5 DEF ContentInv
  <2> QED BY <1>5, <2>1, <2>2 DEF BeginMisaligned
<1> QED BY <1>2, <1>3, <1>4, <1>5

\* What has been read stays where it is when something else is written.
LEMMA EndStays ==
  ASSUME TypeOK, request.Size > 0, request' = request, NEW p \in Int, NEW k \in Int,
         WritesOnly(memory, memory', Bytes(p, k)),
         EndKept, p + k <= request.Buffer + (request.Size - EndOffset), EndOffset <= request.Size
  PROVE  EndKept'
<1>1. CASE EndAligned
  BY <1>1, RequestKept DEF EndKept
<1>2. CASE ~EndAligned
  <2> DEFINE address == request.Buffer + (request.Size - EndOffset)
             byte == Start + (request.Size - EndOffset)
  <2>1. /\ address \in Int /\ byte \in Int /\ EndOffset \in Nat
        /\ address + EndOffset = request.Buffer + request.Size /\ address >= request.Buffer
        /\ request.Buffer \in Int /\ request.Size \in Int
    BY Numbers
  <2>2. Holds(memory, Lost, address, byte, EndOffset)
    BY <1>2 DEF EndKept, EndsWith
  <2>3. p + k <= address
    OBVIOUS
  <2> HIDE DEF address, byte
  <2>4. Bytes(address, EndOffset) \subseteq DOMAIN memory
    <3>1. Bytes(address, EndOffset) \subseteq BufferArea
      BY <2>1, Within DEF BufferArea
    <3> QED BY <3>1, BufferIsMemory
  <2>5. Bytes(address, EndOffset) \cap Bytes(p, k) = {}
    BY <2>1, <2>3, Apart
  <2>6. Holds(memory', Lost, address, byte, EndOffset)
    BY <2>1, <2>2, <2>4, <2>5, KeepHolds
  <2>7. request'.Buffer + (request'.Size - EndOffset') = address
        /\ Start' + (request'.Size - EndOffset') = byte
    BY RequestKept DEF address, byte
  <2> QED BY <2>6, <2>7, RequestKept DEF EndKept, EndsWith
<1> QED BY <1>1, <1>2

LEMMA LastReadContent ==
  ASSUME ReadInv, LastRead
  PROVE  ContentInv'
<1>1. /\ at = "last" /\ io.left = 0 /\ PlacesInv /\ ReadStart /\ request' = request
      /\ memory' = Memcpy(memory, request.Buffer + request.Size - EndOffset, request.Buffer,
                          EndOffset)
  BY DEF ReadInv, LastRead, Arrived
<1> DEFINE a == request.Buffer
           to == request.Buffer + (request.Size - EndOffset)
           byte == Start + (request.Size - EndOffset)
<1>2. /\ request.Size > 0 /\ BufferAligned /\ a \in Int /\ to \in Int /\ byte \in Int
      /\ EndOffset \in 1 .. BytesPerSector /\ BytesPerSector \in Nat
      /\ request.Size \in Int
      /\ a + EndOffset <= to /\ to + EndOffset = a + request.Size
  BY <1>1, DirectPlaces, Numbers DEF PlacesInv
<1>3. io.to = a + BytesPerSector
  <2>1. io \in [to : Int, lba : Int, left : Nat] /\ Fills(a, 1)
    BY <1>1 DEF PlacesInv, TypeOK, TransferInv
  <2>2. 1 * BytesPerSector = BytesPerSector /\ 0 * BytesPerSector = 0
    BY <1>2
  <2> QED BY <1>1, <1>2, <2>1, <2>2 DEF Fills
<1>4. Holds(memory, Lost, a, byte, BytesPerSector)
  <2>1. io.to - a = BytesPerSector
    BY <1>2, <1>3
  <2> QED BY <1>1, <2>1 DEF ReadInv, ContentInv, Fetched
<1>5. memory' = Memcpy(memory, to, a, EndOffset)
  <2>1. a + request.Size - EndOffset = to
    BY <1>2
  <2> QED BY <1>1, <2>1
<1> HIDE DEF a, to, byte
<1>6. Holds(memory, Lost, a, byte, EndOffset)
  BY <1>2, <1>4, PrefixHolds
<1>7. Bytes(to, EndOffset) \subseteq DOMAIN memory
  <2>1. Bytes(to, EndOffset) \subseteq BufferArea
    BY <1>2, Within DEF BufferArea, a
  <2> QED BY <1>1, <2>1, BufferIsMemory DEF PlacesInv
<1>8. Holds(memory', Lost, to, byte, EndOffset)
  <2>1. Bytes(to, EndOffset) \cap Bytes(a, EndOffset) = {}
    BY <1>2, Apart
  <2>2. Holds(Memcpy(memory, to, a, EndOffset), Lost, to, byte, EndOffset)
    BY <1>2, <1>6, <1>7, <2>1, CopyHolds
  <2> QED BY <1>5, <2>2
<1>9. EndKept'
  <2>1. request'.Buffer + (request'.Size - EndOffset') = to
        /\ Start' + (request'.Size - EndOffset') = byte
    BY <1>1, RequestKept DEF to, byte
  <2> QED BY <1>1, <1>8, <2>1, RequestKept DEF EndKept, EndsWith
<1> QED BY <1>1, <1>2, <1>9, StartContent

\* From some byte of the buffer on, up to the end.
LEMMA EndJoined ==
  ASSUME NEW m, NEW lost, NEW s \in Int, NEW e \in Int, NEW d \in Int, NEW n \in Nat,
         TypeOK, request.Size > 0,
         Holds(m, lost, request.Buffer + d, Start + d, n),
         \/ d + n = request.Size
         \/ /\ d + n = request.Size - EndOffset
            /\ Holds(m, lost, request.Buffer + (request.Size - EndOffset),
                     Start + (request.Size - EndOffset), EndOffset)
  PROVE  Holds(m, lost, request.Buffer + d, Start + d, request.Size - d)
<1>1. /\ request.Buffer \in Int /\ Start \in Int /\ request.Size \in Int /\ EndOffset \in Int
  BY Numbers
<1>2. CASE d + n = request.Size
  <2>1. request.Size - d = n
    BY <1>1, <1>2
  <2> QED BY <2>1
<1>3. CASE d + n = request.Size - EndOffset
           /\ Holds(m, lost, request.Buffer + (request.Size - EndOffset),
                    Start + (request.Size - EndOffset), EndOffset)
  <2>1. /\ request.Buffer + (request.Size - EndOffset) = request.Buffer + d + n
        /\ Start + (request.Size - EndOffset) = Start + d + n
        /\ request.Size - d = n + EndOffset
    BY <1>1, <1>3
  <2>2. Holds(m, lost, request.Buffer + d + n, Start + d + n, EndOffset)
    BY <1>3, <2>1
  <2>3. request.Buffer + d \in Int /\ Start + d \in Int
    BY <1>1
  <2>4. Holds(m, lost, request.Buffer + d, Start + d, n + EndOffset)
    BY <1>1, <2>2, <2>3, JoinedHolds
  <2> QED BY <2>1, <2>4
<1> QED BY <1>2, <1>3

LEMMA WholeReadContent ==
  ASSUME ReadInv, WholeRead
  PROVE  ContentInv'
<1>1. /\ at = "whole" /\ io.left = 0 /\ PlacesInv
      /\ request' = request /\ memory' = memory /\ at' = "done"
  BY DEF ReadInv, WholeRead, Arrived, Return
<1>2. /\ request.Size > 0 /\ BufferAligned /\ StartAligned /\ Fills(request.Buffer, SectorsLeft)
      /\ io \in [to : Int, lba : Int, left : Nat]
  BY <1>1 DEF PlacesInv, TransferInv, TypeOK
<1> DEFINE n == SectorsLeft * BytesPerSector
<1>3. /\ request.Buffer \in Int /\ Start \in Int /\ request.Size \in Nat /\ EndOffset \in Int
      /\ StartOffset = 0 /\ n \in Nat /\ 0 * BytesPerSector = 0
      /\ EndAligned => n = request.Size + StartOffset
      /\ ~EndAligned => n = request.Size + StartOffset - EndOffset
  BY <1>1, <1>2, Numbers, DirectRoom, LeftBytes DEF PlacesInv, StartAligned
<1>4. io.to = request.Buffer + n
  BY <1>1, <1>2, <1>3 DEF Fills
<1> HIDE DEF n
<1>5. EndKept /\ Holds(memory, Lost, request.Buffer, Start, n)
  <2>1. io.to - request.Buffer = n
    BY <1>3, <1>4
  <2> QED BY <1>1, <2>1 DEF ReadInv, ContentInv, Fetched
<1>6. /\ request.Buffer + 0 = request.Buffer /\ Start + 0 = Start
      /\ request.Size - 0 = request.Size
      /\ EndAligned => 0 + n = request.Size
      /\ ~EndAligned => 0 + n = request.Size - EndOffset
  BY <1>3
<1>7. /\ Holds(memory, Lost, request.Buffer + 0, Start + 0, n)
      /\ \/ 0 + n = request.Size
         \/ /\ 0 + n = request.Size - EndOffset
            /\ Holds(memory, Lost, request.Buffer + (request.Size - EndOffset),
                     Start + (request.Size - EndOffset), EndOffset)
  BY <1>5, <1>6 DEF EndKept, EndsWith
<1>8. Holds(memory, Lost, request.Buffer + 0, Start + 0, request.Size - 0)
  BY <1>1, <1>2, <1>3, <1>7, EndJoined DEF PlacesInv
<1>9. Filled'
  BY <1>1, <1>6, <1>8, RequestKept DEF Filled
<1> QED BY <1>1, <1>9 DEF ContentInv

LEMMA BounceReadContent ==
  ASSUME ReadInv, BounceRead
  PROVE  ContentInv'
<1> DEFINE a == TempAddress(temp.ptr)
           n == NumSectors * BytesPerSector
           byte == Start - StartOffset
<1>1. /\ at = "bounce" /\ io.left = 0 /\ PlacesInv /\ at' = "free" /\ request' = request
      /\ memory' = Memmove(memory, request.Buffer, a + StartOffset, request.Size)
  BY DEF ReadInv, BounceRead, Arrived
<1>2. /\ request.Size > 0 /\ Fills(a, NumSectors) /\ io \in [to : Int, lba : Int, left : Nat]
      /\ temp.ptr \in Nat /\ temp.size = Alignment + n
  BY <1>1 DEF PlacesInv, TransferInv, TypeOK
<1>3. /\ a \in Int /\ n \in Int /\ byte \in Int /\ StartOffset \in Nat /\ request.Size \in Int
      /\ byte + StartOffset = Start /\ StartOffset + request.Size <= n
      /\ request.Buffer \in Int /\ 0 * BytesPerSector = 0
      /\ Alignment \in Nat /\ temp.ptr <= a /\ a <= temp.ptr + Alignment
  BY <1>1, <1>2, Numbers, Geometry, RequestTypes, TempAligned DEF PlacesInv
<1>4. io.to - a = n
  BY <1>1, <1>2, <1>3 DEF Fills
<1>5. Holds(memory, Lost, a, byte, n)
  BY <1>1, <1>4 DEF ReadInv, ContentInv, Fetched
<1> HIDE DEF a, n, byte
<1>6. Holds(memory, Lost, a + StartOffset, byte + StartOffset, request.Size)
  BY <1>3, <1>5, PartHolds
<1>7. Holds(memory', Lost, request.Buffer, byte + StartOffset, request.Size)
  <2>1. Bytes(request.Buffer, request.Size) \subseteq DOMAIN memory
    BY <1>1, BufferIsMemory DEF PlacesInv, BufferArea
  <2>2. a + StartOffset \in Int /\ byte + StartOffset \in Int
    BY <1>3
  <2>3. Bytes(request.Buffer, request.Size) \cap Bytes(a + StartOffset, request.Size) = {}
    <3>1. Bytes(a + StartOffset, request.Size) \subseteq Bytes(temp.ptr, temp.size)
      BY <1>2, <1>3, <2>2, Within
    <3>2. Grants(temp.ptr, temp.size)
      BY <1>1 DEF ReadInv, ContentInv
    <3> QED BY <3>1, <3>2 DEF Grants
  <2> QED BY <1>1, <1>3, <1>6, <2>1, <2>2, <2>3, CopyHolds
<1>8. Filled'
  BY <1>1, <1>3, <1>7, RequestKept DEF Filled
<1> QED BY <1>1, <1>8 DEF ContentInv

\* Where the middle of the buffer goes, and how far.
LEMMA MiddleNumbers ==
  ASSUME PlacesInv, at = "middle", io.left = 0
  PROVE  /\ request.Size > 0 /\ BufferAligned
         /\ (SectorsLeft - 1) * BytesPerSector \in Nat
         /\ (SectorsLeft - 1) * BytesPerSector >= BytesPerSector
         /\ io.to = request.Buffer + (SectorsLeft - 1) * BytesPerSector
         /\ EndAligned => (SectorsLeft - 1) * BytesPerSector
                            = request.Size + StartOffset - BytesPerSector
         /\ ~EndAligned => (SectorsLeft - 1) * BytesPerSector
                             = request.Size + StartOffset - BytesPerSector - EndOffset
<1> DEFINE b == BytesPerSector
           n == SectorsLeft * b
           k == (SectorsLeft - 1) * b
<1>1. request.Size > 0 /\ BufferAligned /\ TypeOK /\ Fills(request.Buffer, SectorsLeft - 1)
  BY DEF PlacesInv, TransferInv
<1>2. /\ n \in Nat /\ k = n - b /\ n >= 2 * b /\ b \in Nat /\ StartOffset \in Nat
      /\ request.Size \in Nat /\ EndOffset \in Nat /\ request.Buffer \in Nat
      /\ EndAligned => n = request.Size + StartOffset
      /\ ~EndAligned => n = request.Size + StartOffset - EndOffset
  BY <1>1, DirectRoom, LeftBytes, Numbers
<1>3. io.to + 0 * b = request.Buffer + k /\ 0 * b = 0 /\ io.to \in Int
  BY <1>1, <1>2 DEF Fills, TypeOK
<1> HIDE DEF n, k, b
<1>4. k \in Nat /\ k >= b /\ io.to = request.Buffer + k
      /\ (EndAligned => k = request.Size + StartOffset - b)
      /\ (~EndAligned => k = request.Size + StartOffset - b - EndOffset)
  BY <1>2, <1>3
<1> QED BY <1>1, <1>4 DEF k, b

LEMMA MiddleReadContent ==
  ASSUME ReadInv, MiddleRead
  PROVE  ContentInv'
<1> DEFINE b == BytesPerSector
           d == b - StartOffset
           k == (SectorsLeft - 1) * b
           a == request.Buffer
           moved == Memmove(memory, a + d, a, k)
<1>1. /\ at = "middle" /\ io.left = 0 /\ PlacesInv /\ TypeOK /\ request' = request
      /\ ~StartAligned
  BY DEF ReadInv, PlacesInv, TransferInv, MiddleRead, Arrived
<1>2. CASE Return(FALSE)
  BY <1>2 DEF Return, ContentInv
<1>3. ASSUME NEW p \in TempAddresses, Grants(p, b),
             temp' = [ptr |-> p, size |-> b],
             memory' = Memcpy(moved, p, a, b),
             Reads(a, FirstSector, 1), at' = "first"
      PROVE  ContentInv'
  <2>1. /\ request.Size > 0 /\ BufferAligned /\ k \in Nat /\ k >= b
        /\ EndAligned => k = request.Size - d
        /\ ~EndAligned => k = request.Size - d - EndOffset
        /\ request.Size \in Nat /\ a \in Nat /\ Start \in Nat /\ b \in Nat \ {0}
        /\ StartOffset \in 0 .. b - 1 /\ EndOffset \in 1 .. b
        /\ d \in 1 .. b /\ d + StartOffset = b
        /\ b + EndOffset <= request.Size
    BY <1>1, MiddleNumbers, DirectPlaces, Numbers
  <2>2. Holds(memory, Lost, a, Start + d, k) /\ EndKept
    <3>1. io.to - a = k
      BY <1>1, <2>1, MiddleNumbers
    <3> QED BY <1>1, <3>1 DEF ReadInv, ContentInv, Fetched
  <2> HIDE DEF k, a, moved
  <2>3. Bytes(a + d, k) \subseteq BufferArea /\ a = request.Buffer
    <3>1. a = request.Buffer
      BY DEF a
    <3>2. a + d \in Int /\ a <= a + d /\ (a + d) + k <= a + request.Size
      BY <2>1
    <3>3. Bytes(a + d, k) \subseteq Bytes(a, request.Size)
      BY <2>1, <3>2, Within
    <3> QED BY <3>1, <3>3 DEF BufferArea
  <2>4. BufferArea \subseteq DOMAIN memory /\ DOMAIN memory = Addresses
    BY <1>1, BufferIsMemory DEF TypeOK
  <2>5. WritesOnly(memory, moved, Bytes(a + d, k)) /\ DOMAIN moved = DOMAIN memory
    BY CopyWrites DEF moved, WritesOnly
  <2>6. Holds(moved, Lost, a + d, Start + d, k)
    <3>1. a + d \in Int /\ Start + d \in Int /\ k \in Int /\ a \in Int
      BY <2>1
    <3>2. Bytes(a + d, k) \subseteq DOMAIN memory
      BY <2>3, <2>4
    <3>3. d \in Nat /\ (a + d) - a = d
      BY <2>1
    <3>4. CASE d < MoveThreshold
      <4>1. (a + d) - a < MoveThreshold
        BY <3>3, <3>4
      <4> HIDE DEF d
      <4> QED BY <2>2, <3>1, <3>2, <4>1, MoveHolds DEF moved
    <3>5. CASE d >= MoveThreshold
      <4>1. (Start + d) + d .. (Start + d) + k - 1 \subseteq Lost
        <5>1. Lost = Start + 2 * d .. Start + d + k - 1
          BY <1>1, <2>1, <3>5 DEF Lost, Distance, k
        <5>2. (Start + d) + d = Start + 2 * d /\ (Start + d) + k - 1 = Start + d + k - 1
          BY <2>1
        <5> QED BY <5>1, <5>2
      <4> HIDE DEF d
      <4> QED BY <2>2, <3>1, <3>2, <3>3, <3>5, <4>1, MoveLoses DEF moved
    <3>6. MoveThreshold \in Nat
      BY DriveAssumption
    <3> QED BY <3>3, <3>4, <3>5, <3>6
  <2>7. ~EndAligned => Holds(moved, Lost, a + (request.Size - EndOffset),
                             Start + (request.Size - EndOffset), EndOffset)
    <3> SUFFICES ASSUME ~EndAligned
                 PROVE  Holds(moved, Lost, a + (request.Size - EndOffset),
                              Start + (request.Size - EndOffset), EndOffset)
      OBVIOUS
    <3> DEFINE address == a + (request.Size - EndOffset)
               byte == Start + (request.Size - EndOffset)
    <3>1. Holds(memory, Lost, address, byte, EndOffset)
      BY <2>2, <2>3 DEF EndKept, EndsWith
    <3>2. /\ address \in Int /\ byte \in Int /\ EndOffset \in Int
          /\ address + EndOffset <= a + request.Size /\ a <= address
          /\ a + d + k <= address /\ a + d \in Int /\ k \in Int
          /\ request.Size \in Int /\ a \in Int
      BY <2>1
    <3> HIDE DEF address, byte, d
    <3>3. Bytes(address, EndOffset) \subseteq DOMAIN memory
      <4>1. Bytes(address, EndOffset) \subseteq Bytes(a, request.Size)
        BY <3>2, Within
      <4> QED BY <2>3, <2>4, <4>1 DEF BufferArea
    <3>4. Bytes(address, EndOffset) \cap Bytes(a + d, k) = {}
      BY <3>2, Apart
    <3>5. Holds(moved, Lost, address, byte, EndOffset)
      BY <2>5, <3>1, <3>2, <3>3, <3>4, KeepHolds
    <3> QED BY <3>5 DEF address, byte
  <2>8. Holds(moved, Lost, a + d, Start + d, request.Size - d)
    <3>1. d \in Int /\ k \in Nat /\ Start \in Int
          /\ (EndAligned => d + k = request.Size)
          /\ (~EndAligned => d + k = request.Size - EndOffset)
      BY <2>1
    <3>2. \/ d + k = request.Size
          \/ /\ d + k = request.Size - EndOffset
             /\ Holds(moved, Lost, request.Buffer + (request.Size - EndOffset),
                      Start + (request.Size - EndOffset), EndOffset)
      BY <2>3, <2>7, <3>1
    <3>3. Holds(moved, Lost, request.Buffer + d, Start + d, k)
      BY <2>3, <2>6
    <3> HIDE DEF d
    <3>4. Holds(moved, Lost, request.Buffer + d, Start + d, request.Size - d)
      BY <1>1, <2>1, <3>1, <3>2, <3>3, EndJoined
    <3> QED BY <2>3, <3>4
  <2>9. /\ Bytes(p, b) \subseteq DOMAIN moved /\ Bytes(p, b) \cap BufferArea = {}
        /\ p \in Int
    BY <1>3, <2>4, <2>5, RequestAssumption DEF Grants, BufferArea
  <2>10. Bytes(p, b) \cap Bytes(a, b) = {}
    <3>1. Bytes(a, b) \subseteq BufferArea
      <4>1. a \in Int /\ b \in Int /\ request.Size \in Int /\ a <= a /\ a + b <= a + request.Size
        BY <2>1
      <4>2. Bytes(a, b) \subseteq Bytes(a, request.Size)
        BY <4>1, Within
      <4> QED BY <2>3, <4>2 DEF BufferArea
    <3> QED BY <2>9, <3>1
  <2>11. Holds(memory', Lost, a + d, Start + d, request.Size - d)
    <3>1. WritesOnly(moved, memory', Bytes(p, b))
      BY <1>3, CopyWrites
    <3>2. /\ a + d \in Int /\ Start + d \in Int /\ request.Size - d \in Int
          /\ a <= a + d /\ (a + d) + (request.Size - d) <= a + request.Size
          /\ a \in Int /\ request.Size \in Int
      BY <2>1
    <3> HIDE DEF d
    <3>3. Bytes(a + d, request.Size - d) \subseteq BufferArea
      <4>1. Bytes(a + d, request.Size - d) \subseteq Bytes(a, request.Size)
        BY <3>2, Within
      <4> QED BY <2>3, <4>1 DEF BufferArea
    <3>4. /\ Bytes(a + d, request.Size - d) \subseteq DOMAIN moved
          /\ Bytes(a + d, request.Size - d) \cap Bytes(p, b) = {}
      BY <2>4, <2>5, <2>9, <3>3
    <3> QED BY <2>8, <3>1, <3>2, <3>4, KeepHolds
  <2>12. Holds(memory', Lost, p + d, Start + d, StartOffset)
    <3>1. Holds(moved, Lost, a + d, Start + d, StartOffset)
      <4>1. /\ a + d \in Int /\ Start + d \in Int /\ request.Size - d \in Int
            /\ StartOffset \in Int /\ StartOffset <= request.Size - d
        BY <2>1
      <4> HIDE DEF d
      <4> QED BY <2>8, <4>1, PrefixHolds
    <3>2. /\ a \in Int /\ b \in Int /\ Start + d \in Int /\ d \in Nat /\ StartOffset \in Int
          /\ d + StartOffset <= b
      BY <2>1
    <3> HIDE DEF d
    <3> QED BY <1>3, <2>9, <2>10, <3>1, <3>2, CopyPart
  <2>13. EndsWith(request.Size - b)'
    <3>1. /\ a + d \in Int /\ Start + d \in Int /\ request.Size - d \in Int
          /\ StartOffset \in Nat /\ request.Size - b \in Int
          /\ StartOffset + (request.Size - b) <= request.Size - d
          /\ a + d + StartOffset = a + (request.Size - (request.Size - b))
          /\ Start + d + StartOffset = Start + (request.Size - (request.Size - b))
      BY <2>1
    <3> HIDE DEF d
    <3>2. Holds(memory', Lost, a + d + StartOffset, Start + d + StartOffset, request.Size - b)
      BY <2>11, <3>1, PartHolds
    <3>3. Start' = Start /\ request'.Buffer = a
      BY <1>1, <2>3, RequestKept
    <3> QED BY <1>1, <3>1, <3>2, <3>3, RequestKept DEF EndsWith
  <2>14. Fetched(request.Buffer, Start - StartOffset)'
    <3>1. io'.to = a /\ io'.lba = FirstSector
      BY <1>3 DEF Reads
    <3>2. FirstSector * BytesPerSector = Start - StartOffset
      BY <1>1, <2>1, SectorBytes
    <3>3. /\ request'.Buffer \in Int /\ (Start - StartOffset)' \in Int
          /\ io'.to = request'.Buffer
          /\ io'.lba * BytesPerSector = (Start - StartOffset)'
      BY <1>1, <2>1, <2>3, <3>1, <3>2, RequestKept
    <3> QED BY <3>3, StartsFetched DEF Fetched
  <2>15. Grants(temp.ptr, b)'
    BY <1>1, <1>3 DEF Grants
  <2>16. Holds(memory, Lost, temp.ptr + d, Start + d, StartOffset)'
    <3>1. temp'.ptr = p /\ d' = d /\ Start' = Start /\ StartOffset' = StartOffset
      BY <1>1, <1>3, RequestKept
    <3> QED BY <2>12, <3>1, <1>1, RequestKept
  <2> QED BY <1>3, <2>13, <2>14, <2>15, <2>16 DEF ContentInv
<1>4. request.Buffer + BytesPerSector - StartOffset = a + d
  <2>1. request.Size > 0
    BY <1>1, MiddleNumbers
  <2> QED BY <1>1, <2>1, Numbers
<1> QED BY <1>2, <1>3, <1>4 DEF MiddleRead

LEMMA FirstReadContent ==
  ASSUME ReadInv, FirstRead
  PROVE  ContentInv'
<1> DEFINE b == BytesPerSector
           d == b - StartOffset
           a == request.Buffer
           p == temp.ptr
           rest == request.Size - b
           moved == Memmove(memory, a, a + StartOffset, d)
<1>1. /\ at = "first" /\ io.left = 0 /\ PlacesInv /\ TypeOK /\ request' = request /\ at' = "free"
      /\ memory' = Memcpy(moved, a + d, p + d, StartOffset)
  BY DEF ReadInv, PlacesInv, FirstRead, Arrived
<1>2. /\ request.Size > 0 /\ request.Size \in Nat /\ a \in Nat /\ Start \in Nat
      /\ b \in Nat \ {0} /\ StartOffset \in 0 .. b - 1 /\ d \in 1 .. b /\ d + StartOffset = b
      /\ rest \in Nat /\ b + rest = request.Size /\ p \in Nat
      /\ request.Size - rest = b
  BY <1>1, DirectPlaces, Numbers DEF TypeOK
<1>3. /\ Bytes(p, b) \subseteq Addresses /\ Bytes(p, b) \cap BufferArea = {}
      /\ Fetched(a, Start - StartOffset)
      /\ Holds(memory, Lost, p + d, Start + d, StartOffset)
      /\ Holds(memory, Lost, a + b, Start + b, rest)
  BY <1>1, <1>2 DEF ReadInv, ContentInv, Grants, EndsWith, BufferArea
<1>4. Holds(memory, Lost, a, Start - StartOffset, b)
  <2>1. Fills(a, 1) /\ io \in [to : Int, lba : Int, left : Nat]
    BY <1>1 DEF PlacesInv, TransferInv, TypeOK
  <2>2. 1 * b = b /\ 0 * b = 0
    BY <1>2
  <2>3. io.to - a = b
    BY <1>1, <1>2, <2>1, <2>2 DEF Fills
  <2> QED BY <1>3, <2>3 DEF Fetched
<1>5. BufferArea = Bytes(a, request.Size) /\ BufferArea \subseteq DOMAIN memory
      /\ DOMAIN memory = Addresses
  BY <1>1, BufferIsMemory DEF BufferArea, TypeOK
<1> DEFINE byte == Start - StartOffset
           pd == p + d
           ab == a + b
           ad == a + d
           start == Start + d
<1>6. /\ byte \in Int /\ byte + StartOffset = Start /\ StartOffset \in Nat /\ b \in Int
      /\ a \in Int /\ d \in Nat /\ StartOffset + d = b /\ d + StartOffset = b
      /\ a + StartOffset \in Int /\ rest \in Nat /\ Start \in Int /\ Start + b \in Int
      /\ pd \in Int /\ ab \in Int /\ ad \in Int /\ start \in Int
      /\ pd >= p /\ pd + StartOffset = p + b /\ p \in Int
      /\ a <= ab /\ ab + rest = a + request.Size /\ request.Size \in Int
      /\ a <= ad /\ ad + StartOffset = ab /\ a + d = ad
      /\ a <= a /\ a + d <= ab /\ a + d <= a + request.Size /\ ad + StartOffset <= a + request.Size
      /\ ab + rest <= a + request.Size /\ pd + StartOffset <= p + b
  <2> HIDE DEF b, a, p
  <2>1. /\ byte \in Int /\ byte + StartOffset = Start /\ StartOffset \in Nat /\ b \in Int
        /\ a \in Int /\ d \in Nat /\ StartOffset + d = b /\ d + StartOffset = b
        /\ a + StartOffset \in Int /\ rest \in Nat /\ Start \in Int /\ Start + b \in Int
        /\ p \in Int /\ request.Size \in Int /\ b + rest = request.Size
    BY <1>2
  <2> HIDE DEF d, rest, byte
  <2> QED BY <2>1
<1> HIDE DEF b, d, a, p, rest, moved, byte, pd, ab, ad, start
<1>7. Bytes(a, d) \subseteq BufferArea /\ Bytes(ad, StartOffset) \subseteq BufferArea
      /\ Bytes(ab, rest) \subseteq BufferArea /\ Bytes(pd, StartOffset) \subseteq Bytes(p, b)
  BY <1>5, <1>6, Within
<1>8. WritesOnly(memory, moved, Bytes(a, d)) /\ DOMAIN moved = DOMAIN memory
  BY CopyWrites DEF moved, WritesOnly
<1>9. Holds(moved, Lost, a, Start, d)
  <2>1. Holds(memory, Lost, a + StartOffset, byte + StartOffset, d)
    <3>1. Holds(memory, Lost, a, byte, b)
      BY <1>4 DEF byte
    <3>2. a \in Int /\ b \in Int /\ byte \in Int /\ StartOffset \in Nat /\ d \in Int
          /\ StartOffset + d <= b
      BY <1>6
    <3> QED BY <3>1, <3>2, PartHolds
  <2>2. Bytes(a, d) \subseteq DOMAIN memory
    BY <1>5, <1>7
  <2>3. Holds(memory, Lost, a + StartOffset, Start, d)
    BY <1>6, <2>1
  <2>4. a - (a + StartOffset) < MoveThreshold
    <3>1. a - (a + StartOffset) = 0 - StartOffset
      BY <1>6
    <3> QED BY <1>6, <3>1, DriveAssumption
  <2> QED BY <1>6, <2>2, <2>3, <2>4, MoveHolds DEF moved
<1>10. Holds(moved, Lost, ab, Start + b, rest)
  <2>1. Bytes(ab, rest) \cap Bytes(a, d) = {}
    BY <1>6, Apart
  <2>2. Bytes(ab, rest) \subseteq DOMAIN memory
    BY <1>5, <1>7
  <2>3. Holds(memory, Lost, ab, Start + b, rest)
    BY <1>3 DEF ab
  <2> QED BY <1>6, <1>8, <2>1, <2>2, <2>3, KeepHolds
<1>11. Holds(moved, Lost, pd, start, StartOffset)
  <2>1. Bytes(pd, StartOffset) \cap Bytes(a, d) = {}
    BY <1>3, <1>7
  <2>2. Bytes(pd, StartOffset) \subseteq DOMAIN memory
    BY <1>3, <1>5, <1>7
  <2>3. Holds(memory, Lost, pd, start, StartOffset)
    BY <1>3 DEF pd, start
  <2> QED BY <1>6, <1>8, <2>1, <2>2, <2>3, KeepHolds
<1>12. memory' = Memcpy(moved, ad, pd, StartOffset)
       /\ WritesOnly(moved, memory', Bytes(ad, StartOffset))
  <2>1. memory' = Memcpy(moved, ad, pd, StartOffset)
    BY <1>1 DEF ad, pd
  <2> QED BY <2>1, CopyWrites
<1>13. Holds(memory', Lost, ad, start, StartOffset)
  <2>1. Bytes(ad, StartOffset) \cap Bytes(pd, StartOffset) = {}
    BY <1>3, <1>7
  <2>2. Bytes(ad, StartOffset) \subseteq DOMAIN moved
    BY <1>5, <1>7, <1>8
  <2> QED BY <1>6, <1>11, <1>12, <2>1, <2>2, CopyHolds
<1>14. Holds(memory', Lost, a, Start, d)
  <2>1. Bytes(a, d) \cap Bytes(ad, StartOffset) = {}
    BY <1>6, Apart
  <2>2. Bytes(a, d) \subseteq DOMAIN moved
    BY <1>5, <1>7, <1>8
  <2> QED BY <1>6, <1>9, <1>12, <2>1, <2>2, KeepHolds
<1>15. Holds(memory', Lost, ab, Start + b, rest)
  <2>1. Bytes(ab, rest) \cap Bytes(ad, StartOffset) = {}
    BY <1>6, Apart
  <2>2. Bytes(ab, rest) \subseteq DOMAIN moved
    BY <1>5, <1>7, <1>8
  <2> QED BY <1>6, <1>10, <1>12, <2>1, <2>2, KeepHolds
<1>16. Holds(memory', Lost, a, Start, b)
  <2>1. Holds(memory', Lost, a + d, Start + d, StartOffset)
    BY <1>13 DEF ad, start
  <2> QED BY <1>6, <1>14, <2>1, JoinedHolds
<1>17. Holds(memory', Lost, a, Start, request.Size)
  <2>1. Holds(memory', Lost, a + b, Start + b, rest)
    BY <1>15 DEF ab
  <2>2. b \in Nat /\ b + rest = request.Size
    BY <1>2 DEF rest
  <2> QED BY <1>6, <1>16, <2>1, <2>2, JoinedHolds
<1>18. Filled'
  BY <1>1, <1>17, RequestKept DEF Filled, a
<1> QED BY <1>1, <1>18 DEF ContentInv

\* What a call of the driver adds to a transfer.
LEMMA FetchedGrows ==
  ASSUME TypeOK, SectorsRead, NEW address \in Int, NEW byte \in Int, address <= io.to,
         Fetched(address, byte),
         NEW n \in Nat, n * BytesPerSector \in Nat,
         io'.to = io.to + n * BytesPerSector, io'.lba = io.lba + n,
         memory' = FromDisk(memory, io.to, io.lba, n),
         Bytes(address, io'.to - address) \subseteq DOMAIN memory
  PROVE  /\ io'.lba * BytesPerSector = byte + (io'.to - address)
         /\ Holds(memory', Lost, address, byte, io'.to - address)
<1> DEFINE k == n * BytesPerSector
           got == io.to - address
           old == io.lba * BytesPerSector
           to == io.to
<1>1. /\ io.lba \in Int /\ to \in Int /\ BytesPerSector \in Nat /\ k \in Nat /\ got \in Nat
      /\ address + got = to /\ to + 0 = to
  BY RequestTypes DEF TypeOK
<1>2. old \in Int /\ (io.lba + n) * BytesPerSector = old + k
  BY <1>1
<1>3. old = byte + got /\ Holds(memory, Lost, address, byte, got)
  BY DEF Fetched
<1> HIDE DEF k, got, old, to
<1>4. io'.to = to + k /\ io'.to - address = got + k /\ address + got = to
  BY <1>1 DEF k, to
<1>5. io'.lba * BytesPerSector = byte + (got + k)
  BY <1>1, <1>2, <1>3 DEF k
<1>6. Bytes(to, k) \subseteq DOMAIN memory
  <2>1. Bytes(to, k) \subseteq Bytes(address, got + k)
    BY <1>1, Within
  <2> QED BY <1>4, <2>1
<1>7. memory' = FromDisk(memory, to, io.lba, n)
  BY DEF to
<1>8. WritesOnly(memory, memory', Bytes(to, k))
  BY <1>7, DiskWrites DEF k
<1>9. Holds(memory', Lost, to, old, k)
  <2>1. /\ n * BytesPerSector \in Int /\ io.lba * BytesPerSector \in Int
        /\ Bytes(to, n * BytesPerSector) \subseteq DOMAIN memory
        /\ to \in Int /\ io.lba \in Int /\ n \in Int
    BY <1>1, <1>2, <1>6 DEF k, old
  <2>2. Holds(FromDisk(memory, to, io.lba, n), Lost, to, io.lba * BytesPerSector,
              n * BytesPerSector)
    BY <2>1, DiskHolds
  <2> QED BY <1>7, <2>2 DEF k, old
<1>10. Holds(memory', Lost, address, byte, got)
  <2>1. Bytes(address, got) \cap Bytes(to, k) = {}
    BY <1>1, Apart
  <2>2. Bytes(address, got) \subseteq DOMAIN memory
    <3>1. Bytes(address, got) \subseteq Bytes(address, got + k)
      BY <1>1, Within
    <3> QED BY <1>4, <3>1
  <2> QED BY <1>1, <1>3, <1>8, <2>1, <2>2, KeepHolds
<1>11. Holds(memory', Lost, address, byte, got + k)
  <2>1. Holds(memory', Lost, address + got, byte + got, k)
    BY <1>3, <1>4, <1>9
  <2> QED BY <1>1, <1>10, <2>1, JoinedHolds
<1> QED BY <1>4, <1>5, <1>11

\* A transfer that goes directly to the buffer stays away from what is there already.
LEMMA DirectTransfer ==
  ASSUME PlacesInv, at \in {"last", "whole", "middle", "first"}
  PROVE  /\ io.to >= request.Buffer
         /\ io.to + io.left * BytesPerSector <= request.Buffer + request.Size
         /\ at \in {"whole", "middle"} /\ ~EndAligned =>
              io.to + io.left * BytesPerSector <= request.Buffer + (request.Size - EndOffset)
         /\ at = "first" =>
              io.to + io.left * BytesPerSector = request.Buffer + BytesPerSector
<1> DEFINE b == BytesPerSector
           n == SectorsLeft * b
           k == (SectorsLeft - 1) * b
           to == io.to + io.left * b
<1>1. /\ request.Size > 0 /\ BufferAligned /\ TypeOK
      /\ io.to >= request.Buffer
      /\ at \in {"last", "first"} => to = request.Buffer + 1 * b
      /\ at = "whole" => to = request.Buffer + n /\ StartOffset = 0
      /\ at = "middle" => to = request.Buffer + k
  BY DEF PlacesInv, TransferInv, Fills, StartAligned
<1>2. /\ n \in Nat /\ k = n - b /\ 1 * b = b /\ b \in Nat /\ StartOffset \in 0 .. b - 1
      /\ n - StartOffset <= request.Size /\ b + EndOffset <= request.Size
      /\ request.Size \in Nat /\ EndOffset \in Nat /\ request.Buffer \in Nat
      /\ ~EndAligned => n = request.Size + StartOffset - EndOffset
  BY <1>1, DirectRoom, LeftBytes, Numbers
<1> HIDE DEF n, k, b, to
<1>3. /\ to <= request.Buffer + request.Size
      /\ at \in {"whole", "middle"} /\ ~EndAligned =>
           to <= request.Buffer + (request.Size - EndOffset)
      /\ at = "first" => to = request.Buffer + b
  BY <1>1, <1>2
<1> QED BY <1>1, <1>3 DEF to, b

LEMMA SectorsReadContent ==
  ASSUME ReadInv, SectorsRead
  PROVE  ContentInv'
<1> DEFINE b == BytesPerSector
           n == IF request.Volume.Method = "Efi" \/ io.left < SectorsPerRead
                THEN io.left ELSE SectorsPerRead
           k == n * b
<1>1. /\ io.left > 0 /\ request' = request /\ at' = at /\ temp' = temp /\ status' = status
      /\ memory' = FromDisk(memory, io.to, io.lba, n)
      /\ io' = [to |-> io.to + n * b, lba |-> io.lba + n, left |-> io.left - n]
      /\ PlacesInv /\ TypeOK /\ ContentInv
  BY DEF ReadInv, PlacesInv, SectorsRead
<1>2. /\ io.left \in Nat /\ io.to \in Int /\ io.lba \in Int /\ b \in Nat \ {0}
      /\ n \in Nat /\ n \in 1 .. io.left
  BY <1>1, DriveAssumption DEF TypeOK
<1>3. /\ io'.to = io.to + n * b /\ io'.lba = io.lba + n
      /\ k \in Nat /\ io.left * b \in Nat /\ k <= io.left * b
  <2>1. io'.to = io.to + n * b /\ io'.lba = io.lba + n
    BY <1>1
  <2> HIDE DEF n, b
  <2>2. (io.left - n) * b \in Nat /\ n * b \in Nat /\ io.left * b \in Nat
    BY <1>2, Products
  <2>3. (io.left - n) * b = io.left * b - n * b
    BY <1>2, Minus
  <2> QED BY <2>1, <2>2, <2>3
<1>4. at \in {"last", "whole", "middle", "first", "bounce"}
  BY <1>1 DEF PlacesInv, TypeOK, TransferInv
<1>5. request.Size > 0
  BY <1>1, <1>4 DEF PlacesInv, TransferInv
<1>6. /\ request.Size \in Nat /\ request.Buffer \in Nat /\ Start \in Nat
      /\ StartOffset \in 0 .. b - 1 /\ EndOffset \in 1 .. b
  BY <1>1, <1>5, Numbers
<1>7. WritesOnly(memory, memory', Bytes(io.to, k))
  BY <1>1, DiskWrites
<1>8. BufferArea \subseteq DOMAIN memory
  BY <1>1, BufferIsMemory
<1> HIDE DEF n
<1>9. CASE at \in {"last", "whole", "middle", "first"}
  <2>1. /\ io.to >= request.Buffer
        /\ io.to + io.left * b <= request.Buffer + request.Size
        /\ at \in {"whole", "middle"} /\ ~EndAligned =>
              io.to + io.left * b <= request.Buffer + (request.Size - EndOffset)
        /\ at = "first" => io.to + io.left * b = request.Buffer + b
    BY <1>1, <1>9, DirectTransfer
  <2>2. /\ io'.to >= request.Buffer /\ io'.to <= request.Buffer + request.Size
        /\ at \in {"whole", "middle"} /\ ~EndAligned =>
              io.to + k <= request.Buffer + (request.Size - EndOffset)
        /\ at = "first" => io.to + k <= request.Buffer + b
        /\ request.Buffer <= io.to /\ io'.to \in Int
    BY <1>2, <1>3, <1>6, <2>1
  <2>3. Bytes(request.Buffer, io'.to - request.Buffer) \subseteq DOMAIN memory
    <3>1. Bytes(request.Buffer, io'.to - request.Buffer) \subseteq BufferArea
      BY <1>6, <2>2, Within DEF BufferArea
    <3> QED BY <1>8, <3>1
  <2>4. ASSUME NEW byte \in Int, Fetched(request.Buffer, byte)
        PROVE  /\ io'.lba * BytesPerSector = byte + (io'.to - request.Buffer)
               /\ Holds(memory', Lost, request.Buffer, byte, io'.to - request.Buffer)
    <3>1. request.Buffer \in Int /\ n * BytesPerSector \in Nat
      BY <1>3, <1>6
    <3> QED BY <1>1, <1>2, <1>3, <2>2, <2>3, <2>4, <3>1, FetchedGrows
  <2>5. at \in {"whole", "middle"} /\ EndKept => EndKept'
    <3>1. CASE EndAligned
      BY <1>1, <3>1, RequestKept DEF EndKept
    <3>2. ASSUME ~EndAligned, at \in {"whole", "middle"}, EndKept
          PROVE  EndKept'
      <4>1. EndOffset <= request.Size
        <5>1. BufferAligned
          BY <1>1, <3>2 DEF PlacesInv, TransferInv
        <5>2. b + EndOffset <= request.Size
          BY <1>1, <1>5, <5>1, DirectRoom
        <5> QED BY <1>2, <1>6, <5>2
      <4>2. io.to + k <= request.Buffer + (request.Size - EndOffset)
        BY <2>2, <3>2
      <4> HIDE DEF k
      <4>3. k \in Int
        BY <1>3
      <4> QED BY <1>1, <1>2, <1>5, <1>7, <3>2, <4>1, <4>2, <4>3, EndStays
    <3> QED BY <3>1, <3>2
  <2>6. CASE at = "last"
    <3> DEFINE byte == Start + (request.Size - EndOffset)
    <3>1. byte \in Int /\ Fetched(request.Buffer, byte)
      BY <1>1, <1>6, <2>6 DEF ContentInv
    <3>2. byte' = byte
      BY <1>1, RequestKept
    <3> HIDE DEF byte
    <3>3. Fetched(request.Buffer, byte)'
      BY <1>1, <2>4, <3>1, <3>2, RequestKept DEF Fetched
    <3> QED BY <1>1, <2>6, <3>3 DEF ContentInv, byte
  <2>7. CASE at = "whole"
    <3>1. Start \in Int /\ Fetched(request.Buffer, Start) /\ EndKept
      BY <1>1, <1>6, <2>7 DEF ContentInv
    <3>2. Start' = Start
      BY <1>1, RequestKept
    <3>3. Fetched(request.Buffer, Start)'
      BY <1>1, <2>4, <3>1, <3>2, RequestKept DEF Fetched
    <3> QED BY <1>1, <2>5, <2>7, <3>1, <3>3 DEF ContentInv
  <2>8. CASE at = "middle"
    <3> DEFINE byte == Start + (BytesPerSector - StartOffset)
    <3>1. byte \in Int /\ Fetched(request.Buffer, byte) /\ EndKept
      BY <1>1, <1>2, <1>6, <2>8 DEF ContentInv
    <3>2. byte' = byte
      BY <1>1, RequestKept
    <3> HIDE DEF byte
    <3>3. Fetched(request.Buffer, byte)'
      BY <1>1, <2>4, <3>1, <3>2, RequestKept DEF Fetched
    <3> QED BY <1>1, <2>5, <2>8, <3>1, <3>3 DEF ContentInv, byte
  <2>9. CASE at = "first"
    <3> DEFINE byte == Start - StartOffset
               p == temp.ptr
               d == b - StartOffset
               rest == request.Size - b
    <3>1. /\ byte \in Int /\ Fetched(request.Buffer, byte) /\ Grants(p, b)
          /\ Holds(memory, Lost, p + d, Start + d, StartOffset) /\ EndsWith(rest)
      BY <1>1, <1>6, <2>9 DEF ContentInv
    <3>2. byte' = byte /\ d' = d /\ p' = p /\ rest' = rest /\ Start' = Start
          /\ StartOffset' = StartOffset /\ request'.Buffer = request.Buffer
          /\ request'.Size = request.Size
      BY <1>1, RequestKept
    <3>3. /\ p \in Int /\ b + EndOffset <= request.Size /\ d + StartOffset = b /\ d \in Nat
          /\ rest \in Nat /\ b + rest = request.Size /\ request.Size - rest = b
      BY <1>1, <1>6, <2>9, DirectPlaces DEF TypeOK
    <3> HIDE DEF byte, p, d, rest, b, k
    <3>4. Fetched(request.Buffer, byte)'
      BY <1>1, <2>4, <3>1, <3>2, RequestKept DEF Fetched
    <3>5. Bytes(io.to, k) \subseteq Bytes(request.Buffer, b)
      BY <1>2, <1>3, <1>6, <2>2, <2>9, Within
    <3>6. Bytes(request.Buffer, b) \subseteq BufferArea
      BY <1>2, <1>6, <3>3, Within DEF BufferArea
    <3>7. Holds(memory', Lost, p + d, Start + d, StartOffset)
      <4>1. Bytes(p + d, StartOffset) \subseteq Bytes(p, b)
        BY <1>2, <1>6, <3>3, Within
      <4>2. Bytes(p, b) \subseteq DOMAIN memory /\ Bytes(p, b) \cap BufferArea = {}
        BY <1>1, <3>1 DEF Grants, BufferArea, TypeOK
      <4>3. /\ Bytes(p + d, StartOffset) \cap Bytes(io.to, k) = {}
            /\ Bytes(p + d, StartOffset) \subseteq DOMAIN memory
        BY <3>5, <3>6, <4>1, <4>2
      <4>4. p + d \in Int /\ Start + d \in Int /\ StartOffset \in Int
        BY <1>6, <3>3
      <4> QED BY <1>7, <3>1, <4>3, <4>4, KeepHolds
    <3>8. EndsWith(rest)'
      <4>1. Holds(memory, Lost, request.Buffer + b, Start + b, rest)
        BY <3>1, <3>3 DEF EndsWith
      <4>2. request.Buffer + b \in Int /\ Start + b \in Int /\ rest \in Int
            /\ request.Buffer <= request.Buffer + b
            /\ request.Buffer + b + rest <= request.Buffer + request.Size
        BY <1>2, <1>6, <3>3
      <4>3. Bytes(request.Buffer + b, rest) \subseteq DOMAIN memory
        <5>1. Bytes(request.Buffer + b, rest) \subseteq BufferArea
          BY <1>6, <4>2, Within DEF BufferArea
        <5> QED BY <1>8, <5>1
      <4>4. Bytes(request.Buffer + b, rest) \cap Bytes(io.to, k) = {}
        BY <1>2, <1>3, <2>2, <2>9, <4>2, Apart
      <4>5. Holds(memory', Lost, request.Buffer + b, Start + b, rest)
        BY <1>7, <4>1, <4>2, <4>3, <4>4, KeepHolds
      <4> QED BY <3>2, <3>3, <4>5, <1>1, RequestKept DEF EndsWith
    <3>9. Grants(p, b)'
      BY <1>1, <3>1, <3>2 DEF Grants, b
    <3> QED BY <1>1, <2>9, <3>2, <3>4, <3>7, <3>8, <3>9, RequestKept DEF ContentInv, byte, p, d, rest, b
  <2> QED BY <1>9, <2>6, <2>7, <2>8, <2>9
<1>10. CASE at = "bounce"
  <2> DEFINE a == TempAddress(temp.ptr)
             byte == Start - StartOffset
             m == NumSectors * b
  <2>1. /\ Fills(a, NumSectors) /\ temp.size = Alignment + m /\ temp.ptr \in Nat
        /\ Fetched(a, byte) /\ Grants(temp.ptr, temp.size)
    BY <1>1, <1>10 DEF PlacesInv, TransferInv, TypeOK, ContentInv
  <2>2. /\ a \in Int /\ a >= temp.ptr /\ a <= temp.ptr + Alignment /\ Alignment \in Nat
        /\ m \in Nat /\ byte \in Int
    BY <1>1, <1>5, <1>6, <2>1, TempAligned, RequestTypes, Geometry
  <2>3. a <= io.to /\ io.to + io.left * b = a + m
    BY <2>1 DEF Fills
  <2>4. a' = a /\ byte' = byte
    BY <1>1, RequestKept DEF TempAddress
  <2> HIDE DEF a, byte, m, k
  <2>5. Bytes(a, io'.to - a) \subseteq DOMAIN memory
    <3>1. io'.to \in Int /\ temp.size \in Int /\ a + (io'.to - a) <= temp.ptr + temp.size
      BY <1>2, <1>3, <2>1, <2>2, <2>3 DEF k
    <3>2. Bytes(a, io'.to - a) \subseteq Bytes(temp.ptr, temp.size)
      BY <2>1, <2>2, <3>1, Within
    <3> QED BY <1>1, <2>1, <3>2 DEF Grants, TypeOK
  <2>6. n * BytesPerSector \in Nat
    BY <1>3 DEF k
  <2>7. /\ io'.lba * BytesPerSector = byte + (io'.to - a)
        /\ Holds(memory', Lost, a, byte, io'.to - a)
    BY <1>1, <1>2, <1>3, <2>1, <2>2, <2>3, <2>5, <2>6, FetchedGrows
  <2>8. Fetched(a, byte)'
    BY <1>1, <2>4, <2>7, RequestKept DEF Fetched
  <2>9. Grants(temp.ptr, temp.size)'
    BY <1>1, <2>1 DEF Grants
  <2> QED BY <1>1, <1>10, <2>8, <2>9 DEF ContentInv, a, byte
<1> QED BY <1>4, <1>9, <1>10

LEMMA EndContent ==
  ASSUME ReadInv, SectorsFail \/ FreeTemp
  PROVE  ContentInv'
<1>1. request' = request /\ memory' = memory
  BY DEF SectorsFail, FreeTemp
<1>2. CASE SectorsFail
  <2>1. at' \in {"free", "done"} /\ status' = FALSE
    BY <1>2 DEF SectorsFail, Return
  <2> QED BY <2>1 DEF ContentInv
<1>3. CASE FreeTemp
  <2>1. at = "free" /\ at' = "done" /\ (status' => status)
    BY <1>3 DEF FreeTemp, Return
  <2>2. status => Filled
    BY <2>1 DEF ReadInv, ContentInv
  <2>3. status' => Filled'
    BY <1>1, <2>1, <2>2, RequestKept DEF Filled
  <2> QED BY <2>1, <2>3 DEF ContentInv
<1> QED BY <1>2, <1>3

LEMMA InitContent == Init => ContentInv
BY DEF Init, ContentInv

LEMMA NextContent ==
  ASSUME ReadInv, [Next]_vars
  PROVE  ContentInv'
<1>1. CASE UNCHANGED vars
  <2>1. /\ request' = request /\ at' = at /\ io' = io
        /\ memory' = memory /\ temp' = temp /\ status' = status
    BY <1>1 DEF vars
  <2>2. /\ EndKept' = EndKept /\ Filled' = Filled
        /\ EndsWith(request.Size - BytesPerSector)' = EndsWith(request.Size - BytesPerSector)
        /\ Grants(temp.ptr, BytesPerSector)' = Grants(temp.ptr, BytesPerSector)
        /\ Grants(temp.ptr, temp.size)' = Grants(temp.ptr, temp.size)
    BY <2>1, RequestKept DEF EndKept, EndsWith, Filled, Grants
  <2>3. TempAddress(temp.ptr)' = TempAddress(temp.ptr)
    BY <2>1, RequestKept DEF TempAddress
  <2> QED BY <2>1, <2>2, <2>3, RequestKept DEF ReadInv, ContentInv, Fetched
<1>2. CASE Next
  BY <1>2, BeginContent, SectorsReadContent, LastReadContent, WholeReadContent,
     MiddleReadContent, FirstReadContent, BounceReadContent, EndContent
  DEF Next
<1> QED BY <1>1, <1>2

-----------------------------------------------------------------------------
(***************************************************************************)
(* The invariant holds at every step of ReadDisk().                        *)
(***************************************************************************)
THEOREM ReadInvariant == Spec => []ReadInv
<1>1. Init => ReadInv
  BY InitKeeps, InitContent DEF ReadInv
<1>2. ReadInv /\ [Next]_vars => ReadInv'
  <2> SUFFICES ASSUME ReadInv, [Next]_vars PROVE ReadInv'
    OBVIOUS
  <2>1. PlacesInv'
    BY NextKeeps DEF ReadInv
  <2>2. ContentInv'
    BY NextContent
  <2> QED BY <2>1, <2>2 DEF ReadInv
<1> QED BY <1>1, <1>2, PTL DEF Spec

(***************************************************************************)
(* Disk.c:272: every transfer of an Efi volume goes to an address with the *)
(* alignment that its driver asks for.                                     *)
(***************************************************************************)
THEOREM TransfersAlwaysAligned == Spec => []TransfersAligned
<1>1. ReadInv => TransfersAligned
  BY DEF ReadInv, PlacesInv
<1> QED BY <1>1, ReadInvariant, PTL

(***************************************************************************)
(* Until it returns, ReadDisk() has written nothing outside of the buffer  *)
(* of the caller and of the temporary buffer that it has got.              *)
(***************************************************************************)
THEOREM WritesAlwaysInside == Spec => []WritesStayInside
<1>1. ReadInv => WritesStayInside
  BY DEF ReadInv, PlacesInv
<1> QED BY <1>1, ReadInvariant, PTL

(***************************************************************************)
(* Disk.c:465: ReadDisk() never returns with a temporary buffer that it    *)
(* has not given to Free(), on whatever path it failed.                    *)
(***************************************************************************)
THEOREM TempAlwaysGivenBack == Spec => []TempGivenBack
<1>1. ReadInv => TempGivenBack
  BY DEF ReadInv, PlacesInv, TransferInv, TempGivenBack
<1> QED BY <1>1, ReadInvariant, PTL

(***************************************************************************)
(* When ReadDisk() returns true, each byte of the buffer of the caller is  *)
(* the byte of the drive that was asked for: however the request, the      *)
(* sectors and the alignment of the volume lie, and however many calls the *)
(* transfers took.  The exception are the bytes that Memmove() loses, when *)
(* an aligned buffer is to have the end of a sector of MoveThreshold bytes *)
(* or more first, and whole sectors after it: of what moves, all but as    *)
(* many bytes as it moves by.                                              *)
(***************************************************************************)
THEOREM BytesAlwaysArrive == Spec => []BytesArrive
<1>1. ReadInv => BytesArrive
  BY DEF ReadInv, ContentInv, Filled, Holds, BytesArrive
<1> QED BY <1>1, ReadInvariant, PTL
=============================================================================
