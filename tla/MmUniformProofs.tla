--------------------------- MODULE MmUniformProofs ---------------------------
(***************************************************************************)
(* Theorems about the allocator and clients of SpecUniform, for every      *)
(* memory map without bridges: their merges are sound.  Before the steps   *)
(* of the calls, one after the other, come numbers and their bits, and     *)
(* positions.                                                              *)
(***************************************************************************)
EXTENDS MmUniform, MmProofs

(***************************************************************************)
(* Multiples of a number.                                                  *)
(***************************************************************************)
LEMMA MultipleIs ==
  ASSUME NEW n \in Nat, NEW b \in Nat \ {0}
  PROVE  n % b = 0 <=> \E q \in Nat : n = q * b
<1>1. n = b * (n \div b) + (n % b) /\ n \div b \in Nat /\ n % b \in 0 .. b - 1
  OBVIOUS
<1>2. ASSUME NEW q \in Nat, n = q * b
      PROVE  n % b = 0
  <2>1. PICK d, r : d = n \div b /\ r = n % b
    OBVIOUS
  <2>2. d \in Nat /\ r \in 0 .. b - 1 /\ q * b = b * d + r
    BY <1>1, <1>2, <2>1
  <2>3. (q - d) * b = r
    BY <2>2
  <2>4. q - d = 0
    <3>1. CASE q - d >= 1
      <4>1. (q - d) * b >= b
        BY <3>1, <2>2
      <4> QED BY <4>1, <2>2, <2>3
    <3>2. CASE q - d <= -1
      <4>1. (q - d) * b <= -b
        BY <3>2, <2>2
      <4> QED BY <4>1, <2>2, <2>3
    <3> QED BY <3>1, <3>2, <2>2
  <2> QED BY <2>1, <2>3, <2>4
<1>3. ASSUME n % b = 0
      PROVE  \E q \in Nat : n = q * b
  <2>1. n = (n \div b) * b
    BY <1>1, <1>3
  <2> QED BY <1>1, <2>1
<1> QED BY <1>2, <1>3

LEMMA MultipleGap ==
  ASSUME NEW b \in Nat \ {0}, NEW q \in Nat, NEW r \in Nat, q * b < r * b
  PROVE  q * b + b <= r * b
<1>1. q < r
  OBVIOUS
<1>2. (r - q) * b >= b
  BY <1>1
<1> QED BY <1>2

LEMMA MultipleParity ==
  ASSUME NEW q \in Nat
  PROVE  (\E r \in Nat : q = 2 * r) <=> ~(\E r \in Nat : q + 1 = 2 * r)
<1>1. q % 2 \in {0, 1} /\ q = 2 * (q \div 2) + (q % 2) /\ q \div 2 \in Nat
  OBVIOUS
<1>2. CASE q % 2 = 0
  BY <1>1, <1>2
<1>3. CASE q % 2 = 1
  <2>1. q + 1 = 2 * ((q \div 2) + 1)
    BY <1>1, <1>3
  <2> QED BY <1>1, <1>3, <2>1
<1> QED BY <1>1, <1>2, <1>3

(***************************************************************************)
(* Pages that blocks of a level may start at.                              *)
(***************************************************************************)
AllLevels == 0 .. MaxLevel + 1

LEMMA SizesOfLevels ==
  /\ Levels \subseteq AllLevels /\ AllLevels \subseteq Nat /\ MaxLevel \in Levels
  /\ \A l \in Levels : l + 1 \in AllLevels
  /\ \A l \in AllLevels : BlockPages[l] \in Nat \ {0}
  /\ \A l \in Levels : BlockPages[l + 1] = 2 * BlockPages[l]
  /\ 0 \in Levels /\ BlockPages[0] = 1
BY LevelAssumption DEF Levels, AllLevels

LEMMA AlignedIs ==
  ASSUME NEW p \in Nat, NEW l \in AllLevels
  PROVE  Aligned(p, l) <=> \E q \in Nat : p = q * BlockPages[l]
BY MultipleIs, SizesOfLevels DEF Aligned

LEMMA AlignedZero ==
  ASSUME NEW l \in AllLevels
  PROVE  Aligned(0, l)
<1>1. 0 = 0 * BlockPages[l]
  BY SizesOfLevels
<1> QED BY <1>1, AlignedIs

LEMMA AlignedGap ==
  ASSUME NEW l \in AllLevels, NEW p \in Nat, NEW q \in Nat,
         Aligned(p, l), Aligned(q, l), p < q
  PROVE  p + BlockPages[l] <= q
<1>1. PICK r \in Nat : p = r * BlockPages[l]
  BY AlignedIs
<1>2. PICK s \in Nat : q = s * BlockPages[l]
  BY AlignedIs
<1>3. PICK b \in Nat \ {0} : b = BlockPages[l]
  BY SizesOfLevels
<1> QED BY <1>1, <1>2, <1>3, MultipleGap

LEMMA AlignedStep ==
  ASSUME NEW l \in AllLevels, NEW p \in Nat
  PROVE  /\ Aligned(p, l) => Aligned(p + BlockPages[l], l)
         /\ Aligned(p + BlockPages[l], l) => Aligned(p, l)
<1>1. PICK b \in Nat \ {0} : b = BlockPages[l]
  BY SizesOfLevels
<1>2. ASSUME Aligned(p, l)
      PROVE  Aligned(p + b, l)
  <2>1. PICK r \in Nat : p = r * b
    BY <1>1, <1>2, AlignedIs
  <2>2. p + b = (r + 1) * b
    BY <2>1
  <2> QED BY <1>1, <2>2, AlignedIs
<1>3. ASSUME Aligned(p + b, l)
      PROVE  Aligned(p, l)
  <2>1. PICK r \in Nat : p + b = r * b
    BY <1>1, <1>3, AlignedIs
  <2>2. r # 0
    BY <2>1
  <2>3. p = (r - 1) * b
    BY <2>1
  <2> QED BY <1>1, <2>2, <2>3, AlignedIs
<1> QED BY <1>1, <1>2, <1>3

\* Every other page of a level is one of the next level.
LEMMA AlignedHalves ==
  ASSUME NEW l \in Levels, NEW p \in Nat
  PROVE  /\ Aligned(p, l + 1) => Aligned(p, l)
         /\ Aligned(p, l) => (Aligned(p, l + 1) <=> ~Aligned(p + BlockPages[l], l + 1))
<1>1. PICK b \in Nat \ {0} : b = BlockPages[l] /\ 2 * b = BlockPages[l + 1]
  BY SizesOfLevels
<1>2. ASSUME NEW n \in Nat
      PROVE  /\ Aligned(n, l) <=> \E q \in Nat : n = q * b
             /\ Aligned(n, l + 1) <=> \E q \in Nat : n = q * (2 * b)
  BY <1>1, AlignedIs, SizesOfLevels
<1>3. ASSUME NEW n \in Nat, Aligned(n, l + 1)
      PROVE  Aligned(n, l)
  <2>1. PICK q \in Nat : n = q * (2 * b)
    BY <1>2, <1>3
  <2>2. n = (2 * q) * b
    BY <2>1
  <2> QED BY <1>2, <2>2
<1>4. ASSUME NEW q \in Nat
      PROVE  Aligned(q * b, l + 1) <=> \E r \in Nat : q = 2 * r
  <2>1. ASSUME NEW r \in Nat, q * b = r * (2 * b)
        PROVE  q = 2 * r
    <3>1. (q - (2 * r)) * b = 0
      BY <2>1
    <3> QED BY <3>1
  <2>2. ASSUME NEW r \in Nat, q = 2 * r
        PROVE  q * b = r * (2 * b)
    BY <2>2
  <2> QED BY <1>2, <2>1, <2>2
<1>5. ASSUME Aligned(p, l)
      PROVE  Aligned(p, l + 1) <=> ~Aligned(p + b, l + 1)
  <2>1. PICK q \in Nat : p = q * b
    BY <1>2, <1>5
  <2>2. p + b = (q + 1) * b /\ q + 1 \in Nat
    BY <2>1
  <2>3. Aligned(p, l + 1) <=> \E r \in Nat : q = 2 * r
    BY <1>4, <2>1
  <2>4. Aligned(p + b, l + 1) <=> \E r \in Nat : q + 1 = 2 * r
    BY <1>4, <2>2
  <2> QED BY <2>3, <2>4, MultipleParity
<1> QED BY <1>1, <1>3, <1>5

LEMMA AlignedBelow ==
  ASSUME NEW k \in AllLevels, NEW l \in AllLevels, k <= l, NEW p \in Nat, Aligned(p, l)
  PROVE  Aligned(p, k)
<1> DEFINE S == {n \in Nat : n <= l /\ ~Aligned(p, l - n)}
<1>1. SUFFICES S = {}
  <2>1. l - k \in Nat /\ l - k <= l /\ l - (l - k) = k
    BY SizesOfLevels
  <2> QED BY <1>1, <2>1
<1>2. SUFFICES ASSUME S # {}
               PROVE  FALSE
  OBVIOUS
<1>3. PICK n \in S : \A m \in S : n <= m
  <2>1. S \in SUBSET Nat
    OBVIOUS
  <2> QED BY <1>2, <2>1, LeastExists
<1>4. n # 0
  <2>1. l - 0 = l
    BY SizesOfLevels
  <2> QED BY <1>3, <2>1
<1>5. n - 1 \in Nat /\ n - 1 <= l /\ l - (n - 1) = (l - n) + 1 /\ l - n \in Nat /\ n - 1 < n
  BY <1>3, <1>4, SizesOfLevels
<1>6. Aligned(p, (l - n) + 1)
  <2>1. n - 1 \notin S
    BY <1>3, <1>5
  <2> QED BY <1>5, <2>1
<1>7. l - n \in Levels
  BY <1>3, <1>4, <1>5, SizesOfLevels DEF AllLevels, Levels
<1> QED BY <1>3, <1>6, <1>7, AlignedHalves

LEMMA SizesGrow ==
  ASSUME NEW k \in AllLevels, NEW l \in AllLevels, k <= l
  PROVE  BlockPages[k] <= BlockPages[l] /\ (k < l => 2 * BlockPages[k] <= BlockPages[l])
<1>1. PICK b, c : b = BlockPages[k] /\ c = BlockPages[l] /\ b \in Nat \ {0} /\ c \in Nat \ {0}
  BY SizesOfLevels
<1>2. Aligned(c, l)
  <2>1. Aligned(0 + BlockPages[l], l)
    BY AlignedZero, AlignedStep, SizesOfLevels
  <2> QED BY <1>1, <2>1
<1>3. ASSUME NEW j \in AllLevels, j <= l
      PROVE  BlockPages[j] <= c
  <2>1. Aligned(c, j) /\ Aligned(0, j)
    BY <1>1, <1>2, <1>3, AlignedBelow, AlignedZero
  <2>2. PICK d : d = BlockPages[j] /\ d \in Nat
    BY SizesOfLevels
  <2>3. 0 + d <= c
    BY <1>1, <2>1, <2>2, AlignedGap
  <2> QED BY <2>2, <2>3
<1>4. ASSUME k < l
      PROVE  2 * b <= c
  <2>1. k \in Levels /\ k + 1 \in AllLevels /\ k + 1 <= l
    BY <1>4, SizesOfLevels DEF AllLevels, Levels
  <2> QED BY <1>1, <1>3, <2>1, SizesOfLevels
<1> QED BY <1>1, <1>3, <1>4

(***************************************************************************)
(* The lowest bit of a page.                                               *)
(***************************************************************************)
LEMMA LowestBitUnique ==
  ASSUME NEW p \in Nat, NEW k \in Levels, NEW l \in Levels, LowestBit(p, k), LowestBit(p, l)
  PROVE  k = l
<1>1. ASSUME NEW i \in Levels, NEW j \in Levels, LowestBit(p, i), Aligned(p, j), i < j
      PROVE  FALSE
  <2>1. i + 1 \in AllLevels /\ j \in AllLevels /\ i + 1 <= j
    BY <1>1, SizesOfLevels
  <2> QED BY <1>1, <2>1, AlignedBelow DEF LowestBit
<1>2. k \in Nat /\ l \in Nat
  BY SizesOfLevels
<1>3. ~(k < l) /\ ~(l < k)
  BY <1>1 DEF LowestBit
<1> QED BY <1>2, <1>3

LEMMA LowestBitExists ==
  ASSUME NEW p \in Nat, p # 0, p < BlockPages[MaxLevel + 1]
  PROVE  \E k \in Levels : LowestBit(p, k)
<1> DEFINE S == {l \in AllLevels : ~Aligned(p, l)}
<1>1. MaxLevel + 1 \in S
  <2>1. MaxLevel + 1 \in AllLevels
    BY SizesOfLevels
  <2>2. PICK b \in Nat : b = BlockPages[MaxLevel + 1]
    BY <2>1, SizesOfLevels
  <2>3. SUFFICES ASSUME Aligned(p, MaxLevel + 1)
                 PROVE  FALSE
    BY <2>1
  <2>4. 0 + b <= p
    BY <2>1, <2>2, <2>3, AlignedZero, AlignedGap
  <2> QED BY <2>2, <2>4
<1>2. PICK n \in S : \A m \in S : n <= m
  <2>1. S \in SUBSET Nat
    BY SizesOfLevels
  <2> QED BY <1>1, <2>1, LeastExists
<1>3. n # 0
  <2>1. p = p * BlockPages[0]
    BY SizesOfLevels
  <2>2. Aligned(p, 0)
    BY <2>1, AlignedIs, SizesOfLevels
  <2> QED BY <1>2, <2>2
<1>4. n - 1 \in Levels /\ n = (n - 1) + 1 /\ n - 1 \in AllLevels /\ n - 1 < n
  BY <1>2, <1>3, LevelAssumption DEF Levels, AllLevels
<1>5. Aligned(p, n - 1)
  BY <1>2, <1>4, SizesOfLevels
<1> QED BY <1>2, <1>4, <1>5 DEF LowestBit

LEMMA LowestBitBelow ==
  ASSUME NEW p \in Nat, p # 0, NEW k \in Levels, Aligned(p, k)
  PROVE  BlockPages[k] <= p
<1>1. PICK b \in Nat : b = BlockPages[k]
  BY SizesOfLevels
<1>2. 0 + b <= p
  BY <1>1, AlignedZero, AlignedGap, SizesOfLevels
<1> QED BY <1>1, <1>2

\* Taking the lowest bit away, or adding it.
LEMMA WithoutLowestBit ==
  ASSUME NEW p \in Nat, NEW k \in Levels, LowestBit(p, k)
  PROVE  /\ p # 0 /\ BlockPages[k] <= p /\ p - BlockPages[k] \in Nat
         /\ Aligned(p - BlockPages[k], k + 1)
         /\ Aligned(p + BlockPages[k], k + 1)
<1>1. PICK b \in Nat : b = BlockPages[k]
  BY SizesOfLevels
<1>2. p # 0
  BY AlignedZero, SizesOfLevels DEF LowestBit
<1>3. b <= p
  BY <1>1, <1>2, LowestBitBelow DEF LowestBit
<1>4. PICK q \in Nat : q = p - b /\ q + b = p
  BY <1>3
<1>5. Aligned(q, k)
  BY <1>1, <1>4, AlignedStep, SizesOfLevels DEF LowestBit
<1>6. Aligned(q, k + 1)
  BY <1>1, <1>4, <1>5, AlignedHalves DEF LowestBit
<1>7. Aligned(p + b, k + 1)
  BY <1>1, AlignedHalves DEF LowestBit
<1> QED BY <1>1, <1>2, <1>3, <1>4, <1>6, <1>7

LEMMA WithLowestBit ==
  ASSUME NEW p \in Nat, NEW k \in Levels, Aligned(p, k + 1)
  PROVE  LowestBit(p + BlockPages[k], k)
<1>1. Aligned(p, k)
  BY AlignedHalves
<1> QED BY <1>1, AlignedHalves, AlignedStep, SizesOfLevels DEF LowestBit

(***************************************************************************)
(* The blocks that the bits of a number stand for.                         *)
(***************************************************************************)
LEMMA DigitFacts ==
  ASSUME NEW u \in Nat, NEW p \in Nat, NEW l \in Levels, Digit(u, p, l)
  PROVE  /\ Aligned(p, l + 1) /\ Aligned(p, l)
         /\ Aligned(p + BlockPages[l], l)
         /\ BlockPages[l] \in Nat \ {0}
         /\ p + BlockPages[l] <= u /\ u < p + 2 * BlockPages[l]
  BY AlignedHalves, AlignedStep, SizesOfLevels DEF Digit

LEMMA DigitUnique ==
  ASSUME NEW u \in Nat, NEW p \in Nat, NEW q \in Nat, NEW l \in Levels,
         Digit(u, p, l), Digit(u, q, l)
  PROVE  p = q
<1>1. PICK b \in Nat : b = BlockPages[l + 1]
  BY SizesOfLevels
<1>2. ASSUME NEW x \in Nat, NEW y \in Nat, Digit(u, x, l), Digit(u, y, l), x < y
      PROVE  FALSE
  <2>1. x + b <= y
    BY <1>1, <1>2, AlignedGap, SizesOfLevels DEF Digit
  <2>2. y <= u /\ u < x + b
    BY <1>1, <1>2, DigitFacts DEF Digit
  <2> QED BY <2>1, <2>2
<1>3. ~(p < q) /\ ~(q < p)
  BY <1>2
<1> QED BY <1>3

LEMMA DigitLevel ==
  ASSUME NEW u \in Nat, NEW p \in Nat, NEW k \in Levels, NEW l \in Levels,
         Digit(u, p, k), Digit(u, p, l)
  PROVE  k = l
<1>1. ASSUME NEW i \in Levels, NEW j \in Levels, Digit(u, p, i), Digit(u, p, j), i < j
      PROVE  FALSE
  <2>1. i + 1 \in AllLevels /\ j \in AllLevels /\ i + 1 <= j
    BY <1>1, SizesOfLevels
  <2>2. PICK b, c : b = BlockPages[i + 1] /\ c = BlockPages[j] /\ b \in Nat /\ c \in Nat
    BY <2>1, SizesOfLevels
  <2>3. b <= c
    BY <2>1, <2>2, SizesGrow
  <2>4. p + c <= u /\ u < p + b
    BY <1>1, <2>2 DEF Digit
  <2> QED BY <2>2, <2>3, <2>4
<1>2. k \in Nat /\ l \in Nat
  BY SizesOfLevels
<1>3. ~(k < l) /\ ~(l < k)
  BY <1>1
<1> QED BY <1>2, <1>3

\* A number has no bits below a level that it is aligned to.
LEMMA NoLowDigit ==
  ASSUME NEW u \in Nat, NEW k \in AllLevels, Aligned(u, k),
         NEW p \in Nat, NEW l \in Levels, l < k
  PROVE  ~Digit(u, p, l)
<1>1. SUFFICES ASSUME Digit(u, p, l)
               PROVE  FALSE
  OBVIOUS
<1>2. l + 1 \in AllLevels /\ l + 1 <= k
  BY SizesOfLevels
<1>3. PICK b \in Nat : b = BlockPages[l + 1]
  BY <1>2, SizesOfLevels
<1>4. p < u /\ u < p + b
  BY <1>1, <1>3, DigitFacts DEF Digit
<1>5. Aligned(u, l + 1) /\ Aligned(p, l + 1)
  BY <1>1, <1>2, AlignedBelow DEF Digit
<1>6. p + b <= u
  BY <1>2, <1>3, <1>4, <1>5, AlignedGap
<1> QED BY <1>3, <1>4, <1>6

\* The blocks of a number that begins with the bits of another one: two numbers between
\* which there is none that is aligned to level k have the same bits from k on.
LEMMA SameHighDigits ==
  ASSUME NEW k \in AllLevels, NEW u \in Nat, NEW v \in Nat, Aligned(u, k), u <= v,
         v < u + BlockPages[k], NEW p \in Nat, NEW l \in Levels, k <= l
  PROVE  Digit(u, p, l) <=> Digit(v, p, l)
<1>1. l \in AllLevels /\ l + 1 \in AllLevels /\ k <= l + 1
  BY SizesOfLevels
<1>2. PICK b, c, d : /\ b = BlockPages[k] /\ c = BlockPages[l] /\ d = BlockPages[l + 1]
                     /\ b \in Nat \ {0} /\ c \in Nat /\ d \in Nat
  BY <1>1, SizesOfLevels
<1>3. ASSUME Aligned(p, l + 1)
      PROVE  Aligned(p + c, k) /\ Aligned(p + d, k)
  <2>1. Aligned(p + d, l + 1)
    BY <1>1, <1>2, <1>3, AlignedStep
  <2>2. Aligned(p + c, l)
    BY <1>1, <1>2, <1>3, AlignedStep, AlignedHalves
  <2> QED BY <1>1, <1>2, <2>1, <2>2, AlignedBelow
<1>4. ASSUME NEW x \in Nat, Aligned(x, k)
      PROVE  x <= u <=> x <= v
  <2>1. CASE u < x
    <3>1. u + b <= x
      BY <1>2, <1>4, <2>1, AlignedGap
    <3> QED BY <1>2, <2>1, <3>1
  <2>2. CASE ~(u < x)
    BY <2>2
  <2> QED BY <2>1, <2>2
<1>5. ASSUME Aligned(p, l + 1)
      PROVE  (p + c <= u <=> p + c <= v) /\ (u < p + d <=> v < p + d)
  <2>1. Aligned(p + c, k) /\ Aligned(p + d, k) /\ p + c \in Nat /\ p + d \in Nat
    BY <1>2, <1>3, <1>5
  <2>2. p + c <= u <=> p + c <= v
    BY <1>4, <2>1
  <2>3. p + d <= u <=> p + d <= v
    BY <1>4, <2>1
  <2> QED BY <1>2, <2>2, <2>3
<1> QED BY <1>2, <1>5 DEF Digit

LEMMA DigitAdded ==
  ASSUME NEW w \in Nat, NEW k \in Levels, Aligned(w, k + 1), NEW p \in Nat, NEW l \in Levels
  PROVE  Digit(w + BlockPages[k], p, l) <=> Digit(w, p, l) \/ (p = w /\ l = k)
<1>1. PICK b, u : /\ b = BlockPages[k] /\ b \in Nat \ {0} /\ u = w + b
                  /\ 2 * b = BlockPages[k + 1] /\ u \in Nat
  BY SizesOfLevels
<1>2. k \in AllLevels /\ k + 1 \in AllLevels /\ k \in Nat /\ l \in Nat
  BY SizesOfLevels
<1>3. Digit(u, w, k)
  BY <1>1 DEF Digit
<1>4. CASE l < k
  <2>1. Aligned(u, k)
    BY <1>1, AlignedHalves, AlignedStep, <1>2
  <2> QED BY <1>1, <1>2, <1>4, <2>1, NoLowDigit
<1>5. CASE l = k
  <2>1. ~Digit(w, p, k)
    BY <1>2, NoLowDigit
  <2> QED BY <1>1, <1>3, <1>5, <2>1, DigitUnique
<1>6. CASE k < l
  <2>1. k + 1 <= l
    BY <1>2, <1>6
  <2>2. Digit(w, p, l) <=> Digit(u, p, l)
    BY <1>1, <1>2, <2>1, SameHighDigits
  <2>3. l # k
    BY <1>2, <1>6
  <2> QED BY <1>1, <2>2, <2>3
<1> QED BY <1>2, <1>4, <1>5, <1>6

\* A block for a bit begins where those for the higher bits end.
LEMMA DigitsBefore ==
  ASSUME NEW u \in Nat, NEW p \in Nat, NEW l \in Levels, Digit(u, p, l),
         NEW q \in Nat, NEW m \in Levels
  PROVE  Digit(p, q, m) <=> Digit(u, q, m) /\ l < m
<1>1. l + 1 \in AllLevels /\ l \in Nat /\ m \in Nat
  BY SizesOfLevels
<1>2. Aligned(p, l + 1) /\ p <= u /\ u < p + BlockPages[l + 1]
  BY DigitFacts DEF Digit
<1>3. CASE l < m
  <2>1. l + 1 <= m
    BY <1>1, <1>3
  <2> QED BY <1>1, <1>2, <1>3, <2>1, SameHighDigits
<1>4. CASE m < l + 1
  BY <1>1, <1>2, <1>4, NoLowDigit
<1> QED BY <1>1, <1>3, <1>4

LEMMA LowestDigit ==
  ASSUME NEW u \in Nat, NEW k \in Levels, LowestBit(u, k)
  PROVE  u - BlockPages[k] \in Nat /\ Digit(u, u - BlockPages[k], k)
<1>1. PICK b \in Nat \ {0} : b = BlockPages[k] /\ 2 * b = BlockPages[k + 1]
  BY SizesOfLevels
<1> QED BY <1>1, WithoutLowestBit DEF Digit

\* The block in front of another one.
LEMMA DigitBefore ==
  ASSUME NEW u \in Nat, NEW p \in Nat, NEW l \in Levels, Digit(u, p, l),
         NEW k \in Levels, LowestBit(p, k)
  PROVE  /\ l < k /\ p - BlockPages[k] \in Nat
         /\ Digit(u, p - BlockPages[k], k)
  BY LowestDigit, DigitsBefore

\* A number whose only bit of a level or below is there.
LEMMA LastDigit ==
  ASSUME NEW u \in Nat, NEW p \in Nat, NEW l \in Levels, Digit(u, p, l), Aligned(u, l)
  PROVE  u = p + BlockPages[l] /\ LowestBit(u, l)
<1>1. PICK b \in Nat \ {0} : b = BlockPages[l]
  BY SizesOfLevels
<1>2. p + b <= u /\ u < p + 2 * b /\ Aligned(p + b, l)
  BY <1>1, DigitFacts
<1>3. ~(p + b < u)
  <2>1. ASSUME p + b < u
        PROVE  (p + b) + b <= u
    BY <1>1, <1>2, <2>1, AlignedGap, SizesOfLevels
  <2> QED BY <1>1, <1>2, <2>1
<1>4. u = p + b
  BY <1>1, <1>2, <1>3
<1> QED BY <1>1, <1>4, WithLowestBit, DigitFacts

LEMMA AlignedIfNoDigits ==
  ASSUME NEW u \in Nat, NEW L \in Levels, NEW l \in AllLevels, L <= l, Aligned(u, L),
         \A k \in L .. l - 1 : \A p \in 0 .. u : ~Digit(u, p, k)
  PROVE  Aligned(u, l)
<1> DEFINE S == {n \in Nat : L <= n /\ n <= l /\ ~Aligned(u, n)}
<1>1. SUFFICES ASSUME S # {}
               PROVE  FALSE
  BY SizesOfLevels
<1>2. PICK n \in S : \A m \in S : n <= m
  <2>1. S \in SUBSET Nat
    OBVIOUS
  <2> QED BY <1>1, <2>1, LeastExists
<1>3. n # L /\ n \in Nat /\ L \in Nat /\ l \in Nat /\ L <= n /\ n <= l
  BY <1>2, SizesOfLevels
<1>4. /\ n - 1 \in Levels /\ n = (n - 1) + 1 /\ n - 1 < n
      /\ n - 1 \in Nat /\ L <= n - 1 /\ n - 1 <= l /\ n - 1 \in L .. l - 1
  BY <1>3, LevelAssumption DEF Levels, AllLevels
<1>5. Aligned(u, n - 1)
  BY <1>2, <1>4
<1>6. LowestBit(u, n - 1)
  BY <1>2, <1>4, <1>5 DEF LowestBit
<1>7. PICK b \in Nat : b = BlockPages[n - 1]
  BY <1>4, SizesOfLevels
<1>8. u - b \in Nat /\ Digit(u, u - b, n - 1)
  BY <1>4, <1>6, <1>7, LowestDigit
<1>9. u - b \in 0 .. u
  BY <1>7, <1>8
<1> QED BY <1>4, <1>8, <1>9

(***************************************************************************)
(* The pages that blocks of a level are made of.                           *)
(***************************************************************************)
LEMMA WholeFacts ==
  ASSUME NEW n \in Nat, NEW L \in Levels
  PROVE  /\ Whole(n, L) \in Nat /\ Aligned(Whole(n, L), L)
         /\ Whole(n, L) <= n /\ n < Whole(n, L) + BlockPages[L]
<1>1. PICK b \in Nat \ {0} : b = BlockPages[L]
  BY SizesOfLevels
<1>2. PICK q, r : q = n \div b /\ r = n % b
  OBVIOUS
<1>3. q \in Nat /\ r \in 0 .. b - 1 /\ n = b * q + r
  BY <1>2
<1>4. Whole(n, L) = q * b
  BY <1>1, <1>2, <1>3 DEF Whole
<1>5. PICK w \in Nat : w = q * b
  BY <1>3
<1>6. Aligned(w, L)
  BY <1>1, <1>3, <1>5, AlignedIs, SizesOfLevels
<1>7. n = w + r
  BY <1>3, <1>5
<1> QED BY <1>1, <1>3, <1>4, <1>5, <1>6, <1>7

LEMMA DigitsOfWhole ==
  ASSUME NEW n \in Nat, NEW L \in Levels, NEW p \in Nat, NEW l \in Levels
  PROVE  /\ L <= l => (Digit(Whole(n, L), p, l) <=> Digit(n, p, l))
         /\ l < L /\ Digit(n, p, l) => Whole(n, L) <= p
<1>1. PICK w \in Nat : w = Whole(n, L) /\ Aligned(w, L) /\ w <= n /\ n < w + BlockPages[L]
  BY WholeFacts
<1>2. ASSUME L <= l
      PROVE  Digit(w, p, l) <=> Digit(n, p, l)
  BY <1>1, <1>2, SameHighDigits, SizesOfLevels
<1>3. ASSUME l < L, Digit(n, p, l), p < w
      PROVE  FALSE
  <2>1. l + 1 \in AllLevels /\ l + 1 <= L /\ L \in AllLevels
    BY <1>3, SizesOfLevels
  <2>2. PICK b \in Nat : b = BlockPages[l + 1]
    BY <2>1, SizesOfLevels
  <2>3. Aligned(w, l + 1)
    BY <1>1, <2>1, AlignedBelow
  <2>4. p + b <= w
    BY <1>3, <2>1, <2>2, <2>3, AlignedGap DEF Digit
  <2>5. n < p + b
    BY <1>3, <2>2 DEF Digit
  <2> QED BY <1>1, <2>2, <2>4, <2>5
<1> QED BY <1>1, <1>2, <1>3

LEMMA FirstCarveStart ==
  ASSUME NEW n \in Nat, n # 0, n < BlockPages[MaxLevel + 1]
  PROVE  CarveStart(n, 0)
<1> DEFINE S == {l \in AllLevels : n < BlockPages[l]}
<1>1. MaxLevel + 1 \in S
  BY SizesOfLevels
<1>2. PICK l \in S : \A m \in S : l <= m
  <2>1. S \in SUBSET Nat
    BY SizesOfLevels
  <2> QED BY <1>1, <2>1, LeastExists
<1>3. l # 0
  BY <1>2, SizesOfLevels
<1>4. l - 1 \in Levels /\ l = (l - 1) + 1 /\ l - 1 \in AllLevels /\ ~(l <= l - 1)
  BY <1>2, <1>3, LevelAssumption DEF Levels, AllLevels
<1>5. PICK b \in Nat : b = BlockPages[l - 1]
  BY <1>4, SizesOfLevels
<1>6. ~(n < b)
  BY <1>2, <1>4, <1>5
<1>7. Aligned(0, l)
  BY AlignedZero
<1>8. Digit(n, 0, l - 1)
  BY <1>2, <1>4, <1>5, <1>6, <1>7, SizesOfLevels DEF Digit
<1> QED BY <1>4, <1>8 DEF CarveStart

(***************************************************************************)
(* Nodes of entries.                                                       *)
(***************************************************************************)
LEMMA EntryPages ==
  ASSUME NEW mmap \in MemoryMaps, NEW e \in DOMAIN mmap
  PROVE  /\ Pages(mmap, e) \in Nat \ {0}
         /\ Pages(mmap, e) < BlockPages[MaxLevel + 1]
         /\ Node(mmap, e, 0) \in Nat \ {Null}
         /\ \A p \in Nat : Node(mmap, e, p) = Node(mmap, e, 0) + p
         /\ e \in Nat \ {0}
<1> DEFINE entry == mmap[e]
<1>1. /\ entry.Base \in Nat \ {0} /\ entry.Limit \in Nat
      /\ DataStart(entry) \in Nat /\ DataPages(entry) \in Int
      /\ DataStart(entry) + DataPages(entry) * ScalingFactor = entry.Base + entry.Limit
      /\ DataStart(entry) < entry.Base + entry.Limit
  BY EntryShape
<1>2. PICK n \in Int : n = DataPages(entry)
  BY <1>1
<1>3. PICK s \in Nat \ {0} : s = ScalingFactor
  BY ScalingFactorAssumption
<1>4. n * s > 0
  <2>1. n * s \in Int
    OBVIOUS
  <2> HIDE DEF entry
  <2> QED BY <1>1, <1>2, <1>3, <2>1
<1>5. n >= 1
  BY <1>4
<1>6. DataPages(entry) < BlockPages[MaxLevel + 1]
  BY MemoryMapAssumption
<1>7. e \in Nat \ {0}
  BY MapIsSequence
<1>8. Pages(mmap, e) \in Nat \ {0}
  BY <1>2, <1>5 DEF Pages
<1>9. Node(mmap, e, 0) \in Nat \ {Null} /\ \A p \in Nat : Node(mmap, e, p) = Node(mmap, e, 0) + p
  BY <1>1 DEF Node, Null
<1> QED BY <1>6, <1>7, <1>8, <1>9 DEF Pages

\* An entry begins behind the one before, by at least twice that one's pages.
LEMMA EntryGap ==
  ASSUME NEW mmap \in MemoryMaps, NEW e \in DOMAIN mmap, NEW f \in DOMAIN mmap, e < f
  PROVE  Node(mmap, e, 0) + 2 * Pages(mmap, e) <= Node(mmap, f, 0)
<1>1. /\ mmap[e].Base \in Nat /\ mmap[e].Limit \in Nat
      /\ DataPages(mmap[e]) \in Int /\ ReservedSpace(mmap[e]) \in Nat
      /\ DataPages(mmap[e]) <= ReservedSpace(mmap[e])
      /\ mmap[f].Base \in Nat
  BY EntryShape
<1>2. 2 * ReservedSpace(mmap[e]) <= mmap[e].Limit /\ mmap[e].Base + mmap[e].Limit <= mmap[f].Base
  BY MemoryMapAssumption
<1> QED BY <1>1, <1>2 DEF Node, Pages

LEMMA NodesApart ==
  ASSUME NEW mmap \in MemoryMaps, NEW e \in DOMAIN mmap, NEW f \in DOMAIN mmap,
         NEW p \in Nat, p < Pages(mmap, e), NEW q \in Nat, q < Pages(mmap, f),
         Node(mmap, e, p) = Node(mmap, f, q)
  PROVE  e = f /\ p = q
<1>1. PICK m, n, a, b :
        /\ m = Pages(mmap, e) /\ n = Pages(mmap, f) /\ m \in Nat /\ n \in Nat
        /\ a = Node(mmap, e, 0) /\ b = Node(mmap, f, 0) /\ a \in Nat /\ b \in Nat
        /\ Node(mmap, e, p) = a + p /\ Node(mmap, f, q) = b + q
  BY EntryPages
<1>2. e < f => a + 2 * m <= b
  BY <1>1, EntryGap
<1>3. f < e => b + 2 * n <= a
  BY <1>1, EntryGap
<1>4. e \in Nat /\ f \in Nat
  BY EntryPages
<1>5. a + p = b + q /\ p < m /\ q < n
  BY <1>1
<1>6. a \in Nat /\ b \in Nat /\ m \in Nat /\ n \in Nat
  BY <1>1
<1>7. e = f
  BY <1>2, <1>3, <1>4, <1>5, <1>6
<1>8. a = b
  BY <1>1, <1>7
<1> QED BY <1>5, <1>6, <1>7, <1>8

(***************************************************************************)
(* The blocks that are free when F tells where those in use begin.         *)
(***************************************************************************)
Begins(mmap, L, F) ==
  /\ F \in [DOMAIN mmap -> Nat]
  /\ \A e \in DOMAIN mmap : Aligned(F[e], L) /\ F[e] <= Whole(Pages(mmap, e), L)

LEMMA PagesInRange ==
  ASSUME NEW mmap \in MemoryMaps, NEW e \in DOMAIN mmap, NEW p \in Nat, p < Pages(mmap, e),
         NEW l \in Levels
  PROVE  <<e, p, l>> \in Blocks(mmap)
<1>1. PICK b \in Nat : b = BlockPages[MaxLevel + 1]
  BY SizesOfLevels DEF AllLevels, Levels
<1>2. p \in 0 .. b
  BY <1>1, EntryPages
<1> QED BY <1>1, <1>2 DEF Blocks

LEMMA FreeBelowIs ==
  ASSUME NEW mmap \in MemoryMaps, NEW L \in Levels, NEW F, Begins(mmap, L, F),
         NEW e \in DOMAIN mmap, NEW p \in Nat, NEW l \in Levels
  PROVE  /\ <<e, p, l>> \in FreeBelow(mmap, L, F)
              <=> IF L <= l THEN Digit(F[e], p, l) ELSE Digit(Pages(mmap, e), p, l)
         /\ <<e, p, l>> \in FreeBelow(mmap, L, F) =>
              p + BlockPages[l] <= Pages(mmap, e) /\ p < Pages(mmap, e)
<1>1. PICK n, u, w \in Nat : /\ n = Pages(mmap, e) /\ u = F[e] /\ w = Whole(n, L)
                             /\ w <= n /\ u <= w
  BY EntryPages, WholeFacts DEF Begins
<1>2. PICK b \in Nat \ {0} : b = BlockPages[l]
  BY SizesOfLevels
<1>3. ASSUME IF L <= l THEN Digit(u, p, l) ELSE Digit(n, p, l)
      PROVE  p + b <= n /\ p < n
  BY <1>1, <1>2, <1>3, DigitFacts
<1>4. <<e, p, l>> \in FreeBelow(mmap, L, F)
        <=> /\ <<e, p, l>> \in Blocks(mmap)
            /\ IF L <= l THEN Digit(u, p, l) ELSE Digit(n, p, l)
  BY <1>1 DEF FreeBelow
<1>5. p < n => <<e, p, l>> \in Blocks(mmap)
  BY <1>1, PagesInRange
<1> QED BY <1>1, <1>2, <1>3, <1>4, <1>5

\* They end in front of the blocks in use or begin above all blocks of level L.
LEMMA BlocksAround ==
  ASSUME NEW mmap \in MemoryMaps, NEW L \in Levels, NEW F, Begins(mmap, L, F),
         NEW e \in DOMAIN mmap, NEW p \in Nat, NEW l \in Levels,
         <<e, p, l>> \in FreeBelow(mmap, L, F)
  PROVE  /\ F[e] \in Nat /\ Whole(Pages(mmap, e), L) \in Nat
         /\ F[e] <= Whole(Pages(mmap, e), L) /\ Whole(Pages(mmap, e), L) <= Pages(mmap, e)
         /\ p < F[e] => L <= l /\ Digit(F[e], p, l) /\ p + BlockPages[l] <= F[e]
         /\ F[e] <= p => /\ l < L /\ Digit(Pages(mmap, e), p, l)
                         /\ Whole(Pages(mmap, e), L) <= p
                         /\ CarveStart(Pages(mmap, e), p)
<1>1. PICK n, u, w \in Nat : /\ n = Pages(mmap, e) /\ u = F[e] /\ w = Whole(n, L)
                             /\ w <= n /\ u <= w
  BY EntryPages, WholeFacts DEF Begins
<1>2. PICK b \in Nat \ {0} : b = BlockPages[l]
  BY SizesOfLevels
<1>3. IF L <= l THEN Digit(u, p, l) ELSE Digit(n, p, l)
  BY <1>1, FreeBelowIs
<1>4. L \in Nat /\ l \in Nat
  BY SizesOfLevels
<1>5. CASE L <= l
  <2>1. Digit(u, p, l) /\ p + b <= u
    BY <1>1, <1>2, <1>3, <1>5, DigitFacts
  <2> QED BY <1>1, <1>2, <1>5, <2>1
<1>6. CASE l < L
  <2>1. Digit(n, p, l)
    BY <1>3, <1>4, <1>6
  <2>2. w <= p
    BY <1>1, <1>6, <2>1, DigitsOfWhole
  <2> QED BY <1>1, <1>6, <2>1, <2>2 DEF CarveStart
<1> QED BY <1>4, <1>5, <1>6

LEMMA OneLevel ==
  ASSUME NEW mmap \in MemoryMaps, NEW L \in Levels, NEW F, Begins(mmap, L, F),
         NEW e \in DOMAIN mmap, NEW p \in Nat, NEW l \in Levels, NEW m \in Levels,
         <<e, p, l>> \in FreeBelow(mmap, L, F), <<e, p, m>> \in FreeBelow(mmap, L, F)
  PROVE  l = m
<1>1. PICK n, u \in Nat : n = Pages(mmap, e) /\ u = F[e]
  BY EntryPages DEF Begins
<1>2. CASE p < u
  <2>1. Digit(u, p, l) /\ Digit(u, p, m)
    BY <1>1, <1>2, BlocksAround
  <2> QED BY <2>1, DigitLevel
<1>3. CASE u <= p
  <2>1. Digit(n, p, l) /\ Digit(n, p, m)
    BY <1>1, <1>3, BlocksAround
  <2> QED BY <2>1, DigitLevel
<1> QED BY <1>2, <1>3

\* The last one in front of the blocks in use is the one for the lowest bit.
LEMMA BlockBefore ==
  ASSUME NEW mmap \in MemoryMaps, NEW L \in Levels, NEW F, Begins(mmap, L, F),
         NEW e \in DOMAIN mmap, NEW k \in Levels, LowestBit(F[e], k)
  PROVE  /\ F[e] - BlockPages[k] \in Nat /\ L <= k
         /\ <<e, F[e] - BlockPages[k], k>> \in FreeBelow(mmap, L, F)
         /\ \A p \in Nat, l \in Levels :
              <<e, p, l>> \in FreeBelow(mmap, L, F) /\ p < F[e] => p <= F[e] - BlockPages[k]
<1>1. PICK u \in Nat : u = F[e] /\ Aligned(u, L)
  BY DEF Begins
<1>2. PICK b \in Nat \ {0} : b = BlockPages[k]
  BY SizesOfLevels
<1>3. u - b \in Nat /\ Digit(u, u - b, k)
  BY <1>1, <1>2, LowestDigit
<1>4. L \in Nat /\ k \in Nat /\ L \in AllLevels /\ k \in AllLevels /\ k + 1 \in AllLevels
  BY SizesOfLevels
<1>5. L <= k
  <2>1. ~(k + 1 <= L)
    BY <1>1, <1>4, AlignedBelow DEF LowestBit
  <2> QED BY <1>4, <2>1
<1>6. <<e, u - b, k>> \in FreeBelow(mmap, L, F)
  BY <1>1, <1>3, <1>5, FreeBelowIs
<1>7. ASSUME NEW p \in Nat, NEW l \in Levels, <<e, p, l>> \in FreeBelow(mmap, L, F), p < u
      PROVE  p <= u - b
  <2>1. PICK c \in Nat \ {0} : c = BlockPages[l]
    BY SizesOfLevels
  <2>2. Digit(u, p, l) /\ p + c <= u
    BY <1>1, <1>7, <2>1, BlocksAround
  <2>3. l \in Nat /\ l \in AllLevels
    BY SizesOfLevels
  <2>4. CASE l < k
    BY <1>1, <1>4, <2>2, <2>4, NoLowDigit DEF LowestBit
  <2>5. CASE k <= l
    <3>1. b <= c
      BY <1>2, <1>4, <2>1, <2>3, <2>5, SizesGrow
    <3> QED BY <1>3, <2>2, <3>1
  <2> QED BY <1>4, <2>3, <2>4, <2>5
<1> QED BY <1>1, <1>2, <1>3, <1>5, <1>6, <1>7

\* One more block, in front of those in use.
LEMMA FreeBelowAdded ==
  ASSUME NEW mmap \in MemoryMaps, NEW L \in Levels, NEW F, Begins(mmap, L, F),
         NEW e \in DOMAIN mmap, NEW k \in Levels, L <= k, Aligned(F[e], k + 1),
         F[e] + BlockPages[k] <= Whole(Pages(mmap, e), L),
         NEW G \in [DOMAIN mmap -> Nat], G[e] = F[e] + BlockPages[k],
         \A f \in DOMAIN mmap \ {e} : G[f] = F[f]
  PROVE  /\ Begins(mmap, L, G)
         /\ FreeBelow(mmap, L, G) = FreeBelow(mmap, L, F) \cup {<<e, F[e], k>>}
<1>1. PICK w \in Nat, b \in Nat \ {0} : w = F[e] /\ b = BlockPages[k]
  BY SizesOfLevels DEF Begins
<1>3. k \in AllLevels /\ k + 1 \in AllLevels /\ L \in AllLevels
  BY SizesOfLevels
<1>4. Aligned(w + b, L)
  <2>1. Aligned(w, k)
    BY <1>1, AlignedHalves
  <2>2. Aligned(w + b, k)
    BY <1>1, <1>3, <2>1, AlignedStep
  <2> QED BY <1>3, <2>2, AlignedBelow
<1>5. /\ G \in [DOMAIN mmap -> Nat] /\ G[e] = w + b
      /\ \A f \in DOMAIN mmap \ {e} : G[f] = F[f]
  BY <1>1
<1>6. Begins(mmap, L, G)
  BY <1>1, <1>4, <1>5 DEF Begins
<1>7. ASSUME NEW f \in DOMAIN mmap, NEW p \in Nat, NEW l \in Levels
      PROVE  <<f, p, l>> \in FreeBelow(mmap, L, G)
               <=> <<f, p, l>> \in FreeBelow(mmap, L, F) \/ <<f, p, l>> = <<e, w, k>>
  <2>1. /\ <<f, p, l>> \in FreeBelow(mmap, L, F)
              <=> IF L <= l THEN Digit(F[f], p, l) ELSE Digit(Pages(mmap, f), p, l)
        /\ <<f, p, l>> \in FreeBelow(mmap, L, G)
              <=> IF L <= l THEN Digit(G[f], p, l) ELSE Digit(Pages(mmap, f), p, l)
    BY ONLY <1>6, mmap \in MemoryMaps, L \in Levels, Begins(mmap, L, F), f \in DOMAIN mmap,
            p \in Nat, l \in Levels, FreeBelowIs
  <2>2. CASE f = e
    <3>1. Digit(w + b, p, l) <=> Digit(w, p, l) \/ (p = w /\ l = k)
      BY <1>1, DigitAdded
    <3> QED BY <1>1, <1>5, <2>1, <2>2, <3>1
  <2>3. CASE f # e
    BY <1>5, <2>1, <2>3
  <2> QED BY <2>2, <2>3
<1>8. FreeBelow(mmap, L, G) = FreeBelow(mmap, L, F) \cup {<<e, w, k>>}
  <2>1. \A b1 \in Blocks(mmap) : /\ b1 = <<b1[1], b1[2], b1[3]>> /\ b1[1] \in DOMAIN mmap
                                 /\ b1[2] \in Nat /\ b1[3] \in Levels
    <3>1. BlockPages[MaxLevel + 1] \in Nat
      BY SizesOfLevels DEF AllLevels, Levels
    <3> QED BY <3>1 DEF Blocks
  <2>2. FreeBelow(mmap, L, G) \subseteq Blocks(mmap) /\ FreeBelow(mmap, L, F) \subseteq Blocks(mmap)
    BY DEF FreeBelow
  <2>3. <<e, w, k>> \in FreeBelow(mmap, L, G)
    BY <1>7
  <2>4. ASSUME NEW x PROVE x \in FreeBelow(mmap, L, G)
                             <=> x \in FreeBelow(mmap, L, F) \/ x = <<e, w, k>>
    BY ONLY <1>7, <2>1, <2>2, <2>3
  <2> QED BY <2>4
<1> QED BY <1>1, <1>6, <1>8

(***************************************************************************)
(* Positions of blocks that are free.                                      *)
(***************************************************************************)
LEMMA NodeIsSlot ==
  ASSUME NEW mmap \in MemoryMaps, NEW e \in DOMAIN mmap, NEW p \in Nat, p < Pages(mmap, e)
  PROVE  Node(mmap, e, p) \in Slots(mmap) /\ Node(mmap, e, p) # Null
<1>1. /\ mmap[e].Base \in Nat \ {0} /\ DataPages(mmap[e]) \in Int
      /\ DataPages(mmap[e]) <= ReservedSpace(mmap[e]) /\ ReservedSpace(mmap[e]) \in Nat
  BY EntryShape
<1>2. PICK a \in Nat : a = mmap[e].Base + p
  BY <1>1
<1>3. mmap[e].Base <= a /\ a < DataStart(mmap[e]) /\ a # 0
  BY <1>1, <1>2 DEF DataStart, Pages
<1> QED BY <1>2, <1>3, SlotOfEntry DEF Node, Null

LEMMA EarlierNode ==
  ASSUME NEW mmap \in MemoryMaps, NEW e \in DOMAIN mmap, NEW f \in DOMAIN mmap, e < f
  PROVE  /\ \A p \in Nat : p < Pages(mmap, e) => IsEarlier(mmap, f, Node(mmap, e, p))
         /\ \A x : IsEarlier(mmap, e, x) => IsEarlier(mmap, f, x)
         /\ \A y : IsLater(mmap, f, y) => IsLater(mmap, e, y)
         /\ \A p \in Nat : p < Pages(mmap, f) /\ CarveStart(Pages(mmap, f), p) =>
              IsLater(mmap, e, Node(mmap, f, p))
<1>1. e \in Nat \ {0} /\ f \in Nat \ {0} /\ Pages(mmap, e) \in Nat /\ Pages(mmap, f) \in Nat
  BY EntryPages
<1>2. DOMAIN mmap \subseteq Nat
  BY MapIsSequence
<1>3. \A x : IsEarlier(mmap, e, x) => IsEarlier(mmap, f, x)
  <2>1. 1 .. e - 1 \subseteq 1 .. f - 1
    BY <1>1
  <2> QED BY <2>1 DEF IsEarlier
<1>4. \A y : IsLater(mmap, f, y) => IsLater(mmap, e, y)
  BY <1>1, <1>2 DEF IsLater
<1>5. ASSUME NEW p \in Nat, p < Pages(mmap, e)
      PROVE  IsEarlier(mmap, f, Node(mmap, e, p))
  <2>1. e \in 1 .. f - 1 /\ p \in 0 .. Pages(mmap, e) - 1
    BY <1>1, <1>5
  <2> QED BY <2>1 DEF IsEarlier
<1>6. ASSUME NEW p \in Nat, p < Pages(mmap, f), CarveStart(Pages(mmap, f), p)
      PROVE  IsLater(mmap, e, Node(mmap, f, p))
  <2>1. p \in 0 .. Pages(mmap, f) - 1
    BY <1>1, <1>6
  <2> QED BY <1>6, <2>1 DEF IsLater
<1> QED BY <1>3, <1>4, <1>5, <1>6

\* Any older node is a right one in front of a block that was carved.
LEMMA EarlierPrecedes ==
  ASSUME NEW mmap \in MemoryMaps, NEW e \in DOMAIN mmap, NEW p \in Nat, p < Pages(mmap, e),
         CarveStart(Pages(mmap, e), p), NEW S, NEW x, IsEarlier(mmap, e, x)
  PROVE  PrecededBy(mmap, S, e, p, x)
<1>1. CASE p = 0
  BY <1>1 DEF PrecededBy
<1>2. CASE p # 0
  <2>1. p < BlockPages[MaxLevel + 1]
    <3>1. PICK n, b \in Nat : n = Pages(mmap, e) /\ b = BlockPages[MaxLevel + 1] /\ n < b
      BY EntryPages, SizesOfLevels DEF AllLevels, Levels
    <3> QED BY <3>1
  <2>2. PICK k \in Levels : LowestBit(p, k)
    BY <1>2, <2>1, LowestBitExists
  <2> QED BY <1>2, <2>2 DEF PrecededBy
<1> QED BY <1>1, <1>2

\* The node in front of the blocks in use is an older one or that of the block before.
LEMMA PrecededHow ==
  ASSUME NEW mmap \in MemoryMaps, NEW L \in Levels, NEW F, Begins(mmap, L, F),
         NEW e \in DOMAIN mmap, NEW S, FreeBelow(mmap, L, F) \subseteq S,
         F[e] < Pages(mmap, e), NEW x, PrecededBy(mmap, S, e, F[e], x)
  PROVE  \/ IsEarlier(mmap, e, x) /\ CarveStart(Pages(mmap, e), F[e])
         \/ \E k \in Levels : LowestBit(F[e], k) /\ x = Node(mmap, e, F[e] - BlockPages[k])
<1>1. PICK w \in Nat : w = F[e]
  BY DEF Begins
<1>2. CASE w = 0
  <2>1. CarveStart(Pages(mmap, e), 0)
    BY EntryPages, FirstCarveStart
  <2> QED BY <1>1, <1>2, <2>1 DEF PrecededBy
<1>3. CASE w # 0
  <2>1. PICK k \in Levels :
         /\ LowestBit(w, k)
         /\ \/ x = Node(mmap, e, w - BlockPages[k])
            \/ /\ CarveStart(Pages(mmap, e), w)
               /\ IsEarlier(mmap, e, x) \/ <<e, w - BlockPages[k], k>> \notin S
    BY <1>1, <1>3 DEF PrecededBy
  <2>2. <<e, w - BlockPages[k], k>> \in S
    BY <1>1, <2>1, BlockBefore
  <2> QED BY <1>1, <2>1, <2>2
<1> QED BY <1>2, <1>3

LEMMA PlacedAt ==
  ASSUME NEW mmap, NEW S, S \subseteq Blocks(mmap), NEW P, NEW N
  PROVE  Placed(mmap, S, P, N) <=>
           \A e \in DOMAIN mmap : \A p \in Nat, l \in Levels :
             <<e, p, l>> \in S =>
               /\ PrecededBy(mmap, S, e, p, P[Node(mmap, e, p)])
               /\ FollowedBy(mmap, S, e, p, p + BlockPages[l], N[Node(mmap, e, p)])
<1>1. 0 .. BlockPages[MaxLevel + 1] \subseteq Nat
  BY SizesOfLevels DEF AllLevels, Levels
<1>2. \A e \in DOMAIN mmap : \A p \in Nat, l \in Levels :
        <<e, p, l>> \in S => p \in 0 .. BlockPages[MaxLevel + 1]
  BY DEF Blocks
<1> QED BY <1>1, <1>2 DEF Placed

\* The node behind the blocks in use is that of a block that was carved.
LEMMA FollowedHow ==
  ASSUME NEW mmap \in MemoryMaps, NEW L \in Levels, NEW F, Begins(mmap, L, F),
         NEW e \in DOMAIN mmap, NEW k, NEW S,
         S \subseteq FreeBelow(mmap, L, F) \cup {<<e, F[e], k>>},
         NEW end \in Nat, F[e] < end, end <= Whole(Pages(mmap, e), L),
         NEW y, FollowedBy(mmap, S, e, F[e], end, y)
  PROVE  \/ y = Null
         \/ IsLater(mmap, e, y)
         \/ \E c \in Nat :
              /\ end <= c /\ c < Pages(mmap, e) /\ y = Node(mmap, e, c)
              /\ CarveStart(Pages(mmap, e), c)
              /\ \A q \in Nat, m \in Levels : F[e] < q /\ <<e, q, m>> \in S => c <= q
<1>1. PICK w, n, h \in Nat : w = F[e] /\ n = Pages(mmap, e) /\ h = Whole(n, L) /\ w <= h /\ h <= n
  BY EntryPages, WholeFacts DEF Begins
<1>2. SUFFICES ASSUME NEW c \in end .. n - 1,
                      y = Node(mmap, e, c),
                      \/ /\ CarveStart(n, c)
                         /\ \A q \in w + 1 .. c - 1, m \in Levels : <<e, q, m>> \notin S
                      \/ c = end /\ \E m \in Levels : <<e, c, m>> \in S
               PROVE  /\ CarveStart(n, c)
                      /\ \A q \in Nat, m \in Levels : w < q /\ <<e, q, m>> \in S => c <= q
  <2>1. ASSUME NEW c \in end .. n - 1
        PROVE  c \in Nat /\ end <= c /\ c < n
    BY <1>1
  <2> QED BY <1>1, <1>2, <2>1 DEF FollowedBy
<1>3. c \in Nat /\ w < c
  BY <1>1
<1>4. ASSUME NEW q \in Nat, NEW m \in Levels, w < q, <<e, q, m>> \in S
      PROVE  CarveStart(n, q) /\ h <= q
  <2>1. <<e, q, m>> \in FreeBelow(mmap, L, F)
    <3>1. <<e, q, m>> # <<e, w, k>>
      BY <1>4
    <3> QED BY <1>1, <1>4, <3>1
  <2> QED BY <1>1, <1>4, <2>1, BlocksAround
<1>5. CASE /\ CarveStart(n, c)
           /\ \A q \in w + 1 .. c - 1, m \in Levels : <<e, q, m>> \notin S
  <2>1. ASSUME NEW q \in Nat, NEW m \in Levels, w < q, <<e, q, m>> \in S
        PROVE  c <= q
    <3>1. ~(q \in w + 1 .. c - 1)
      BY <1>5, <2>1
    <3> QED BY <1>1, <1>3, <2>1, <3>1
  <2> QED BY <1>5, <2>1
<1>6. CASE c = end /\ \E m \in Levels : <<e, c, m>> \in S
  <2>1. CarveStart(n, c)
    BY <1>3, <1>4, <1>6
  <2>2. c <= h
    BY <1>1, <1>6
  <2>3. ASSUME NEW q \in Nat, NEW m \in Levels, w < q, <<e, q, m>> \in S
        PROVE  c <= q
    BY <1>1, <1>3, <1>4, <2>2, <2>3
  <2> QED BY <2>1, <2>3
<1> QED BY <1>2, <1>5, <1>6

LEMMA FollowedIf ==
  ASSUME NEW mmap \in MemoryMaps, NEW e \in DOMAIN mmap, NEW S, NEW p \in Nat, NEW end \in Nat,
         NEW c \in Nat, end <= c, c < Pages(mmap, e), CarveStart(Pages(mmap, e), c),
         \A q \in Nat, m \in Levels : p < q /\ <<e, q, m>> \in S => c <= q
  PROVE  FollowedBy(mmap, S, e, p, end, Node(mmap, e, c))
<1>1. PICK n \in Nat : n = Pages(mmap, e)
  BY EntryPages
<1>2. c \in end .. n - 1
  BY <1>1
<1>3. ASSUME NEW q \in p + 1 .. c - 1, NEW m \in Levels
      PROVE  <<e, q, m>> \notin S
  <2>1. q \in Nat /\ p < q /\ q < c
    OBVIOUS
  <2> QED BY <2>1
<1> QED BY <1>1, <1>2, <1>3 DEF FollowedBy

\* Nodes of free blocks.
LEMMA FreeNodeFacts ==
  ASSUME NEW mmap \in MemoryMaps, NEW L \in Levels, NEW F, Begins(mmap, L, F),
         NEW e \in DOMAIN mmap, F[e] < Whole(Pages(mmap, e), L),
         NEW f \in DOMAIN mmap, NEW q \in Nat, NEW l \in Levels,
         <<f, q, l>> \in FreeBelow(mmap, L, F)
  PROVE  /\ q < Pages(mmap, f) /\ q + BlockPages[l] <= Pages(mmap, f)
         /\ Node(mmap, f, q) \in Slots(mmap)
         /\ Node(mmap, f, q) # Node(mmap, e, F[e])
<1>1. q < Pages(mmap, f) /\ q + BlockPages[l] <= Pages(mmap, f)
  BY FreeBelowIs
<1>2. PICK w, n, h \in Nat : w = F[e] /\ n = Pages(mmap, e) /\ h = Whole(n, L) /\ w < h /\ h <= n
  BY EntryPages, WholeFacts DEF Begins
<1>3. ASSUME Node(mmap, f, q) = Node(mmap, e, w)
      PROVE  FALSE
  <2>1. f = e /\ q = w
    BY <1>1, <1>2, <1>3, NodesApart
  <2>2. h <= w
    BY <1>2, <2>1, BlocksAround
  <2> QED BY <1>2, <2>2
<1> QED BY <1>1, <1>2, <1>3, NodeIsSlot

(***************************************************************************)
(* A block is pushed in front of those in use.                             *)
(***************************************************************************)
Linked(mmap, t, x, y, P, N, P2, N2) ==
  /\ P2[t] = x /\ N2[t] = y
  /\ \A a \in Slots(mmap) \ {t} : P2[a] = (IF a = y THEN t ELSE P[a])
  /\ \A a \in Slots(mmap) \ {t} : N2[a] = (IF a = x THEN t ELSE N[a])

LEMMA AddTop ==
  ASSUME NEW mmap \in MemoryMaps, NEW L \in Levels, NEW F, Begins(mmap, L, F),
         NEW e \in DOMAIN mmap, NEW k \in Levels, L <= k, Aligned(F[e], k),
         NEW end \in Nat, F[e] + BlockPages[k] <= end, end <= Whole(Pages(mmap, e), L),
         NEW x, NEW y, NEW P, NEW N, NEW P2, NEW N2,
         NEW S0, S0 = FreeBelow(mmap, L, F), NEW S1, S1 = S0 \cup {<<e, F[e], k>>},
         Placed(mmap, S0, P, N),
         PrecededBy(mmap, S0, e, F[e], x),
         Bounded(mmap, S0, N, e, F[e], x),
         FollowedBy(mmap, S0, e, F[e], end, y),
         (/\ LowestBit(F[e] + BlockPages[k], k)
          /\ F[e] + BlockPages[k] = Whole(Pages(mmap, e), L)
          /\ Whole(Pages(mmap, e), L) < Pages(mmap, e))
            => y = Node(mmap, e, Whole(Pages(mmap, e), L)),
         Linked(mmap, Node(mmap, e, F[e]), x, y, P, N, P2, N2)
  PROVE  Placed(mmap, S1, P2, N2)
<1>1. PICK w, n, h \in Nat : w = F[e] /\ n = Pages(mmap, e) /\ h = Whole(n, L) /\ w <= h /\ h <= n
  BY EntryPages, WholeFacts DEF Begins
<1>2. PICK b \in Nat \ {0} : b = BlockPages[k]
  BY SizesOfLevels
<1>3. w + b <= end /\ end <= h /\ w < end /\ w < h /\ w < n /\ end \in Nat
  BY <1>1, <1>2
<1>4. PICK t : t = Node(mmap, e, w)
  OBVIOUS
<1>5. /\ P2[t] = x /\ N2[t] = y
      /\ \A a \in Slots(mmap) \ {t} : P2[a] = IF a = y THEN t ELSE P[a]
      /\ \A a \in Slots(mmap) \ {t} : N2[a] = IF a = x THEN t ELSE N[a]
  BY <1>1, <1>4 DEF Linked
<1>6. S0 \subseteq Blocks(mmap) /\ S1 \subseteq Blocks(mmap)
  <2>1. <<e, w, k>> \in Blocks(mmap)
    BY <1>1, <1>3, PagesInRange
  <2> QED BY <1>1, <2>1 DEF FreeBelow
<1>7. ASSUME NEW f \in DOMAIN mmap, NEW q \in Nat, NEW l \in Levels, <<f, q, l>> \in S0
      PROVE  /\ q < Pages(mmap, f) /\ q + BlockPages[l] <= Pages(mmap, f)
             /\ Node(mmap, f, q) \in Slots(mmap) \ {t}
             /\ PrecededBy(mmap, S0, f, q, P[Node(mmap, f, q)])
             /\ FollowedBy(mmap, S0, f, q, q + BlockPages[l], N[Node(mmap, f, q)])
  BY <1>1, <1>3, <1>4, <1>6, <1>7, FreeNodeFacts, PlacedAt
<1>8. ASSUME NEW q \in Nat, NEW m \in Levels, <<e, q, m>> \in S0
      PROVE  /\ q < w => q + BlockPages[m] <= w
             /\ w <= q => h <= q /\ CarveStart(n, q)
  BY <1>1, <1>8, BlocksAround
<1>9. \/ y = Null
      \/ IsLater(mmap, e, y)
      \/ \E c \in Nat :
           /\ end <= c /\ c < n /\ y = Node(mmap, e, c)
           /\ CarveStart(n, c)
           /\ \A q \in Nat, m \in Levels : w < q /\ <<e, q, m>> \in S0 => c <= q
  BY <1>1, <1>3, FollowedHow, ZenonT(20)
<1>10. \/ IsEarlier(mmap, e, x) /\ CarveStart(n, w)
       \/ \E j \in Levels : LowestBit(w, j) /\ x = Node(mmap, e, w - BlockPages[j])
  <2>1. FreeBelow(mmap, L, F) \subseteq S0 /\ F[e] < Pages(mmap, e)
    BY <1>1, <1>3
  <2>2. \/ IsEarlier(mmap, e, x) /\ CarveStart(Pages(mmap, e), F[e])
        \/ \E j \in Levels : LowestBit(F[e], j) /\ x = Node(mmap, e, F[e] - BlockPages[j])
    BY <2>1, PrecededHow
  <2> QED BY <1>1, <2>2
<1>11. DOMAIN mmap \subseteq Nat
  BY MapIsSequence
<1>12. ASSUME NEW f \in DOMAIN mmap, NEW q \in Nat, NEW l \in Levels, <<f, q, l>> \in S0
       PROVE  PrecededBy(mmap, S1, f, q, P2[Node(mmap, f, q)])
  <2>1. PICK a : a = Node(mmap, f, q)
    OBVIOUS
  <2>2. /\ q < Pages(mmap, f) /\ a \in Slots(mmap) \ {t}
        /\ PrecededBy(mmap, S0, f, q, P[a])
    BY <1>7, <1>12, <2>1
  <2>3. CASE a # y
    <3>1. P2[a] = P[a]
      BY <1>5, <2>2, <2>3
    <3>2. CASE f = e /\ q = w + b /\ LowestBit(q, k)
      <4>1. h <= q
        BY <1>2, <1>8, <1>12, <3>2
      <4>2. q = h /\ h < n
        BY <1>1, <1>3, <2>2, <3>2, <4>1
      <4> QED BY <1>1, <1>2, <2>1, <2>3, <3>2, <4>2
    <3>3. CASE ~(f = e /\ q = w + b /\ LowestBit(q, k))
      <4>1. CASE q = 0
        BY <2>1, <2>2, <3>1, <4>1 DEF PrecededBy
      <4>2. CASE q # 0
        <5>1. PICK j \in Levels :
                /\ LowestBit(q, j)
                /\ \/ P[a] = Node(mmap, f, q - BlockPages[j])
                   \/ /\ CarveStart(Pages(mmap, f), q)
                      /\ IsEarlier(mmap, f, P[a]) \/ <<f, q - BlockPages[j], j>> \notin S0
          BY <2>2, <4>2 DEF PrecededBy
        <5>2. <<f, q - BlockPages[j], j>> # <<e, w, k>>
          <6>1. ASSUME <<f, q - BlockPages[j], j>> = <<e, w, k>>
                PROVE  FALSE
            <7>1. f = e /\ j = k /\ q - b = w
              BY <1>2, <6>1
            <7>2. q = w + b
              BY <1>2, <7>1
            <7> QED BY <3>3, <5>1, <7>1, <7>2
          <6> QED BY <6>1
        <5>3. <<f, q - BlockPages[j], j>> \notin S0 => <<f, q - BlockPages[j], j>> \notin S1
          BY <1>1, <5>2
        <5> QED BY <2>1, <3>1, <4>2, <5>1, <5>3 DEF PrecededBy
      <4> QED BY <4>1, <4>2
    <3> QED BY <3>2, <3>3
  <2>4. CASE a = y
    <3>1. P2[a] = t
      BY <1>5, <2>2, <2>4
    <3>2. y # Null
      BY <2>1, <2>2, <2>4, NodeIsSlot
    <3>3. CASE IsLater(mmap, e, y)
      <4>1. PICK g \in DOMAIN mmap : \E c \in 0 .. Pages(mmap, g) - 1 :
              e < g /\ CarveStart(Pages(mmap, g), c) /\ y = Node(mmap, g, c)
        BY <3>3 DEF IsLater
      <4>2. PICK c \in 0 .. Pages(mmap, g) - 1 :
              e < g /\ CarveStart(Pages(mmap, g), c) /\ y = Node(mmap, g, c)
        BY <4>1
      <4>3. c \in Nat /\ c < Pages(mmap, g)
        BY <4>2, EntryPages
      <4>4. f = g /\ q = c
        <5>1. Node(mmap, f, q) = Node(mmap, g, c) /\ q < Pages(mmap, f)
          BY <2>1, <2>2, <2>4, <4>2
        <5> QED BY <4>3, <5>1, NodesApart
      <4>5. IsEarlier(mmap, f, t)
        BY <1>1, <1>3, <1>4, <4>2, <4>4, EarlierNode
      <4> QED BY <2>1, <2>2, <3>1, <4>2, <4>4, <4>5, EarlierPrecedes
    <3>4. CASE \E c \in Nat :
           /\ end <= c /\ c < n /\ y = Node(mmap, e, c)
           /\ CarveStart(n, c)
           /\ \A i \in Nat, m \in Levels : w < i /\ <<e, i, m>> \in S0 => c <= i
      <4>1. PICK c \in Nat :
           /\ end <= c /\ c < n /\ y = Node(mmap, e, c)
           /\ CarveStart(n, c)
           /\ \A i \in Nat, m \in Levels : w < i /\ <<e, i, m>> \in S0 => c <= i
        BY <3>4
      <4>2. f = e /\ q = c
        BY <1>1, <2>1, <2>2, <2>4, <4>1, NodesApart
      <4>3. q # 0 /\ w < q
        BY <1>3, <4>1, <4>2
      <4>4. PICK j \in Levels : LowestBit(q, j)
        <5>1. q < BlockPages[MaxLevel + 1]
          <6>1. PICK m \in Nat : m = BlockPages[MaxLevel + 1] /\ n < m
            BY <1>1, EntryPages, SizesOfLevels DEF AllLevels, Levels
          <6> QED BY <4>1, <4>2, <6>1
        <5> QED BY <4>3, <5>1, LowestBitExists
      <4>5. PICK d \in Nat \ {0} : d = BlockPages[j]
        BY SizesOfLevels
      <4>6. q - d \in Nat
        BY <4>4, <4>5, WithoutLowestBit
      <4>7. t = Node(mmap, f, q - d) \/ <<f, q - d, j>> \notin S1
        <5>1. SUFFICES ASSUME <<e, q - d, j>> \in S0, q - d # w
                       PROVE  FALSE
          BY <1>1, <1>4, <4>2
        <5>2. CASE w < q - d
          <6>1. q <= q - d
            BY <4>1, <4>2, <4>6, <5>1, <5>2
          <6> QED BY <4>5, <6>1
        <5>3. CASE q - d < w
          <6>1. (q - d) + d <= w
            BY <1>8, <4>5, <4>6, <5>1, <5>3
          <6> QED BY <4>3, <4>5, <6>1
        <5> QED BY <4>6, <5>1, <5>2, <5>3
      <4>8. LowestBit(q, j) /\ CarveStart(Pages(mmap, f), q) /\ d = BlockPages[j] /\ q # 0
        BY <1>1, <4>1, <4>2, <4>3, <4>4, <4>5
      <4>9. PrecededBy(mmap, S1, f, q, t)
        BY <4>7, <4>8 DEF PrecededBy
      <4> QED BY <2>1, <3>1, <4>9
    <3> QED BY <1>9, <2>4, <3>2, <3>3, <3>4
  <2> QED BY <2>1, <2>3, <2>4
<1>13. ASSUME NEW f \in DOMAIN mmap, NEW q \in Nat, NEW l \in Levels, <<f, q, l>> \in S0
       PROVE  FollowedBy(mmap, S1, f, q, q + BlockPages[l], N2[Node(mmap, f, q)])
  <2>1. PICK a : a = Node(mmap, f, q)
    OBVIOUS
  <2>2. PICK g \in Nat : g = q + BlockPages[l]
    BY SizesOfLevels
  <2>3. /\ q < Pages(mmap, f) /\ a \in Slots(mmap) \ {t} /\ g \in Nat
        /\ FollowedBy(mmap, S0, f, q, g, N[a])
    BY <1>7, <1>13, <2>1, <2>2
  <2>4. CASE a = x
    <3>1. N2[a] = t
      BY <1>5, <2>3, <2>4
    <3>2. CASE IsEarlier(mmap, e, x) /\ CarveStart(n, w)
      <4>1. x # Null
        BY <2>1, <2>3, <2>4, NodeIsSlot
      <4>2. PICK i \in 1 .. e - 1 : \E c \in 0 .. Pages(mmap, i) - 1 : x = Node(mmap, i, c)
        BY <3>2, <4>1 DEF IsEarlier
      <4>3. i \in DOMAIN mmap /\ i < e
        BY MapIsSequence
      <4>4. PICK c \in 0 .. Pages(mmap, i) - 1 : x = Node(mmap, i, c)
        BY <4>2
      <4>5. c \in Nat /\ c < Pages(mmap, i)
        BY <4>3, <4>4, EntryPages
      <4>6. f = i
        BY <2>1, <2>3, <2>4, <4>3, <4>4, <4>5, NodesApart
      <4>7. IsLater(mmap, f, t)
        BY <1>1, <1>3, <1>4, <3>2, <4>3, <4>6, EarlierNode
      <4> QED BY <2>1, <2>2, <3>1, <4>7 DEF FollowedBy
    <3>3. CASE \E j \in Levels : LowestBit(w, j) /\ x = Node(mmap, e, w - BlockPages[j])
      <4>1. PICK j \in Levels : LowestBit(w, j) /\ x = Node(mmap, e, w - BlockPages[j])
        BY <3>3
      <4>2. PICK d \in Nat \ {0} : d = BlockPages[j]
        BY SizesOfLevels
      <4>3. w - d \in Nat /\ <<e, w - d, j>> \in S0
        BY <1>1, <4>1, <4>2, BlockBefore
      <4>4. w - d < n
        BY <1>3, <1>1, <4>2
      <4>5. f = e /\ q = w - d
        <5>1. Node(mmap, f, q) = Node(mmap, e, w - d) /\ q < Pages(mmap, f) /\ w - d < Pages(mmap, e)
          BY <1>1, <2>1, <2>3, <2>4, <4>1, <4>2, <4>4
        <5> QED BY <4>3, <5>1, NodesApart
      <4>6. l = j
        BY <1>1, <1>13, <4>3, <4>5, OneLevel
      <4>7. g = w
        BY <2>2, <4>2, <4>3, <4>5, <4>6
      <4>8. w \in w .. n - 1
        BY <1>1, <1>3
      <4>9. <<e, w, k>> \in S1
        BY <1>1
      <4> QED BY <1>1, <1>4, <2>1, <2>2, <3>1, <4>5, <4>7, <4>8, <4>9 DEF FollowedBy
    <3> QED BY <1>10, <3>2, <3>3
  <2>5. CASE a # x
    <3>1. N2[a] = N[a]
      BY <1>5, <2>3, <2>5
    <3> SUFFICES FollowedBy(mmap, S1, f, q, g, N[a])
      BY <2>1, <2>2, <3>1
    <3>2. SUFFICES ASSUME NEW c \in g .. Pages(mmap, f) - 1,
                          N[a] = Node(mmap, f, c), CarveStart(Pages(mmap, f), c),
                          \A i \in q + 1 .. c - 1, m \in Levels : <<f, i, m>> \notin S0
                   PROVE  \A i \in q + 1 .. c - 1, m \in Levels : <<f, i, m>> \notin S1
      BY <1>1, <2>3, ZenonT(20) DEF FollowedBy
    <3>3. SUFFICES ASSUME f = e, w \in q + 1 .. c - 1
                   PROVE  FALSE
      BY <1>1, <3>2
    <3>4. q \in 0 .. w - 1 /\ c \in w + 1 .. n - 1
      BY <1>1, <2>3, <3>2, <3>3
    <3>5. x = a
      BY <1>1, <1>13, <2>1, <3>2, <3>3, <3>4 DEF Bounded
    <3> QED BY <2>5, <3>5
  <2> QED BY <2>1, <2>4, <2>5
<1>14. PrecededBy(mmap, S1, e, w, P2[t])
  <2>1. CASE IsEarlier(mmap, e, x) /\ CarveStart(n, w)
    BY <1>1, <1>3, <1>5, <2>1, EarlierPrecedes
  <2>2. CASE \E j \in Levels : LowestBit(w, j) /\ x = Node(mmap, e, w - BlockPages[j])
    <3>1. w # 0
      BY <2>2, WithoutLowestBit
    <3> QED BY <1>5, <2>2, <3>1 DEF PrecededBy
  <2> QED BY <1>10, <2>1, <2>2
<1>15. FollowedBy(mmap, S1, e, w, w + b, N2[t])
  <2>1. CASE y = Null \/ IsLater(mmap, e, y)
    BY <1>5, <2>1 DEF FollowedBy
  <2>2. CASE \E c \in Nat :
           /\ end <= c /\ c < n /\ y = Node(mmap, e, c)
           /\ CarveStart(n, c)
           /\ \A q \in Nat, m \in Levels : w < q /\ <<e, q, m>> \in S0 => c <= q
    <3>1. PICK c \in Nat :
           /\ end <= c /\ c < n /\ y = Node(mmap, e, c)
           /\ CarveStart(n, c)
           /\ \A q \in Nat, m \in Levels : w < q /\ <<e, q, m>> \in S0 => c <= q
      BY <2>2
    <3>2. w + b <= c /\ w + b \in Nat
      BY <1>3, <3>1
    <3>3. \A q \in Nat, m \in Levels : w < q /\ <<e, q, m>> \in S1 => c <= q
      BY <1>1, <3>1
    <3> QED BY <1>1, <1>5, <3>1, <3>2, <3>3, FollowedIf
  <2> QED BY <1>9, <2>1, <2>2
<1>16. ASSUME NEW f \in DOMAIN mmap, NEW q \in Nat, NEW l \in Levels, <<f, q, l>> \in S1
       PROVE  /\ PrecededBy(mmap, S1, f, q, P2[Node(mmap, f, q)])
              /\ FollowedBy(mmap, S1, f, q, q + BlockPages[l], N2[Node(mmap, f, q)])
  <2>1. CASE <<f, q, l>> \in S0
    BY <1>12, <1>13, <2>1
  <2>2. CASE <<f, q, l>> = <<e, w, k>>
    BY <1>2, <1>4, <1>14, <1>15, <2>2
  <2> QED BY <1>1, <1>16, <2>1, <2>2
<1> QED BY <1>6, <1>16, PlacedAt

(***************************************************************************)
(* A block is popped that is the last one in front of those in use.        *)
(***************************************************************************)
Unlinked(mmap, t, P, N, P2, N2) ==
  /\ \A a \in Slots(mmap) \ {t} : P2[a] = (IF a = N[t] THEN P[t] ELSE P[a])
  /\ \A a \in Slots(mmap) \ {t} : N2[a] = (IF a = P[t] THEN N[t] ELSE N[a])

LEMMA RemoveTop ==
  ASSUME NEW mmap \in MemoryMaps, NEW L \in Levels, NEW F, Begins(mmap, L, F),
         NEW e \in DOMAIN mmap, NEW k \in Levels, L <= k, Aligned(F[e], k),
         F[e] + BlockPages[k] <= Whole(Pages(mmap, e), L),
         NEW P, NEW N, NEW P2, NEW N2,
         NEW S0, S0 = FreeBelow(mmap, L, F), NEW S1, S1 = S0 \cup {<<e, F[e], k>>},
         Placed(mmap, S1, P, N),
         Unlinked(mmap, Node(mmap, e, F[e]), P, N, P2, N2)
  PROVE  /\ Placed(mmap, S0, P2, N2)
         /\ PrecededBy(mmap, S0, e, F[e], P[Node(mmap, e, F[e])])
         /\ Bounded(mmap, S0, N2, e, F[e], P[Node(mmap, e, F[e])])
         /\ FollowedBy(mmap, S0, e, F[e], F[e] + BlockPages[k], N[Node(mmap, e, F[e])])
<1>1. PICK w, n, h \in Nat : w = F[e] /\ n = Pages(mmap, e) /\ h = Whole(n, L) /\ w <= h /\ h <= n
  BY EntryPages, WholeFacts DEF Begins
<1>2. PICK b \in Nat \ {0} : b = BlockPages[k]
  BY SizesOfLevels
<1>3. PICK end \in Nat : end = w + b
  OBVIOUS
<1>3a. end <= h /\ w < end /\ w < h /\ w < n
  BY <1>1, <1>2, <1>3
<1>4. PICK t, x, y : t = Node(mmap, e, w) /\ x = P[t] /\ y = N[t]
  OBVIOUS
<1>5. /\ \A a \in Slots(mmap) \ {t} : P2[a] = IF a = y THEN x ELSE P[a]
      /\ \A a \in Slots(mmap) \ {t} : N2[a] = IF a = x THEN y ELSE N[a]
  BY <1>1, <1>4 DEF Unlinked
<1>6. S0 \subseteq Blocks(mmap) /\ S1 \subseteq Blocks(mmap) /\ S0 \subseteq S1
  <2>1. <<e, w, k>> \in Blocks(mmap)
    BY <1>1, <1>3a, PagesInRange
  <2> QED BY <1>1, <2>1 DEF FreeBelow
<1>7. ASSUME NEW f \in DOMAIN mmap, NEW q \in Nat, NEW l \in Levels, <<f, q, l>> \in S0
      PROVE  /\ q < Pages(mmap, f) /\ q + BlockPages[l] <= Pages(mmap, f)
             /\ Node(mmap, f, q) \in Slots(mmap) \ {t}
             /\ PrecededBy(mmap, S1, f, q, P[Node(mmap, f, q)])
             /\ FollowedBy(mmap, S1, f, q, q + BlockPages[l], N[Node(mmap, f, q)])
  BY <1>1, <1>3a, <1>4, <1>6, <1>7, FreeNodeFacts, PlacedAt
<1>8. ASSUME NEW q \in Nat, NEW m \in Levels, <<e, q, m>> \in S0
      PROVE  /\ q < w => q + BlockPages[m] <= w
             /\ w <= q => h <= q /\ CarveStart(n, q)
  BY <1>1, <1>8, BlocksAround
<1>9. PrecededBy(mmap, S1, e, w, x) /\ FollowedBy(mmap, S1, e, w, end, y)
  <2>1. <<e, w, k>> \in S1
    BY <1>1
  <2> QED BY <1>1, <1>2, <1>3, <1>4, <1>6, <2>1, PlacedAt
<1>10. \/ y = Null
       \/ IsLater(mmap, e, y)
       \/ \E c \in Nat :
            /\ end <= c /\ c < n /\ y = Node(mmap, e, c)
            /\ CarveStart(n, c)
            /\ \A q \in Nat, m \in Levels : w < q /\ <<e, q, m>> \in S1 => c <= q
  <2>1. /\ S1 \subseteq FreeBelow(mmap, L, F) \cup {<<e, F[e], k>>} /\ F[e] < end
        /\ FollowedBy(mmap, S1, e, F[e], end, y) /\ end <= Whole(Pages(mmap, e), L)
    BY <1>1, <1>3a, <1>9
  <2>2. \/ y = Null
        \/ IsLater(mmap, e, y)
        \/ \E c \in Nat :
             /\ end <= c /\ c < Pages(mmap, e) /\ y = Node(mmap, e, c)
             /\ CarveStart(Pages(mmap, e), c)
             /\ \A q \in Nat, m \in Levels : F[e] < q /\ <<e, q, m>> \in S1 => c <= q
    BY ONLY <2>1, FollowedHow, mmap \in MemoryMaps, L \in Levels, Begins(mmap, L, F), e \in DOMAIN mmap, end \in Nat
  <2> QED BY <1>1, <2>2
<1>11. \/ IsEarlier(mmap, e, x) /\ CarveStart(n, w)
       \/ \E j \in Levels : LowestBit(w, j) /\ x = Node(mmap, e, w - BlockPages[j])
  <2>1. /\ FreeBelow(mmap, L, F) \subseteq S1 /\ F[e] < Pages(mmap, e)
        /\ PrecededBy(mmap, S1, e, F[e], x)
    BY <1>1, <1>3a, <1>9
  <2>2. \/ IsEarlier(mmap, e, x) /\ CarveStart(Pages(mmap, e), F[e])
        \/ \E j \in Levels : LowestBit(F[e], j) /\ x = Node(mmap, e, F[e] - BlockPages[j])
    BY <2>1, PrecededHow
  <2> QED BY <1>1, <2>2
<1>12. ASSUME NEW f \in DOMAIN mmap, NEW q, NEW v, PrecededBy(mmap, S1, f, q, v)
       PROVE  PrecededBy(mmap, S0, f, q, v)
  BY <1>6, <1>12 DEF PrecededBy
<1>13. ASSUME NEW f \in DOMAIN mmap, NEW q \in Nat, NEW l \in Levels, <<f, q, l>> \in S0
       PROVE  PrecededBy(mmap, S0, f, q, P2[Node(mmap, f, q)])
  <2>1. PICK a : a = Node(mmap, f, q)
    OBVIOUS
  <2>2. /\ q < Pages(mmap, f) /\ a \in Slots(mmap) \ {t}
        /\ PrecededBy(mmap, S0, f, q, P[a])
    BY <1>7, <1>12, <1>13, <2>1
  <2>3. CASE a # y
    <3>1. P2[a] = P[a]
      BY <1>5, <2>2, <2>3
    <3> QED BY <2>1, <2>2, <3>1
  <2>4. CASE a = y
    <3>1. P2[a] = x
      BY <1>5, <2>2, <2>4
    <3>2. y # Null
      BY <2>1, <2>2, <2>4, NodeIsSlot
    <3>3. CASE IsLater(mmap, e, y)
      <4>1. PICK g \in DOMAIN mmap : \E c \in 0 .. Pages(mmap, g) - 1 :
              e < g /\ CarveStart(Pages(mmap, g), c) /\ y = Node(mmap, g, c)
        BY <3>3 DEF IsLater
      <4>2. PICK c \in 0 .. Pages(mmap, g) - 1 :
              e < g /\ CarveStart(Pages(mmap, g), c) /\ y = Node(mmap, g, c)
        BY <4>1
      <4>3. c \in Nat /\ c < Pages(mmap, g)
        BY <4>2, EntryPages
      <4>4. f = g /\ q = c
        <5>1. Node(mmap, f, q) = Node(mmap, g, c) /\ q < Pages(mmap, f)
          BY <2>1, <2>2, <2>4, <4>2
        <5> QED BY <4>3, <5>1, NodesApart
      <4>5. IsEarlier(mmap, f, x)
        <5>1. CASE IsEarlier(mmap, e, x)
          BY <4>2, <4>4, <5>1, EarlierNode
        <5>2. CASE \E j \in Levels : LowestBit(w, j) /\ x = Node(mmap, e, w - BlockPages[j])
          <6>1. PICK j \in Levels : LowestBit(w, j) /\ x = Node(mmap, e, w - BlockPages[j])
            BY <5>2
          <6>2. PICK d \in Nat \ {0} : d = BlockPages[j]
            BY SizesOfLevels
          <6>3. w - d \in Nat
            BY <6>1, <6>2, WithoutLowestBit
          <6>4. w - d < Pages(mmap, e)
            BY <1>1, <1>3a, <6>2
          <6> QED BY <4>2, <4>4, <6>1, <6>2, <6>3, <6>4, EarlierNode
        <5> QED BY <1>11, <5>1, <5>2
      <4> QED BY <2>1, <2>2, <3>1, <4>2, <4>4, <4>5, EarlierPrecedes
    <3>4. CASE \E c \in Nat :
           /\ end <= c /\ c < n /\ y = Node(mmap, e, c)
           /\ CarveStart(n, c)
           /\ \A i \in Nat, m \in Levels : w < i /\ <<e, i, m>> \in S1 => c <= i
      <4>1. PICK c \in Nat :
           /\ end <= c /\ c < n /\ y = Node(mmap, e, c)
           /\ CarveStart(n, c)
           /\ \A i \in Nat, m \in Levels : w < i /\ <<e, i, m>> \in S1 => c <= i
        BY <3>4
      <4>2. f = e /\ q = c
        <5>1. Node(mmap, f, q) = Node(mmap, e, c) /\ q < Pages(mmap, f) /\ c < Pages(mmap, e)
          BY <1>1, <2>1, <2>2, <2>4, <4>1
        <5> QED BY <5>1, NodesApart
      <4>3. q # 0 /\ w < q
        BY <1>3a, <4>1, <4>2
      <4>4. PICK j \in Levels : LowestBit(q, j)
        <5>1. q < BlockPages[MaxLevel + 1]
          <6>1. PICK m \in Nat : m = BlockPages[MaxLevel + 1] /\ n < m
            BY <1>1, EntryPages, SizesOfLevels DEF AllLevels, Levels
          <6> QED BY <4>1, <4>2, <6>1
        <5> QED BY <4>3, <5>1, LowestBitExists
      <4>5. PICK d \in Nat \ {0} : d = BlockPages[j]
        BY SizesOfLevels
      <4>6. q - d \in Nat
        BY <4>4, <4>5, WithoutLowestBit
      <4>7. <<f, q - d, j>> \notin S0
        <5>1. SUFFICES ASSUME <<e, q - d, j>> \in S0
                       PROVE  FALSE
          BY <4>2
        <5>2. CASE w < q - d
          <6>1. q <= q - d
            BY <1>6, <4>1, <4>2, <4>6, <5>1, <5>2
          <6> QED BY <4>5, <6>1
        <5>3. CASE q - d < w
          <6>1. (q - d) + d <= w
            BY <1>8, <4>5, <4>6, <5>1, <5>3
          <6> QED BY <4>3, <4>5, <6>1
        <5>4. CASE q - d = w
          <6>1. h <= w
            BY <1>8, <4>6, <5>1, <5>4
          <6> QED BY <1>3a, <6>1
        <5> QED BY <4>6, <5>2, <5>3, <5>4
      <4>8. LowestBit(q, j) /\ CarveStart(Pages(mmap, f), q) /\ d = BlockPages[j] /\ q # 0
        BY <1>1, <4>1, <4>2, <4>3, <4>4, <4>5
      <4>9. PrecededBy(mmap, S0, f, q, x)
        BY <4>7, <4>8 DEF PrecededBy
      <4> QED BY <2>1, <3>1, <4>9
    <3> QED BY <1>10, <2>4, <3>2, <3>3, <3>4
  <2> QED BY <2>1, <2>3, <2>4
<1>14. FollowedBy(mmap, S0, e, w, end, y)
  <2>1. CASE y = Null \/ IsLater(mmap, e, y)
    BY <2>1 DEF FollowedBy
  <2>2. CASE \E c \in Nat :
           /\ end <= c /\ c < n /\ y = Node(mmap, e, c)
           /\ CarveStart(n, c)
           /\ \A q \in Nat, m \in Levels : w < q /\ <<e, q, m>> \in S1 => c <= q
    BY <1>1, <1>6, <2>2, FollowedIf
  <2> QED BY <1>10, <2>1, <2>2
\* No block between the one before and page w.
<1>15. ASSUME NEW j \in Levels, LowestBit(w, j), NEW q \in Nat, NEW m \in Levels,
              w - BlockPages[j] < q, <<e, q, m>> \in S0
       PROVE  h <= q
  <2>1. PICK d \in Nat \ {0} : d = BlockPages[j]
    BY SizesOfLevels
  <2>2. w - d \in Nat /\ (q < w => q <= w - d)
    BY <1>1, <1>15, <2>1, BlockBefore
  <2>3. ~(q < w)
    BY <1>15, <2>1, <2>2
  <2> QED BY <1>8, <1>15, <2>3
<1>16. ASSUME NEW f \in DOMAIN mmap, NEW q \in Nat, NEW l \in Levels, <<f, q, l>> \in S0
       PROVE  FollowedBy(mmap, S0, f, q, q + BlockPages[l], N2[Node(mmap, f, q)])
  <2>1. PICK a : a = Node(mmap, f, q)
    OBVIOUS
  <2>2. PICK g \in Nat : g = q + BlockPages[l]
    BY SizesOfLevels
  <2>3. /\ q < Pages(mmap, f) /\ a \in Slots(mmap) \ {t}
        /\ FollowedBy(mmap, S1, f, q, g, N[a])
    BY <1>7, <1>16, <2>1, <2>2
  <2>4. CASE a = x
    <3>1. N2[a] = y
      BY <1>5, <2>3, <2>4
    <3>2. CASE IsEarlier(mmap, e, x)
      <4>1. x # Null
        BY <2>1, <2>3, <2>4, NodeIsSlot
      <4>2. PICK i \in 1 .. e - 1 : \E c \in 0 .. Pages(mmap, i) - 1 : x = Node(mmap, i, c)
        BY <3>2, <4>1 DEF IsEarlier
      <4>3. i \in DOMAIN mmap /\ i < e
        BY MapIsSequence
      <4>4. PICK c \in 0 .. Pages(mmap, i) - 1 : x = Node(mmap, i, c)
        BY <4>2
      <4>5. c \in Nat /\ c < Pages(mmap, i)
        BY <4>3, <4>4, EntryPages
      <4>6. f = i
        <5>1. Node(mmap, f, q) = Node(mmap, i, c) /\ q < Pages(mmap, f)
          BY <2>1, <2>3, <2>4, <4>4
        <5> QED BY <4>3, <4>5, <5>1, NodesApart
      <4>7. y = Null \/ IsLater(mmap, f, y)
        BY <1>1, <1>10, <4>3, <4>6, EarlierNode
      <4>8. FollowedBy(mmap, S0, f, q, g, y)
        BY <4>7 DEF FollowedBy
      <4> QED BY <2>1, <2>2, <3>1, <4>8
    <3>3. CASE \E j \in Levels : LowestBit(w, j) /\ x = Node(mmap, e, w - BlockPages[j])
      <4>1. PICK j \in Levels : LowestBit(w, j) /\ x = Node(mmap, e, w - BlockPages[j])
        BY <3>3
      <4>2. PICK d \in Nat \ {0} : d = BlockPages[j]
        BY SizesOfLevels
      <4>3. w - d \in Nat /\ <<e, w - d, j>> \in S0
        BY <1>1, <4>1, <4>2, BlockBefore
      <4>5. f = e /\ q = w - d
        <5>1. Node(mmap, f, q) = Node(mmap, e, w - d) /\ q < Pages(mmap, f) /\ w - d < Pages(mmap, e)
          BY <1>1, <1>3a, <2>1, <2>3, <2>4, <4>1, <4>2
        <5> QED BY <4>3, <5>1, NodesApart
      <4>6. l = j
        BY <1>1, <1>16, <4>3, <4>5, OneLevel
      <4>7. g = w
        BY <2>2, <4>2, <4>3, <4>5, <4>6
      <4>8. CASE y = Null \/ IsLater(mmap, e, y)
        BY <2>1, <2>2, <3>1, <4>5, <4>8 DEF FollowedBy
      <4>9. CASE \E c \in Nat :
            /\ end <= c /\ c < n /\ y = Node(mmap, e, c)
            /\ CarveStart(n, c)
            /\ \A i \in Nat, m \in Levels : w < i /\ <<e, i, m>> \in S1 => c <= i
        <5>1. PICK c \in Nat :
            /\ end <= c /\ c < n /\ y = Node(mmap, e, c)
            /\ CarveStart(n, c)
            /\ \A i \in Nat, m \in Levels : w < i /\ <<e, i, m>> \in S1 => c <= i
          BY <4>9
        <5>2. ASSUME NEW i \in Nat, NEW m \in Levels, q < i, <<e, i, m>> \in S0
              PROVE  c <= i
          <6>1. h <= i
            BY <1>15, <4>1, <4>2, <4>5, <5>2
          <6>2. w < i
            BY <1>3a, <6>1
          <6> QED BY <1>6, <5>1, <5>2, <6>2
        <5>3. g <= c /\ c < Pages(mmap, e) /\ CarveStart(Pages(mmap, e), c)
          BY <1>1, <1>3a, <4>7, <5>1
        <5>4. FollowedBy(mmap, S0, e, q, g, y)
          BY <5>1, <5>2, <5>3, FollowedIf
        <5> QED BY <2>1, <2>2, <3>1, <4>5, <5>4
      <4> QED BY <1>10, <4>8, <4>9
    <3> QED BY <1>11, <3>2, <3>3
  <2>5. CASE a # x
    <3>1. N2[a] = N[a]
      BY <1>5, <2>3, <2>5
    <3> SUFFICES FollowedBy(mmap, S0, f, q, g, N[a])
      BY <2>1, <2>2, <3>1
    <3>2. SUFFICES ASSUME N[a] = Node(mmap, f, g), g \in Nat, g < Pages(mmap, f),
                          <<f, g, k>> = <<e, w, k>>
                   PROVE  FollowedBy(mmap, S0, f, q, g, N[a])
      <4>1. CASE N[a] = Null \/ IsLater(mmap, f, N[a])
        BY <4>1 DEF FollowedBy
      <4>2. ASSUME NEW c \in g .. Pages(mmap, f) - 1, N[a] = Node(mmap, f, c),
                   CarveStart(Pages(mmap, f), c),
                   \A i \in q + 1 .. c - 1, m \in Levels : <<f, i, m>> \notin S1
            PROVE  FollowedBy(mmap, S0, f, q, g, N[a])
        BY <1>6, <4>2 DEF FollowedBy
      <4>3. ASSUME N[a] = Node(mmap, f, g), g \in g .. Pages(mmap, f) - 1,
                   NEW m \in Levels, <<f, g, m>> \in S1
            PROVE  FollowedBy(mmap, S0, f, q, g, N[a])
        <5>1. g < Pages(mmap, f)
          BY <4>3, EntryPages
        <5>2. CASE <<f, g, m>> \in S0
          BY <4>3, <5>2 DEF FollowedBy
        <5>3. CASE <<f, g, m>> = <<e, w, k>>
          BY <3>2, <4>3, <5>1, <5>3
        <5> QED BY <1>1, <4>3, <5>2, <5>3
      <4> QED BY <2>3, <4>1, <4>2, <4>3 DEF FollowedBy
    <3>3. f = e /\ g = w /\ N[a] = t
      BY <1>4, <3>2
    <3>4. PICK c \in Nat \ {0} : c = BlockPages[l] /\ q = w - c /\ w - c \in Nat
      BY <2>2, <3>3, SizesOfLevels
    <3>5. LowestBit(w, l)
      <4>1. Digit(w, q, l)
        BY <1>1, <1>16, <3>3, <3>4, BlocksAround
      <4>2. Aligned(q, l + 1) /\ q + c = w
        BY <3>4, <4>1 DEF Digit
      <4> QED BY <3>4, <4>2, WithLowestBit
    <3>6. x # Node(mmap, e, w - c)
      BY <2>1, <2>5, <3>3, <3>4
    <3>7. CarveStart(n, w)
      <4>1. ASSUME NEW j \in Levels, LowestBit(w, j)
            PROVE  j = l
        BY <3>5, <4>1, LowestBitUnique
      <4> QED BY <1>11, <3>4, <3>6, <4>1
    <3>8. ASSUME NEW i \in Nat, NEW m \in Levels, q < i, <<e, i, m>> \in S0
          PROVE  w <= i
      <4>1. h <= i
        BY <1>15, <3>4, <3>5, <3>8
      <4> QED BY <1>3a, <4>1
    <3>9. FollowedBy(mmap, S0, e, q, w, Node(mmap, e, w))
      BY <1>1, <1>3a, <3>7, <3>8, FollowedIf
    <3> QED BY <1>4, <3>3, <3>9
  <2> QED BY <2>1, <2>4, <2>5
<1>17. Bounded(mmap, S0, N2, e, w, x)
  <2> SUFFICES ASSUME NEW q \in 0 .. w - 1, NEW m \in Levels, NEW c \in w + 1 .. n - 1,
                      <<e, q, m>> \in S0, N2[Node(mmap, e, q)] = Node(mmap, e, c),
                      x # Node(mmap, e, q)
               PROVE  FALSE
    BY <1>1 DEF Bounded
  <2>1. PICK a : a = Node(mmap, e, q)
    OBVIOUS
  <2>2. PICK g \in Nat : g = q + BlockPages[m]
    BY SizesOfLevels
  <2>3. q \in Nat /\ c \in Nat /\ q < w /\ w < c /\ c < n /\ g <= w
    BY <1>8, <2>2
  <2>4. N[a] = Node(mmap, e, c) /\ FollowedBy(mmap, S1, e, q, g, Node(mmap, e, c))
    <3>1. a \in Slots(mmap) \ {t} /\ FollowedBy(mmap, S1, e, q, g, N[a])
      BY <1>7, <2>1, <2>2, <2>3
    <3>2. N2[a] = N[a]
      BY <1>5, <2>1, <3>1
    <3> QED BY <2>1, <3>1, <3>2
  <2>5. Node(mmap, e, c) # Null
    BY <1>1, <2>3, NodeIsSlot
  <2>6. ~IsLater(mmap, e, Node(mmap, e, c))
    <3> SUFFICES ASSUME NEW f \in DOMAIN mmap, NEW i \in 0 .. Pages(mmap, f) - 1,
                        e < f, Node(mmap, e, c) = Node(mmap, f, i)
                 PROVE  FALSE
      BY DEF IsLater
    <3>1. i \in Nat /\ i < Pages(mmap, f) /\ c < Pages(mmap, e)
      BY <1>1, <2>3, EntryPages
    <3>2. e = f
      BY <2>3, <3>1, NodesApart
    <3> QED BY <3>2, EntryPages
  <2>7. PICK i \in g .. n - 1 :
          /\ Node(mmap, e, c) = Node(mmap, e, i)
          /\ \/ \A j \in q + 1 .. i - 1, l \in Levels : <<e, j, l>> \notin S1
             \/ i = g
    BY <1>1, <2>4, <2>5, <2>6 DEF FollowedBy
  <2>8. i = c
    <3>1. i \in Nat /\ i < Pages(mmap, e) /\ c < Pages(mmap, e)
      BY <1>1, <2>3
    <3> QED BY <2>3, <2>7, <3>1, NodesApart
  <2>9. w \in q + 1 .. i - 1 /\ i # g
    BY <2>3, <2>8
  <2>10. <<e, w, k>> \in S1
    BY <1>1
  <2> QED BY <2>7, <2>9, <2>10
<1>18. Placed(mmap, S0, P2, N2)
  BY <1>6, <1>13, <1>16, PlacedAt
<1> QED BY <1>1, <1>2, <1>3, <1>4, <1>9, <1>12, <1>14, <1>17, <1>18

\* Behind the block before, no node that comes earlier has a next one.
LEMMA BoundedBefore ==
  ASSUME NEW mmap \in MemoryMaps, NEW L \in Levels, NEW F, Begins(mmap, L, F),
         NEW e \in DOMAIN mmap, NEW k \in Levels, LowestBit(F[e], k), NEW P, NEW N,
         NEW S, S = FreeBelow(mmap, L, F), Placed(mmap, S, P, N)
  PROVE  Bounded(mmap, S, N, e, F[e], Node(mmap, e, F[e] - BlockPages[k]))
<1>1. PICK w, n, h \in Nat : w = F[e] /\ n = Pages(mmap, e) /\ h = Whole(n, L) /\ w <= h /\ h <= n
  BY EntryPages, WholeFacts DEF Begins
<1>2. PICK b \in Nat \ {0} : b = BlockPages[k]
  BY SizesOfLevels
<1>3. /\ w - b \in Nat /\ <<e, w - b, k>> \in S
      /\ \A p \in Nat, l \in Levels : <<e, p, l>> \in S /\ p < w => p <= w - b
  BY <1>1, <1>2, BlockBefore
<1>4. SUFFICES ASSUME NEW q \in 0 .. w - 1, NEW m \in Levels, NEW c \in w + 1 .. n - 1,
                      <<e, q, m>> \in S, N[Node(mmap, e, q)] = Node(mmap, e, c)
               PROVE  q = w - b
  BY <1>1, <1>2 DEF Bounded
<1>5. PICK g \in Nat : g = q + BlockPages[m]
  BY SizesOfLevels
<1>6. q \in Nat /\ c \in Nat /\ q < w /\ w < c /\ c < n
  OBVIOUS
<1>7. g <= w
  BY <1>1, <1>4, <1>5, <1>6, BlocksAround
<1>8. FollowedBy(mmap, S, e, q, g, Node(mmap, e, c))
  <2>1. S \subseteq Blocks(mmap)
    BY DEF FreeBelow
  <2> QED BY <1>4, <1>5, <1>6, <2>1, PlacedAt
<1>9. Node(mmap, e, c) # Null
  BY <1>1, <1>6, NodeIsSlot
<1>10. ~IsLater(mmap, e, Node(mmap, e, c))
  <2> SUFFICES ASSUME NEW f \in DOMAIN mmap, NEW i \in 0 .. Pages(mmap, f) - 1,
                      e < f, Node(mmap, e, c) = Node(mmap, f, i)
               PROVE  FALSE
    BY DEF IsLater
  <2>1. i \in Nat /\ i < Pages(mmap, f) /\ c < Pages(mmap, e)
    BY <1>1, <1>6, EntryPages
  <2>2. e = f
    BY <1>6, <2>1, NodesApart
  <2> QED BY <2>2, EntryPages
<1>11. PICK i \in g .. n - 1 :
         /\ Node(mmap, e, c) = Node(mmap, e, i)
         /\ \/ \A j \in q + 1 .. i - 1, l \in Levels : <<e, j, l>> \notin S
            \/ i = g
  BY <1>1, <1>8, <1>9, <1>10 DEF FollowedBy
<1>12. i = c
  <2>1. i \in Nat /\ i < Pages(mmap, e) /\ c < Pages(mmap, e)
    BY <1>1, <1>6
  <2> QED BY <1>6, <1>11, <2>1, NodesApart
<1>13. ~(w - b \in q + 1 .. c - 1)
  BY <1>3, <1>6, <1>7, <1>11, <1>12
<1>14. q <= w - b
  BY <1>3, <1>4, <1>6
<1> QED BY <1>2, <1>3, <1>6, <1>13, <1>14

LEMMA FollowedOn ==
  ASSUME NEW mmap \in MemoryMaps, NEW L \in Levels, NEW F, Begins(mmap, L, F),
         NEW e \in DOMAIN mmap, NEW S, S = FreeBelow(mmap, L, F),
         NEW end \in Nat, F[e] < end, end <= Whole(Pages(mmap, e), L),
         NEW y, FollowedBy(mmap, S, e, F[e], end, y),
         NEW S2, NEW p2 \in Nat, NEW end2 \in Nat, end2 <= end,
         \A q \in Nat, m \in Levels : p2 < q /\ <<e, q, m>> \in S2 => F[e] < q /\ <<e, q, m>> \in S
  PROVE  FollowedBy(mmap, S2, e, p2, end2, y)
<1>1. \/ y = Null
      \/ IsLater(mmap, e, y)
      \/ \E c \in Nat :
           /\ end <= c /\ c < Pages(mmap, e) /\ y = Node(mmap, e, c)
           /\ CarveStart(Pages(mmap, e), c)
           /\ \A q \in Nat, m \in Levels : F[e] < q /\ <<e, q, m>> \in S => c <= q
  <2>1. S \subseteq FreeBelow(mmap, L, F) \cup {<<e, F[e], 0>>}
    OBVIOUS
  <2> QED BY ONLY <2>1, FollowedHow, mmap \in MemoryMaps, L \in Levels, Begins(mmap, L, F),
             e \in DOMAIN mmap, end \in Nat, F[e] < end, end <= Whole(Pages(mmap, e), L),
             FollowedBy(mmap, S, e, F[e], end, y)
<1>2. CASE y = Null \/ IsLater(mmap, e, y)
  BY <1>2 DEF FollowedBy
<1>3. ASSUME NEW c \in Nat,
             end <= c, c < Pages(mmap, e), y = Node(mmap, e, c),
             CarveStart(Pages(mmap, e), c),
             \A q \in Nat, m \in Levels : F[e] < q /\ <<e, q, m>> \in S => c <= q
      PROVE  FollowedBy(mmap, S2, e, p2, end2, y)
  <2>1. end2 <= c
    BY <1>3
  <2>2. \A q \in Nat, m \in Levels : p2 < q /\ <<e, q, m>> \in S2 => c <= q
    BY <1>3
  <2> QED BY <1>3, <2>1, <2>2, FollowedIf
<1> QED BY <1>1, <1>2, <1>3

(***************************************************************************)
(* The nodes of free blocks, and their links.                              *)
(***************************************************************************)
LEMMA FreeBlocksIs ==
  ASSUME NEW mmap \in MemoryMaps, NEW m, NEW e \in DOMAIN mmap, NEW p \in Nat, NEW l \in Levels
  PROVE  <<e, p, l>> \in FreeBlocks(mmap, m)
           <=> /\ p < Pages(mmap, e)
               /\ m[Node(mmap, e, p)].Pointer # Null /\ m[Node(mmap, e, p)].Level = l
BY PagesInRange DEF FreeBlocks

LEMMA BlocksEqual ==
  ASSUME NEW mmap \in MemoryMaps, NEW S \in SUBSET Blocks(mmap), NEW T \in SUBSET Blocks(mmap),
         \A e \in DOMAIN mmap : \A p \in Nat, l \in Levels : <<e, p, l>> \in S <=> <<e, p, l>> \in T
  PROVE  S = T
<1>1. \A b \in Blocks(mmap) : /\ b = <<b[1], b[2], b[3]>> /\ b[1] \in DOMAIN mmap
                              /\ b[2] \in Nat /\ b[3] \in Levels
  <2>1. BlockPages[MaxLevel + 1] \in Nat
    BY SizesOfLevels DEF AllLevels, Levels
  <2> QED BY <2>1 DEF Blocks
<1>2. ASSUME NEW b \in Blocks(mmap)
      PROVE  b \in S <=> b \in T
  <2>1. PICK e \in DOMAIN mmap, p \in Nat, l \in Levels : b = <<e, p, l>>
    BY <1>1
  <2> QED BY <2>1
<1> QED BY <1>2

LEMMA PushedLinks ==
  ASSUME NEW m \in [Slots(KernelMmap) -> NodeRecords], NEW heads,
         NEW node \in Slots(KernelMmap), NEW pointer, NEW x, NEW y, NEW level,
         NEW m2, m2 = Pushed(m, heads, node, pointer, x, y, level)
  PROVE  Linked(KernelMmap, node, x, y, Previous(m), Following(m), Previous(m2), Following(m2))
<1>1. m2 = [a \in Slots(KernelMmap) |->
     IF a = node
     THEN [Pointer |-> pointer, PosPrevious |-> x, PosNext |-> y,
           SizePrevious |-> heads[level], SizeNext |-> Null, Level |-> level]
     ELSE [m[a] EXCEPT !.PosNext     = IF a = x THEN node ELSE @,
                       !.PosPrevious = IF a = y THEN node ELSE @,
                       !.SizeNext    = IF a = heads[level] THEN node ELSE @]]
  BY DEF Pushed
<1>2. m2[node] = [Pointer |-> pointer, PosPrevious |-> x, PosNext |-> y,
                  SizePrevious |-> heads[level], SizeNext |-> Null, Level |-> level]
  BY <1>1
<1>3. ASSUME NEW a \in Slots(KernelMmap) \ {node}
      PROVE  /\ m2[a].PosPrevious = IF a = y THEN node ELSE m[a].PosPrevious
             /\ m2[a].PosNext = IF a = x THEN node ELSE m[a].PosNext
  <2>1. PICK own : own = m[a]
    OBVIOUS
  <2>2. m2[a] = [own EXCEPT !.PosNext     = IF a = x THEN node ELSE own.PosNext,
                            !.PosPrevious = IF a = y THEN node ELSE own.PosPrevious,
                            !.SizeNext    = IF a = heads[level] THEN node ELSE own.SizeNext]
    BY <1>1, <2>1
  <2>3. own \in NodeRecords
    BY <2>1
  <2> QED BY <2>1, <2>2, <2>3 DEF NodeRecords
<1>4. DOMAIN m2 = Slots(KernelMmap) /\ DOMAIN m = Slots(KernelMmap)
  BY <1>1
<1> QED BY <1>2, <1>3, <1>4 DEF Linked, Previous, Following

LEMMA PoppedLinks ==
  ASSUME TypeOK, NEW level \in Levels, NEW node \in Slots(KernelMmap), node = Nodes[level],
         PopBlock(level)
  PROVE  Unlinked(KernelMmap, node, Previous(mem), Following(mem), Previous(mem'), Following(mem'))
<1>1. PICK x, y, z : x = mem[node].PosPrevious /\ y = mem[node].PosNext /\ z = mem[node].SizePrevious
  OBVIOUS
<1>2. mem' = [a \in Slots(KernelMmap) |->
           IF a = node THEN EmptyNode
           ELSE [mem[a] EXCEPT
                   !.PosNext     = IF a = x THEN y ELSE @,
                   !.PosPrevious = IF a = y THEN x ELSE @,
                   !.SizeNext    = IF a = z THEN Null ELSE @]]
  BY <1>1 DEF PopBlock, TypeOK
<1>3. ASSUME NEW a \in Slots(KernelMmap) \ {node}
      PROVE  /\ mem'[a].PosPrevious = IF a = y THEN x ELSE mem[a].PosPrevious
             /\ mem'[a].PosNext = IF a = x THEN y ELSE mem[a].PosNext
  <2>1. PICK own : own = mem[a]
    OBVIOUS
  <2>2. mem'[a] = [own EXCEPT !.PosNext     = IF a = x THEN y ELSE own.PosNext,
                              !.PosPrevious = IF a = y THEN x ELSE own.PosPrevious,
                              !.SizeNext    = IF a = z THEN Null ELSE own.SizeNext]
    BY <1>2, <2>1
  <2>3. own \in NodeRecords
    BY <2>1 DEF TypeOK
  <2> QED BY <2>1, <2>2, <2>3 DEF NodeRecords
<1>4. DOMAIN mem' = Slots(KernelMmap) /\ DOMAIN mem = Slots(KernelMmap)
  BY <1>2 DEF TypeOK
<1> QED BY <1>1, <1>3, <1>4 DEF Unlinked, Previous, Following

PositionsAre(m, P, N) ==
  /\ DOMAIN m = Slots(KernelMmap)
  /\ \A a \in Slots(KernelMmap) : m[a].PosPrevious = P[a] /\ m[a].PosNext = N[a]

LEMMA PosUnlinkedPositions ==
  ASSUME NEW m \in [Slots(KernelMmap) -> NodeRecords], NEW before, NEW after,
         NEW m2, m2 = PosUnlinked(m, before, after)
  PROVE  PositionsAre(m2, [a \in Slots(KernelMmap) |-> IF a = after THEN before ELSE m[a].PosPrevious],
                          [a \in Slots(KernelMmap) |-> IF a = before THEN after ELSE m[a].PosNext])
<1>1. DOMAIN m2 = Slots(KernelMmap)
  BY DEF PosUnlinked
<1>2. ASSUME NEW a \in Slots(KernelMmap)
      PROVE  /\ m2[a].PosNext = IF a = before THEN after ELSE m[a].PosNext
             /\ m2[a].PosPrevious = IF a = after THEN before ELSE m[a].PosPrevious
  <2>1. PICK own \in NodeRecords : own = m[a]
    OBVIOUS
  <2>2. m2[a] = [own EXCEPT !.PosNext     = IF a = before THEN after ELSE own.PosNext,
                            !.PosPrevious = IF a = after THEN before ELSE own.PosPrevious]
    BY <2>1 DEF PosUnlinked
  <2> QED BY <2>1, <2>2 DEF NodeRecords
<1> QED BY <1>1, <1>2 DEF PositionsAre

LEMMA SizeUnlinkedPositions ==
  ASSUME NEW m \in [Slots(KernelMmap) -> NodeRecords], NEW node,
         NEW m2, m2 = SizeUnlinked(m, node), NEW P, NEW N, PositionsAre(m, P, N)
  PROVE  PositionsAre(m2, P, N)
<1>1. PICK below, above : below = m[node].SizePrevious /\ above = m[node].SizeNext
  OBVIOUS
<1>2. DOMAIN m2 = Slots(KernelMmap)
  BY DEF SizeUnlinked
<1>3. ASSUME NEW a \in Slots(KernelMmap)
      PROVE  m2[a].PosPrevious = m[a].PosPrevious /\ m2[a].PosNext = m[a].PosNext
  <2>1. PICK own \in NodeRecords : own = m[a]
    OBVIOUS
  <2>2. m2[a] = [own EXCEPT !.SizeNext     = IF a = below THEN above ELSE own.SizeNext,
                            !.SizePrevious = IF a = above THEN below ELSE own.SizePrevious]
    BY <1>1, <2>1 DEF SizeUnlinked
  <2> QED BY <2>1, <2>2 DEF NodeRecords
<1> QED BY <1>2, <1>3 DEF PositionsAre

\* Two nodes are unlinked, the right one first, and the left one is pushed again.
LEMMA MergedLinks ==
  ASSUME TypeOK, NEW left \in Slots(KernelMmap), NEW right \in Slots(KernelMmap), left # right,
         Merge(left, right), NEW before, NEW after,
         before = mem[left].PosPrevious, after = mem[right].PosNext,
         mem[right].PosPrevious = left, after # left, after # right, before # right
  PROVE  \E P1, N1, P2, N2 :
           /\ Unlinked(KernelMmap, right, Previous(mem), Following(mem), P1, N1)
           /\ P1[left] = before /\ N1[left] = after
           /\ Unlinked(KernelMmap, left, P1, N1, P2, N2)
           /\ Linked(KernelMmap, left, before, after, P2, N2, Previous(mem'), Following(mem'))
<1>1. PICK level, first, second, third, heads, cleared :
        /\ level   = call.level
        /\ first   = PosUnlinked(mem, before, after)
        /\ second  = SizeUnlinked(first, left)
        /\ third   = SizeUnlinked(second, right)
        /\ heads   = [Nodes EXCEPT
                        ![level] = HeadAfter(second, right, HeadAfter(first, left, @))]
        /\ cleared = [third EXCEPT ![left] = EmptyNode, ![right] = EmptyNode]
  OBVIOUS
<1>2. mem' = Pushed(cleared, heads, left, mem[left].Pointer, before, after, level + 1)
  BY <1>1 DEF Merge
<1>3. mem \in [Slots(KernelMmap) -> NodeRecords]
  BY DEF TypeOK
<1>4. before \in Slot /\ after \in Slot
  BY <1>3 DEF NodeRecords
<1>5. first \in [Slots(KernelMmap) -> NodeRecords]
  BY <1>1, <1>3, <1>4, UnlinkedTypes
<1>6. second \in [Slots(KernelMmap) -> NodeRecords]
  BY <1>1, <1>5, UnlinkedTypes
<1>7. third \in [Slots(KernelMmap) -> NodeRecords]
  BY <1>1, <1>6, UnlinkedTypes
<1>8. PICK Q, M : /\ Q = [a \in Slots(KernelMmap) |-> IF a = after THEN before ELSE mem[a].PosPrevious]
                  /\ M = [a \in Slots(KernelMmap) |-> IF a = before THEN after ELSE mem[a].PosNext]
  OBVIOUS
<1>9. PositionsAre(first, Q, M)
  BY <1>1, <1>3, <1>8, PosUnlinkedPositions
<1>10. PositionsAre(second, Q, M)
  BY <1>1, <1>5, <1>9, SizeUnlinkedPositions
<1>11. PositionsAre(third, Q, M)
  BY <1>1, <1>6, <1>10, SizeUnlinkedPositions
<1>12. /\ cleared \in [Slots(KernelMmap) -> NodeRecords]
       /\ cleared[right] = EmptyNode
       /\ \A a \in Slots(KernelMmap) \ {left, right} : cleared[a] = third[a]
  BY <1>1, <1>7, EmptyNodeType
<1>13. PICK P2, N2 : P2 = Previous(cleared) /\ N2 = Following(cleared)
  OBVIOUS
<1>14. Linked(KernelMmap, left, before, after, P2, N2, Previous(mem'), Following(mem'))
  BY <1>2, <1>12, <1>13, PushedLinks
<1>15. /\ P2[right] = Null /\ N2[right] = Null
       /\ \A a \in Slots(KernelMmap) \ {left, right} : P2[a] = Q[a] /\ N2[a] = M[a]
  <2>1. EmptyNode.PosPrevious = Null /\ EmptyNode.PosNext = Null
    BY DEF EmptyNode
  <2>2. DOMAIN cleared = Slots(KernelMmap)
    BY <1>12
  <2>3. \A a \in Slots(KernelMmap) : P2[a] = cleared[a].PosPrevious /\ N2[a] = cleared[a].PosNext
    BY <1>13, <2>2 DEF Previous, Following
  <2> QED BY <1>11, <1>12, <2>1, <2>3 DEF PositionsAre
<1>16. PICK P1, N1 :
         /\ P1 = [a \in Slots(KernelMmap) |->
                    IF a = right THEN Null ELSE IF a = after THEN left ELSE mem[a].PosPrevious]
         /\ N1 = [a \in Slots(KernelMmap) |->
                    IF a = right THEN Null ELSE IF a = left THEN after ELSE mem[a].PosNext]
  OBVIOUS
<1>17. /\ P1[right] = Null /\ N1[right] = Null /\ P1[left] = before /\ N1[left] = after
       /\ \A a \in Slots(KernelMmap) \ {left, right} :
            /\ P1[a] = IF a = after THEN left ELSE mem[a].PosPrevious
            /\ N1[a] = mem[a].PosNext
  BY <1>16
<1>18. Unlinked(KernelMmap, right, Previous(mem), Following(mem), P1, N1)
  <2>1. \A a \in Slots(KernelMmap) : /\ Previous(mem)[a] = mem[a].PosPrevious
                                     /\ Following(mem)[a] = mem[a].PosNext
    BY <1>3 DEF Previous, Following
  <2> QED BY <1>17, <2>1 DEF Unlinked
<1>19. Unlinked(KernelMmap, left, P1, N1, P2, N2)
  <2> SUFFICES ASSUME NEW a \in Slots(KernelMmap) \ {left}
               PROVE  /\ P2[a] = IF a = after THEN before ELSE P1[a]
                      /\ N2[a] = IF a = before THEN after ELSE N1[a]
    BY <1>17 DEF Unlinked
  <2>1. CASE a = right
    BY <1>15, <1>17, <2>1
  <2>2. CASE a # right
    BY <1>8, <1>15, <1>17, <2>2
  <2> QED BY <2>1, <2>2
<1> QED BY <1>14, <1>17, <1>18, <1>19

(***************************************************************************)
(* Where the blocks in use begin, as they are allocated.                   *)
(***************************************************************************)
LEMMA BeginsAt ==
  ASSUME NEW mmap \in MemoryMaps, NEW L \in Levels, NEW V, Begins(mmap, L, V),
         NEW e \in DOMAIN mmap, NEW p \in Nat, Aligned(p, L), p <= Whole(Pages(mmap, e), L)
  PROVE  Begins(mmap, L, [V EXCEPT ![e] = p]) /\ [V EXCEPT ![e] = p][e] = p
BY DEF Begins

LEMMA WholeBegins ==
  ASSUME NEW mmap \in MemoryMaps, NEW L \in Levels, NEW V,
         V = [e \in DOMAIN mmap |-> Whole(Pages(mmap, e), L)]
  PROVE  Begins(mmap, L, V)
<1>1. ASSUME NEW e \in DOMAIN mmap
      PROVE  V[e] = Whole(Pages(mmap, e), L) /\ V[e] \in Nat /\ Aligned(V[e], L)
  <2>1. PICK n \in Nat : n = Pages(mmap, e)
    BY EntryPages
  <2>2. Whole(n, L) \in Nat /\ Aligned(Whole(n, L), L)
    BY WholeFacts
  <2> QED BY <2>1, <2>2
<1>2. \A e \in DOMAIN mmap : V[e] <= Whole(Pages(mmap, e), L)
  BY <1>1
<1> QED BY <1>1, <1>2 DEF Begins

LEMMA AllocatedBegins ==
  ASSUME NEW mmap \in MemoryMaps, NEW L \in Levels, NEW V, Begins(mmap, L, V),
         NEW e, NEW W, NEW block, Allocated(mmap, L, V, e, W, block)
  PROVE  /\ Begins(mmap, L, W) /\ W[e] \in Nat /\ V[e] = W[e] + BlockPages[L]
         /\ V = [W EXCEPT ![e] = V[e]]
<1>1. e \in DOMAIN mmap
  BY DEF Allocated
<1>2. PICK v, h \in Nat, b \in Nat \ {0} :
        /\ v = V[e] /\ h = Whole(Pages(mmap, e), L) /\ b = BlockPages[L] /\ Aligned(v, L) /\ v <= h
  BY <1>1, EntryPages, WholeFacts, SizesOfLevels DEF Begins
<1>3. b <= v /\ W = [V EXCEPT ![e] = v - b]
  BY <1>2 DEF Allocated
<1>4. v - b \in Nat /\ (v - b) + b = v
  BY <1>2, <1>3
<1>5. Aligned(v - b, L)
  BY <1>2, <1>4, AlignedStep, SizesOfLevels
<1>6. v - b <= h
  BY <1>2, <1>4
<1>7. Begins(mmap, L, W) /\ W[e] = v - b
  <2>1. PICK p \in Nat : p = v - b
    BY <1>4
  <2>2. Aligned(p, L) /\ p <= Whole(Pages(mmap, e), L) /\ W = [V EXCEPT ![e] = p]
    BY <1>2, <1>3, <1>5, <1>6, <2>1
  <2>3. Begins(mmap, L, [V EXCEPT ![e] = p]) /\ [V EXCEPT ![e] = p][e] = p
    BY ONLY <1>1, <2>1, <2>2, Begins(mmap, L, V) DEF Begins
  <2> QED BY <2>1, <2>2, <2>3
<1>8. V = [W EXCEPT ![e] = v]
  BY <1>1, <1>2, <1>3 DEF Begins
<1> QED BY <1>2, <1>4, <1>7, <1>8

LEMMA HistoryBegins ==
  ASSUME NEW mmap \in MemoryMaps, NEW L \in Levels, NEW H, NEW E, NEW blocks, NEW n \in Nat,
         DOMAIN blocks = 1 .. n, History(mmap, L, H, E, blocks), NEW i \in 0 .. n
  PROVE  Begins(mmap, L, H[i])
<1> DEFINE S == {j \in Nat : j <= n /\ ~Begins(mmap, L, H[j])}
<1>1. SUFFICES ASSUME S # {}
               PROVE  FALSE
  OBVIOUS
<1>2. PICK j \in S : \A k \in S : j <= k
  <2>1. S \in SUBSET Nat
    OBVIOUS
  <2> QED BY <1>1, <2>1, LeastExists
<1>3. j # 0
  BY <1>2, WholeBegins DEF History
<1>4. j \in DOMAIN blocks /\ j - 1 \in Nat /\ j - 1 <= n /\ ~(j <= j - 1)
  BY <1>2, <1>3
<1>5. Begins(mmap, L, H[j - 1])
  BY <1>2, <1>4
<1>6. Allocated(mmap, L, H[j - 1], E[j], H[j], blocks[j])
  BY <1>4 DEF History
<1> QED BY <1>2, <1>5, <1>6, AllocatedBegins

Newest(H, blocks) == H[Len(blocks)]

\* The sequence with one block more.
Longer(blocks, block, more) ==
  \E n \in Nat :
    /\ DOMAIN blocks = 1 .. n /\ Len(blocks) = n
    /\ DOMAIN more = 1 .. n + 1 /\ Len(more) = n + 1
    /\ more[n + 1] = block
    /\ \A i \in 1 .. n : more[i] = blocks[i]

LEMMA HistoryExtended ==
  ASSUME NEW mmap, NEW L, NEW H, NEW E, NEW blocks, NEW block, NEW more,
         History(mmap, L, H, E, blocks), Longer(blocks, block, more), NEW e, NEW W,
         Allocated(mmap, L, Newest(H, blocks), e, W, block)
  PROVE  \E H2, E2 : History(mmap, L, H2, E2, more) /\ Newest(H2, more) = W
<1>0. PICK n \in Nat : /\ DOMAIN blocks = 1 .. n /\ Len(blocks) = n
                      /\ DOMAIN more = 1 .. n + 1 /\ Len(more) = n + 1
                      /\ more[n + 1] = block
                      /\ \A i \in 1 .. n : more[i] = blocks[i]
  BY DEF Longer
<1>1. PICK H2, E2 : /\ H2 = [i \in Nat |-> IF i = n + 1 THEN W ELSE H[i]]
                    /\ E2 = [i \in Nat |-> IF i = n + 1 THEN e ELSE E[i]]
  OBVIOUS
<1>2. /\ H2[n + 1] = W /\ E2[n + 1] = e
      /\ \A i \in 0 .. n : H2[i] = H[i] /\ E2[i] = E[i]
  BY <1>1
<1>3. H2[0] = H[0]
  BY <1>2
<1>4. Allocated(mmap, L, H[n], e, W, block)
  BY <1>0 DEF Newest
<1>5. ASSUME NEW i \in DOMAIN more
      PROVE  Allocated(mmap, L, H2[i - 1], E2[i], H2[i], more[i])
  <2>1. CASE i = n + 1
    <3>1. i - 1 = n /\ n \in 0 .. n
      BY <2>1
    <3> QED BY <1>0, <1>2, <1>4, <2>1, <3>1
  <2>2. CASE i # n + 1
    <3>1. i \in 1 .. n /\ i \in 0 .. n /\ i - 1 \in 0 .. n
      BY <1>0, <2>2
    <3> QED BY <1>0, <1>2, <3>1 DEF History
  <2> QED BY <2>1, <2>2
<1> QED BY <1>0, <1>2, <1>3, <1>5 DEF History, Newest

LEMMA HistoryShortened ==
  ASSUME NEW mmap, NEW L, NEW H, NEW E, NEW blocks, History(mmap, L, H, E, blocks),
         NEW fewer, DOMAIN fewer \subseteq DOMAIN blocks,
         \A i \in DOMAIN fewer : fewer[i] = blocks[i]
  PROVE  History(mmap, L, H, E, fewer)
BY DEF History

(***************************************************************************)
(* The free blocks of a state.                                             *)
(***************************************************************************)
LEMMA VacantNode ==
  ASSUME TypeOK, HeapInv, NEW a \in FreeNodes
  PROVE  /\ mem[a].Level \in Levels
         /\ \E e \in DOMAIN KernelMmap : \E p \in Nat :
              /\ p < Pages(KernelMmap, e) /\ a = Node(KernelMmap, e, p)
              /\ mem[a].Pointer = PagePointer(KernelMmap[e], p)
              /\ <<e, p, mem[a].Level>> \in Vacant
<1>1. NodeAt(KernelMmap, a, mem[a].Pointer, mem[a].Level)
  BY DEF HeapInv, NodesMatchBlocks
<1>2. PICK l \in Levels : l = mem[a].Level
  BY DEF TypeOK, NodeRecords, FreeNodes
<1>3. PICK e \in DOMAIN KernelMmap :
        \E p \in 0 .. DataPages(KernelMmap[e]) - BlockPages[l] :
          a = KernelMmap[e].Base + p /\ mem[a].Pointer = PagePointer(KernelMmap[e], p)
  BY <1>1, <1>2 DEF NodeAt
<1>4. PICK p \in 0 .. DataPages(KernelMmap[e]) - BlockPages[l] :
          a = KernelMmap[e].Base + p /\ mem[a].Pointer = PagePointer(KernelMmap[e], p)
  BY <1>3
<1>5. PICK n \in Nat, b \in Nat \ {0} : n = Pages(KernelMmap, e) /\ b = BlockPages[l]
  BY EntryPages, SizesOfLevels DEF TypeOK
<1>6. p \in Nat /\ p < n
  BY <1>4, <1>5 DEF Pages
<1>7. a = Node(KernelMmap, e, p)
  BY <1>4 DEF Node
<1>8. mem[a].Pointer # Null
  BY DEF FreeNodes, IsFree
<1>9. <<e, p, l>> \in Vacant
  BY <1>2, <1>5, <1>6, <1>7, <1>8, FreeBlocksIs DEF Vacant, TypeOK
<1> QED BY <1>2, <1>4, <1>5, <1>6, <1>7, <1>9

LEMMA VacantIs ==
  ASSUME TypeOK, NEW e \in DOMAIN KernelMmap, NEW p \in Nat, NEW l \in Levels
  PROVE  <<e, p, l>> \in Vacant <=>
           /\ p < Pages(KernelMmap, e)
           /\ Node(KernelMmap, e, p) \in FreeNodes /\ mem[Node(KernelMmap, e, p)].Level = l
<1>1. <<e, p, l>> \in Vacant
           <=> /\ p < Pages(KernelMmap, e)
               /\ mem[Node(KernelMmap, e, p)].Pointer # Null /\ mem[Node(KernelMmap, e, p)].Level = l
  BY FreeBlocksIs DEF Vacant, TypeOK
<1>2. p < Pages(KernelMmap, e) => Node(KernelMmap, e, p) \in DOMAIN mem
  BY NodeIsSlot DEF TypeOK
<1> QED BY <1>1, <1>2 DEF FreeNodes, IsFree

LEMMA PagePointerIsNot0 ==
  ASSUME NEW mmap \in MemoryMaps, NEW e \in DOMAIN mmap, NEW p \in Nat
  PROVE  PagePointer(mmap[e], p) \in Nat \ {Null}
<1>1. mmap[e].Base \in Nat \ {0} /\ ReservedSpace(mmap[e]) \in Nat
  BY EntryShape
<1>2. p * ScalingFactor \in Nat
  BY ScalingFactorAssumption
<1> QED BY <1>1, <1>2 DEF PagePointer, DataStart, Null

(***************************************************************************)
(* PushBlock() and PopBlock() at the front of the blocks in use.           *)
(***************************************************************************)
LEMMA PushPlaces ==
  ASSUME TypeOK, NEW L \in Levels, NEW F, Begins(KernelMmap, L, F),
         NEW e \in DOMAIN KernelMmap, NEW k \in Levels, L <= k, Aligned(F[e], k),
         NEW end \in Nat, F[e] + BlockPages[k] <= end, end <= Whole(Pages(KernelMmap, e), L),
         NEW x \in Slot, NEW y \in Slot,
         NEW S0, S0 = FreeBelow(KernelMmap, L, F), Vacant = S0, PositionsRight,
         PrecededBy(KernelMmap, S0, e, F[e], x),
         Bounded(KernelMmap, S0, Following(mem), e, F[e], x),
         FollowedBy(KernelMmap, S0, e, F[e], end, y),
         (/\ LowestBit(F[e] + BlockPages[k], k)
          /\ F[e] + BlockPages[k] = Whole(Pages(KernelMmap, e), L)
          /\ Whole(Pages(KernelMmap, e), L) < Pages(KernelMmap, e))
            => y = Node(KernelMmap, e, Whole(Pages(KernelMmap, e), L)),
         PushBlock(Node(KernelMmap, e, F[e]), PagePointer(KernelMmap[e], F[e]), x, y, k)
  PROVE  /\ FreeBlocks(KernelMmap, mem') = S0 \cup {<<e, F[e], k>>}
         /\ Placed(KernelMmap, FreeBlocks(KernelMmap, mem'), Previous(mem'), Following(mem'))
         /\ Following(mem')[Node(KernelMmap, e, F[e])] = y
<1>0. KernelMmap \in MemoryMaps
  BY DEF TypeOK
<1>1. PICK w, n, h \in Nat : /\ w = F[e] /\ n = Pages(KernelMmap, e) /\ h = Whole(n, L)
                             /\ w <= h /\ h <= n
  BY EntryPages, WholeFacts DEF Begins, TypeOK
<1>2. PICK b \in Nat \ {0} : b = BlockPages[k]
  BY SizesOfLevels
<1>3. w < h /\ w < n
  BY <1>1, <1>2
<1>4. PICK t \in Slots(KernelMmap) : t = Node(KernelMmap, e, w)
  BY <1>1, <1>3, NodeIsSlot DEF TypeOK
<1>5. PICK pointer \in Nat \ {Null} : pointer = PagePointer(KernelMmap[e], w)
  BY PagePointerIsNot0 DEF TypeOK
<1>6. mem' = Pushed(mem, Nodes, t, pointer, x, y, k) /\ Nodes' = [Nodes EXCEPT ![k] = t]
  BY <1>1, <1>4, <1>5 DEF PushBlock
<1>7. Linked(KernelMmap, t, x, y, Previous(mem), Following(mem), Previous(mem'), Following(mem'))
  BY <1>6, PushedLinks DEF TypeOK
<1>8. PushEffect(mem, Nodes, t, pointer, k, mem', Nodes')
  BY <1>6, PushedFields DEF TypeOK
<1>9. /\ mem'[t].Pointer # Null /\ mem'[t].Level = k
      /\ \A a \in Slots(KernelMmap) \ {t} :
           mem'[a].Pointer = mem[a].Pointer /\ mem'[a].Level = mem[a].Level
  BY <1>5, <1>8 DEF PushEffect, Pushes
<1>10. ASSUME NEW m \in Levels
       PROVE  <<e, w, m>> \notin S0
  <2>1. <<e, w, m>> \in S0 => h <= w
    BY <1>1, BlocksAround DEF TypeOK
  <2> QED BY <1>1, <1>3, <2>1
<1>11. FreeBlocks(KernelMmap, mem') = S0 \cup {<<e, w, k>>}
  <2>1. <<e, w, k>> \in Blocks(KernelMmap)
    BY <1>1, <1>3, PagesInRange DEF TypeOK
  <2>2. S0 \subseteq Blocks(KernelMmap) /\ FreeBlocks(KernelMmap, mem') \subseteq Blocks(KernelMmap)
    BY DEF FreeBelow, FreeBlocks
  <2>3. ASSUME NEW f \in DOMAIN KernelMmap, NEW q \in Nat, NEW l \in Levels
        PROVE  <<f, q, l>> \in FreeBlocks(KernelMmap, mem')
                 <=> <<f, q, l>> \in S0 \cup {<<e, w, k>>}
    <3>1. PICK a : a = Node(KernelMmap, f, q)
      OBVIOUS
    <3>2. <<f, q, l>> \in FreeBlocks(KernelMmap, mem')
            <=> q < Pages(KernelMmap, f) /\ mem'[a].Pointer # Null /\ mem'[a].Level = l
      <4>1. <<f, q, l>> \in FreeBlocks(KernelMmap, mem')
              <=> /\ q < Pages(KernelMmap, f)
                  /\ mem'[Node(KernelMmap, f, q)].Pointer # Null
                  /\ mem'[Node(KernelMmap, f, q)].Level = l
        BY ONLY <1>0, f \in DOMAIN KernelMmap, q \in Nat, l \in Levels,
                FreeBlocksIs
      <4> QED BY <3>1, <4>1
    <3>3. <<f, q, l>> \in S0
            <=> q < Pages(KernelMmap, f) /\ mem[a].Pointer # Null /\ mem[a].Level = l
      <4>1. <<f, q, l>> \in FreeBlocks(KernelMmap, mem)
              <=> /\ q < Pages(KernelMmap, f)
                  /\ mem[Node(KernelMmap, f, q)].Pointer # Null
                  /\ mem[Node(KernelMmap, f, q)].Level = l
        BY ONLY <1>0, f \in DOMAIN KernelMmap, q \in Nat, l \in Levels,
                FreeBlocksIs
      <4>2. Vacant = FreeBlocks(KernelMmap, mem)
        BY DEF Vacant
      <4> QED BY <3>1, <4>1, <4>2
    <3>4. q < Pages(KernelMmap, f) => a \in Slots(KernelMmap)
      BY <3>1, NodeIsSlot DEF TypeOK
    <3>5. CASE f = e /\ q = w
      BY <1>1, <1>3, <1>4, <1>9, <1>10, <3>1, <3>2, <3>5
    <3>6. CASE ~(f = e /\ q = w)
      <4>1. q < Pages(KernelMmap, f) => a # t
        BY <1>1, <1>3, <1>4, <3>1, <3>6, NodesApart DEF TypeOK
      <4> QED BY <1>9, <3>2, <3>3, <3>4, <3>6, <4>1
    <3> QED BY <3>5, <3>6
  <2>4. PICK T : T = S0 \cup {<<e, w, k>>}
    OBVIOUS
  <2>5. PICK R : R = FreeBlocks(KernelMmap, mem')
    OBVIOUS
  <2>6. T \in SUBSET Blocks(KernelMmap) /\ R \in SUBSET Blocks(KernelMmap)
    BY <2>1, <2>2, <2>4, <2>5
  <2>7. \A f \in DOMAIN KernelMmap : \A q \in Nat, l \in Levels :
          <<f, q, l>> \in R <=> <<f, q, l>> \in T
    BY <2>3, <2>4, <2>5
  <2>8. R = T
    BY ONLY <1>0, <2>6, <2>7, BlocksEqual
  <2> QED BY <2>4, <2>5, <2>8
<1>12. Placed(KernelMmap, S0 \cup {<<e, w, k>>}, Previous(mem'), Following(mem'))
  <2>1. Placed(KernelMmap, S0, Previous(mem), Following(mem))
    BY DEF PositionsRight
  <2>2. Linked(KernelMmap, Node(KernelMmap, e, F[e]), x, y,
               Previous(mem), Following(mem), Previous(mem'), Following(mem'))
    BY <1>1, <1>4, <1>7
  <2>3. PICK S1 : S1 = S0 \cup {<<e, F[e], k>>}
    OBVIOUS
  <2>4. PICK mmap \in MemoryMaps : mmap = KernelMmap
    BY DEF TypeOK
  <2>5. PICK P, N, P2, N2 : /\ P = Previous(mem) /\ N = Following(mem)
                            /\ P2 = Previous(mem') /\ N2 = Following(mem')
    OBVIOUS
  <2>6. /\ Placed(mmap, S0, P, N)
        /\ Linked(mmap, Node(mmap, e, F[e]), x, y, P, N, P2, N2)
        /\ Bounded(mmap, S0, N, e, F[e], x)
    BY <2>1, <2>2, <2>4, <2>5
  <2>7. /\ PrecededBy(mmap, S0, e, F[e], x) /\ FollowedBy(mmap, S0, e, F[e], end, y)
        /\ S0 = FreeBelow(mmap, L, F) /\ Begins(mmap, L, F)
    BY <2>4
  <2>8. Placed(mmap, S1, P2, N2)
    BY <2>3, <2>4, <2>6, <2>7, AddTop
  <2> QED BY <1>1, <2>3, <2>4, <2>5, <2>8
<1>13. Following(mem')[t] = y
  BY <1>7 DEF Linked
<1> QED BY <1>1, <1>4, <1>11, <1>12, <1>13

LEMMA PopPlaces ==
  ASSUME TypeOK, HeapInv, NEW L \in Levels, NEW F, Begins(KernelMmap, L, F),
         NEW e \in DOMAIN KernelMmap, NEW k \in Levels, L <= k, Aligned(F[e], k),
         F[e] + BlockPages[k] <= Whole(Pages(KernelMmap, e), L),
         NEW S0, S0 = FreeBelow(KernelMmap, L, F), Vacant = S0 \cup {<<e, F[e], k>>},
         PositionsRight,
         Nodes[k] = Node(KernelMmap, e, F[e]), CanPop(k), PopBlock(k)
  PROVE  /\ FreeBlocks(KernelMmap, mem') = S0
         /\ Placed(KernelMmap, S0, Previous(mem'), Following(mem'))
         /\ PrecededBy(KernelMmap, S0, e, F[e], mem[Nodes[k]].PosPrevious)
         /\ Bounded(KernelMmap, S0, Following(mem'), e, F[e], mem[Nodes[k]].PosPrevious)
         /\ FollowedBy(KernelMmap, S0, e, F[e], F[e] + BlockPages[k], mem[Nodes[k]].PosNext)
<1>0. KernelMmap \in MemoryMaps
  BY DEF TypeOK
<1>1. PICK w, n, h \in Nat : /\ w = F[e] /\ n = Pages(KernelMmap, e) /\ h = Whole(n, L)
                             /\ w <= h /\ h <= n
  BY EntryPages, WholeFacts DEF Begins, TypeOK
<1>2. PICK b \in Nat \ {0} : b = BlockPages[k]
  BY SizesOfLevels
<1>3. w < h /\ w < n
  BY <1>1, <1>2
<1>4. PICK t \in Slots(KernelMmap) : t = Node(KernelMmap, e, w) /\ t = Nodes[k]
  BY <1>1, <1>3, NodeIsSlot DEF TypeOK
<1>5. Unlinked(KernelMmap, t, Previous(mem), Following(mem), Previous(mem'), Following(mem'))
  BY <1>4, PoppedLinks
<1>6. /\ mem'[t].Pointer = Null
      /\ \A a \in Slots(KernelMmap) \ {t} :
           mem'[a].Pointer = mem[a].Pointer /\ mem'[a].Level = mem[a].Level
  BY <1>4, PoppedFields DEF HeapInv
<1>7. ASSUME NEW m \in Levels
      PROVE  <<e, w, m>> \notin S0
  <2>1. <<e, w, m>> \in S0 => h <= w
    BY <1>1, BlocksAround DEF TypeOK
  <2> QED BY <1>1, <1>3, <2>1
<1>8. FreeBlocks(KernelMmap, mem') = S0
  <2>1. S0 \subseteq Blocks(KernelMmap) /\ FreeBlocks(KernelMmap, mem') \subseteq Blocks(KernelMmap)
    BY DEF FreeBelow, FreeBlocks
  <2>2. ASSUME NEW f \in DOMAIN KernelMmap, NEW q \in Nat, NEW l \in Levels
        PROVE  <<f, q, l>> \in FreeBlocks(KernelMmap, mem') <=> <<f, q, l>> \in S0
    <3>1. PICK a : a = Node(KernelMmap, f, q)
      OBVIOUS
    <3>2. <<f, q, l>> \in FreeBlocks(KernelMmap, mem')
            <=> q < Pages(KernelMmap, f) /\ mem'[a].Pointer # Null /\ mem'[a].Level = l
      <4>1. <<f, q, l>> \in FreeBlocks(KernelMmap, mem')
              <=> /\ q < Pages(KernelMmap, f)
                  /\ mem'[Node(KernelMmap, f, q)].Pointer # Null
                  /\ mem'[Node(KernelMmap, f, q)].Level = l
        BY ONLY <1>0, f \in DOMAIN KernelMmap, q \in Nat, l \in Levels,
                FreeBlocksIs
      <4> QED BY <3>1, <4>1
    <3>3. <<f, q, l>> \in Vacant
            <=> q < Pages(KernelMmap, f) /\ mem[a].Pointer # Null /\ mem[a].Level = l
      <4>1. <<f, q, l>> \in FreeBlocks(KernelMmap, mem)
              <=> /\ q < Pages(KernelMmap, f)
                  /\ mem[Node(KernelMmap, f, q)].Pointer # Null
                  /\ mem[Node(KernelMmap, f, q)].Level = l
        BY ONLY <1>0, f \in DOMAIN KernelMmap, q \in Nat, l \in Levels,
                FreeBlocksIs
      <4>2. Vacant = FreeBlocks(KernelMmap, mem)
        BY DEF Vacant
      <4> QED BY <3>1, <4>1, <4>2
    <3>4. q < Pages(KernelMmap, f) => a \in Slots(KernelMmap)
      BY <3>1, NodeIsSlot DEF TypeOK
    <3>5. CASE f = e /\ q = w
      BY <1>4, <1>6, <1>7, <3>1, <3>2, <3>5
    <3>6. CASE ~(f = e /\ q = w)
      <4>1. q < Pages(KernelMmap, f) => a # t
        BY <1>1, <1>3, <1>4, <3>1, <3>6, NodesApart DEF TypeOK
      <4>2. <<f, q, l>> \in Vacant <=> <<f, q, l>> \in S0
        BY <1>1, <3>6
      <4> QED BY <1>6, <3>2, <3>3, <3>4, <4>1, <4>2
    <3> QED BY <3>5, <3>6
  <2>3. PICK R : R = FreeBlocks(KernelMmap, mem')
    OBVIOUS
  <2>4. S0 \in SUBSET Blocks(KernelMmap) /\ R \in SUBSET Blocks(KernelMmap)
    BY <2>1, <2>3
  <2>5. \A f \in DOMAIN KernelMmap : \A q \in Nat, l \in Levels :
          <<f, q, l>> \in R <=> <<f, q, l>> \in S0
    BY <2>2, <2>3
  <2>6. R = S0
    BY ONLY <1>0, <2>4, <2>5, BlocksEqual
  <2> QED BY <2>3, <2>6
<1>9. mem[t].PosPrevious = Previous(mem)[t] /\ mem[t].PosNext = Following(mem)[t]
  BY DEF Previous, Following, TypeOK
<1>10. /\ Placed(KernelMmap, S0, Previous(mem'), Following(mem'))
       /\ PrecededBy(KernelMmap, S0, e, F[e], Previous(mem)[t])
       /\ Bounded(KernelMmap, S0, Following(mem'), e, F[e], Previous(mem)[t])
       /\ FollowedBy(KernelMmap, S0, e, F[e], F[e] + BlockPages[k], Following(mem)[t])
  <2>1. PICK S1 : S1 = S0 \cup {<<e, F[e], k>>}
    OBVIOUS
  <2>2. Placed(KernelMmap, S1, Previous(mem), Following(mem)) /\ KernelMmap \in MemoryMaps
    BY <2>1 DEF PositionsRight, TypeOK
  <2>3. /\ t = Node(KernelMmap, e, F[e])
        /\ Unlinked(KernelMmap, Node(KernelMmap, e, F[e]), Previous(mem), Following(mem),
                    Previous(mem'), Following(mem'))
    BY <1>1, <1>4, <1>5
  <2> QED BY <2>1, <2>2, <2>3, RemoveTop
<1> QED BY <1>4, <1>8, <1>9, <1>10

(***************************************************************************)
(* The positions of a step are those of its nodes.                         *)
(***************************************************************************)
LEMMA PlacesNext ==
  ASSUME UNCHANGED KernelMmap
  PROVE  /\ Vacant' = FreeBlocks(KernelMmap, mem')
         /\ Placed(KernelMmap, FreeBlocks(KernelMmap, mem'), Previous(mem'), Following(mem'))
              => PositionsRight'
BY DEF Vacant, PositionsRight

LEMMA PositionsSame ==
  ASSUME UNCHANGED <<KernelMmap, mem>>
  PROVE  /\ Vacant' = Vacant /\ (PositionsRight' <=> PositionsRight)
         /\ Following(mem') = Following(mem)
BY DEF Vacant, PositionsRight

LEMMA LevelZero ==
  ASSUME NEW n \in Nat
  PROVE  Aligned(n, 0) /\ Whole(n, 0) = n
<1>1. n % 1 = 0
  OBVIOUS
<1> QED BY <1>1, SizesOfLevels DEF Aligned, Whole

(***************************************************************************)
(* Carving.                                                                *)
(***************************************************************************)
LEMMA CarvedBegins ==
  ASSUME TypeOK, call.op = "carve", call.entry \in DOMAIN KernelMmap,
         call.page <= Pages(KernelMmap, call.entry)
  PROVE  Begins(KernelMmap, 0, CarvedTo) /\ CarvedTo[call.entry] = call.page
<1>1. KernelMmap \in MemoryMaps /\ call \in CallRecords
  BY DEF TypeOK
<1>2. call.page \in Nat /\ call.entry \in Nat
  BY <1>1, CallTypes
<1>3. ASSUME NEW e \in DOMAIN KernelMmap
      PROVE  /\ CarvedTo[e] \in Nat /\ Aligned(CarvedTo[e], 0)
             /\ CarvedTo[e] <= Whole(Pages(KernelMmap, e), 0)
  <2>1. PICK n \in Nat \ {0} : n = Pages(KernelMmap, e)
    BY <1>1, EntryPages
  <2>2. PICK c \in Nat : c = CarvedTo[e] /\ c <= n
    BY <1>2, <2>1 DEF CarvedTo
  <2>3. Aligned(c, 0) /\ Whole(n, 0) = n
    BY LevelZero
  <2> QED BY <2>1, <2>2, <2>3
<1>4. CarvedTo \in [DOMAIN KernelMmap -> Nat]
  BY <1>3 DEF CarvedTo
<1> QED BY <1>2, <1>3, <1>4 DEF Begins, CarvedTo

LEMMA UniformInit == Init /\ TypeOK => UniformInv
<1> SUFFICES ASSUME Init, TypeOK
             PROVE  UniformInv
  OBVIOUS
<1>1. KernelMmap \in MemoryMaps /\ call.op = "carve" /\ call.entry = 1 /\ call.page = 0
      /\ call.previous = Null /\ live = <<>>
  BY DEF Init
<1>2. Vacant = {}
  <2>1. ASSUME NEW b \in Vacant
        PROVE  FALSE
    <3>1. b \in Blocks(KernelMmap) /\ b[2] < Pages(KernelMmap, b[1])
          /\ mem[Node(KernelMmap, b[1], b[2])].Pointer # Null
      BY DEF Vacant, FreeBlocks
    <3>2. b[1] \in DOMAIN KernelMmap /\ b[2] \in Nat
      BY <3>1, SizesOfLevels DEF Blocks
    <3>3. Node(KernelMmap, b[1], b[2]) \in Slots(KernelMmap)
      BY <1>1, <3>1, <3>2, NodeIsSlot
    <3> QED BY <3>1, <3>3 DEF Init, EmptyNode
  <2> QED BY <2>1
<1>3. \A e \in DOMAIN KernelMmap : CarvedTo[e] = 0
  <2> SUFFICES ASSUME NEW e \in DOMAIN KernelMmap
               PROVE  CarvedTo[e] = 0
    OBVIOUS
  <2>1. e \in Nat \ {0}
    BY <1>1, EntryPages
  <2> QED BY <1>1, <2>1 DEF CarvedTo
<1>4. FreeBelow(KernelMmap, 0, CarvedTo) = {}
  <2>1. ASSUME NEW b \in FreeBelow(KernelMmap, 0, CarvedTo)
        PROVE  FALSE
    <3>1. /\ b \in Blocks(KernelMmap)
          /\ IF 0 <= b[3] THEN Digit(CarvedTo[b[1]], b[2], b[3])
             ELSE Digit(Pages(KernelMmap, b[1]), b[2], b[3])
      BY DEF FreeBelow
    <3>2. PICK p \in Nat : p = b[2]
      BY <3>1, SizesOfLevels DEF Blocks
    <3>3. PICK l \in Levels : l = b[3]
      BY <3>1 DEF Blocks
    <3>4. b[1] \in DOMAIN KernelMmap /\ 0 <= l
      BY <3>1, SizesOfLevels DEF Blocks
    <3>5. Digit(0, p, l)
      BY <1>3, <3>1, <3>2, <3>3, <3>4
    <3>6. PICK b0 \in Nat \ {0} : b0 = BlockPages[l]
      BY SizesOfLevels
    <3> QED BY <3>5, <3>6 DEF Digit
  <2> QED BY <2>1
<1>5. PositionsRight
  BY <1>2 DEF PositionsRight, Placed
<1>6. CarveRight
  <2>1. PrecededBy(KernelMmap, Vacant, call.entry, call.page, call.previous)
    BY <1>1 DEF PrecededBy, IsEarlier
  <2>2. Bounded(KernelMmap, Vacant, Following(mem), call.entry, call.page, call.previous)
    BY <1>2 DEF Bounded
  <2>3. ASSUME call.entry \in DOMAIN KernelMmap
        PROVE  \E l \in 0 .. MaxLevel + 1 :
                 /\ Aligned(call.page, l)
                 /\ call.page <= Pages(KernelMmap, call.entry)
                 /\ Pages(KernelMmap, call.entry) < call.page + BlockPages[l]
    <3>1. PICK n \in Nat : n = Pages(KernelMmap, call.entry) /\ n < BlockPages[MaxLevel + 1]
      BY <1>1, <2>3, EntryPages
    <3>2. MaxLevel + 1 \in 0 .. MaxLevel + 1 /\ MaxLevel + 1 \in AllLevels
          /\ BlockPages[MaxLevel + 1] \in Nat
      BY SizesOfLevels, LevelAssumption DEF AllLevels
    <3>3. Aligned(0, MaxLevel + 1)
      BY <3>2, AlignedZero
    <3> QED BY <1>1, <3>1, <3>2, <3>3
  <2> QED BY <1>2, <1>4, <2>1, <2>2, <2>3 DEF CarveRight
<1>7. PICK V : V = [e \in DOMAIN KernelMmap |-> Whole(Pages(KernelMmap, e), 0)]
  OBVIOUS
<1>8. PICK H : H = [i \in Nat |-> V]
  OBVIOUS
<1>9. History(KernelMmap, 0, H, H, live)
  <2>1. H[0] = V
    BY <1>8
  <2> QED BY <1>1, <1>7, <2>1 DEF History
<1>10. CallRight(0, H[Len(live)])
  BY <1>1, <1>6 DEF CallRight
<1> QED BY <1>5, <1>9, <1>10, SizesOfLevels DEF UniformInv, UniformWith

LEMMA UniformCarve ==
  ASSUME TypeOK, UniformInv, call.op = "carve"
  PROVE  \E H, E : /\ History(KernelMmap, 0, H, E, live) /\ PositionsRight
                   /\ live = <<>> /\ CarveRight
<1>1a. PICK L \in Levels : \E H, E : UniformWith(L, H, E)
  BY DEF UniformInv
<1>1. PICK H, E : UniformWith(L, H, E)
  BY <1>1a
<1>2. L = 0 /\ live = <<>> /\ CarveRight
  BY <1>1 DEF UniformWith, CallRight
<1> QED BY <1>1, <1>2 DEF UniformWith

LEMMA CarveBlockUniform == TypeOK /\ UniformInv /\ CarveBlock => UniformInv'
<1> SUFFICES ASSUME TypeOK, UniformInv, CarveBlock
             PROVE  UniformInv'
  OBVIOUS
<1>1. KernelMmap \in MemoryMaps /\ call.op = "carve" /\ call \in CallRecords
      /\ call.entry \in DOMAIN KernelMmap /\ UNCHANGED <<KernelMmap, live>>
  BY DEF TypeOK, CarveBlock
<1>0. PICK L \in Levels : L = 0
  BY SizesOfLevels
<1>2. PICK H, E : /\ History(KernelMmap, L, H, E, live) /\ PositionsRight
                  /\ live = <<>> /\ CarveRight
  BY <1>0, <1>1, UniformCarve
<1>3. call \in [op : {"carve"}, entry : Nat \ {0}, page : Nat, previous : Slot]
  BY <1>1, CallTypes
<1>4. PICK e \in DOMAIN KernelMmap : e = call.entry
  BY <1>1
<1>5. PICK n, w \in Nat : n = Pages(KernelMmap, e) /\ w = call.page
  BY <1>1, <1>3, EntryPages
<1>6. PICK x \in Slot : x = call.previous
  BY <1>3
<1>7. PICK l \in AllLevels : Aligned(w, l) /\ w <= n /\ n < w + BlockPages[l]
  BY <1>2, <1>4, <1>5 DEF CarveRight, AllLevels
<1>8. PICK level \in Levels :
        /\ BlockPages[level] <= n - w /\ n - w < BlockPages[level + 1]
        /\ PushBlock(Node(KernelMmap, e, w), PagePointer(KernelMmap[e], w), x, Null, level)
        /\ call' = [call EXCEPT !.page = w + BlockPages[level], !.previous = Node(KernelMmap, e, w)]
  BY <1>4, <1>5, <1>6 DEF CarveBlock, Node, Pages
<1>9. PICK b \in Nat \ {0} :
        b = BlockPages[level] /\ BlockPages[level + 1] = 2 * b /\ w + b <= n /\ n < w + 2 * b
  BY <1>5, <1>8, SizesOfLevels
<1>10. Aligned(w, level + 1) /\ Aligned(w, level)
  <2>1. level \in AllLevels /\ level + 1 \in AllLevels /\ level \in Nat /\ l \in Nat
    BY SizesOfLevels
  <2>2. PICK c \in Nat : c = BlockPages[l]
    BY SizesOfLevels
  <2>3. ~(c <= b)
    BY <1>7, <1>9, <2>2
  <2>4. l <= level => c <= b
    BY <1>9, <2>1, <2>2, SizesGrow
  <2>5. level + 1 <= l /\ level <= l
    BY <2>1, <2>3, <2>4
  <2> QED BY <1>7, <2>1, <2>5, AlignedBelow
<1>11. PICK F : F = CarvedTo
  OBVIOUS
<1>12. Begins(KernelMmap, L, F) /\ F[e] = w
  BY <1>0, <1>1, <1>4, <1>5, <1>7, <1>11, CarvedBegins
<1>13. Whole(n, L) = n /\ L <= level
  BY <1>0, LevelZero, SizesOfLevels
<1>14. PICK S0 : S0 = FreeBelow(KernelMmap, L, F) /\ Vacant = S0
  BY <1>0, <1>2, <1>11 DEF CarveRight
<1>15. /\ FreeBlocks(KernelMmap, mem') = S0 \cup {<<e, w, level>>}
       /\ Placed(KernelMmap, FreeBlocks(KernelMmap, mem'), Previous(mem'), Following(mem'))
       /\ Following(mem')[Node(KernelMmap, e, w)] = Null
  <2>0. PositionsRight
    BY <1>2
  <2>1. /\ PrecededBy(KernelMmap, S0, e, F[e], x)
        /\ Bounded(KernelMmap, S0, Following(mem), e, F[e], x)
    BY <1>2, <1>4, <1>5, <1>6, <1>12, <1>14 DEF CarveRight
  <2>2. PICK y \in Slot : y = Null
    BY DEF Slot
  <2>3. PICK end \in Nat : end = w + b
    OBVIOUS
  <2>4. FollowedBy(KernelMmap, S0, e, F[e], end, y)
    BY <2>2 DEF FollowedBy
  <2>5. F[e] + BlockPages[level] <= end /\ end <= Whole(Pages(KernelMmap, e), L)
    BY <1>5, <1>9, <1>12, <1>13, <2>3
  <2>6. ~(Whole(Pages(KernelMmap, e), L) < Pages(KernelMmap, e))
    BY <1>5, <1>13
  <2>7. PushBlock(Node(KernelMmap, e, F[e]), PagePointer(KernelMmap[e], F[e]), x, y, level)
    BY <1>8, <1>12, <2>2
  <2>8. Aligned(F[e], level)
    BY <1>10, <1>12
  <2>10. Begins(KernelMmap, L, F) /\ L <= level /\ S0 = FreeBelow(KernelMmap, L, F) /\ Vacant = S0
    BY <1>12, <1>13, <1>14
  <2>9. /\ FreeBlocks(KernelMmap, mem') = S0 \cup {<<e, F[e], level>>}
        /\ Placed(KernelMmap, FreeBlocks(KernelMmap, mem'), Previous(mem'), Following(mem'))
        /\ Following(mem')[Node(KernelMmap, e, F[e])] = y
    BY ONLY TypeOK, L \in Levels, level \in Levels, e \in DOMAIN KernelMmap, x \in Slot, <2>0, <2>1,
            end \in Nat, y \in Slot, <2>4, <2>5, <2>6, <2>7, <2>8, <2>10, PushPlaces
  <2> QED BY <1>12, <2>2, <2>9
<1>16. PICK F2 : F2 = [F EXCEPT ![e] = w + b]
  OBVIOUS
<1>17. /\ Begins(KernelMmap, L, F2) /\ F2[e] = w + b
       /\ FreeBelow(KernelMmap, L, F2) = S0 \cup {<<e, w, level>>}
  <2>1. Aligned(F[e], level + 1) /\ F[e] + BlockPages[level] <= Whole(Pages(KernelMmap, e), L)
        /\ F2 = [F EXCEPT ![e] = F[e] + BlockPages[level]]
    BY <1>5, <1>9, <1>10, <1>12, <1>13, <1>16
  <2>2. /\ Begins(KernelMmap, L, F2) /\ F2[e] = F[e] + BlockPages[level]
        /\ FreeBelow(KernelMmap, L, F2) = FreeBelow(KernelMmap, L, F) \cup {<<e, F[e], level>>}
    <3>1. F2 \in [DOMAIN KernelMmap -> Nat] /\ \A f \in DOMAIN KernelMmap \ {e} : F2[f] = F[f]
      BY <1>9, <1>12, <2>1 DEF Begins
    <3>2. F2[e] = F[e] + BlockPages[level]
      BY <1>9, <1>12, <2>1 DEF Begins
    <3>3. KernelMmap \in MemoryMaps /\ Begins(KernelMmap, L, F) /\ L <= level
      BY <1>1, <1>12, <1>13
    <3>4. Aligned(F[e], level + 1) /\ F[e] + BlockPages[level] <= Whole(Pages(KernelMmap, e), L)
      BY <2>1
    <3> QED BY ONLY <3>1, <3>2, <3>3, <3>4, L \in Levels, level \in Levels,
                    e \in DOMAIN KernelMmap, FreeBelowAdded
  <2> QED BY <1>9, <1>12, <1>14, <2>2
<1>18. PICK S1 : S1 = FreeBelow(KernelMmap, L, F2) /\ S1 = FreeBlocks(KernelMmap, mem')
                 /\ Vacant' = S1 /\ PositionsRight'
                 /\ Placed(KernelMmap, S1, Previous(mem'), Following(mem'))
  BY <1>1, <1>15, <1>17, PlacesNext
<1>19. LowestBit(w + b, level) /\ Aligned(w + b, level)
  BY <1>9, <1>10, WithLowestBit DEF LowestBit
<1>20. (w + b) - b = w /\ w + b # 0
  OBVIOUS
<1>21. PrecededBy(KernelMmap, S1, e, w + b, Node(KernelMmap, e, w))
  BY <1>9, <1>19, <1>20 DEF PrecededBy
<1>22. Bounded(KernelMmap, S1, Following(mem'), e, w + b, Node(KernelMmap, e, w))
  <2>1. LowestBit(F2[e], level)
    BY <1>17, <1>19
  <2>2. Bounded(KernelMmap, S1, Following(mem'), e, F2[e],
                Node(KernelMmap, e, F2[e] - BlockPages[level]))
    BY <1>1, <1>13, <1>17, <1>18, <2>1, BoundedBefore
  <2> QED BY <1>9, <1>17, <1>20, <2>2
<1>23. call'.op = "carve" /\ call'.entry = e /\ call'.page = w + b
       /\ call'.previous = Node(KernelMmap, e, w)
  BY <1>3, <1>4, <1>8, <1>9
<1>24. CarvedTo' = F2
  <2>1. CarvedTo' = [f \in DOMAIN KernelMmap |->
                       IF f < e THEN Pages(KernelMmap, f) ELSE IF f = e THEN w + b ELSE 0]
    BY <1>1, <1>23 DEF CarvedTo
  <2>2. F = [f \in DOMAIN KernelMmap |->
                       IF f < e THEN Pages(KernelMmap, f) ELSE IF f = e THEN w ELSE 0]
    BY <1>4, <1>5, <1>11 DEF CarvedTo
  <2>3. e \in Nat
    BY <1>3, <1>4
  <2>4. F2 = [f \in DOMAIN KernelMmap |->
                       IF f < e THEN Pages(KernelMmap, f) ELSE IF f = e THEN w + b ELSE 0]
    BY <1>16, <2>2, <2>3
  <2> QED BY <2>1, <2>4
<1>25. CarveRight'
  <2>1. level \in 0 .. MaxLevel + 1
    BY SizesOfLevels DEF AllLevels
  <2>2. Aligned(w + b, level) /\ w + b <= n /\ n < (w + b) + BlockPages[level]
    BY <1>9, <1>19
  <2> QED BY <1>0, <1>1, <1>5, <1>17, <1>18, <1>21, <1>22, <1>23, <1>24, <2>1, <2>2 DEF CarveRight
<1>26. CallRight(L, H[Len(live)])'
  BY <1>0, <1>1, <1>2, <1>23, <1>25 DEF CallRight
<1> QED BY <1>1, <1>2, <1>18, <1>26, SizesOfLevels DEF UniformInv, UniformWith

LEMMA CarveNextUniform == TypeOK /\ UniformInv /\ CarveNextEntry => UniformInv'
<1> SUFFICES ASSUME TypeOK, UniformInv, CarveNextEntry
             PROVE  UniformInv'
  OBVIOUS
<1>1. KernelMmap \in MemoryMaps /\ call.op = "carve" /\ call \in CallRecords
      /\ call.entry \in DOMAIN KernelMmap /\ UNCHANGED <<KernelMmap, live, mem>>
  BY DEF TypeOK, CarveNextEntry
<1>2. PICK H, E : /\ History(KernelMmap, 0, H, E, live) /\ PositionsRight
                  /\ live = <<>> /\ CarveRight
  BY <1>1, UniformCarve
<1>3. call \in [op : {"carve"}, entry : Nat \ {0}, page : Nat, previous : Slot]
  BY <1>1, CallTypes
<1>4. PICK e \in DOMAIN KernelMmap : e = call.entry /\ e \in Nat
  BY <1>1, <1>3
<1>5. PICK n \in Nat \ {0} : n = Pages(KernelMmap, e)
  BY <1>1, EntryPages
<1>6. call.page = n
  BY <1>1, <1>2, <1>3, <1>4, <1>5 DEF CarveRight, CarveNextEntry, Pages
<1>7. call'.op = "carve" /\ call'.entry = e + 1 /\ call'.page = 0 /\ call'.previous = call.previous
  BY <1>3, <1>4 DEF CarveNextEntry
<1>8. Vacant' = Vacant /\ PositionsRight' /\ Following(mem') = Following(mem)
  BY <1>1, <1>2, PositionsSame
<1>9. CarvedTo' = CarvedTo
  <2>1. CarvedTo' = [f \in DOMAIN KernelMmap |->
                       IF f < e + 1 THEN Pages(KernelMmap, f) ELSE IF f = e + 1 THEN 0 ELSE 0]
    BY <1>1, <1>7 DEF CarvedTo
  <2>2. CarvedTo = [f \in DOMAIN KernelMmap |->
                       IF f < e THEN Pages(KernelMmap, f) ELSE IF f = e THEN n ELSE 0]
    BY <1>4, <1>6 DEF CarvedTo
  <2>3. ASSUME NEW f \in DOMAIN KernelMmap
        PROVE  (IF f < e + 1 THEN Pages(KernelMmap, f) ELSE IF f = e + 1 THEN 0 ELSE 0)
                 = (IF f < e THEN Pages(KernelMmap, f) ELSE IF f = e THEN n ELSE 0)
    <3>1. f \in Nat
      BY <1>1, EntryPages
    <3>2. CASE f < e
      BY <1>4, <3>1, <3>2
    <3>3. CASE f = e
      BY <1>4, <1>5, <3>1, <3>3
    <3>4. CASE e < f
      BY <1>4, <3>1, <3>4
    <3> QED BY <1>4, <3>1, <3>2, <3>3, <3>4
  <2> QED BY <2>1, <2>2, <2>3
<1>10. ASSUME e + 1 \in DOMAIN KernelMmap
       PROVE  /\ PrecededBy(KernelMmap, Vacant, e + 1, 0, call.previous)
              /\ Bounded(KernelMmap, Vacant, Following(mem), e + 1, 0, call.previous)
              /\ \E l \in 0 .. MaxLevel + 1 :
                   /\ Aligned(0, l)
                   /\ 0 <= Pages(KernelMmap, e + 1)
                   /\ Pages(KernelMmap, e + 1) < 0 + BlockPages[l]
  <2>1. PrecededBy(KernelMmap, Vacant, e, n, call.previous)
    BY <1>2, <1>4, <1>6 DEF CarveRight
  <2>2. ~CarveStart(n, n)
    <3> SUFFICES ASSUME NEW l \in Levels, Digit(n, n, l)
                 PROVE  FALSE
      BY DEF CarveStart
    <3>1. PICK b \in Nat \ {0} : b = BlockPages[l]
      BY SizesOfLevels
    <3> QED BY <3>1 DEF Digit
  <2>3. PICK k \in Levels : LowestBit(n, k) /\ call.previous = Node(KernelMmap, e, n - BlockPages[k])
    BY <1>5, <2>1, <2>2 DEF PrecededBy
  <2>4. PICK b \in Nat \ {0} : b = BlockPages[k]
    BY SizesOfLevels
  <2>5. n - b \in Nat /\ n - b < n
    BY <2>3, <2>4, WithoutLowestBit
  <2>6. IsEarlier(KernelMmap, e + 1, call.previous)
    <3>1. PICK f \in DOMAIN KernelMmap : f = e + 1 /\ e < f
      BY <1>4, <1>10
    <3>2. IsEarlier(KernelMmap, f, Node(KernelMmap, e, n - b))
      BY <1>1, <1>5, <2>5, <3>1, EarlierNode
    <3> QED BY <2>3, <2>4, <3>1, <3>2
  <2>7. PICK m \in Nat : m = Pages(KernelMmap, e + 1) /\ m < BlockPages[MaxLevel + 1]
    BY <1>1, <1>10, EntryPages
  <2>8. MaxLevel + 1 \in 0 .. MaxLevel + 1 /\ MaxLevel + 1 \in AllLevels
        /\ BlockPages[MaxLevel + 1] \in Nat
    BY SizesOfLevels, LevelAssumption DEF AllLevels
  <2>9. Aligned(0, MaxLevel + 1)
    BY <2>8, AlignedZero
  <2> QED BY <2>6, <2>7, <2>8, <2>9 DEF PrecededBy, Bounded
<1>11. CarveRight'
  BY <1>1, <1>2, <1>7, <1>8, <1>9, <1>10 DEF CarveRight
<1>12. CallRight(0, H[Len(live)])'
  BY <1>1, <1>2, <1>7, <1>11 DEF CallRight
<1> QED BY <1>1, <1>2, <1>8, <1>12, SizesOfLevels DEF UniformInv, UniformWith

LEMMA CarveDoneUniform == TypeOK /\ UniformInv /\ CarveDone => UniformInv'
<1> SUFFICES ASSUME TypeOK, UniformInv, CarveDone
             PROVE  UniformInv'
  OBVIOUS
<1>1. KernelMmap \in MemoryMaps /\ call.op = "carve" /\ call \in CallRecords
      /\ call.entry \notin DOMAIN KernelMmap /\ UNCHANGED <<KernelMmap, live, mem>>
      /\ call' = Idle
  BY DEF TypeOK, CarveDone
<1>2. PICK H, E : /\ History(KernelMmap, 0, H, E, live) /\ PositionsRight
                  /\ live = <<>> /\ CarveRight
  BY <1>1, UniformCarve
<1>3. call.entry \in Nat \ {0}
  BY <1>1, CallTypes
<1>4. CarvedTo = H[0]
  <2>1. H[0] = [f \in DOMAIN KernelMmap |-> Whole(Pages(KernelMmap, f), 0)]
    BY <1>2 DEF History
  <2>2. ASSUME NEW f \in DOMAIN KernelMmap
        PROVE  CarvedTo[f] = Whole(Pages(KernelMmap, f), 0)
    <3>1. PICK n \in Nat : n = Pages(KernelMmap, f)
      BY <1>1, EntryPages
    <3>2. f < call.entry
      BY <1>1, <1>3, MapIsSequence
    <3> QED BY <3>1, <3>2, LevelZero DEF CarvedTo
  <2> QED BY <2>1, <2>2 DEF CarvedTo
<1>5. Vacant' = Vacant /\ PositionsRight'
  BY <1>1, <1>2, PositionsSame
<1>6. Vacant' = FreeBelow(KernelMmap, 0, H[0])
  BY <1>2, <1>4, <1>5 DEF CarveRight
<1>7. CallRight(0, H[Len(live)])'
  <2>1. Len(live') = 0
    BY <1>1, <1>2
  <2> QED BY <1>1, <1>6, <2>1 DEF CallRight, Idle
<1> QED BY <1>1, <1>2, <1>5, <1>7, SizesOfLevels DEF UniformInv, UniformWith

(***************************************************************************)
(* Two fronts of an entry that are a block apart.                          *)
(***************************************************************************)
FrontIs(F, V, e, p) == F = [V EXCEPT ![e] = p]

LEMMA FrontAt ==
  ASSUME NEW mmap \in MemoryMaps, NEW L \in Levels, NEW V, Begins(mmap, L, V),
         NEW e \in DOMAIN mmap, NEW p \in Nat, Aligned(p, L), p <= Whole(Pages(mmap, e), L),
         NEW F, FrontIs(F, V, e, p)
  PROVE  /\ Begins(mmap, L, F) /\ F[e] = p /\ F \in [DOMAIN mmap -> Nat]
         /\ \A f \in DOMAIN mmap \ {e} : F[f] = V[f]
BY DEF Begins, FrontIs

LEMMA FrontsApart ==
  ASSUME NEW mmap \in MemoryMaps, NEW L \in Levels, NEW V, Begins(mmap, L, V),
         NEW e \in DOMAIN mmap, NEW p \in Nat, NEW k \in Levels, L <= k, Aligned(p, k + 1),
         p + BlockPages[k] <= V[e],
         NEW F, FrontIs(F, V, e, p), NEW G, FrontIs(G, V, e, p + BlockPages[k])
  PROVE  /\ Begins(mmap, L, F) /\ F[e] = p
         /\ Begins(mmap, L, G) /\ G[e] = p + BlockPages[k]
         /\ FreeBelow(mmap, L, G) = FreeBelow(mmap, L, F) \cup {<<e, p, k>>}
         /\ p + BlockPages[k] = V[e] => G = V
<1>1. PICK n, h, v \in Nat : n = Pages(mmap, e) /\ h = Whole(n, L) /\ v = V[e] /\ v <= h
  BY EntryPages, WholeFacts DEF Begins
<1>2. PICK b \in Nat \ {0} : b = BlockPages[k]
  BY SizesOfLevels
<1>3. PICK q \in Nat : q = p + b /\ q <= h /\ p <= h
  BY <1>1, <1>2
<1>4. Aligned(p, L) /\ Aligned(q, L)
  <2>1. L \in AllLevels /\ k \in AllLevels
    BY SizesOfLevels
  <2>2. Aligned(p, k)
    BY AlignedHalves
  <2>3. Aligned(q, k)
    BY <1>2, <1>3, <2>1, <2>2, AlignedStep
  <2> QED BY <2>1, <2>2, <2>3, AlignedBelow
<1>5. /\ Begins(mmap, L, F) /\ F[e] = p /\ F \in [DOMAIN mmap -> Nat]
      /\ \A f \in DOMAIN mmap \ {e} : F[f] = V[f]
  BY <1>1, <1>3, <1>4 DEF Begins, FrontIs
<1>6. /\ Begins(mmap, L, G) /\ G[e] = q /\ G \in [DOMAIN mmap -> Nat]
      /\ \A f \in DOMAIN mmap \ {e} : G[f] = V[f]
  BY <1>1, <1>2, <1>3, <1>4 DEF Begins, FrontIs
<1>7. FreeBelow(mmap, L, G) = FreeBelow(mmap, L, F) \cup {<<e, F[e], k>>}
  <2>1. Begins(mmap, L, F) /\ L <= k
    BY <1>5
  <2>2. Aligned(F[e], k + 1) /\ F[e] + BlockPages[k] <= Whole(Pages(mmap, e), L)
    BY <1>1, <1>2, <1>3, <1>5
  <2>3. G \in [DOMAIN mmap -> Nat] /\ \A f \in DOMAIN mmap \ {e} : G[f] = F[f]
    BY <1>5, <1>6
  <2>4. G[e] = F[e] + BlockPages[k]
    BY <1>2, <1>3, <1>5, <1>6
  <2> QED BY ONLY <2>1, <2>2, <2>3, <2>4, mmap \in MemoryMaps, L \in Levels, k \in Levels,
                  e \in DOMAIN mmap, FreeBelowAdded
<1>8. p + BlockPages[k] = V[e] => G = V
  BY <1>1, <1>2, <1>3, <1>6 DEF Begins, FrontIs
<1> QED BY <1>2, <1>3, <1>5, <1>6, <1>7, <1>8

(***************************************************************************)
(* Between calls.                                                          *)
(***************************************************************************)
LEMMA UniformIdle ==
  ASSUME TypeOK, UniformInv, call.op \in {"idle", "null"}
  PROVE  \E L \in Levels : \E H, E :
           /\ History(KernelMmap, L, H, E, live) /\ PositionsRight
           /\ Vacant = FreeBelow(KernelMmap, L, H[Len(live)])
<1>1a. PICK L \in Levels : \E H, E : UniformWith(L, H, E)
  BY DEF UniformInv
<1>1. PICK H, E : UniformWith(L, H, E)
  BY <1>1a
<1>2. Vacant = FreeBelow(KernelMmap, L, H[Len(live)])
  BY <1>1 DEF UniformWith, CallRight
<1> QED BY <1>1, <1>2 DEF UniformWith

LEMMA NowBegins ==
  ASSUME TypeOK, NEW L \in Levels, NEW H, NEW E, History(KernelMmap, L, H, E, live)
  PROVE  Begins(KernelMmap, L, H[Len(live)]) /\ Len(live) \in Nat /\ DOMAIN live = 1 .. Len(live)
<1>1. KernelMmap \in MemoryMaps /\ Len(live) \in Nat /\ DOMAIN live = 1 .. Len(live)
  BY DEF TypeOK
<1>2. PICK n \in Nat : n = Len(live)
  BY <1>1
<1>3. n \in 0 .. n /\ DOMAIN live = 1 .. n
  BY <1>1, <1>2
<1>4. Begins(KernelMmap, L, H[n])
  BY <1>1, <1>3, HistoryBegins
<1> QED BY <1>1, <1>2, <1>4

LEMMA NothingInUse ==
  ASSUME NEW mmap \in MemoryMaps, NEW L \in Levels, NEW V,
         V = [e \in DOMAIN mmap |-> Whole(Pages(mmap, e), L)],
         NEW e \in DOMAIN mmap, NEW p \in Nat, NEW l \in Levels
  PROVE  <<e, p, l>> \in FreeBelow(mmap, L, V) <=> Digit(Pages(mmap, e), p, l)
<1>1. Begins(mmap, L, V)
  BY WholeBegins
<1>2. PICK n \in Nat : n = Pages(mmap, e)
  BY EntryPages
<1>3. L <= l => (Digit(Whole(n, L), p, l) <=> Digit(n, p, l))
  BY DigitsOfWhole
<1>4. <<e, p, l>> \in FreeBelow(mmap, L, V)
              <=> IF L <= l THEN Digit(V[e], p, l) ELSE Digit(Pages(mmap, e), p, l)
  BY <1>1, FreeBelowIs
<1> QED BY <1>2, <1>3, <1>4

LEMMA LevelOfCall ==
  ASSUME TypeOK, UniformInv, call = Idle, NEW size \in Sizes, SameLevel(size),
         NEW L, L = SizeLevel(size)
  PROVE  /\ L \in Levels
         /\ \E H, E : /\ History(KernelMmap, L, H, E, live) /\ PositionsRight
                      /\ Vacant = FreeBelow(KernelMmap, L, H[Len(live)])
<1>1a. PICK L1 \in Levels : \E H, E :
        /\ History(KernelMmap, L1, H, E, live) /\ PositionsRight
        /\ Vacant = FreeBelow(KernelMmap, L1, H[Len(live)])
  BY UniformIdle DEF Idle
<1>1. PICK H, E :
        /\ History(KernelMmap, L1, H, E, live) /\ PositionsRight
        /\ Vacant = FreeBelow(KernelMmap, L1, H[Len(live)])
  BY <1>1a
<1>2. L \in Levels /\ KernelMmap \in MemoryMaps
  BY SizeLevelFits DEF TypeOK
<1>3. CASE live # <<>>
  <2>1. 1 \in DOMAIN live
    BY <1>3 DEF TypeOK
  <2>2. SizeLevel(live[1].size) = L1
    BY <1>1, <2>1 DEF History, Allocated
  <2>3. L = L1
    BY <2>1, <2>2 DEF SameLevel
  <2> QED BY <1>1, <2>3
<1>4. CASE live = <<>>
  <2>1. PICK V1, V : /\ V1 = [e \in DOMAIN KernelMmap |-> Whole(Pages(KernelMmap, e), L1)]
                     /\ V = [e \in DOMAIN KernelMmap |-> Whole(Pages(KernelMmap, e), L)]
    OBVIOUS
  <2>2. PICK H2 : H2 = [i \in Nat |-> V]
    OBVIOUS
  <2>3. H2[0] = V /\ Len(live) = 0 /\ H[0] = V1
    BY <1>1, <1>4, <2>1, <2>2 DEF History
  <2>4. History(KernelMmap, L, H2, E, live)
    BY <1>4, <2>1, <2>3 DEF History
  <2>5. PICK S1, S : S1 = FreeBelow(KernelMmap, L1, V1) /\ S = FreeBelow(KernelMmap, L, V)
    OBVIOUS
  <2>6. S1 \in SUBSET Blocks(KernelMmap) /\ S \in SUBSET Blocks(KernelMmap)
    BY <2>5 DEF FreeBelow
  <2>7. \A e \in DOMAIN KernelMmap : \A p \in Nat, l \in Levels : <<e, p, l>> \in S1 <=> <<e, p, l>> \in S
    BY <1>2, <2>1, <2>5, NothingInUse
  <2>8. S1 = S
    BY ONLY <1>2, <2>6, <2>7, BlocksEqual
  <2> QED BY <1>1, <1>2, <2>3, <2>4, <2>5, <2>8
<1> QED BY <1>2, <1>3, <1>4

LEMMA SameUniform ==
  ASSUME TypeOK, UniformInv, call.op \in {"idle", "null"}, call'.op \in {"idle", "null"},
         UNCHANGED <<KernelMmap, mem, live>>
  PROVE  UniformInv'
<1>1a. PICK L \in Levels : \E H, E :
        /\ History(KernelMmap, L, H, E, live) /\ PositionsRight
        /\ Vacant = FreeBelow(KernelMmap, L, H[Len(live)])
  BY UniformIdle
<1>1. PICK H, E :
        /\ History(KernelMmap, L, H, E, live) /\ PositionsRight
        /\ Vacant = FreeBelow(KernelMmap, L, H[Len(live)])
  BY <1>1a
<1>2. Vacant' = Vacant /\ PositionsRight'
  BY <1>1, PositionsSame
<1>3. CallRight(L, H[Len(live)])'
  BY <1>1, <1>2 DEF CallRight
<1> QED BY <1>1, <1>2, <1>3 DEF UniformInv, UniformWith

(***************************************************************************)
(* The pages of nodes.                                                     *)
(***************************************************************************)
LEMMA PageOfNode ==
  ASSUME TypeOK, HeapInv, NEW e \in DOMAIN KernelMmap, NEW p \in Nat, p < Pages(KernelMmap, e),
         Node(KernelMmap, e, p) \in FreeNodes
  PROVE  mem[Node(KernelMmap, e, p)].Pointer = PagePointer(KernelMmap[e], p)
<1>1. PICK a \in FreeNodes : a = Node(KernelMmap, e, p)
  OBVIOUS
<1>2. PICK f \in DOMAIN KernelMmap : \E q \in Nat :
        /\ q < Pages(KernelMmap, f) /\ a = Node(KernelMmap, f, q)
        /\ mem[a].Pointer = PagePointer(KernelMmap[f], q)
  BY VacantNode
<1>3. PICK q \in Nat :
        /\ q < Pages(KernelMmap, f) /\ a = Node(KernelMmap, f, q)
        /\ mem[a].Pointer = PagePointer(KernelMmap[f], q)
  BY <1>2
<1>4. KernelMmap \in MemoryMaps
  BY DEF TypeOK
<1>5. Node(KernelMmap, e, p) = Node(KernelMmap, f, q)
  BY <1>1, <1>3
<1>6. e = f /\ p = q
  BY ONLY <1>3, <1>4, <1>5, p < Pages(KernelMmap, e), e \in DOMAIN KernelMmap,
          f \in DOMAIN KernelMmap, p \in Nat, q \in Nat, NodesApart
<1> QED BY <1>1, <1>3, <1>6

LEMMA LocationIs ==
  ASSUME TypeOK, NEW e \in DOMAIN KernelMmap, NEW p \in Nat, p < Pages(KernelMmap, e),
         NEW l \in AllLevels, NEW pointer,
         NodeAt(KernelMmap, Node(KernelMmap, e, p), pointer, l)
  PROVE  pointer = PagePointer(KernelMmap[e], p)
<1>1. KernelMmap \in MemoryMaps
  BY DEF TypeOK
<1>2. PICK f \in DOMAIN KernelMmap :
        \E q \in 0 .. DataPages(KernelMmap[f]) - BlockPages[l] :
          Node(KernelMmap, e, p) = KernelMmap[f].Base + q /\ pointer = PagePointer(KernelMmap[f], q)
  BY DEF NodeAt
<1>3. PICK q \in 0 .. DataPages(KernelMmap[f]) - BlockPages[l] :
          Node(KernelMmap, e, p) = KernelMmap[f].Base + q /\ pointer = PagePointer(KernelMmap[f], q)
  BY <1>2
<1>4. PICK n \in Nat, b \in Nat \ {0} : n = Pages(KernelMmap, f) /\ b = BlockPages[l]
  BY <1>1, EntryPages, SizesOfLevels
<1>5. q \in Nat /\ q < Pages(KernelMmap, f)
  BY <1>3, <1>4 DEF Pages
<1>6. Node(KernelMmap, e, p) = Node(KernelMmap, f, q)
  BY <1>3 DEF Node
<1>7. e = f /\ p = q
  BY ONLY <1>1, <1>5, <1>6, p < Pages(KernelMmap, e), e \in DOMAIN KernelMmap,
          f \in DOMAIN KernelMmap, p \in Nat, NodesApart
<1> QED BY <1>3, <1>7

(***************************************************************************)
(* Allocate().                                                             *)
(***************************************************************************)
LEMMA PopUniform ==
  ASSUME TypeOK, HeapInv, NEW L \in Levels, NEW size \in Sizes, SizeLevel(size) = L,
         NEW H, NEW E, History(KernelMmap, L, H, E, live), PositionsRight,
         NEW e \in DOMAIN KernelMmap, NEW p \in Nat,
         ExtraRight(L, H[Len(live)], e, p, Nodes[L], L),
         PopAndReturn(L, size), UNCHANGED KernelMmap
  PROVE  UniformInv'
<1>1. KernelMmap \in MemoryMaps
  BY DEF TypeOK
<1>2. PICK V, N : V = H[N] /\ N = Len(live) /\ N \in Nat /\ DOMAIN live = 1 .. N
                  /\ Begins(KernelMmap, L, V)
  BY NowBegins
<1>3. /\ Nodes[L] = Node(KernelMmap, e, p) /\ Aligned(p, L) /\ V[e] = p + BlockPages[L]
      /\ Vacant = FreeBelow(KernelMmap, L, [V EXCEPT ![e] = p]) \cup {<<e, p, L>>}
      /\ NoneSmaller(L, V, e)
  BY <1>2 DEF ExtraRight
<1>4. PICK n, h, v, b \in Nat :
        /\ n = Pages(KernelMmap, e) /\ h = Whole(n, L) /\ v = V[e] /\ v <= h /\ h <= n
        /\ b = BlockPages[L] /\ v = p + b /\ b # 0
  <2>1. PICK n \in Nat : n = Pages(KernelMmap, e)
    BY <1>1, EntryPages
  <2>2. PICK b \in Nat \ {0} : b = BlockPages[L]
    BY SizesOfLevels
  <2>3. PICK h \in Nat : h = Whole(n, L) /\ h <= n
    BY WholeFacts
  <2>4. V[e] \in Nat /\ V[e] <= h
    BY <1>2, <2>1, <2>3 DEF Begins
  <2> QED BY <1>3, <2>1, <2>2, <2>3, <2>4
<1>5. p < n /\ p <= h
  BY <1>4
<1>6. PICK W : W = [V EXCEPT ![e] = p]
  OBVIOUS
<1>7. Begins(KernelMmap, L, W) /\ W[e] = p
  BY <1>1, <1>2, <1>3, <1>4, <1>5, <1>6, FrontAt DEF FrontIs
<1>8. PICK S0 : S0 = FreeBelow(KernelMmap, L, W)
  OBVIOUS
<1>9. Nodes[L] # Null
  BY <1>1, <1>3, <1>4, <1>5, NodeIsSlot
<1>10. CanPop(L) /\ Nodes[L] \in FreeNodes
  <2>1. CanPop(L)
    BY <1>9, HeadPops
  <2>2. Nodes[L] \in DOMAIN mem
    BY <1>9 DEF TypeOK, Slot
  <2> QED BY <2>1, <2>2 DEF CanPop, FreeNodes
<1>11. PICK pointer : pointer = mem[Nodes[L]].Pointer
  OBVIOUS
<1>12. pointer = PagePointer(KernelMmap[e], p)
  BY <1>3, <1>4, <1>5, <1>10, <1>11, PageOfNode
<1>13. /\ PopBlock(L) /\ call' = Idle
       /\ live' = Append(live, [ptr |-> pointer, size |-> size])
  BY <1>10, <1>11 DEF PopAndReturn
<1>14. /\ FreeBlocks(KernelMmap, mem') = S0
       /\ Placed(KernelMmap, S0, Previous(mem'), Following(mem'))
  <2>1. Begins(KernelMmap, L, W) /\ L <= L /\ S0 = FreeBelow(KernelMmap, L, W)
    <3>1. L \in Nat
      BY SizesOfLevels
    <3> QED BY <1>7, <1>8, <3>1
  <2>2. Aligned(W[e], L) /\ Nodes[L] = Node(KernelMmap, e, W[e])
    BY <1>3, <1>7
  <2>3. W[e] + BlockPages[L] <= Whole(Pages(KernelMmap, e), L)
    BY <1>4, <1>7
  <2>4. Vacant = S0 \cup {<<e, W[e], L>>}
    BY <1>3, <1>6, <1>7, <1>8
  <2> QED BY ONLY TypeOK, HeapInv, PositionsRight, L \in Levels, e \in DOMAIN KernelMmap,
                  <2>1, <2>2, <2>3, <2>4, <1>10, <1>13, PopPlaces
<1>15. Vacant' = S0 /\ PositionsRight'
  BY <1>14, PlacesNext
<1>16. PICK block : block = [ptr |-> pointer, size |-> size]
  OBVIOUS
<1>17. Allocated(KernelMmap, L, V, e, W, block)
  <2>1. v - b = p /\ b <= v
    BY <1>4
  <2> QED BY <1>3, <1>4, <1>6, <1>12, <1>16, <2>1 DEF Allocated
<1>18. Longer(live, block, live') /\ KernelMmap' = KernelMmap
  <2>1. pointer \in Nat
    BY <1>10, <1>11 DEF TypeOK, FreeNodes, NodeRecords
  <2>2. /\ DOMAIN live' = 1 .. N + 1 /\ Len(live') = N + 1 /\ live'[N + 1] = block
        /\ \A i \in 1 .. N : live'[i] = live[i]
    BY <1>2, <1>13, <1>16, <2>1 DEF TypeOK
  <2> QED BY <1>2, <2>2 DEF Longer
<1>19. PICK H2, E2 : History(KernelMmap, L, H2, E2, live') /\ Newest(H2, live') = W
  <2>1. Allocated(KernelMmap, L, Newest(H, live), e, W, block)
    BY <1>2, <1>17 DEF Newest
  <2>2. PICK more : more = live'
    OBVIOUS
  <2>3. Longer(live, block, more)
    BY <1>18, <2>2
  <2>4. \E H2, E2 : History(KernelMmap, L, H2, E2, more) /\ Newest(H2, more) = W
    BY ONLY <2>1, <2>3, History(KernelMmap, L, H, E, live), HistoryExtended
  <2> QED BY <2>2, <2>4
<1>20. CallRight(L, H2[Len(live)])'
  BY <1>8, <1>13, <1>15, <1>18, <1>19 DEF CallRight, Idle, Newest
<1> QED BY <1>15, <1>18, <1>19, <1>20 DEF UniformInv, UniformWith

LEMMA AllocatePopUniform ==
  ASSUME TypeOK, HeapInv, UniformInv, NEW size \in Sizes, SameLevel(size), AllocatePop(size)
  PROVE  UniformInv'
<1>1. KernelMmap \in MemoryMaps /\ call = Idle /\ UNCHANGED KernelMmap
  BY DEF TypeOK, AllocatePop
<1>2. PICK L \in Levels : L = SizeLevel(size)
  BY SizeLevelFits
<1>3. PopAndReturn(L, size)
  BY <1>2 DEF AllocatePop
<1>4. CASE ~CanPop(L)
  BY <1>1, <1>3, <1>4, SameUniform DEF PopAndReturn, Idle
<1>5. CASE CanPop(L)
  <2>1. PICK H, E : /\ History(KernelMmap, L, H, E, live) /\ PositionsRight
                    /\ Vacant = FreeBelow(KernelMmap, L, H[Len(live)])
    BY <1>1, <1>2, LevelOfCall
  <2>2. PICK V : V = H[Len(live)] /\ Begins(KernelMmap, L, V)
    BY <2>1, NowBegins
  <2>3. PICK a \in FreeNodes : a = Nodes[L] /\ mem[a].Level = L
    <3>1. PopBlock(L)
      BY <1>3, <1>5 DEF PopAndReturn
    <3> QED BY <1>5, <3>1, PoppedFields DEF HeapInv
  <2>4. PICK e \in DOMAIN KernelMmap : \E p \in Nat :
          /\ p < Pages(KernelMmap, e) /\ a = Node(KernelMmap, e, p) /\ <<e, p, L>> \in Vacant
    BY <2>3, VacantNode
  <2>5. PICK p \in Nat :
          /\ p < Pages(KernelMmap, e) /\ a = Node(KernelMmap, e, p) /\ <<e, p, L>> \in Vacant
    BY <2>4
  <2>6. PICK v \in Nat : v = V[e] /\ Aligned(v, L)
    BY <2>2 DEF Begins
  <2>7. Digit(v, p, L)
    <3>1. <<e, p, L>> \in FreeBelow(KernelMmap, L, V)
      BY <2>1, <2>2, <2>5
    <3>2. L <= L
      BY SizesOfLevels
    <3>3. <<e, p, L>> \in FreeBelow(KernelMmap, L, V)
            <=> IF L <= L THEN Digit(V[e], p, L) ELSE Digit(Pages(KernelMmap, e), p, L)
      BY ONLY <1>1, <2>2, L \in Levels, e \in DOMAIN KernelMmap, p \in Nat, FreeBelowIs
    <3> QED BY <2>6, <3>1, <3>2, <3>3
  <2>8. v = p + BlockPages[L] /\ LowestBit(v, L) /\ Aligned(p, L + 1) /\ Aligned(p, L)
    BY <2>6, <2>7, LastDigit, DigitFacts
  <2>9. Vacant = FreeBelow(KernelMmap, L, [V EXCEPT ![e] = p]) \cup {<<e, p, L>>}
    <3>1. PICK F, G : F = [V EXCEPT ![e] = p] /\ G = [V EXCEPT ![e] = p + BlockPages[L]]
      OBVIOUS
    <3>2. L <= L /\ p + BlockPages[L] <= V[e] /\ p + BlockPages[L] = V[e]
      BY <2>6, <2>8, SizesOfLevels
    <3>5. PICK k \in Levels : k = L /\ L <= k
      BY <3>2
    <3>6. /\ L <= k /\ Aligned(p, k + 1) /\ p + BlockPages[k] <= V[e]
          /\ FrontIs(F, V, e, p) /\ FrontIs(G, V, e, p + BlockPages[k])
      BY <2>8, <3>1, <3>2, <3>5 DEF FrontIs
    <3>7. /\ FreeBelow(KernelMmap, L, G) = FreeBelow(KernelMmap, L, F) \cup {<<e, p, k>>}
          /\ p + BlockPages[k] = V[e] => G = V
      BY ONLY <1>1, <2>2, <3>6, L \in Levels, k \in Levels, e \in DOMAIN KernelMmap, p \in Nat, FrontsApart
    <3>3. FreeBelow(KernelMmap, L, G) = FreeBelow(KernelMmap, L, F) \cup {<<e, p, L>>} /\ G = V
      BY <3>2, <3>5, <3>7
    <3> QED BY <2>1, <2>2, <3>1, <3>3
  <2>10. NoneSmaller(L, V, e)
    <3>1. ASSUME NEW l \in Levels, L < l, Aligned(v, l)
          PROVE  FALSE
      <4>1. L + 1 \in AllLevels /\ l \in AllLevels /\ L + 1 <= l
        BY <3>1, SizesOfLevels
      <4> QED BY <2>8, <3>1, <4>1, AlignedBelow DEF LowestBit
    <3> QED BY <2>6, <3>1 DEF NoneSmaller
  <2>11. ExtraRight(L, V, e, p, Nodes[L], L)
    <3>1. L \in Nat
      BY SizesOfLevels
    <3> QED BY <2>3, <2>5, <2>6, <2>8, <2>9, <2>10, <3>1 DEF ExtraRight
  <2> QED BY <1>1, <1>2, <1>3, <2>1, <2>2, <2>11, PopUniform
<1> QED BY <1>4, <1>5

LEMMA DividePopUniform == TypeOK /\ HeapInv /\ UniformInv /\ DividePop => UniformInv'
<1> SUFFICES ASSUME TypeOK, HeapInv, UniformInv, DividePop
             PROVE  UniformInv'
  OBVIOUS
<1>1. call.op = "pop" /\ UNCHANGED KernelMmap /\ call \in CallRecords
  BY DEF DividePop, TypeOK
<1>2a. PICK L \in Levels : \E H, E : UniformWith(L, H, E)
  BY <1>1 DEF UniformInv
<1>2. PICK H, E : UniformWith(L, H, E)
  BY <1>2a
<1>3. PICK size \in Sizes : size = call.size
  BY <1>1, CallTypes
<1>4. PICK V : V = H[Len(live)] /\ Begins(KernelMmap, L, V)
  BY <1>2, NowBegins DEF UniformWith
<1>5. SizeLevel(size) = L /\ \E e \in DOMAIN KernelMmap : \E p \in 0 .. V[e] :
         ExtraRight(L, V, e, p, Nodes[L], L)
  BY <1>1, <1>2, <1>3, <1>4 DEF UniformWith, CallRight
<1>6. PICK e \in DOMAIN KernelMmap : \E p \in 0 .. V[e] : ExtraRight(L, V, e, p, Nodes[L], L)
  BY <1>5
<1>7. PICK p \in Nat : ExtraRight(L, V, e, p, Nodes[L], L)
  BY <1>6
<1>8. PopAndReturn(L, size)
  BY <1>3, <1>5 DEF DividePop
<1> QED BY <1>1, <1>2, <1>4, <1>5, <1>7, <1>8, PopUniform DEF UniformWith

(***************************************************************************)
(* DivideBlock().                                                          *)
(***************************************************************************)
LEMMA NoHeadNoDigit ==
  ASSUME TypeOK, HeapInv, NEW L \in Levels, NEW V, Begins(KernelMmap, L, V),
         Vacant = FreeBelow(KernelMmap, L, V),
         NEW k \in Levels, L <= k, Nodes[k] = Null,
         NEW f \in DOMAIN KernelMmap, NEW q \in Nat
  PROVE  ~Digit(V[f], q, k)
<1> SUFFICES ASSUME Digit(V[f], q, k)
             PROVE  FALSE
  OBVIOUS
<1>1. KernelMmap \in MemoryMaps
  BY DEF TypeOK
<1>2. <<f, q, k>> \in Vacant
  BY <1>1, FreeBelowIs
<1>3. Node(KernelMmap, f, q) \in FreeNodes /\ mem[Node(KernelMmap, f, q)].Level = k
  BY <1>2, VacantIs
<1>4. Listed(mem, Nodes, FreeNodes)
  BY IntactIsListed DEF HeapInv
<1> QED BY <1>3, <1>4, HeadExists

LEMMA AllocateDivideUniform ==
  ASSUME TypeOK, HeapInv, UniformInv, NEW size \in Sizes, SameLevel(size), AllocateDivide(size)
  PROVE  UniformInv'
<1>1. KernelMmap \in MemoryMaps /\ call = Idle /\ UNCHANGED <<KernelMmap, live>>
  BY DEF TypeOK, AllocateDivide
<1>2. PICK L \in Levels : L = SizeLevel(size) /\ L \in Nat
  BY SizeLevelFits, SizesOfLevels
<1>3. PICK H, E : /\ History(KernelMmap, L, H, E, live) /\ PositionsRight
                  /\ Vacant = FreeBelow(KernelMmap, L, H[Len(live)])
  BY <1>1, <1>2, LevelOfCall
<1>4. PICK V : V = H[Len(live)] /\ Begins(KernelMmap, L, V) /\ Vacant = FreeBelow(KernelMmap, L, V)
  BY <1>3, NowBegins
<1>5. PICK l \in Larger(L) :
        /\ \A k \in Larger(L) : l <= k
        /\ IF IsFree(Nodes[l])
           THEN /\ PopBlock(l)
                /\ call' = [op |-> "divide", size |-> size, level |-> l - 1,
                            address |-> Nodes[l], location |-> mem[Nodes[l]].Pointer,
                            previous |-> mem[Nodes[l]].PosPrevious, next |-> mem[Nodes[l]].PosNext]
           ELSE /\ call' = [op |-> "null", size |-> size]
                /\ UNCHANGED <<Nodes, mem>>
  BY <1>2 DEF AllocateDivide
<1>6. l \in Levels /\ l \in Nat /\ L < l /\ Nodes[l] # Null /\ Nodes[L] = Null
  BY <1>2, <1>5, SizesOfLevels DEF Larger, AllocateDivide
<1>7. CanPop(l) /\ PopBlock(l)
  BY <1>5, <1>6, HeadPops
<1>8. PICK a \in FreeNodes : a = Nodes[l] /\ mem[a].Level = l
  BY <1>6, <1>7, PoppedFields DEF HeapInv
<1>9. PICK e \in DOMAIN KernelMmap : \E p \in Nat :
        /\ p < Pages(KernelMmap, e) /\ a = Node(KernelMmap, e, p) /\ <<e, p, l>> \in Vacant
  BY <1>8, VacantNode
<1>10. PICK p \in Nat :
        /\ p < Pages(KernelMmap, e) /\ a = Node(KernelMmap, e, p) /\ <<e, p, l>> \in Vacant
  BY <1>9
<1>11. PICK v \in Nat : v = V[e] /\ Aligned(v, L) /\ v <= Whole(Pages(KernelMmap, e), L)
  BY <1>4 DEF Begins
<1>12. Digit(v, p, l)
  <2>1. <<e, p, l>> \in FreeBelow(KernelMmap, L, V) /\ L <= l
    BY <1>2, <1>4, <1>6, <1>10
  <2>2. <<e, p, l>> \in FreeBelow(KernelMmap, L, V)
          <=> IF L <= l THEN Digit(V[e], p, l) ELSE Digit(Pages(KernelMmap, e), p, l)
    BY ONLY <1>1, <1>4, L \in Levels, <1>6, e \in DOMAIN KernelMmap, p \in Nat, FreeBelowIs
  <2> QED BY <1>11, <2>1, <2>2
<1>13. ASSUME NEW k \in L .. l - 1, NEW f \in DOMAIN KernelMmap, NEW q \in Nat
       PROVE  ~Digit(V[f], q, k)
  <2>1. k \in Levels /\ L <= k /\ ~(l <= k)
    BY <1>2, <1>6, LevelAssumption DEF Levels
  <2>2. Nodes[k] = Null
    <3>1. k \notin Larger(L)
      BY <1>5, <2>1
    <3>2. k = L \/ k > L
      BY <1>2, <2>1 DEF Levels
    <3> QED BY <1>6, <2>1, <3>1, <3>2 DEF Larger
  <2> QED BY <1>4, <2>1, <2>2, NoHeadNoDigit
<1>14. v = p + BlockPages[l] /\ LowestBit(v, l) /\ Aligned(p, l + 1) /\ Aligned(p, l)
  <2>1. \A k \in L .. l - 1 : \A q \in 0 .. v : ~Digit(v, q, k)
    BY <1>11, <1>13
  <2>2. l \in AllLevels /\ L <= l
    BY <1>2, <1>6, SizesOfLevels
  <2>3. Aligned(v, l)
    BY ONLY v \in Nat, L \in Levels, <2>1, <2>2, <1>11, AlignedIfNoDigits
  <2> QED BY <1>6, <1>12, <2>3, LastDigit, DigitFacts
<1>15. NoneSmaller(L, V, e)
  <2> SUFFICES ASSUME NEW m \in Levels, L < m, Aligned(V[e], m),
                      NEW f \in DOMAIN V, NEW k \in L .. m - 1, NEW q \in 0 .. V[f]
               PROVE  ~Digit(V[f], q, k)
    BY DEF NoneSmaller
  <2>1. m \in Nat /\ m <= l
    <3>1. m \in Nat /\ m \in AllLevels /\ l + 1 \in AllLevels
      BY <1>6, SizesOfLevels
    <3>2. l + 1 <= m => Aligned(v, l + 1)
      BY <1>11, <3>1, AlignedBelow
    <3> QED BY <1>6, <1>14, <3>1, <3>2 DEF LowestBit
  <2>2. k \in L .. l - 1
    BY <1>2, <1>6, <2>1
  <2>3. f \in DOMAIN KernelMmap /\ q \in Nat
    BY <1>4 DEF Begins
  <2> QED BY <1>13, <2>2, <2>3
<1>16. PICK F, G : F = [V EXCEPT ![e] = p] /\ G = [V EXCEPT ![e] = p + BlockPages[l]]
  OBVIOUS
<1>17. /\ Begins(KernelMmap, L, F) /\ F[e] = p
       /\ FreeBelow(KernelMmap, L, G) = FreeBelow(KernelMmap, L, F) \cup {<<e, p, l>>} /\ G = V
  <2>1. L <= l /\ p + BlockPages[l] <= V[e] /\ p + BlockPages[l] = V[e]
    BY <1>2, <1>6, <1>11, <1>14
  <2>2. l \in Levels /\ Aligned(p, l + 1)
    BY <1>6, <1>14
  <2>3. FrontIs(F, V, e, p) /\ FrontIs(G, V, e, p + BlockPages[l])
    BY <1>16 DEF FrontIs
  <2> QED BY ONLY <1>1, <1>4, <2>1, <2>2, <2>3, L \in Levels,
                  e \in DOMAIN KernelMmap, p \in Nat, FrontsApart
<1>18. PICK S0 : S0 = FreeBelow(KernelMmap, L, F)
  OBVIOUS
<1>19. PICK x, y : x = mem[Nodes[l]].PosPrevious /\ y = mem[Nodes[l]].PosNext
  OBVIOUS
<1>20. /\ FreeBlocks(KernelMmap, mem') = S0
       /\ Placed(KernelMmap, S0, Previous(mem'), Following(mem'))
       /\ PrecededBy(KernelMmap, S0, e, p, x)
       /\ Bounded(KernelMmap, S0, Following(mem'), e, p, x)
       /\ FollowedBy(KernelMmap, S0, e, p, v, y)
  <2>1. Begins(KernelMmap, L, F) /\ L <= l /\ S0 = FreeBelow(KernelMmap, L, F)
    BY <1>2, <1>6, <1>17, <1>18
  <2>2. Aligned(F[e], l) /\ Nodes[l] = Node(KernelMmap, e, F[e])
    BY <1>8, <1>10, <1>14, <1>17
  <2>3. F[e] + BlockPages[l] <= Whole(Pages(KernelMmap, e), L)
    BY <1>11, <1>14, <1>17
  <2>4. Vacant = S0 \cup {<<e, F[e], l>>}
    BY <1>4, <1>17, <1>18
  <2>5. PositionsRight /\ l \in Levels
    BY <1>3, <1>6
  <2>6. /\ FreeBlocks(KernelMmap, mem') = S0
        /\ Placed(KernelMmap, S0, Previous(mem'), Following(mem'))
        /\ PrecededBy(KernelMmap, S0, e, F[e], mem[Nodes[l]].PosPrevious)
        /\ Bounded(KernelMmap, S0, Following(mem'), e, F[e], mem[Nodes[l]].PosPrevious)
        /\ FollowedBy(KernelMmap, S0, e, F[e], F[e] + BlockPages[l], mem[Nodes[l]].PosNext)
    BY ONLY TypeOK, HeapInv, L \in Levels, e \in DOMAIN KernelMmap,
            <2>1, <2>2, <2>3, <2>4, <2>5, <1>7, PopPlaces
  <2> QED BY <1>14, <1>17, <1>19, <2>6
<1>21. Vacant' = S0 /\ PositionsRight'
  BY <1>1, <1>20, PlacesNext
<1>22. /\ call'.op = "divide" /\ call'.size = size /\ call'.level = l - 1
       /\ call'.address = Node(KernelMmap, e, p) /\ call'.previous = x /\ call'.next = y
  <2>1. call' = [op |-> "divide", size |-> size, level |-> l - 1,
                 address |-> Nodes[l], location |-> mem[Nodes[l]].Pointer,
                 previous |-> mem[Nodes[l]].PosPrevious, next |-> mem[Nodes[l]].PosNext]
    BY <1>5, <1>7 DEF CanPop
  <2> QED BY <1>8, <1>10, <1>19, <2>1
<1>23. DivideRight(L, V, e, p)'
  <2>1. (l - 1) + 1 = l /\ L <= l - 1
    BY <1>2, <1>6
  <2> QED BY <1>1, <1>2, <1>11, <1>14, <1>15, <1>16, <1>18, <1>20, <1>21, <1>22, <2>1 DEF DivideRight
<1>24. CallRight(L, V)'
  <2>1. p \in 0 .. V[e]
    <3>1. BlockPages[l] \in Nat
      BY <1>6, SizesOfLevels
    <3> QED BY <1>11, <1>14, <3>1
  <2> QED BY <1>1, <1>22, <1>23, <2>1 DEF CallRight
<1> QED BY <1>1, <1>3, <1>4, <1>21, <1>24 DEF UniformInv, UniformWith

\* A block that ends where all blocks of level L do has the next one behind it.
NextAt(L, e, q, k, y) ==
  LowestBit(q, k) /\ q = Whole(Pages(KernelMmap, e), L)
  /\ Whole(Pages(KernelMmap, e), L) < Pages(KernelMmap, e)
    => y = Node(KernelMmap, e, Whole(Pages(KernelMmap, e), L))

\* The block of level k at page p is pushed, which makes F of the fronts V.
MayPush(L, V, e, p, k, x, y, F, S0, pointer) ==
  /\ L <= k /\ Aligned(p, k) /\ p + BlockPages[k] <= V[e]
  /\ FrontIs(F, V, e, p) /\ S0 = FreeBelow(KernelMmap, L, F) /\ Vacant = S0
  /\ PrecededBy(KernelMmap, S0, e, p, x)
  /\ Bounded(KernelMmap, S0, Following(mem), e, p, x)
  /\ FollowedBy(KernelMmap, S0, e, p, V[e], y)
  /\ NextAt(L, e, p + BlockPages[k], k, y)
  /\ pointer = PagePointer(KernelMmap[e], p)
  /\ PushBlock(Node(KernelMmap, e, p), pointer, x, y, k)

HasPushed(L, e, p, k, y, F, S0) ==
  /\ Begins(KernelMmap, L, F) /\ F[e] = p
  /\ Vacant' = S0 \cup {<<e, p, k>>} /\ PositionsRight'
  /\ Placed(KernelMmap, S0 \cup {<<e, p, k>>}, Previous(mem'), Following(mem'))
  /\ Following(mem')[Node(KernelMmap, e, p)] = y

\* What a push of the block of level k at the front does.
LEMMA PushAtFront ==
  ASSUME TypeOK, HeapInv, UNCHANGED KernelMmap, PositionsRight,
         NEW L \in Levels, NEW V, Begins(KernelMmap, L, V),
         NEW e \in DOMAIN KernelMmap, NEW p \in Nat, NEW k \in Levels,
         NEW x \in Slot, NEW y \in Slot, NEW F, NEW S0, NEW pointer,
         MayPush(L, V, e, p, k, x, y, F, S0, pointer)
  PROVE  HasPushed(L, e, p, k, y, F, S0)
<1>0. /\ L <= k /\ Aligned(p, k) /\ p + BlockPages[k] <= V[e]
      /\ FrontIs(F, V, e, p) /\ S0 = FreeBelow(KernelMmap, L, F) /\ Vacant = S0
      /\ PrecededBy(KernelMmap, S0, e, p, x)
      /\ Bounded(KernelMmap, S0, Following(mem), e, p, x)
      /\ FollowedBy(KernelMmap, S0, e, p, V[e], y)
      /\ NextAt(L, e, p + BlockPages[k], k, y)
      /\ pointer = PagePointer(KernelMmap[e], p)
      /\ PushBlock(Node(KernelMmap, e, p), pointer, x, y, k)
  BY DEF MayPush
<1> USE <1>0
<1>1. KernelMmap \in MemoryMaps
  BY DEF TypeOK
<1>2. PICK n \in Nat : n = Pages(KernelMmap, e)
  BY <1>1, EntryPages
<1>3. PICK h \in Nat : h = Whole(n, L)
  BY WholeFacts
<1>4. PICK b \in Nat \ {0} : b = BlockPages[k]
  BY SizesOfLevels
<1>5. PICK end \in Nat : end = V[e] /\ end <= h /\ p + b <= end
  BY <1>2, <1>3, <1>4 DEF Begins
<1>6. Begins(KernelMmap, L, F) /\ F[e] = p
  <2>1. Aligned(p, L)
    BY SizesOfLevels, AlignedBelow
  <2>2. p <= Whole(Pages(KernelMmap, e), L)
    BY <1>2, <1>3, <1>4, <1>5
  <2> QED BY <1>1, <2>1, <2>2, FrontAt
<1>7. /\ FreeBlocks(KernelMmap, mem') = S0 \cup {<<e, F[e], k>>}
      /\ Placed(KernelMmap, FreeBlocks(KernelMmap, mem'), Previous(mem'), Following(mem'))
      /\ Following(mem')[Node(KernelMmap, e, F[e])] = y
  <2>1. Begins(KernelMmap, L, F) /\ L <= k /\ S0 = FreeBelow(KernelMmap, L, F) /\ Vacant = S0
    BY <1>6
  <2>2. Aligned(F[e], k) /\ F[e] + BlockPages[k] <= end /\ end <= Whole(Pages(KernelMmap, e), L)
    BY <1>2, <1>3, <1>4, <1>5, <1>6
  <2>3. /\ PrecededBy(KernelMmap, S0, e, F[e], x)
        /\ Bounded(KernelMmap, S0, Following(mem), e, F[e], x)
        /\ FollowedBy(KernelMmap, S0, e, F[e], end, y)
    BY <1>5, <1>6
  <2>4. (/\ LowestBit(F[e] + BlockPages[k], k)
         /\ F[e] + BlockPages[k] = Whole(Pages(KernelMmap, e), L)
         /\ Whole(Pages(KernelMmap, e), L) < Pages(KernelMmap, e))
           => y = Node(KernelMmap, e, Whole(Pages(KernelMmap, e), L))
    BY <1>6 DEF NextAt
  <2>5. PushBlock(Node(KernelMmap, e, F[e]), PagePointer(KernelMmap[e], F[e]), x, y, k)
    BY <1>6
  <2> QED BY ONLY TypeOK, PositionsRight, L \in Levels, k \in Levels, e \in DOMAIN KernelMmap,
                  x \in Slot, y \in Slot, end \in Nat, <2>1, <2>2, <2>3, <2>4, <2>5, PushPlaces
<1> QED BY <1>6, <1>7, PlacesNext DEF HasPushed

LEMMA DivideCall ==
  ASSUME TypeOK, HeapInv, UniformInv, call.op \in {"divide", "divideLast"}
  PROVE  \E L \in Levels : \E H, E :
           /\ History(KernelMmap, L, H, E, live) /\ PositionsRight
           /\ Begins(KernelMmap, L, H[Len(live)])
           /\ \E e \in DOMAIN KernelMmap : \E p \in Nat :
                /\ p < Pages(KernelMmap, e)
                /\ call.location = PagePointer(KernelMmap[e], p)
                /\ call.address \in DOMAIN mem
                /\ DivideRight(L, H[Len(live)], e, p)
<1>1a. PICK L \in Levels : \E H, E : UniformWith(L, H, E)
  BY DEF UniformInv
<1>1. PICK H, E : UniformWith(L, H, E)
  BY <1>1a
<1>2. PICK V : V = H[Len(live)] /\ Begins(KernelMmap, L, V)
  BY <1>1, NowBegins DEF UniformWith
<1>3. KernelMmap \in MemoryMaps /\ call \in CallRecords
  BY DEF TypeOK
<1>4. \E e \in DOMAIN KernelMmap : \E p \in 0 .. V[e] : DivideRight(L, V, e, p)
  BY <1>1, <1>2 DEF UniformWith, CallRight
<1>5. PICK e \in DOMAIN KernelMmap : \E p \in 0 .. V[e] : DivideRight(L, V, e, p)
  BY <1>4
<1>6. PICK p \in Nat : DivideRight(L, V, e, p)
  BY <1>5
<1>7. PICK k \in Levels : k = call.level
  BY <1>3, CallTypes
<1>8. PICK n \in Nat : n = Pages(KernelMmap, e)
  BY <1>3, EntryPages
<1>9. PICK h \in Nat : h = Whole(n, L) /\ h <= n
  BY WholeFacts
<1>10. V[e] \in Nat /\ V[e] <= h
  BY <1>2, <1>8, <1>9 DEF Begins
<1>11. p < V[e]
  <2>1. BlockPages[k + 1] \in Nat \ {0} /\ BlockPages[L] \in Nat \ {0}
    BY SizesOfLevels
  <2> QED BY <1>6, <1>7, <1>10, <2>1 DEF DivideRight
<1>12. p < n
  BY <1>9, <1>10, <1>11
<1>13. call.address = Node(KernelMmap, e, p)
  BY <1>6 DEF DivideRight
<1>14. \E l \in AllLevels : NodeAt(KernelMmap, Node(KernelMmap, e, p), call.location, l)
  <2>1. k \in AllLevels /\ k + 1 \in AllLevels
    BY SizesOfLevels
  <2> QED BY <1>7, <1>13, <2>1 DEF HeapInv, NodesMatchBlocks
<1>15. call.location = PagePointer(KernelMmap[e], p)
  BY <1>8, <1>12, <1>14, LocationIs
<1>16. call.address \in DOMAIN mem
  BY <1>3, <1>8, <1>12, <1>13, NodeIsSlot DEF TypeOK
<1> QED BY <1>1, <1>2, <1>6, <1>8, <1>12, <1>15, <1>16 DEF UniformWith

LEMMA DividePushUniform == TypeOK /\ HeapInv /\ UniformInv /\ DividePush => UniformInv'
<1> SUFFICES ASSUME TypeOK, HeapInv, UniformInv, DividePush
             PROVE  UniformInv'
  OBVIOUS
<1>1. KernelMmap \in MemoryMaps /\ call.op = "divide" /\ call \in CallRecords
      /\ KernelMmap' = KernelMmap /\ live' = live
  BY DEF TypeOK, DividePush
<1>2a. PICK L \in Levels : \E H, E :
        /\ History(KernelMmap, L, H, E, live) /\ PositionsRight
        /\ Begins(KernelMmap, L, H[Len(live)])
        /\ \E e \in DOMAIN KernelMmap : \E p \in Nat :
             /\ p < Pages(KernelMmap, e)
             /\ call.location = PagePointer(KernelMmap[e], p)
             /\ call.address \in DOMAIN mem
             /\ DivideRight(L, H[Len(live)], e, p)
  BY <1>1, DivideCall
<1>2. PICK H, E :
        /\ History(KernelMmap, L, H, E, live) /\ PositionsRight
        /\ Begins(KernelMmap, L, H[Len(live)])
        /\ \E e \in DOMAIN KernelMmap : \E p \in Nat :
             /\ p < Pages(KernelMmap, e)
             /\ call.location = PagePointer(KernelMmap[e], p)
             /\ call.address \in DOMAIN mem
             /\ DivideRight(L, H[Len(live)], e, p)
  BY <1>2a
<1>3. PICK V : V = H[Len(live)] /\ Begins(KernelMmap, L, V)
  BY <1>2
<1>4. PICK e \in DOMAIN KernelMmap : \E p \in Nat :
        /\ p < Pages(KernelMmap, e) /\ call.location = PagePointer(KernelMmap[e], p)
        /\ call.address \in DOMAIN mem /\ DivideRight(L, V, e, p)
  BY <1>2, <1>3
<1>5. PICK p \in Nat :
        /\ p < Pages(KernelMmap, e) /\ call.location = PagePointer(KernelMmap[e], p)
        /\ call.address \in DOMAIN mem /\ DivideRight(L, V, e, p)
  BY <1>4
<1>6. PICK k \in Levels, size \in Sizes, x \in Slot, y \in Slot :
        k = call.level /\ size = call.size /\ x = call.previous /\ y = call.next
  BY <1>1, CallTypes
<1>7. PICK F, G : F = [V EXCEPT ![e] = p] /\ G = [V EXCEPT ![e] = p + BlockPages[k]]
  OBVIOUS
<1>8. PICK S0 : S0 = FreeBelow(KernelMmap, L, F)
  OBVIOUS
<1>9. /\ SizeLevel(size) = L /\ L <= k /\ call.address = Node(KernelMmap, e, p)
      /\ Aligned(p, k + 1) /\ V[e] = p + BlockPages[k + 1]
      /\ Vacant = S0 /\ NoneSmaller(L, V, e)
      /\ PrecededBy(KernelMmap, S0, e, p, x)
      /\ Bounded(KernelMmap, S0, Following(mem), e, p, x)
      /\ FollowedBy(KernelMmap, S0, e, p, V[e], y)
  BY <1>1, <1>5, <1>6, <1>7, <1>8 DEF DivideRight
<1>10. PICK b \in Nat \ {0} : b = BlockPages[k] /\ V[e] = p + 2 * b
  BY <1>9, SizesOfLevels
<1>11. PICK q \in Nat : q = p + b /\ q # 0 /\ q - b = p
  OBVIOUS
<1>12. PICK end \in Nat : end = V[e] /\ end <= Whole(Pages(KernelMmap, e), L)
                          /\ end = q + b /\ p < end /\ q < end
  <2>1. V[e] \in Nat /\ V[e] <= Whole(Pages(KernelMmap, e), L)
    BY <1>3 DEF Begins
  <2> QED BY <1>10, <1>11, <2>1
<1>13. Aligned(p, k) /\ LowestBit(q, k) /\ Aligned(q, k)
  BY <1>9, <1>10, <1>11, AlignedHalves, WithLowestBit DEF LowestBit
<1>14. /\ call' = [call EXCEPT
               !.op = IF AtTargetLevel THEN "divideLast" ELSE @,
               !.level = IF AtTargetLevel THEN @ ELSE @ - 1,
               !.address = @ + BlockPages[call.level],
               !.location = @ + BlockPages[call.level] * ScalingFactor,
               !.previous = call.address]
       /\ PushBlock(Node(KernelMmap, e, p), PagePointer(KernelMmap[e], p), x, y, k)
  BY <1>5, <1>6, <1>9 DEF DividePush
<1>15. PICK S1 : S1 = S0 \cup {<<e, p, k>>}
  OBVIOUS
<1>16. /\ Begins(KernelMmap, L, F) /\ F[e] = p
       /\ Vacant' = S1 /\ PositionsRight'
       /\ Placed(KernelMmap, S1, Previous(mem'), Following(mem'))
  <2>1. p + BlockPages[k] <= V[e]
    BY <1>10
  <2>2. PICK h \in Nat : h = Whole(Pages(KernelMmap, e), L)
    <3>1. PICK n \in Nat : n = Pages(KernelMmap, e)
      BY <1>1, EntryPages
    <3> QED BY <3>1, WholeFacts
  <2>3. NextAt(L, e, p + BlockPages[k], k, y)
    BY <1>10, <1>11, <1>12, <2>2 DEF NextAt
  <2>4. PICK pointer : pointer = PagePointer(KernelMmap[e], p)
    OBVIOUS
  <2>5. PushBlock(Node(KernelMmap, e, p), pointer, x, y, k) /\ UNCHANGED KernelMmap
    BY <1>1, <1>14, <2>4
  <2>6. /\ L <= k /\ Aligned(p, k) /\ FrontIs(F, V, e, p)
        /\ S0 = FreeBelow(KernelMmap, L, F) /\ Vacant = S0
        /\ PrecededBy(KernelMmap, S0, e, p, x)
        /\ Bounded(KernelMmap, S0, Following(mem), e, p, x)
        /\ FollowedBy(KernelMmap, S0, e, p, V[e], y)
    BY <1>7, <1>8, <1>9, <1>13 DEF FrontIs
  <2>7. PositionsRight /\ Begins(KernelMmap, L, V)
    BY <1>2, <1>3
  <2>8. /\ Begins(KernelMmap, L, F) /\ F[e] = p
        /\ Vacant' = S0 \cup {<<e, p, k>>} /\ PositionsRight'
        /\ Placed(KernelMmap, S0 \cup {<<e, p, k>>}, Previous(mem'), Following(mem'))
        /\ Following(mem')[Node(KernelMmap, e, p)] = y
    <3>1. MayPush(L, V, e, p, k, x, y, F, S0, pointer)
      BY ONLY <2>1, <2>3, <2>4, <2>5, <2>6 DEF MayPush
    <3>2. HasPushed(L, e, p, k, y, F, S0)
      BY ONLY TypeOK, HeapInv, <2>5, <2>7, <3>1, L \in Levels, k \in Levels,
              e \in DOMAIN KernelMmap, p \in Nat, x \in Slot, y \in Slot, PushAtFront
    <3> QED BY ONLY <3>2 DEF HasPushed
  <2> QED BY <1>15, <2>8
<1>17. /\ Begins(KernelMmap, L, G) /\ G[e] = q
       /\ FreeBelow(KernelMmap, L, G) = S1
  <2>1. L <= k /\ Aligned(p, k + 1) /\ p + BlockPages[k] <= V[e]
    BY <1>9, <1>10
  <2>2. /\ Begins(KernelMmap, L, G) /\ G[e] = p + BlockPages[k]
        /\ FreeBelow(KernelMmap, L, G) = FreeBelow(KernelMmap, L, F) \cup {<<e, p, k>>}
    <3>1. FrontIs(F, V, e, p) /\ FrontIs(G, V, e, p + BlockPages[k])
      BY <1>7 DEF FrontIs
    <3> QED BY ONLY <1>1, <1>3, <3>1, <2>1, k \in Levels, L \in Levels,
            e \in DOMAIN KernelMmap, p \in Nat, FrontsApart
  <2> QED BY <1>8, <1>10, <1>11, <1>15, <2>2
<1>18. PrecededBy(KernelMmap, S1, e, q, Node(KernelMmap, e, p))
  BY <1>10, <1>11, <1>13 DEF PrecededBy
<1>19. Bounded(KernelMmap, S1, Following(mem'), e, q, Node(KernelMmap, e, p))
  <2>1. LowestBit(G[e], k)
    BY <1>13, <1>17
  <2>2. S1 = FreeBelow(KernelMmap, L, G) /\ Begins(KernelMmap, L, G)
    BY <1>17
  <2>3. Placed(KernelMmap, S1, Previous(mem'), Following(mem'))
    BY <1>16
  <2>4. Bounded(KernelMmap, S1, Following(mem'), e, G[e], Node(KernelMmap, e, G[e] - BlockPages[k]))
    BY ONLY <1>1, <2>1, <2>2, <2>3, k \in Levels, L \in Levels,
            e \in DOMAIN KernelMmap, BoundedBefore
  <2> QED BY <1>10, <1>11, <1>17, <2>4
<1>20. FollowedBy(KernelMmap, S1, e, q, end, y)
  <2>1. \A r \in Nat, m \in Levels : q < r /\ <<e, r, m>> \in S1 => F[e] < r /\ <<e, r, m>> \in S0
    BY <1>11, <1>15, <1>16
  <2>2. Begins(KernelMmap, L, F) /\ S0 = FreeBelow(KernelMmap, L, F) /\ F[e] < end
        /\ end <= Whole(Pages(KernelMmap, e), L) /\ FollowedBy(KernelMmap, S0, e, F[e], end, y)
        /\ end <= end
    BY <1>8, <1>9, <1>12, <1>16
  <2> QED BY ONLY <1>1, <2>1, <2>2, L \in Levels, e \in DOMAIN KernelMmap,
                  end \in Nat, q \in Nat, FollowedOn
<1>21. Node(KernelMmap, e, p) + b = Node(KernelMmap, e, q)
  <2>1. Node(KernelMmap, e, 0) \in Nat /\ \A r \in Nat : Node(KernelMmap, e, r) = Node(KernelMmap, e, 0) + r
    BY <1>1, EntryPages
  <2> QED BY <1>11, <2>1
<1>22. call \in [op : {"divide", "divideLast"}, size : Sizes, level : Levels,
                 address : Nat, location : Nat, previous : Slot, next : Slot]
  BY <1>1, CallTypes
<1>23. /\ call'.op = (IF k = L THEN "divideLast" ELSE "divide")
       /\ call'.level = (IF k = L THEN k ELSE k - 1)
       /\ call'.address = Node(KernelMmap, e, q)
       /\ call'.previous = Node(KernelMmap, e, p) /\ call'.next = y /\ call'.size = size
  <2>1. AtTargetLevel <=> k = L
    BY <1>6, <1>9 DEF AtTargetLevel
  <2>2. call'.op = (IF AtTargetLevel THEN "divideLast" ELSE call.op)
    BY <1>14, <1>22
  <2>3. call'.level = (IF AtTargetLevel THEN call.level ELSE call.level - 1)
    BY <1>14, <1>22
  <2>4. call'.address = call.address + BlockPages[call.level]
    BY <1>14, <1>22
  <2>5. call'.previous = call.address /\ call'.next = call.next /\ call'.size = call.size
    BY <1>14, <1>22
  <2> QED BY <1>1, <1>6, <1>9, <1>10, <1>21, <2>1, <2>2, <2>3, <2>4, <2>5
<1>24. DivideRight(L, V, e, q)'
  <2>1. /\ Vacant' = FreeBelow(KernelMmap, L, G) /\ G = [V EXCEPT ![e] = q]
        /\ SizeLevel(call'.size) = L
    BY <1>7, <1>9, <1>10, <1>11, <1>16, <1>17, <1>23
  <2>2. CASE k = L
    <3>1. call'.op = "divideLast" /\ call'.level = L /\ L <= L
      BY <1>9, <1>23, <2>2
    <3>2. V[e] = q + BlockPages[L] /\ LowestBit(q, L)
      BY <1>10, <1>12, <1>13, <2>2
    <3> QED BY <1>1, <1>9, <1>12, <1>16, <1>18, <1>19, <1>20, <1>23, <2>1, <3>1, <3>2 DEF DivideRight
  <2>3. CASE k # L
    <3>1. call'.op = "divide" /\ call'.level = k - 1 /\ L <= k - 1 /\ (k - 1) + 1 = k
      <4>1. k \in Nat /\ L \in Nat
        BY SizesOfLevels
      <4> QED BY <1>9, <1>23, <2>3, <4>1
    <3>2. V[e] = q + BlockPages[k]
      BY <1>10, <1>12
    <3> QED BY <1>1, <1>9, <1>12, <1>13, <1>16, <1>18, <1>19, <1>20, <1>23, <2>1, <3>1, <3>2 DEF DivideRight
  <2> QED BY <2>2, <2>3
<1>25. CallRight(L, V)'
  <2>1. q \in 0 .. V[e]
    BY <1>12
  <2>2. call'.op \in {"divide", "divideLast"}
    BY <1>23
  <2> QED BY <1>1, <1>24, <2>1, <2>2 DEF CallRight
<1> QED BY <1>1, <1>2, <1>3, <1>16, <1>25 DEF UniformInv, UniformWith

LEMMA DivideLastUniform == TypeOK /\ HeapInv /\ UniformInv /\ DivideLast => UniformInv'
<1> SUFFICES ASSUME TypeOK, HeapInv, UniformInv, DivideLast
             PROVE  UniformInv'
  OBVIOUS
<1>1. KernelMmap \in MemoryMaps /\ call.op = "divideLast" /\ call \in CallRecords
      /\ KernelMmap' = KernelMmap /\ live' = live
  BY DEF TypeOK, DivideLast
<1>2a. PICK L \in Levels : \E H, E :
        /\ History(KernelMmap, L, H, E, live) /\ PositionsRight
        /\ Begins(KernelMmap, L, H[Len(live)])
        /\ \E e \in DOMAIN KernelMmap : \E p \in Nat :
             /\ p < Pages(KernelMmap, e)
             /\ call.location = PagePointer(KernelMmap[e], p)
             /\ call.address \in DOMAIN mem
             /\ DivideRight(L, H[Len(live)], e, p)
  BY <1>1, DivideCall
<1>2. PICK H, E :
        /\ History(KernelMmap, L, H, E, live) /\ PositionsRight
        /\ Begins(KernelMmap, L, H[Len(live)])
        /\ \E e \in DOMAIN KernelMmap : \E p \in Nat :
             /\ p < Pages(KernelMmap, e)
             /\ call.location = PagePointer(KernelMmap[e], p)
             /\ call.address \in DOMAIN mem
             /\ DivideRight(L, H[Len(live)], e, p)
  BY <1>2a
<1>3. PICK V : V = H[Len(live)] /\ Begins(KernelMmap, L, V)
  BY <1>2
<1>4. PICK e \in DOMAIN KernelMmap : \E p \in Nat :
        /\ p < Pages(KernelMmap, e) /\ call.location = PagePointer(KernelMmap[e], p)
        /\ call.address \in DOMAIN mem /\ DivideRight(L, V, e, p)
  BY <1>2, <1>3
<1>5. PICK p \in Nat :
        /\ p < Pages(KernelMmap, e) /\ call.location = PagePointer(KernelMmap[e], p)
        /\ call.address \in DOMAIN mem /\ DivideRight(L, V, e, p)
  BY <1>4
<1>6. PICK size \in Sizes, x \in Slot, y \in Slot :
        size = call.size /\ x = call.previous /\ y = call.next
  BY <1>1, CallTypes
<1>7. PICK F : F = [V EXCEPT ![e] = p]
  OBVIOUS
<1>8. PICK S0 : S0 = FreeBelow(KernelMmap, L, F)
  OBVIOUS
<1>9. /\ SizeLevel(size) = L /\ call.address = Node(KernelMmap, e, p)
      /\ LowestBit(p, L) /\ V[e] = p + BlockPages[L]
      /\ Vacant = S0 /\ NoneSmaller(L, V, e)
      /\ PrecededBy(KernelMmap, S0, e, p, x)
      /\ Bounded(KernelMmap, S0, Following(mem), e, p, x)
      /\ FollowedBy(KernelMmap, S0, e, p, V[e], y)
  BY <1>1, <1>5, <1>6, <1>7, <1>8 DEF DivideRight
<1>10. call.level = L /\ L \in Nat
  BY <1>1, <1>6, <1>9, SizesOfLevels DEF HeapInv, DivisionSucceeds
<1>11. PICK b \in Nat \ {0} : b = BlockPages[L] /\ V[e] = p + b
  BY <1>9, SizesOfLevels
<1>12. Aligned(p, L) /\ ~LowestBit(p + BlockPages[L], L)
  BY <1>9, WithoutLowestBit DEF LowestBit
<1>13. /\ PushBlock(Node(KernelMmap, e, p), PagePointer(KernelMmap[e], p), x, y, L)
       /\ call' = [op |-> "pop", size |-> size]
  BY <1>5, <1>6, <1>9, <1>10 DEF DivideLast
<1>14. Vacant' = S0 \cup {<<e, p, L>>} /\ PositionsRight'
  <2>1. PICK pointer : pointer = PagePointer(KernelMmap[e], p)
    OBVIOUS
  <2>2. PushBlock(Node(KernelMmap, e, p), pointer, x, y, L) /\ UNCHANGED KernelMmap
    BY <1>1, <1>13, <2>1
  <2>3. PICK k \in Levels : k = L /\ L <= k
    BY <1>10
  <2>4. /\ L <= k /\ Aligned(p, k) /\ FrontIs(F, V, e, p)
        /\ S0 = FreeBelow(KernelMmap, L, F) /\ Vacant = S0
        /\ PrecededBy(KernelMmap, S0, e, p, x)
        /\ Bounded(KernelMmap, S0, Following(mem), e, p, x)
        /\ FollowedBy(KernelMmap, S0, e, p, V[e], y)
        /\ p + BlockPages[k] <= V[e]
    BY <1>7, <1>8, <1>9, <1>11, <1>12, <2>3 DEF FrontIs
  <2>5. PositionsRight /\ Begins(KernelMmap, L, V)
    BY <1>2, <1>3
  <2>6. NextAt(L, e, p + BlockPages[k], k, y)
    BY <1>12, <2>3 DEF NextAt
  <2>7. PushBlock(Node(KernelMmap, e, p), pointer, x, y, k)
    BY <2>2, <2>3
  <2>9. UNCHANGED KernelMmap
    BY <1>1
  <2>8. /\ Begins(KernelMmap, L, F) /\ F[e] = p
        /\ Vacant' = S0 \cup {<<e, p, k>>} /\ PositionsRight'
        /\ Placed(KernelMmap, S0 \cup {<<e, p, k>>}, Previous(mem'), Following(mem'))
        /\ Following(mem')[Node(KernelMmap, e, p)] = y
    <3>1. MayPush(L, V, e, p, k, x, y, F, S0, pointer)
      BY ONLY <2>1, <2>4, <2>6, <2>7 DEF MayPush
    <3>2. HasPushed(L, e, p, k, y, F, S0)
      BY ONLY TypeOK, HeapInv, <2>5, <2>9, <3>1, L \in Levels, k \in Levels,
              e \in DOMAIN KernelMmap, p \in Nat, x \in Slot, y \in Slot, PushAtFront
    <3> QED BY ONLY <3>2 DEF HasPushed
  <2> QED BY <2>3, <2>8
<1>15. Nodes'[L] = Node(KernelMmap, e, p)
  BY <1>13 DEF PushBlock, TypeOK
<1>16. ExtraRight(L, V, e, p, Nodes[L], L)'
  BY <1>1, <1>7, <1>8, <1>9, <1>10, <1>12, <1>14, <1>15 DEF ExtraRight
<1>17. CallRight(L, V)'
  <2>1. p \in 0 .. V[e]
    BY <1>11
  <2>2. call'.op = "pop" /\ call'.size = size
    BY <1>13
  <2> QED BY <1>1, <1>9, <1>16, <2>1, <2>2 DEF CallRight
<1> QED BY <1>1, <1>2, <1>3, <1>14, <1>17 DEF UniformInv, UniformWith

(***************************************************************************)
(* The neighbours that FreeBlock() finds.                                  *)
(***************************************************************************)
LEMMA LeastIs ==
  ASSUME NEW S \in SUBSET Nat, NEW m \in S, \A n \in S : m <= n
  PROVE  Least(S) = m
<1>1. PICK c : c = Least(S)
  OBVIOUS
<1>2. c \in S /\ \A n \in S : c <= n
  BY <1>1, Zenon DEF Least
<1>3. c <= m /\ m <= c /\ c \in Nat /\ m \in Nat
  BY <1>2
<1> QED BY <1>1, <1>3

LEMMA AlignedPlus ==
  ASSUME NEW l \in AllLevels, NEW p \in Nat, NEW q \in Nat, Aligned(p, l), Aligned(q, l)
  PROVE  Aligned(p + q, l)
<1>1. PICK b \in Nat \ {0} : b = BlockPages[l]
  BY SizesOfLevels
<1>2. PICK i \in Nat, j \in Nat : p = i * b /\ q = j * b
  BY <1>1, AlignedIs
<1>3. p + q = (i + j) * b /\ i + j \in Nat /\ p + q \in Nat
  BY <1>2
<1> QED BY <1>1, <1>3, AlignedIs

LEMMA FirstTail ==
  ASSUME NEW n \in Nat, NEW L \in Levels, Whole(n, L) < n
  PROVE  \E l \in Levels : l < L /\ Digit(n, Whole(n, L), l)
<1>1. PICK h \in Nat : h = Whole(n, L) /\ Aligned(h, L) /\ h < n /\ n < h + BlockPages[L]
  BY WholeFacts
<1>2. PICK r \in Nat \ {0} : n = h + r
  <2>1. n - h \in Nat \ {0} /\ n = h + (n - h)
    BY <1>1
  <2> QED BY <2>1
<1> DEFINE S == {l \in AllLevels : r < BlockPages[l]}
<1>3. L \in S
  <2>1. BlockPages[L] \in Nat /\ L \in AllLevels
    BY SizesOfLevels
  <2> QED BY <1>1, <1>2, <2>1
<1>4. PICK l \in S : \A m \in S : l <= m
  <2>1. S \in SUBSET Nat
    BY SizesOfLevels
  <2> QED BY <1>3, <2>1, LeastExists
<1>5. l # 0
  BY <1>4, SizesOfLevels
<1>6. l - 1 \in Levels /\ l = (l - 1) + 1 /\ l - 1 \in AllLevels /\ ~(l <= l - 1) /\ l - 1 < L
  <2>1. l <= L /\ l \in Nat /\ L \in Nat
    BY <1>3, <1>4, SizesOfLevels
  <2> QED BY <1>4, <1>5, <2>1, LevelAssumption DEF Levels, AllLevels
<1>7. PICK k \in Levels : k = l - 1 /\ l = k + 1 /\ k < L
  BY <1>6
<1>8. PICK b \in Nat : b = BlockPages[k]
  BY SizesOfLevels
<1>9. ~(r < b)
  BY <1>4, <1>6, <1>7, <1>8
<1>10. Aligned(h, l)
  <2>1. l <= L /\ l \in AllLevels /\ L \in AllLevels
    BY <1>3, <1>4
  <2> QED BY <1>1, <2>1, AlignedBelow
<1>11. PICK c \in Nat : c = BlockPages[l] /\ r < c
  BY <1>4, SizesOfLevels
<1>12. Digit(n, h, k)
  <2>1. h + b <= n /\ n < h + c
    BY <1>2, <1>9, <1>11
  <2> QED BY <1>7, <1>8, <1>10, <1>11, <2>1 DEF Digit
<1> QED BY <1>1, <1>7, <1>12

LEMMA RangesApart ==
  ASSUME NEW mmap \in MemoryMaps, NEW e \in DOMAIN mmap, NEW f \in DOMAIN mmap, NEW a \in Nat,
         mmap[e].Base <= a, a < DataStart(mmap[e]), mmap[f].Base <= a, a < DataStart(mmap[f])
  PROVE  e = f
<1>1. \A g \in DOMAIN mmap :
        /\ mmap[g].Base \in Nat /\ mmap[g].Limit \in Nat /\ DataStart(mmap[g]) \in Nat
        /\ DataStart(mmap[g]) < mmap[g].Base + mmap[g].Limit /\ g \in Nat
  BY EntryShape, EntryPages
<1>2. \A g, i \in DOMAIN mmap : g < i => mmap[g].Base + mmap[g].Limit <= mmap[i].Base
  BY MemoryMapAssumption
<1>3. ~(e < f)
  BY <1>1, <1>2
<1>4. ~(f < e)
  BY <1>1, <1>2
<1> QED BY <1>1, <1>3, <1>4

LEMMA EntryRange ==
  ASSUME NEW mmap \in MemoryMaps, NEW e \in DOMAIN mmap
  PROVE  /\ mmap[e].Base = Node(mmap, e, 0) /\ DataStart(mmap[e]) \in Nat
         /\ \A p \in Nat : p < Pages(mmap, e) =>
              mmap[e].Base <= Node(mmap, e, p) /\ Node(mmap, e, p) < DataStart(mmap[e])
<1>1. /\ mmap[e].Base \in Nat /\ ReservedSpace(mmap[e]) \in Nat
      /\ DataPages(mmap[e]) <= ReservedSpace(mmap[e]) /\ DataPages(mmap[e]) \in Int
      /\ DataStart(mmap[e]) \in Nat
  BY EntryShape
<1> QED BY <1>1 DEF Node, Pages, DataStart

LEMMA FreeInRange ==
  ASSUME TypeOK, HeapInv, NEW e \in DOMAIN KernelMmap, NEW a \in Nat,
         KernelMmap[e].Base <= a, a < DataStart(KernelMmap[e]), IsFree(a)
  PROVE  \E q \in Nat : \E l \in Levels :
           q < Pages(KernelMmap, e) /\ a = Node(KernelMmap, e, q) /\ <<e, q, l>> \in Vacant
<1>1. KernelMmap \in MemoryMaps
  BY DEF TypeOK
<1>2. a \in FreeNodes
  <2>1. a \in Slots(KernelMmap)
    BY <1>1, SlotOfEntry
  <2> QED BY <2>1 DEF FreeNodes, TypeOK
<1>3. PICK f \in DOMAIN KernelMmap : \E q \in Nat :
        /\ q < Pages(KernelMmap, f) /\ a = Node(KernelMmap, f, q)
        /\ <<f, q, mem[a].Level>> \in Vacant /\ mem[a].Level \in Levels
  BY <1>2, VacantNode
<1>4. PICK q \in Nat :
        /\ q < Pages(KernelMmap, f) /\ a = Node(KernelMmap, f, q)
        /\ <<f, q, mem[a].Level>> \in Vacant /\ mem[a].Level \in Levels
  BY <1>3
<1>5. KernelMmap[f].Base <= a /\ a < DataStart(KernelMmap[f])
  BY <1>1, <1>4, EntryRange
<1>6. e = f
  BY <1>1, <1>5, RangesApart
<1> QED BY <1>4, <1>6

LEMMA SizeIsMultiplier ==
  ASSUME NEW l \in AllLevels
  PROVE  BlockPages[l] \in Multipliers
<1>1. l \in DOMAIN BlockPages
  BY LevelAssumption DEF AllLevels
<1> QED BY <1>1 DEF Multipliers

LEMMA PreviousFound ==
  ASSUME TypeOK, HeapInv, NEW L \in Levels, NEW V, Begins(KernelMmap, L, V),
         Vacant = FreeBelow(KernelMmap, L, V), NEW e \in DOMAIN KernelMmap,
         NEW k \in Levels, LowestBit(V[e], k)
  PROVE  PreviousNode(KernelMmap[e].Base, Node(KernelMmap, e, V[e]))
           = Node(KernelMmap, e, V[e] - BlockPages[k])
<1>1. KernelMmap \in MemoryMaps
  BY DEF TypeOK
<1>2. PICK b \in Nat \ {0} : b = BlockPages[k] /\ b \in Multipliers
  BY SizesOfLevels, SizeIsMultiplier
<1>3. PICK n \in Nat : n = Pages(KernelMmap, e)
  BY <1>1, EntryPages
<1>4. PICK w \in Nat : w = V[e] /\ w <= n
  <2>1. PICK h \in Nat : h = Whole(n, L) /\ h <= n
    BY WholeFacts
  <2> QED BY <1>3, <2>1 DEF Begins
<1>5. PICK base \in Nat : base = KernelMmap[e].Base /\ base = Node(KernelMmap, e, 0)
                          /\ \A p \in Nat : Node(KernelMmap, e, p) = base + p
  BY <1>1, EntryPages, EntryRange
<1>6. PICK c \in Nat : c = w - b /\ <<e, c, k>> \in Vacant
        /\ \A p \in Nat, l \in Levels : <<e, p, l>> \in Vacant /\ p < w => p <= c
  BY <1>1, <1>2, <1>4, BlockBefore, SMTT(15)
<1>7. c < n /\ c + b = w
  BY <1>2, <1>4, <1>6
<1>8. PICK hits : hits = {m \in Multipliers : (base + w) - m >= base /\ IsFree((base + w) - m)}
  OBVIOUS
<1>9. hits \in SUBSET Nat
  BY <1>8, MultipliersAreNat
<1>10. b \in hits
  <2>1. (base + w) - b = base + c /\ base + c >= base
    BY <1>7
  <2>2. Node(KernelMmap, e, c) \in FreeNodes
    BY <1>6, VacantIs
  <2>3. IsFree(base + c)
    BY <1>5, <2>2 DEF FreeNodes
  <2> QED BY <1>2, <1>8, <2>1, <2>3
<1>11. ASSUME NEW m \in hits
       PROVE  b <= m
  <2>1. m \in Nat \ {0} /\ (base + w) - m >= base /\ IsFree((base + w) - m)
    BY <1>8, MultipliersAreNat
  <2>2. PICK q \in Nat : q = w - m /\ q < w /\ q < n
    BY <1>4, <2>1
  <2>3. (base + w) - m = base + q /\ base + q \in Nat /\ base + q = Node(KernelMmap, e, q)
    BY <1>5, <2>1, <2>2
  <2>4. base <= base + q /\ base + q < DataStart(KernelMmap[e])
    BY <1>1, <1>3, <1>5, <2>2, <2>3, EntryRange
  <2>5. PICK r \in Nat : \E l \in Levels :
           r < Pages(KernelMmap, e) /\ base + q = Node(KernelMmap, e, r) /\ <<e, r, l>> \in Vacant
    BY <1>5, <2>1, <2>3, <2>4, FreeInRange
  <2>6. r = q
    BY <1>5, <2>5
  <2>7. q <= c
    BY <1>6, <2>2, <2>5, <2>6
  <2> QED BY <1>7, <2>1, <2>2, <2>7
<1>12. Least(hits) = b
  BY <1>9, <1>10, <1>11, LeastIs
<1>13. PreviousNode(base, base + w) = (base + w) - b
  BY <1>8, <1>10, <1>12 DEF PreviousNode
<1>14. (base + w) - b = base + c
  BY <1>7
<1> QED BY <1>2, <1>4, <1>5, <1>6, <1>13, <1>14

LEMMA NextFound ==
  ASSUME TypeOK, HeapInv, NEW L \in Levels, NEW V, Begins(KernelMmap, L, V),
         Vacant = FreeBelow(KernelMmap, L, V), NEW e \in DOMAIN KernelMmap,
         NEW U \in Nat, U = V[e] + BlockPages[L], U <= Whole(Pages(KernelMmap, e), L),
         NEW y, y = NextNode(DataStart(KernelMmap[e]), Node(KernelMmap, e, V[e]))
  PROVE  LET h == Whole(Pages(KernelMmap, e), L) IN
         /\ \/ y = Null
            \/ /\ h < Pages(KernelMmap, e) /\ y = Node(KernelMmap, e, h)
               /\ CarveStart(Pages(KernelMmap, e), h)
         /\ h < Pages(KernelMmap, e) /\ U = h => y = Node(KernelMmap, e, h)
<1>1. KernelMmap \in MemoryMaps
  BY DEF TypeOK
<1>2. PICK b \in Nat \ {0} : b = BlockPages[L] /\ b \in Multipliers
  BY SizesOfLevels, SizeIsMultiplier
<1>3. PICK n \in Nat : n = Pages(KernelMmap, e)
  BY <1>1, EntryPages
<1>4. PICK h \in Nat : h = Whole(n, L) /\ Aligned(h, L) /\ h <= n /\ n < h + b
  BY <1>2, WholeFacts
<1>5. PICK w \in Nat : w = V[e] /\ Aligned(w, L) /\ U = w + b /\ U <= h
  BY <1>2, <1>3, <1>4 DEF Begins
<1>6. PICK base \in Nat : base = KernelMmap[e].Base /\ base = Node(KernelMmap, e, 0)
                          /\ \A p \in Nat : Node(KernelMmap, e, p) = base + p
  BY <1>1, EntryPages, EntryRange
<1>7. PICK limit \in Nat : limit = DataStart(KernelMmap[e])
                           /\ \A p \in Nat : p < n => base + p < limit
  BY <1>1, <1>3, <1>6, EntryRange
<1>8. PICK hits : hits = {m \in Multipliers : (base + w) + m < limit /\ IsFree((base + w) + m)}
  OBVIOUS
<1>9. hits \in SUBSET Nat
  BY <1>8, MultipliersAreNat
<1>10. ASSUME NEW m \in hits
       PROVE  w + m = h /\ h < n /\ CarveStart(n, h)
  <2>1. m \in Nat \ {0} /\ m \in Multipliers /\ (base + w) + m < limit /\ IsFree((base + w) + m)
    BY <1>8, MultipliersAreNat
  <2>2. PICK q \in Nat : q = w + m /\ (base + w) + m = base + q /\ base + q \in Nat /\ w < q
    BY <2>1
  <2>3. base <= base + q /\ base + q < limit /\ IsFree(base + q)
    BY <2>1, <2>2
  <2>4. PICK r \in Nat : \E l \in Levels :
           r < Pages(KernelMmap, e) /\ base + q = Node(KernelMmap, e, r) /\ <<e, r, l>> \in Vacant
    BY <1>6, <1>7, <2>2, <2>3, FreeInRange, ZenonT(20)
  <2>5. PICK l \in Levels :
           r < Pages(KernelMmap, e) /\ base + q = Node(KernelMmap, e, r) /\ <<e, r, l>> \in Vacant
    BY <2>4
  <2>6. r = q
    BY <1>6, <2>5
  <2>7. h <= q /\ CarveStart(n, q) /\ q < n
    <3>1. <<e, q, l>> \in FreeBelow(KernelMmap, L, V) /\ V[e] <= q
      BY <1>5, <2>2, <2>5, <2>6
    <3> QED BY <1>1, <1>3, <1>4, <2>5, <2>6, <3>1, BlocksAround
  <2>8. PICK j \in AllLevels : m = BlockPages[j]
    BY <2>1, LevelAssumption DEF Multipliers, AllLevels
  <2>9. L \in AllLevels /\ L \in Nat /\ j \in Nat
    BY SizesOfLevels
  <2>10. L <= j
    <3>1. ~(m < b)
      BY <1>2, <1>4, <1>5, <2>1, <2>2, <2>7
    <3>2. j < L => 2 * BlockPages[j] <= BlockPages[L]
      BY <2>9, SizesGrow
    <3>3. j < L => m < b
      BY <1>2, <2>1, <2>8, <3>2
    <3> QED BY <2>9, <3>1, <3>3
  <2>11. Aligned(q, L)
    <3>1. Aligned(0, j)
      BY AlignedZero
    <3>2. Aligned(m, j)
      <4>1. 0 + BlockPages[j] = m
        BY <2>1, <2>8
      <4>2. Aligned(0 + BlockPages[j], j)
        BY <3>1, AlignedStep
      <4> QED BY <4>1, <4>2
    <3>3. Aligned(m, L)
      BY <2>1, <2>9, <2>10, <3>2, AlignedBelow
    <3>4. Aligned(w + m, L)
      BY <1>5, <2>1, <2>9, <3>3, AlignedPlus
    <3> QED BY <2>2, <3>4
  <2>12. ~(h < q)
    <3>1. h < q => h + BlockPages[L] <= q
      BY <1>4, <2>9, <2>11, AlignedGap
    <3> QED BY <1>2, <1>4, <2>7, <3>1
  <2>13. q = h
    BY <2>7, <2>12
  <2> QED BY <2>2, <2>7, <2>13
<1>11. y = IF hits = {} THEN Null ELSE (base + w) + Least(hits)
  <2>1. y = NextNode(limit, base + w)
    BY <1>5, <1>6, <1>7
  <2> QED BY <1>8, <2>1 DEF NextNode
<1>12. ASSUME NEW m \in hits
       PROVE  y = Node(KernelMmap, e, h) /\ h < n /\ CarveStart(n, h)
  <2>1. m \in Nat /\ w + m = h /\ h < n /\ CarveStart(n, h)
    BY <1>9, <1>10
  <2>2. \A i \in hits : m <= i
    <3> SUFFICES ASSUME NEW i \in hits
                 PROVE  m <= i
      OBVIOUS
    <3>1. i \in Nat /\ w + i = h
      BY <1>9, <1>10
    <3> QED BY <2>1, <3>1
  <2>3. Least(hits) = m
    BY <1>9, <2>2, LeastIs
  <2>4. (base + w) + m = base + h
    BY <2>1
  <2> QED BY <1>6, <1>11, <2>1, <2>3, <2>4
<1>13. ASSUME h < n, U = h
       PROVE  b \in hits
  <2>1. PICK l \in Levels : l < L /\ Digit(n, h, l)
    BY <1>4, <1>13, FirstTail
  <2>2. ~(L <= l)
    <3>1. L \in Nat /\ l \in Nat
      BY SizesOfLevels
    <3> QED BY <2>1, <3>1
  <2>3. <<e, h, l>> \in Vacant
    BY <1>1, <1>3, <2>1, <2>2, FreeBelowIs
  <2>4. IsFree(base + h)
    BY <1>6, <2>3, VacantIs DEF FreeNodes
  <2>5. (base + w) + b = base + h
    BY <1>5, <1>13
  <2>6. base + h < limit
    BY <1>7, <1>13
  <2> QED BY <1>2, <1>8, <2>4, <2>5, <2>6
<1>14. y = Null \/ (h < n /\ y = Node(KernelMmap, e, h) /\ CarveStart(n, h))
  <2>1. CASE hits = {}
    BY <1>11, <2>1
  <2>2. CASE hits # {}
    BY <1>12, <2>2
  <2> QED BY <2>1, <2>2
<1>15. h < n /\ U = h => y = Node(KernelMmap, e, h)
  BY <1>12, <1>13
<1> QED BY <1>3, <1>4, <1>14, <1>15

(***************************************************************************)
(* The newest block is freed.                                              *)
(***************************************************************************)
LEMMA FreedBlock ==
  ASSUME TypeOK, NEW L \in Levels, NEW H, NEW E, History(KernelMmap, L, H, E, live),
         NEW i \in Nat \ {0}, i = Len(live)
  PROVE  \E e \in DOMAIN KernelMmap : \E w \in Nat :
           /\ Begins(KernelMmap, L, H[i - 1]) /\ Begins(KernelMmap, L, H[i])
           /\ H[i][e] = w /\ H[i - 1][e] = w + BlockPages[L]
           /\ FrontIs(H[i], H[i - 1], e, w)
           /\ live[i].ptr = PagePointer(KernelMmap[e], w) /\ SizeLevel(live[i].size) = L
           /\ NoneSmaller(L, H[i - 1], e)
<1>1. KernelMmap \in MemoryMaps
  BY DEF TypeOK
<1>2. DOMAIN live = 1 .. i
  BY DEF TypeOK
<1>3. i \in DOMAIN live /\ i - 1 \in 0 .. i
  BY <1>2
<1>4. PICK U, V, e : U = H[i - 1] /\ V = H[i] /\ e = E[i]
  OBVIOUS
<1>5. Begins(KernelMmap, L, U)
  BY <1>1, <1>2, <1>3, <1>4, HistoryBegins
<1>6. Allocated(KernelMmap, L, U, e, V, live[i])
  BY <1>3, <1>4 DEF History
<1>7. e \in DOMAIN KernelMmap
  BY <1>6 DEF Allocated
<1>8. Begins(KernelMmap, L, V) /\ V[e] \in Nat /\ U[e] = V[e] + BlockPages[L]
  BY <1>1, <1>5, <1>6, AllocatedBegins
<1>9. PICK w \in Nat : w = V[e]
  BY <1>8
<1>10. U[e] - BlockPages[L] = w
  <2>1. PICK b \in Nat : b = BlockPages[L]
    BY SizesOfLevels
  <2>2. U[e] = w + b
    BY <1>8, <1>9, <2>1
  <2> QED BY <2>1, <2>2
<1>11. FrontIs(V, U, e, w)
  BY <1>6, <1>10 DEF Allocated, FrontIs
<1>12. /\ live[i].ptr = PagePointer(KernelMmap[e], w) /\ SizeLevel(live[i].size) = L
       /\ NoneSmaller(L, U, e)
  BY <1>6, <1>10 DEF Allocated
<1> QED BY <1>4, <1>5, <1>7, <1>8, <1>9, <1>11, <1>12

LEMMA FreedAddress ==
  ASSUME TypeOK, NEW L \in Levels, NEW e \in DOMAIN KernelMmap, NEW w \in Nat,
         w + BlockPages[L] <= Pages(KernelMmap, e),
         NEW pointer, pointer = PagePointer(KernelMmap[e], w)
  PROVE  /\ EntryOf(pointer) = e
         /\ KernelMmap[e].Base + (pointer - DataStart(KernelMmap[e])) \div ScalingFactor
              = Node(KernelMmap, e, w)
         /\ w < Pages(KernelMmap, e)
<1>1. KernelMmap \in MemoryMaps
  BY DEF TypeOK
<1>2. PICK b \in Nat \ {0} : b = BlockPages[L]
  BY SizesOfLevels
<1>3. PICK n \in Nat : n = Pages(KernelMmap, e)
  BY <1>1, EntryPages
<1>4. w \in 0 .. n - b /\ w < n
  BY <1>2, <1>3
<1>5. NodeAt(KernelMmap, Node(KernelMmap, e, w), pointer, L)
  BY <1>2, <1>3, <1>4 DEF NodeAt, Node, Pages
<1>6. PICK f : f = EntryOf(pointer)
  OBVIOUS
<1>7. /\ f \in DOMAIN KernelMmap
      /\ Node(KernelMmap, e, w)
           = KernelMmap[f].Base + (pointer - DataStart(KernelMmap[f])) \div ScalingFactor
      /\ Node(KernelMmap, e, w) \in Nat
      /\ KernelMmap[f].Base <= Node(KernelMmap, e, w)
      /\ Node(KernelMmap, e, w) < DataStart(KernelMmap[f])
  BY <1>5, <1>6, NodeFound
<1>8. KernelMmap[e].Base <= Node(KernelMmap, e, w) /\ Node(KernelMmap, e, w) < DataStart(KernelMmap[e])
  BY <1>1, <1>3, <1>4, EntryRange
<1>9. e = f
  BY <1>1, <1>7, <1>8, RangesApart
<1> QED BY <1>3, <1>4, <1>6, <1>7, <1>9

LEMMA PushedBefore ==
  ASSUME TypeOK, NEW node, NEW pointer, NEW x, NEW y \in Slots(KernelMmap), y # node, NEW k,
         PushBlock(node, pointer, x, y, k)
  PROVE  mem'[y].PosPrevious = node
<1>1. y \in DOMAIN mem /\ mem[y] \in NodeRecords
  BY DEF TypeOK
<1>2. mem'[y] = [mem[y] EXCEPT !.PosNext     = IF y = x THEN node ELSE @,
                               !.PosPrevious = IF y = y THEN node ELSE @,
                               !.SizeNext    = IF y = Nodes[k] THEN node ELSE @]
  BY <1>1 DEF PushBlock, Pushed
<1> QED BY <1>1, <1>2 DEF NodeRecords

LEMMA PushedNext ==
  ASSUME NEW node, node \in DOMAIN mem, NEW pointer, NEW x, NEW y, NEW k,
         PushBlock(node, pointer, x, y, k)
  PROVE  mem'[node].PosNext = y
BY DEF PushBlock, Pushed

LEMMA NewestDropped ==
  ASSUME TypeOK, NEW i \in DOMAIN live, i = Len(live), live' = Dropped(i),
         NEW L, NEW H, NEW E, History(KernelMmap, L, H, E, live)
  PROVE  Len(live') = i - 1 /\ History(KernelMmap, L, H, E, live')
<1>1. i \in Nat \ {0} /\ DOMAIN live = 1 .. i
  BY DEF TypeOK
<1>2. /\ Len(live') = i - 1 /\ DOMAIN live' = 1 .. Len(live')
      /\ \A j \in 1 .. i - 1 : live'[j] = live[IF j < i THEN j ELSE j + 1]
  <2>1. PICK S : live \in Seq(S)
    BY DEF TypeOK
  <2>2. PICK s, t : s = live /\ t = live'
    OBVIOUS
  <2>3. s \in Seq(S) /\ i \in 1 .. Len(s) /\ Len(s) = i
    BY <1>1, <2>1, <2>2
  <2>4. t = SubSeq(s, 1, i - 1) \o SubSeq(s, i + 1, Len(s))
    BY <2>2 DEF Dropped
  <2>5. /\ t \in Seq(S) /\ Len(t) = Len(s) - 1
        /\ \A j \in 1 .. Len(s) - 1 : t[j] = s[IF j < i THEN j ELSE j + 1]
    BY <2>3, <2>4, WithoutElement
  <2> QED BY <2>2, <2>3, <2>5, LenProperties
<1>3. DOMAIN live' = 1 .. i - 1
  BY <1>2
<1>4. DOMAIN live' \subseteq DOMAIN live /\ \A j \in DOMAIN live' : live'[j] = live[j]
  <2> SUFFICES ASSUME NEW j \in DOMAIN live'
               PROVE  j \in DOMAIN live /\ live'[j] = live[j]
    OBVIOUS
  <2>1. j \in 1 .. i - 1 /\ j \in 1 .. i /\ j < i
    BY <1>3
  <2> QED BY <1>1, <1>2, <2>1
<1> QED BY <1>2, <1>4, HistoryShortened

LEMMA FreeBlockUniform ==
  ASSUME TypeOK, HeapInv, UniformInv, live # <<>>, FreeBlock(Len(live))
  PROVE  UniformInv'
<1>1. KernelMmap \in MemoryMaps /\ call = Idle /\ call.op = "idle" /\ KernelMmap' = KernelMmap
  BY DEF TypeOK, FreeBlock, Idle
<1>2a. PICK L \in Levels : \E H, E :
        /\ History(KernelMmap, L, H, E, live) /\ PositionsRight
        /\ Vacant = FreeBelow(KernelMmap, L, H[Len(live)])
  BY <1>1, UniformIdle
<1>2. PICK H, E :
        /\ History(KernelMmap, L, H, E, live) /\ PositionsRight
        /\ Vacant = FreeBelow(KernelMmap, L, H[Len(live)])
  BY <1>2a
<1>3. PICK i \in Nat \ {0} : i = Len(live)
  BY DEF TypeOK
<1>4. PICK e \in DOMAIN KernelMmap : \E w \in Nat :
           /\ Begins(KernelMmap, L, H[i - 1]) /\ Begins(KernelMmap, L, H[i])
           /\ H[i][e] = w /\ H[i - 1][e] = w + BlockPages[L]
           /\ FrontIs(H[i], H[i - 1], e, w)
           /\ live[i].ptr = PagePointer(KernelMmap[e], w) /\ SizeLevel(live[i].size) = L
           /\ NoneSmaller(L, H[i - 1], e)
  BY <1>2, <1>3, FreedBlock
<1>5. PICK w \in Nat :
           /\ Begins(KernelMmap, L, H[i - 1]) /\ Begins(KernelMmap, L, H[i])
           /\ H[i][e] = w /\ H[i - 1][e] = w + BlockPages[L]
           /\ FrontIs(H[i], H[i - 1], e, w)
           /\ live[i].ptr = PagePointer(KernelMmap[e], w) /\ SizeLevel(live[i].size) = L
           /\ NoneSmaller(L, H[i - 1], e)
  BY <1>4
<1>6. PICK U, V : U = H[i - 1] /\ V = H[i]
  OBVIOUS
<1>7. PICK b \in Nat \ {0} : b = BlockPages[L]
  BY SizesOfLevels
<1>8. PICK n \in Nat : n = Pages(KernelMmap, e) /\ n < BlockPages[MaxLevel + 1]
  BY <1>1, EntryPages
<1>9. PICK h \in Nat : h = Whole(n, L) /\ Aligned(h, L) /\ h <= n /\ n < h + b
  BY <1>7, WholeFacts
<1>10. /\ Begins(KernelMmap, L, U) /\ Begins(KernelMmap, L, V)
       /\ V[e] = w /\ U[e] = w + b /\ w + b <= h /\ w < h /\ w < n
  <2>1. Begins(KernelMmap, L, U) /\ Begins(KernelMmap, L, V) /\ V[e] = w /\ U[e] = w + b
    BY <1>5, <1>6, <1>7
  <2>2. w + b <= h
    BY <1>8, <1>9, <2>1 DEF Begins
  <2> QED BY <1>7, <1>8, <1>9, <2>1, <2>2
<1>11. PICK pointer : pointer = live[i].ptr
  OBVIOUS
<1>12. pointer = PagePointer(KernelMmap[e], w) /\ w + BlockPages[L] <= Pages(KernelMmap, e)
  BY <1>5, <1>7, <1>8, <1>9, <1>10, <1>11
<1>13. PICK node, base, limit :
         node = Node(KernelMmap, e, w) /\ base = KernelMmap[e].Base /\ limit = DataStart(KernelMmap[e])
  OBVIOUS
<1>14. EntryOf(pointer) = e /\ base + (pointer - limit) \div ScalingFactor = node
  BY <1>12, <1>13, FreedAddress
<1>15. /\ pointer > limit /\ live' = Dropped(i)
       /\ \/ /\ node \in DOMAIN mem
             /\ PushBlock(node, pointer, PreviousNode(base, node), NextNode(limit, node), L)
             /\ call' = [op |-> "merge", node |-> node, level |-> L]
          \/ call' = Wild
  BY <1>3, <1>5, <1>11, <1>13, <1>14 DEF FreeBlock
<1>16. CASE call' = Wild
  BY <1>16 DEF UniformInv, Wild
<1>17. CASE /\ node \in DOMAIN mem
            /\ PushBlock(node, pointer, PreviousNode(base, node), NextNode(limit, node), L)
            /\ call' = [op |-> "merge", node |-> node, level |-> L]
  <2>1. PICK x, y : x = PreviousNode(base, node) /\ y = NextNode(limit, node)
    OBVIOUS
  <2>2. w # 0
    <3>1. limit \in Nat /\ ScalingFactor \in Nat
      BY <1>1, <1>13, EntryShape, ScalingFactorAssumption
    <3>2. pointer = limit + w * ScalingFactor
      BY <1>12, <1>13 DEF PagePointer
    <3> QED BY <1>15, <3>1, <3>2
  <2>3. PICK k0 \in Levels : LowestBit(w, k0)
    <3>1. w < BlockPages[MaxLevel + 1]
      <4>1. MaxLevel + 1 \in AllLevels
        BY SizesOfLevels
      <4>2. BlockPages[MaxLevel + 1] \in Nat
        BY <4>1, SizesOfLevels
      <4> QED BY <1>8, <1>10, <4>2
    <3> QED BY <2>2, <3>1, LowestBitExists
  <2>4. PICK c \in Nat : c = w - BlockPages[k0] /\ c < n
    <3>1. BlockPages[k0] \in Nat /\ w - BlockPages[k0] \in Nat
      BY <2>3, WithoutLowestBit, SizesOfLevels
    <3> QED BY <1>10, <3>1
  <2>5. PICK S0 : S0 = FreeBelow(KernelMmap, L, V) /\ Vacant = S0
    BY <1>2, <1>3, <1>6
  <2>6. x = Node(KernelMmap, e, c)
    <3>1. Begins(KernelMmap, L, V) /\ Vacant = FreeBelow(KernelMmap, L, V) /\ LowestBit(V[e], k0)
      BY <1>10, <2>3, <2>5
    <3>2. PreviousNode(KernelMmap[e].Base, Node(KernelMmap, e, V[e]))
            = Node(KernelMmap, e, V[e] - BlockPages[k0])
      BY ONLY TypeOK, HeapInv, L \in Levels, e \in DOMAIN KernelMmap, k0 \in Levels,
              <3>1, PreviousFound
    <3> QED BY <1>10, <1>13, <2>1, <2>4, <3>2
  <2>7. /\ \/ y = Null
           \/ h < n /\ y = Node(KernelMmap, e, h) /\ CarveStart(n, h)
        /\ h < n /\ w + b = h => y = Node(KernelMmap, e, h)
    <3>1. PICK u \in Nat : u = w + b
      BY <1>7
    <3>2. Begins(KernelMmap, L, V) /\ Vacant = FreeBelow(KernelMmap, L, V)
          /\ u = V[e] + BlockPages[L] /\ u <= Whole(Pages(KernelMmap, e), L)
          /\ y = NextNode(DataStart(KernelMmap[e]), Node(KernelMmap, e, V[e]))
      BY <1>7, <1>8, <1>9, <1>10, <1>13, <2>1, <2>5, <3>1
    <3>3. /\ \/ y = Null
             \/ /\ Whole(Pages(KernelMmap, e), L) < Pages(KernelMmap, e)
                /\ y = Node(KernelMmap, e, Whole(Pages(KernelMmap, e), L))
                /\ CarveStart(Pages(KernelMmap, e), Whole(Pages(KernelMmap, e), L))
          /\ Whole(Pages(KernelMmap, e), L) < Pages(KernelMmap, e)
             /\ u = Whole(Pages(KernelMmap, e), L)
               => y = Node(KernelMmap, e, Whole(Pages(KernelMmap, e), L))
      BY ONLY TypeOK, HeapInv, L \in Levels, e \in DOMAIN KernelMmap, u \in Nat,
              <3>2, NextFound
    <3> QED BY <1>8, <1>9, <3>1, <3>3
  <2>8. x \in Slot /\ y \in Slot
    <3>1. x \in Slots(KernelMmap)
      BY <1>1, <1>8, <2>4, <2>6, NodeIsSlot
    <3>2. y = Null \/ y \in Slots(KernelMmap)
      BY <1>1, <1>8, <2>7, NodeIsSlot
    <3> QED BY <3>1, <3>2 DEF Slot
  <2>9. PrecededBy(KernelMmap, S0, e, w, x)
    BY <2>2, <2>3, <2>4, <2>6 DEF PrecededBy
  <2>10. Bounded(KernelMmap, S0, Following(mem), e, w, x)
    <3>1. PICK P : P = Previous(mem)
      OBVIOUS
    <3>2. Begins(KernelMmap, L, V) /\ LowestBit(V[e], k0) /\ S0 = FreeBelow(KernelMmap, L, V)
          /\ Placed(KernelMmap, S0, P, Following(mem))
      BY <1>2, <1>10, <2>3, <2>5, <3>1 DEF PositionsRight
    <3>3. Bounded(KernelMmap, S0, Following(mem), e, V[e], Node(KernelMmap, e, V[e] - BlockPages[k0]))
      BY ONLY <1>1, L \in Levels, e \in DOMAIN KernelMmap, k0 \in Levels, <3>2, BoundedBefore
    <3> QED BY <1>10, <2>4, <2>6, <3>3
  <2>11. FollowedBy(KernelMmap, S0, e, w, U[e], y)
    <3>1. CASE y = Null
      BY <3>1 DEF FollowedBy
    <3>2. CASE h < n /\ y = Node(KernelMmap, e, h) /\ CarveStart(n, h)
      <4>1. ASSUME NEW q \in Nat, NEW m \in Levels, w < q, <<e, q, m>> \in S0
            PROVE  h <= q
        <5>1. V[e] <= q /\ <<e, q, m>> \in FreeBelow(KernelMmap, L, V)
          BY <1>10, <2>5, <4>1
        <5> QED BY <1>1, <1>8, <1>9, <1>10, <5>1, BlocksAround
      <4>2. PICK end \in Nat : end = U[e]
        BY <1>7, <1>10
      <4>3. end <= h /\ h < Pages(KernelMmap, e) /\ CarveStart(Pages(KernelMmap, e), h)
        BY <1>8, <1>10, <3>2, <4>2
      <4>4. \A q \in Nat, m \in Levels : w < q /\ <<e, q, m>> \in S0 => h <= q
        BY <4>1
      <4>5. FollowedBy(KernelMmap, S0, e, w, end, Node(KernelMmap, e, h))
        BY ONLY <1>1, e \in DOMAIN KernelMmap, w \in Nat, end \in Nat, h \in Nat, <4>3, <4>4, FollowedIf
      <4> QED BY <3>2, <4>2, <4>5
    <3> QED BY <2>7, <3>1, <3>2
  <2>12. Aligned(w, L) /\ L \in Nat
    BY <1>10, SizesOfLevels DEF Begins
  <2>13. Vacant' = S0 \cup {<<e, w, L>>} /\ PositionsRight'
    <3>1. PICK k \in Levels : k = L /\ L <= k
      BY <2>12
    <3>2. /\ L <= k /\ Aligned(w, k) /\ FrontIs(V, U, e, w)
          /\ S0 = FreeBelow(KernelMmap, L, V) /\ Vacant = S0
          /\ PrecededBy(KernelMmap, S0, e, w, x)
          /\ Bounded(KernelMmap, S0, Following(mem), e, w, x)
          /\ FollowedBy(KernelMmap, S0, e, w, U[e], y)
          /\ pointer = PagePointer(KernelMmap[e], w) /\ x \in Slot /\ y \in Slot
      BY <1>5, <1>6, <1>12, <2>8, <2>5, <2>9, <2>10, <2>11, <2>12, <3>1
    <3>3. w + BlockPages[k] <= U[e]
      BY <1>7, <1>10, <3>1
    <3>4. PositionsRight /\ Begins(KernelMmap, L, U)
      BY <1>2, <1>10
    <3>5. NextAt(L, e, w + BlockPages[k], k, y)
      BY <1>7, <1>8, <1>9, <2>7, <3>1 DEF NextAt
    <3>6. PushBlock(Node(KernelMmap, e, w), pointer, x, y, k)
      BY <1>13, <1>17, <2>1, <3>1
    <3>8. UNCHANGED KernelMmap
      BY <1>1
    <3>7. /\ Begins(KernelMmap, L, V) /\ V[e] = w
          /\ Vacant' = S0 \cup {<<e, w, k>>} /\ PositionsRight'
          /\ Placed(KernelMmap, S0 \cup {<<e, w, k>>}, Previous(mem'), Following(mem'))
          /\ Following(mem')[Node(KernelMmap, e, w)] = y
      <4>1. MayPush(L, U, e, w, k, x, y, V, S0, pointer)
        BY ONLY <3>2, <3>3, <3>5, <3>6 DEF MayPush
      <4>2. HasPushed(L, e, w, k, y, V, S0)
        BY ONLY TypeOK, HeapInv, <3>2, <3>4, <3>8, <4>1, L \in Levels, k \in Levels,
                e \in DOMAIN KernelMmap, w \in Nat, x \in Slot, y \in Slot, PushAtFront
      <4> QED BY ONLY <4>2 DEF HasPushed
    <3> QED BY <3>1, <3>7
  <2>14. call'.op = "merge" /\ call'.node = Node(KernelMmap, e, w) /\ call'.level = L
    BY <1>13, <1>17
  <2>15. ExtraRight(L, U, e, w, call.node, call.level)'
    <3>1. V = [U EXCEPT ![e] = w] /\ NoneSmaller(L, U, e)
      BY <1>5, <1>6 DEF FrontIs
    <3>2. U[e] = w + BlockPages[L] /\ L <= L
      BY <1>7, <1>10, <2>12
    <3> QED BY <1>1, <2>5, <2>12, <2>13, <2>14, <3>1, <3>2 DEF ExtraRight
  <2>16. NextRight(L, U, e)'
    <3>1. mem'[call'.node].PosNext = y
      <4>1. mem'[node].PosNext = y
        BY <1>17, <2>1, PushedNext
      <4> QED BY <1>13, <2>14, <4>1
    <3>2. ASSUME h < n, U[e] = h
          PROVE  y = Node(KernelMmap, e, h) /\ mem'[Node(KernelMmap, e, h)].PosPrevious = call'.node
      <4>1. y = Node(KernelMmap, e, h)
        BY <1>10, <2>7, <3>2
      <4>2. y \in Slots(KernelMmap) /\ y # node
        <5>1. y \in Slots(KernelMmap)
          BY <1>1, <1>8, <3>2, <4>1, NodeIsSlot
        <5>2. Node(KernelMmap, e, h) # Node(KernelMmap, e, w)
          BY <1>1, <1>8, <1>10, <3>2, NodesApart
        <5> QED BY <1>13, <4>1, <5>1, <5>2
      <4>3. mem'[y].PosPrevious = node
        BY <1>17, <2>1, <4>2, PushedBefore
      <4> QED BY <1>13, <2>14, <4>1, <4>3
    <3> QED BY <1>1, <1>8, <1>9, <2>7, <3>1, <3>2 DEF NextRight
  <2>17. CallRight(L, U)'
    <3>1. w \in 0 .. U[e]
      BY <1>7, <1>10
    <3> QED BY <1>1, <2>14, <2>15, <2>16, <3>1 DEF CallRight
  <2>18. Len(live') = i - 1 /\ History(KernelMmap, L, H, E, live')
    <3>1. i \in DOMAIN live
      BY <1>3 DEF TypeOK
    <3> QED BY <1>2, <1>3, <1>15, <3>1, NewestDropped
  <2> QED BY <1>1, <1>6, <2>13, <2>17, <2>18 DEF UniformInv, UniformWith
<1> QED BY <1>15, <1>16, <1>17

LEMMA FreeRefusedUniform ==
  ASSUME NEW i, FreeRefused(i)
  PROVE  UniformInv'
BY DEF FreeRefused, UniformInv

(***************************************************************************)
(* What the distance to the previous node tells.                           *)
(***************************************************************************)
LEMMA SameSizeSameLevel ==
  ASSUME NEW k \in AllLevels, NEW l \in AllLevels, BlockPages[k] = BlockPages[l]
  PROVE  k = l
<1>1. PICK a \in Nat \ {0} : a = BlockPages[k] /\ a = BlockPages[l]
  BY SizesOfLevels
<1>2. ~(k < l)
  <2>1. k < l => k <= l
    BY SizesOfLevels
  <2>2. k < l => 2 * BlockPages[k] <= BlockPages[l]
    BY <2>1, SizesGrow
  <2> QED BY <1>1, <2>2
<1>3. ~(l < k)
  <2>1. l < k => l <= k
    BY SizesOfLevels
  <2>2. l < k => 2 * BlockPages[l] <= BlockPages[k]
    BY <2>1, SizesGrow
  <2> QED BY <1>1, <2>2
<1> QED BY <1>2, <1>3, SizesOfLevels

LEMMA CarvedAbove ==
  ASSUME NEW n \in Nat, NEW p \in Nat, CarveStart(n, p), NEW k \in Levels,
         p + BlockPages[k] <= n
  PROVE  \E l \in AllLevels : Aligned(p, l) /\ k < l
<1>1. PICK l \in Levels : Digit(n, p, l)
  BY DEF CarveStart
<1>2. PICK j \in AllLevels : j = l + 1
  BY SizesOfLevels
<1>3. PICK a \in Nat, b \in Nat : a = BlockPages[j] /\ b = BlockPages[k]
  BY SizesOfLevels
<1>4. Aligned(p, j) /\ n < p + a
  BY <1>1, <1>2, <1>3 DEF Digit
<1>5. b < a
  BY <1>3, <1>4
<1>6. k \in AllLevels /\ k \in Nat /\ j \in Nat
  BY SizesOfLevels
<1>7. ~(j <= k)
  <2>1. j <= k => BlockPages[j] <= BlockPages[k]
    BY <1>6, SizesGrow
  <2> QED BY <1>3, <1>5, <2>1
<1> QED BY <1>4, <1>6, <1>7

LEMMA MatchedIs ==
  ASSUME NEW mmap \in MemoryMaps, ~Bridged(mmap),
         NEW L \in Levels, NEW F, Begins(mmap, L, F), NEW e \in DOMAIN mmap,
         NEW S, FreeBelow(mmap, L, F) \subseteq S, NEW k \in Levels,
         NEW w \in Nat, w = F[e], w + BlockPages[k] <= Pages(mmap, e),
         NEW x, PrecededBy(mmap, S, e, w, x), x # Null, Node(mmap, e, w) - x = BlockPages[k]
  PROVE  LowestBit(w, k) /\ x = Node(mmap, e, w - BlockPages[k])
<1>1. PICK n \in Nat : n = Pages(mmap, e)
  BY EntryPages
<1>2. PICK b \in Nat \ {0} : b = BlockPages[k]
  BY SizesOfLevels
<1>3. PICK base \in Nat : base = Node(mmap, e, 0) /\ \A p \in Nat : Node(mmap, e, p) = base + p
  BY EntryPages
<1>4. w + b <= n /\ w < n /\ (base + w) - x = b
  <2>1. w + b <= n
    BY <1>1, <1>2
  <2>2. Node(mmap, e, w) = base + w
    BY <1>3
  <2> QED BY <1>2, <2>1, <2>2
<1>5. \/ IsEarlier(mmap, e, x) /\ CarveStart(Pages(mmap, e), w)
      \/ \E m \in Levels : LowestBit(w, m) /\ x = Node(mmap, e, w - BlockPages[m])
  <2>1. F[e] < Pages(mmap, e) /\ PrecededBy(mmap, S, e, F[e], x)
    BY <1>1, <1>4
  <2>2. \/ IsEarlier(mmap, e, x) /\ CarveStart(Pages(mmap, e), F[e])
        \/ \E m \in Levels : LowestBit(F[e], m) /\ x = Node(mmap, e, F[e] - BlockPages[m])
    BY ONLY <2>1, mmap \in MemoryMaps, L \in Levels, Begins(mmap, L, F), e \in DOMAIN mmap,
            FreeBelow(mmap, L, F) \subseteq S, PrecededHow
  <2> QED BY <2>2
<1>6. ~(IsEarlier(mmap, e, x) /\ CarveStart(Pages(mmap, e), w))
  <2> SUFFICES ASSUME IsEarlier(mmap, e, x), CarveStart(Pages(mmap, e), w)
               PROVE  FALSE
    OBVIOUS
  <2>1. PICK f \in 1 .. e - 1 : \E c \in 0 .. Pages(mmap, f) - 1 : x = Node(mmap, f, c)
    BY DEF IsEarlier
  <2>2. f \in DOMAIN mmap /\ f < e
    BY <2>1, MapIsSequence
  <2>3. PICK d \in Nat : d = Pages(mmap, f)
    BY <2>2, EntryPages
  <2>4. PICK c \in Nat : c < d /\ x = Node(mmap, f, c) /\ c \in 0 .. Pages(mmap, f) - 1
    BY <2>1, <2>3
  <2>5. PICK start \in Nat : start = Node(mmap, f, 0) /\ \A p \in Nat : Node(mmap, f, p) = start + p
    BY <2>2, EntryPages
  <2>6. start + 2 * d <= base
    BY <1>3, <2>2, <2>3, <2>5, EntryGap
  <2>7. x = start + c
    BY <2>4, <2>5
  <2>8. CASE w = 0
    <3>1. Node(mmap, e, 0) - Node(mmap, f, c) = BlockPages[k]
      BY <1>2, <1>3, <1>4, <2>4, <2>7, <2>8
    <3>2. BlockPages[k] <= Pages(mmap, e)
      BY <1>1, <1>2, <1>4
    <3> QED BY <2>1, <2>4, <3>1, <3>2 DEF Bridged
  <2>9. CASE w # 0
    <3>1. PICK l \in AllLevels : Aligned(w, l) /\ k < l
      <4>1. CarveStart(n, w) /\ w + BlockPages[k] <= n
        BY <1>1
      <4> QED BY ONLY <4>1, n \in Nat, w \in Nat, k \in Levels, CarvedAbove
    <3>2. l - 1 \in Levels /\ k <= l - 1 /\ l = (l - 1) + 1 /\ l - 1 \in Nat
      BY <3>1, LevelAssumption DEF Levels, AllLevels
    <3>3. Aligned(w, k)
      <4>1. k \in AllLevels /\ k <= l
        BY <3>1, SizesOfLevels
      <4> QED BY <3>1, <4>1, AlignedBelow
    <3>4. b <= w
      BY <1>2, <2>9, <3>3, LowestBitBelow
    <3> QED BY <1>4, <2>3, <2>4, <2>6, <2>7, <3>4
  <2> QED BY <2>8, <2>9
<1>7. PICK m \in Levels : LowestBit(w, m) /\ x = Node(mmap, e, w - BlockPages[m])
  BY <1>5, <1>6
<1>8. PICK a \in Nat : a = BlockPages[m] /\ w - a \in Nat
  BY <1>7, SizesOfLevels, WithoutLowestBit
<1>9. x = base + (w - a)
  BY <1>3, <1>7, <1>8
<1>10. a = b
  BY <1>4, <1>8, <1>9
<1>11. m = k
  BY <1>2, <1>8, <1>10, SameSizeSameLevel, SizesOfLevels
<1> QED BY <1>7, <1>11

LEMMA NotMatchedIs ==
  ASSUME NEW mmap \in MemoryMaps,
         NEW L \in Levels, NEW F, Begins(mmap, L, F), NEW e \in DOMAIN mmap,
         NEW S, FreeBelow(mmap, L, F) \subseteq S, NEW k \in Levels,
         NEW w \in Nat, w = F[e], w + BlockPages[k] <= Pages(mmap, e), Aligned(w, k),
         NEW x, PrecededBy(mmap, S, e, w, x),
         ~(x # Null /\ Node(mmap, e, w) - x = BlockPages[k])
  PROVE  Aligned(w, k + 1)
<1> SUFFICES ASSUME LowestBit(w, k)
             PROVE  FALSE
  BY DEF LowestBit
<1>1. PICK n \in Nat : n = Pages(mmap, e)
  BY EntryPages
<1>2. PICK b \in Nat \ {0} : b = BlockPages[k] /\ w - b \in Nat
  BY SizesOfLevels, WithoutLowestBit
<1>3. PICK base \in Nat : base = Node(mmap, e, 0) /\ \A p \in Nat : Node(mmap, e, p) = base + p
  BY EntryPages
<1>4. w < n
  BY <1>1, <1>2
<1>5. \/ IsEarlier(mmap, e, x) /\ CarveStart(Pages(mmap, e), w)
      \/ \E m \in Levels : LowestBit(w, m) /\ x = Node(mmap, e, w - BlockPages[m])
  <2>1. F[e] < Pages(mmap, e) /\ PrecededBy(mmap, S, e, F[e], x)
    BY <1>1, <1>4
  <2>2. \/ IsEarlier(mmap, e, x) /\ CarveStart(Pages(mmap, e), F[e])
        \/ \E m \in Levels : LowestBit(F[e], m) /\ x = Node(mmap, e, F[e] - BlockPages[m])
    BY <2>1, PrecededHow
  <2> QED BY <2>2
<1>6. ~CarveStart(Pages(mmap, e), w)
  <2> SUFFICES ASSUME CarveStart(n, w)
               PROVE  FALSE
    BY <1>1
  <2>1. PICK l \in AllLevels : Aligned(w, l) /\ k < l
    BY <1>1, CarvedAbove
  <2>2. k + 1 \in AllLevels /\ k + 1 <= l
    BY <2>1, SizesOfLevels
  <2>3. Aligned(w, k + 1)
    BY <2>1, <2>2, AlignedBelow
  <2> QED BY <2>3 DEF LowestBit
<1>7. PICK m \in Levels : LowestBit(w, m) /\ x = Node(mmap, e, w - BlockPages[m])
  BY <1>5, <1>6
<1>8. m = k
  BY <1>7, LowestBitUnique
<1>9. x = Node(mmap, e, w - b) /\ w - b < n
  BY <1>2, <1>4, <1>7, <1>8
<1>10. x # Null
  BY <1>1, <1>2, <1>9, NodeIsSlot
<1>11. Node(mmap, e, w) - x = b
  BY <1>2, <1>3, <1>9
<1> QED BY <1>2, <1>10, <1>11

(***************************************************************************)
(* MergeBlock().  The block that is yet to be merged, and its neighbours.  *)
(***************************************************************************)
LEMMA PlacedOne ==
  ASSUME TypeOK, NEW e \in DOMAIN KernelMmap, NEW p \in Nat, NEW l \in Levels,
         <<e, p, l>> \in Vacant, PositionsRight
  PROVE  /\ PrecededBy(KernelMmap, Vacant, e, p, mem[Node(KernelMmap, e, p)].PosPrevious)
         /\ FollowedBy(KernelMmap, Vacant, e, p, p + BlockPages[l], mem[Node(KernelMmap, e, p)].PosNext)
<1>1. KernelMmap \in MemoryMaps
  BY DEF TypeOK
<1>2. Node(KernelMmap, e, p) \in DOMAIN mem
  BY VacantIs DEF FreeNodes
<1>3. Previous(mem)[Node(KernelMmap, e, p)] = mem[Node(KernelMmap, e, p)].PosPrevious
      /\ Following(mem)[Node(KernelMmap, e, p)] = mem[Node(KernelMmap, e, p)].PosNext
  BY <1>2 DEF Previous, Following
<1>4. Vacant \subseteq Blocks(KernelMmap)
  BY DEF Vacant, FreeBlocks
<1>5. Placed(KernelMmap, Vacant, Previous(mem), Following(mem))
  BY DEF PositionsRight
<1>6. \A f \in DOMAIN KernelMmap : \A q \in Nat, m \in Levels :
        <<f, q, m>> \in Vacant =>
          /\ PrecededBy(KernelMmap, Vacant, f, q, Previous(mem)[Node(KernelMmap, f, q)])
          /\ FollowedBy(KernelMmap, Vacant, f, q, q + BlockPages[m], Following(mem)[Node(KernelMmap, f, q)])
  BY <1>4, <1>5, PlacedAt
<1> QED BY <1>3, <1>6

\* The block at page w of entry e, of level k, with what is said of it.
Extra(L, V, F, e, w, k) ==
  /\ k \in Levels /\ L <= k /\ Aligned(w, k) /\ V[e] = w + BlockPages[k]
  /\ Begins(KernelMmap, L, V) /\ FrontIs(F, V, e, w)
  /\ Begins(KernelMmap, L, F) /\ F[e] = w
  /\ V[e] <= Whole(Pages(KernelMmap, e), L) /\ w + BlockPages[k] <= Pages(KernelMmap, e)
  /\ Vacant = FreeBelow(KernelMmap, L, F) \cup {<<e, w, k>>}
  /\ <<e, w, k>> \in Vacant
  /\ NoneSmaller(L, V, e)

LEMMA MergeCall ==
  ASSUME TypeOK, UniformInv, call.op = "merge"
  PROVE  \E L \in Levels : \E H, E : \E e \in DOMAIN KernelMmap : \E w \in Nat : \E F :
           /\ History(KernelMmap, L, H, E, live) /\ PositionsRight
           /\ call.node = Node(KernelMmap, e, w)
           /\ Extra(L, H[Len(live)], F, e, w, call.level)
           /\ NextRight(L, H[Len(live)], e)
<1>1. KernelMmap \in MemoryMaps
  BY DEF TypeOK
<1>2a. PICK L \in Levels : \E H, E : UniformWith(L, H, E)
  BY DEF UniformInv
<1>2. PICK H, E : UniformWith(L, H, E)
  BY <1>2a
<1>3. History(KernelMmap, L, H, E, live) /\ PositionsRight
  BY <1>2 DEF UniformWith
<1>4. PICK V : V = H[Len(live)] /\ Begins(KernelMmap, L, V)
  BY <1>3, NowBegins
<1>5. PICK e \in DOMAIN KernelMmap : \E p \in 0 .. V[e] :
        ExtraRight(L, V, e, p, call.node, call.level) /\ NextRight(L, V, e)
  BY <1>2, <1>4 DEF UniformWith, CallRight
<1>6. V[e] \in Nat
  BY <1>4 DEF Begins
<1>7. PICK w \in Nat : ExtraRight(L, V, e, w, call.node, call.level) /\ NextRight(L, V, e)
  BY <1>5, <1>6
<1>8. PICK k \in Levels : k = call.level
  BY CallTypes DEF TypeOK
<1>9. PICK F : F = [V EXCEPT ![e] = w]
  OBVIOUS
<1>10. /\ call.node = Node(KernelMmap, e, w)
       /\ L <= k /\ Aligned(w, k) /\ V[e] = w + BlockPages[k]
       /\ Vacant = FreeBelow(KernelMmap, L, F) \cup {<<e, w, k>>}
       /\ NoneSmaller(L, V, e) /\ FrontIs(F, V, e, w)
  BY <1>7, <1>8, <1>9 DEF ExtraRight, FrontIs
<1>11. PICK b \in Nat \ {0} : b = BlockPages[k]
  BY SizesOfLevels
<1>12. PICK n \in Nat : n = Pages(KernelMmap, e)
  BY <1>1, EntryPages
<1>13. PICK h \in Nat : h = Whole(n, L) /\ h <= n
  BY WholeFacts
<1>14. V[e] <= h /\ w + b = V[e]
  BY <1>4, <1>10, <1>11, <1>12, <1>13 DEF Begins
<1>15. Begins(KernelMmap, L, F) /\ F[e] = w
  <2>1. Aligned(w, L)
    BY <1>10, SizesOfLevels, AlignedBelow
  <2>2. w <= Whole(Pages(KernelMmap, e), L)
    BY <1>11, <1>12, <1>13, <1>14
  <2> QED BY <1>1, <1>4, <1>10, <2>1, <2>2, FrontAt
<1>16. V[e] <= Whole(Pages(KernelMmap, e), L) /\ w + BlockPages[k] <= Pages(KernelMmap, e)
  BY <1>6, <1>11, <1>12, <1>13, <1>14
<1>17. Extra(L, V, F, e, w, call.level)
  BY <1>4, <1>8, <1>10, <1>15, <1>16 DEF Extra
<1> QED BY <1>3, <1>4, <1>7, <1>10, <1>17

\* The next node is never one to merge with.
LEMMA NextNeverMatches ==
  ASSUME TypeOK, UniformInv, call.op = "merge"
  PROVE  ~MatchesNext
<1> SUFFICES ASSUME MatchesNext
             PROVE  FALSE
  OBVIOUS
<1>1. KernelMmap \in MemoryMaps
  BY DEF TypeOK
<1>2a. PICK L \in Levels : \E H, E : \E e \in DOMAIN KernelMmap : \E w \in Nat : \E F :
           /\ History(KernelMmap, L, H, E, live) /\ PositionsRight
           /\ call.node = Node(KernelMmap, e, w)
           /\ Extra(L, H[Len(live)], F, e, w, call.level)
           /\ NextRight(L, H[Len(live)], e)
  BY MergeCall
<1>2. PICK H, E : \E e \in DOMAIN KernelMmap : \E w \in Nat : \E F :
           /\ History(KernelMmap, L, H, E, live) /\ PositionsRight
           /\ call.node = Node(KernelMmap, e, w)
           /\ Extra(L, H[Len(live)], F, e, w, call.level)
           /\ NextRight(L, H[Len(live)], e)
  BY <1>2a
<1>3. PICK V, k : V = H[Len(live)] /\ k = call.level
  OBVIOUS
<1>4. PICK e \in DOMAIN KernelMmap : \E w \in Nat : \E F :
           /\ PositionsRight /\ Extra(L, V, F, e, w, k) /\ NextRight(L, V, e)
  BY <1>2, <1>3
<1>5a. PICK w \in Nat : \E F : PositionsRight /\ Extra(L, V, F, e, w, k) /\ NextRight(L, V, e)
  BY <1>4
<1>5. PICK F : PositionsRight /\ Extra(L, V, F, e, w, k) /\ NextRight(L, V, e)
  BY <1>5a
<1>6. k \in Levels
  BY <1>5 DEF Extra
<1>7. PICK n \in Nat : n = Pages(KernelMmap, e)
  BY <1>1, EntryPages
<1>8. PICK h \in Nat : h = Whole(n, L) /\ h <= n /\ n < h + BlockPages[L]
  BY WholeFacts
<1>9. PICK base \in Nat : base = Node(KernelMmap, e, 0) /\ \A p \in Nat : Node(KernelMmap, e, p) = base + p
  BY <1>1, EntryPages
<1>10. PICK a \in Nat, b \in Nat : a = BlockPages[L] /\ b = BlockPages[k] /\ a <= b
  <2>1. L <= k /\ L \in AllLevels /\ k \in AllLevels
    BY <1>5, SizesOfLevels DEF Extra
  <2> QED BY <2>1, SizesGrow, SizesOfLevels
<1>11. b <= n
  <2>1. w + b <= n
    BY <1>5, <1>7, <1>10 DEF Extra
  <2> QED BY <2>1
<1>12. PICK y, z : y = mem[call.node].PosNext /\ z = mem[y].PosNext
  OBVIOUS
<1>13. y # Null /\ z # Null /\ z - y = b
  BY <1>3, <1>10, <1>12 DEF MatchesNext
<1>14. h < n /\ y = Node(KernelMmap, e, h)
  BY <1>5, <1>7, <1>8, <1>12, <1>13 DEF NextRight
<1>15. PICK l \in Levels : l < L /\ Digit(n, h, l)
  BY <1>8, <1>14, FirstTail
<1>16. <<e, h, l>> \in Vacant
  <2>1. ~(L <= l)
    BY <1>15, SizesOfLevels
  <2>2. Begins(KernelMmap, L, F) /\ FreeBelow(KernelMmap, L, F) \subseteq Vacant
    BY <1>5 DEF Extra
  <2> QED BY <1>1, <1>7, <1>15, <2>1, <2>2, FreeBelowIs
<1>17. FollowedBy(KernelMmap, Vacant, e, h, h + BlockPages[l], z)
  BY <1>5, <1>12, <1>14, <1>16, PlacedOne
<1>18. y = base + h
  BY <1>9, <1>14
<1>19. ~IsLater(KernelMmap, e, z)
  <2> SUFFICES ASSUME IsLater(KernelMmap, e, z)
               PROVE  FALSE
    OBVIOUS
  <2>1. PICK f \in DOMAIN KernelMmap : \E c \in 0 .. Pages(KernelMmap, f) - 1 :
          e < f /\ z = Node(KernelMmap, f, c)
    BY DEF IsLater
  <2>2. PICK start \in Nat : start = Node(KernelMmap, f, 0) /\ \A p \in Nat : Node(KernelMmap, f, p) = start + p
    BY <1>1, EntryPages
  <2>3. PICK c \in Nat : z = Node(KernelMmap, f, c)
    BY <1>1, <2>1, EntryPages
  <2>4. base + 2 * n <= start
    BY <1>1, <1>7, <1>9, <2>1, <2>2, EntryGap
  <2>5. z = start + c
    BY <2>2, <2>3
  <2> QED BY <1>11, <1>13, <1>14, <1>18, <2>4, <2>5
<1>20. PICK c \in h + BlockPages[l] .. Pages(KernelMmap, e) - 1 : z = Node(KernelMmap, e, c)
  BY <1>13, <1>17, <1>19 DEF FollowedBy
<1>21. c \in Nat /\ c < n
  <2>1. BlockPages[l] \in Nat
    BY SizesOfLevels
  <2> QED BY <1>7, <1>20, <2>1
<1>22. z = base + c
  BY <1>9, <1>20, <1>21
<1> QED BY <1>8, <1>10, <1>13, <1>18, <1>21, <1>22

\* The node to be merged with the previous one.
LEMMA PreviousMatches ==
  ASSUME TypeOK, NoBridges, PositionsRight, NEW L \in Levels, NEW V, NEW F,
         NEW e \in DOMAIN KernelMmap, NEW w \in Nat, NEW k, k = call.level,
         call.node = Node(KernelMmap, e, w), Extra(L, V, F, e, w, k)
  PROVE  /\ MatchesPrevious => LowestBit(w, k) /\ mem[call.node].PosPrevious = Node(KernelMmap, e, w - BlockPages[k])
         /\ ~MatchesPrevious => Aligned(w, k + 1)
<1>1. KernelMmap \in MemoryMaps /\ ~Bridged(KernelMmap)
  BY DEF TypeOK, NoBridges
<1>2. PICK x : x = mem[call.node].PosPrevious
  OBVIOUS
<1>3. /\ Begins(KernelMmap, L, F) /\ FreeBelow(KernelMmap, L, F) \subseteq Vacant
      /\ k \in Levels /\ w = F[e] /\ w + BlockPages[k] <= Pages(KernelMmap, e) /\ Aligned(w, k)
      /\ <<e, w, k>> \in Vacant
  BY DEF Extra
<1>4. PrecededBy(KernelMmap, Vacant, e, w, x)
  BY <1>2, <1>3, PlacedOne
<1>5. PICK S : S = Vacant
  OBVIOUS
<1>6. FreeBelow(KernelMmap, L, F) \subseteq S /\ PrecededBy(KernelMmap, S, e, w, x)
  BY <1>3, <1>4, <1>5
<1>7. MatchesPrevious <=> x # Null /\ Node(KernelMmap, e, w) - x = BlockPages[k]
  BY <1>2 DEF MatchesPrevious
<1>8. ASSUME x # Null, Node(KernelMmap, e, w) - x = BlockPages[k]
      PROVE  LowestBit(w, k) /\ x = Node(KernelMmap, e, w - BlockPages[k])
  BY ONLY <1>1, <1>3, <1>6, <1>8, L \in Levels, e \in DOMAIN KernelMmap, w \in Nat, MatchedIs
<1>9. ASSUME ~(x # Null /\ Node(KernelMmap, e, w) - x = BlockPages[k])
      PROVE  Aligned(w, k + 1)
  BY ONLY <1>1, <1>3, <1>6, <1>9, L \in Levels, e \in DOMAIN KernelMmap, w \in Nat, NotMatchedIs
<1> QED BY <1>2, <1>7, <1>8, <1>9

(***************************************************************************)
(* A list of two nodes: the head that MergeBlock() leaves is right.        *)
(***************************************************************************)
LEMMA TwoInList ==
  ASSUME TypeOK, FreeListsIntact, ListsEnd, NEW k \in Levels,
         NEW left \in FreeNodes, NEW right \in FreeNodes, left # right,
         mem[left].Level = k, mem[right].Level = k,
         \A a \in FreeNodes : mem[a].Level = k => a \in {left, right}
  PROVE  \E a, b \in {left, right} :
           /\ a # b /\ Nodes[k] = a
           /\ mem[a].SizeNext = Null /\ mem[a].SizePrevious = b
           /\ mem[b].SizeNext = a /\ mem[b].SizePrevious = Null
<1>1. \A c \in FreeNodes : c # Null /\ c \in DOMAIN mem
  <2>1. FreeNodes \subseteq Slots(KernelMmap) /\ KernelMmap \in MemoryMaps
    BY DEF FreeNodes, TypeOK
  <2> QED BY <2>1, SlotsAreNat DEF FreeNodes, Null
<1>2. ASSUME NEW c \in {left, right}, mem[c].SizeNext # Null
      PROVE  mem[c].SizeNext \in {left, right} /\ mem[mem[c].SizeNext].SizePrevious = c
  <2>1. PrecedesNext(c)
    BY DEF FreeListsIntact
  <2>2. IsFree(mem[c].SizeNext) /\ mem[mem[c].SizeNext].Level = k /\ mem[mem[c].SizeNext].SizePrevious = c
    BY <1>2, <2>1 DEF PrecedesNext
  <2>3. mem[c].SizeNext \in DOMAIN mem
    BY <1>1, <1>2 DEF TypeOK, NodeRecords, Slot
  <2> QED BY <2>2, <2>3 DEF FreeNodes
<1>3. ASSUME NEW c \in {left, right}, mem[c].SizePrevious # Null
      PROVE  mem[c].SizePrevious \in {left, right} /\ mem[mem[c].SizePrevious].SizeNext = c
  <2>1. FollowsPrevious(c)
    BY DEF FreeListsIntact
  <2>2. IsFree(mem[c].SizePrevious) /\ mem[mem[c].SizePrevious].Level = k
        /\ mem[mem[c].SizePrevious].SizeNext = c
    BY <1>3, <2>1 DEF FollowsPrevious
  <2>3. mem[c].SizePrevious \in DOMAIN mem
    BY <1>1, <1>3 DEF TypeOK, NodeRecords, Slot
  <2> QED BY <2>2, <2>3 DEF FreeNodes
<1>4. ASSUME NEW c \in {left, right}, mem[c].SizeNext = Null
      PROVE  Nodes[k] = c
  <2>1. PrecedesNext(c)
    BY DEF FreeListsIntact
  <2> QED BY <1>4, <2>1 DEF PrecedesNext
<1>5. PICK a \in {left, right} : mem[a].SizeNext \notin {left, right}
  <2>1. {left, right} \in SUBSET FreeNodes /\ {left, right} # {}
    OBVIOUS
  <2> QED BY <2>1 DEF ListsEnd
<1>6. PICK b \in {left, right} : a # b /\ {left, right} = {a, b}
  OBVIOUS
<1>7. mem[a].SizeNext = Null /\ Nodes[k] = a
  BY <1>2, <1>4, <1>5
<1>8. mem[b].SizeNext # Null
  BY <1>4, <1>6, <1>7
<1>9. mem[b].SizeNext # b
  <2>1. {b} \in SUBSET FreeNodes /\ {b} # {}
    OBVIOUS
  <2> QED BY <2>1 DEF ListsEnd
<1>10. mem[b].SizeNext = a /\ mem[a].SizePrevious = b
  BY <1>2, <1>6, <1>8, <1>9
<1>11. mem[b].SizePrevious = Null
  BY <1>1, <1>3, <1>6, <1>7, <1>10
<1> QED BY <1>6, <1>7, <1>10, <1>11

LEMMA TwoHeadIsRight ==
  ASSUME TypeOK, NEW k \in Levels, k = call.level,
         NEW left \in DOMAIN mem, NEW right \in DOMAIN mem, left # right,
         left # Null, right # Null,
         \E a, b \in {left, right} :
           /\ a # b /\ Nodes[k] = a
           /\ mem[a].SizeNext = Null /\ mem[a].SizePrevious = b
           /\ mem[b].SizeNext = a /\ mem[b].SizePrevious = Null
  PROVE  HeadIsRight(left, right)
<1>1. PICK without : without = SizeUnlinked(mem, left)
  OBVIOUS
<1>2. mem \in [Slots(KernelMmap) -> NodeRecords] /\ right \in Slots(KernelMmap)
  BY DEF TypeOK
<1>3. SizesWithout(mem, left, without)
  BY <1>1, <1>2, SizeUnlinkedFields
<1>4. /\ without[right].SizeNext
           = IF right = mem[left].SizePrevious THEN mem[left].SizeNext ELSE mem[right].SizeNext
      /\ without[right].SizePrevious
           = IF right = mem[left].SizeNext THEN mem[left].SizePrevious ELSE mem[right].SizePrevious
  BY <1>2, <1>3 DEF SizesWithout
<1>5. PICK head : head = Nodes[call.level]
  OBVIOUS
<1>6. \/ /\ head = left
         /\ mem[left].SizeNext = Null /\ mem[left].SizePrevious = right
         /\ mem[right].SizeNext = left /\ mem[right].SizePrevious = Null
      \/ /\ head = right
         /\ mem[right].SizeNext = Null /\ mem[right].SizePrevious = left
         /\ mem[left].SizeNext = right /\ mem[left].SizePrevious = Null
  BY <1>5
<1>7. HeadAfter(without, right, HeadAfter(mem, left, head))
        = HeadWithout(without, right, HeadWithout(mem, left, head))
  <2>1. CASE /\ head = left
             /\ mem[left].SizeNext = Null /\ mem[left].SizePrevious = right
             /\ mem[right].SizeNext = left /\ mem[right].SizePrevious = Null
    <3>1. without[right].SizeNext = Null /\ without[right].SizePrevious = Null
      BY <1>4, <2>1
    <3> QED BY <2>1, <3>1 DEF HeadAfter, HeadWithout
  <2>2. CASE /\ head = right
             /\ mem[right].SizeNext = Null /\ mem[right].SizePrevious = left
             /\ mem[left].SizeNext = right /\ mem[left].SizePrevious = Null
    <3>1. without[right].SizeNext = Null /\ without[right].SizePrevious = Null
      BY <1>4, <2>2
    <3> QED BY <2>2, <3>1 DEF HeadAfter, HeadWithout
  <2> QED BY <1>6, <2>1, <2>2
<1> QED BY <1>1, <1>5, <1>7 DEF HeadIsRight

\* No other block of the level of two buddies is free.
LEMMA BuddiesAlone ==
  ASSUME TypeOK, HeapInv, NEW L \in Levels, NEW V, NEW F, NEW e \in DOMAIN KernelMmap,
         NEW w \in Nat, NEW k, Extra(L, V, F, e, w, k), k < MaxLevel, LowestBit(w, k),
         NEW a \in FreeNodes, mem[a].Level = k
  PROVE  a = Node(KernelMmap, e, w) \/ a = Node(KernelMmap, e, w - BlockPages[k])
<1>1. KernelMmap \in MemoryMaps
  BY DEF TypeOK
<1>2. /\ k \in Levels /\ L <= k /\ V[e] = w + BlockPages[k]
      /\ Begins(KernelMmap, L, V) /\ FrontIs(F, V, e, w) /\ Begins(KernelMmap, L, F) /\ F[e] = w
      /\ Vacant = FreeBelow(KernelMmap, L, F) \cup {<<e, w, k>>} /\ NoneSmaller(L, V, e)
  BY DEF Extra
<1>3. PICK f \in DOMAIN KernelMmap : \E q \in Nat :
        a = Node(KernelMmap, f, q) /\ <<f, q, k>> \in Vacant
  BY VacantNode
<1>4. PICK q \in Nat : a = Node(KernelMmap, f, q) /\ <<f, q, k>> \in Vacant
  BY <1>3
<1>5. CASE <<f, q, k>> = <<e, w, k>>
  BY <1>4, <1>5
<1>6. CASE <<f, q, k>> \in FreeBelow(KernelMmap, L, F)
  <2>1. Digit(F[f], q, k) /\ F[f] \in Nat
    <3>1. <<f, q, k>> \in FreeBelow(KernelMmap, L, F)
            <=> IF L <= k THEN Digit(F[f], q, k) ELSE Digit(Pages(KernelMmap, f), q, k)
      BY <1>1, <1>2, FreeBelowIs
    <3> QED BY <1>2, <1>6, <3>1 DEF Begins
  <2>2. CASE f = e
    <3>1. PICK v \in Nat : v = w - BlockPages[k] /\ Digit(w, v, k)
      BY <1>2, LowestDigit
    <3>2. q = v
      BY <1>2, <2>1, <2>2, <3>1, DigitUnique
    <3> QED BY <1>4, <2>2, <3>1, <3>2
  <2>3. CASE f # e
    <3>1. F[f] = V[f] /\ f \in DOMAIN V
      BY <1>2, <2>3 DEF FrontIs, Begins
    <3>2. PICK l \in Levels : l = k + 1 /\ L < l /\ k \in L .. l - 1
      <4>1. k + 1 \in Levels
        BY <1>2, LevelAbove
      <4>2. k \in Nat /\ L \in Nat
        BY <1>2, SizesOfLevels
      <4> QED BY <1>2, <4>1, <4>2
    <3>3. Aligned(V[e], l)
      BY <1>2, <3>2, WithoutLowestBit
    <3>4. q \in 0 .. V[f]
      <4>1. PICK b \in Nat, v \in Nat : b = BlockPages[k] /\ v = F[f] /\ v = V[f]
        BY <1>2, <2>1, <3>1, SizesOfLevels
      <4>2. q + b <= v
        BY <2>1, <4>1 DEF Digit
      <4> QED BY <4>1, <4>2
    <3>5. ~Digit(V[f], q, k)
      BY <1>2, <3>1, <3>2, <3>3, <3>4 DEF NoneSmaller
    <3> QED BY <2>1, <3>1, <3>5
  <2> QED BY <2>2, <2>3
<1> QED BY <1>2, <1>4, <1>5, <1>6

\* The buddies.
LEMMA BuddiesFree ==
  ASSUME TypeOK, NEW L \in Levels, NEW V, NEW F, NEW e \in DOMAIN KernelMmap,
         NEW w \in Nat, NEW k, Extra(L, V, F, e, w, k), LowestBit(w, k),
         NEW v, v = w - BlockPages[k],
         NEW left, left = Node(KernelMmap, e, v), NEW right, right = Node(KernelMmap, e, w)
  PROVE  /\ v \in Nat /\ w = v + BlockPages[k] /\ Aligned(v, k + 1)
         /\ left \in FreeNodes /\ right \in FreeNodes /\ left # right
         /\ mem[left].Level = k /\ mem[right].Level = k
         /\ left # Null /\ right # Null
         /\ <<e, v, k>> \in FreeBelow(KernelMmap, L, F) /\ v < w /\ w < Pages(KernelMmap, e)
<1>1. KernelMmap \in MemoryMaps
  BY DEF TypeOK
<1>2. /\ k \in Levels /\ Begins(KernelMmap, L, F) /\ F[e] = w
      /\ FreeBelow(KernelMmap, L, F) \subseteq Vacant /\ <<e, w, k>> \in Vacant
  BY DEF Extra
<1>3. PICK b \in Nat \ {0} : b = BlockPages[k]
  BY <1>2, SizesOfLevels
<1>4. v \in Nat /\ Aligned(v, k + 1)
  BY <1>2, WithoutLowestBit
<1>5. w = v + b /\ v < w
  BY <1>3, <1>4
<1>6. <<e, v, k>> \in FreeBelow(KernelMmap, L, F)
  BY <1>1, <1>2, BlockBefore
<1>7. /\ w < Pages(KernelMmap, e) /\ right \in FreeNodes /\ mem[right].Level = k
  BY <1>2, VacantIs
<1>8. v < Pages(KernelMmap, e) /\ left \in FreeNodes /\ mem[left].Level = k
  BY <1>2, <1>4, <1>6, VacantIs
<1>9. left # Null /\ right # Null
  BY <1>1, <1>4, <1>7, <1>8, NodeIsSlot
<1>10. left # right
  BY <1>1, <1>4, <1>5, <1>7, <1>8, NodesApart
<1> QED BY <1>3, <1>4, <1>5, <1>6, <1>7, <1>8, <1>9, <1>10

LEMMA MergesSoundUniform == TypeOK /\ HeapInv /\ UniformInv /\ NoBridges => MergesAreSound
<1> SUFFICES ASSUME TypeOK, HeapInv, UniformInv, NoBridges, call.op = "merge", call.level < MaxLevel
             PROVE  /\ MatchesPrevious => SoundMerge(mem[call.node].PosPrevious, call.node)
                    /\ ~MatchesPrevious /\ MatchesNext => SoundMerge(call.node, mem[call.node].PosNext)
  BY DEF MergesAreSound
<1>1. ~MatchesNext
  BY NextNeverMatches
<1>2. ASSUME MatchesPrevious
      PROVE  SoundMerge(mem[call.node].PosPrevious, call.node)
  <2>1a. PICK L \in Levels : \E H, E : \E e \in DOMAIN KernelMmap : \E w \in Nat : \E F :
           /\ History(KernelMmap, L, H, E, live) /\ PositionsRight
           /\ call.node = Node(KernelMmap, e, w)
           /\ Extra(L, H[Len(live)], F, e, w, call.level)
           /\ NextRight(L, H[Len(live)], e)
    BY MergeCall
  <2>1. PICK H, E : \E e \in DOMAIN KernelMmap : \E w \in Nat : \E F :
           /\ History(KernelMmap, L, H, E, live) /\ PositionsRight
           /\ call.node = Node(KernelMmap, e, w)
           /\ Extra(L, H[Len(live)], F, e, w, call.level)
           /\ NextRight(L, H[Len(live)], e)
    BY <2>1a
  <2>2. PICK V, k : V = H[Len(live)] /\ k = call.level
    OBVIOUS
  <2>3. PICK e \in DOMAIN KernelMmap : \E w \in Nat : \E F :
           PositionsRight /\ call.node = Node(KernelMmap, e, w) /\ Extra(L, V, F, e, w, k)
    BY <2>1, <2>2
  <2>4a. PICK w \in Nat : \E F :
           PositionsRight /\ call.node = Node(KernelMmap, e, w) /\ Extra(L, V, F, e, w, k)
    BY <2>3
  <2>4. PICK F :
           PositionsRight /\ call.node = Node(KernelMmap, e, w) /\ Extra(L, V, F, e, w, k)
    BY <2>4a
  <2>5. PICK v, left, right : /\ v = w - BlockPages[k]
                              /\ left = Node(KernelMmap, e, v) /\ right = Node(KernelMmap, e, w)
    OBVIOUS
  <2>6. LowestBit(w, k) /\ mem[call.node].PosPrevious = left /\ call.node = right
    BY <1>2, <2>2, <2>4, <2>5, PreviousMatches
  <2>13. Extra(L, V, F, e, w, k) /\ LowestBit(w, k)
    BY <2>4, <2>6
  <2>7. /\ v \in Nat /\ w = v + BlockPages[k] /\ Aligned(v, k + 1)
        /\ left \in FreeNodes /\ right \in FreeNodes /\ left # right
        /\ mem[left].Level = k /\ mem[right].Level = k
        /\ left # Null /\ right # Null
        /\ <<e, v, k>> \in FreeBelow(KernelMmap, L, F) /\ v < w /\ w < Pages(KernelMmap, e)
    BY ONLY TypeOK, L \in Levels, e \in DOMAIN KernelMmap, w \in Nat, <2>5, <2>13, BuddiesFree
  <2>8. k \in Levels
    BY <2>4 DEF Extra
  <2>9. ASSUME NEW a \in FreeNodes, mem[a].Level = k
        PROVE  a \in {left, right}
    <3>1. k < MaxLevel
      BY <2>2
    <3>2. a = Node(KernelMmap, e, w) \/ a = Node(KernelMmap, e, w - BlockPages[k])
      BY ONLY TypeOK, HeapInv, L \in Levels, e \in DOMAIN KernelMmap, w \in Nat, <2>13, <3>1, <2>9,
              a \in FreeNodes, BuddiesAlone
    <3> QED BY <2>5, <3>2
  <2>10. \E a, b \in {left, right} :
           /\ a # b /\ Nodes[k] = a
           /\ mem[a].SizeNext = Null /\ mem[a].SizePrevious = b
           /\ mem[b].SizeNext = a /\ mem[b].SizePrevious = Null
    BY <2>7, <2>8, <2>9, TwoInList DEF HeapInv
  <2>11. HeadIsRight(left, right)
    <3>1. left \in DOMAIN mem /\ right \in DOMAIN mem
      BY <2>7 DEF FreeNodes
    <3> QED BY <2>2, <2>7, <2>8, <2>10, <3>1, TwoHeadIsRight
  <2>12. AreBuddies(left, right)
    <3>1. right - left = BlockPages[call.level]
      BY <1>2, <2>6 DEF MatchesPrevious
    <3> QED BY <2>2, <2>7, <3>1 DEF AreBuddies, FreeNodes
  <2> QED BY <2>6, <2>11, <2>12 DEF SoundMerge
<1> QED BY <1>1, <1>2

(***************************************************************************)
(* What a merge does to the blocks and to the positions.                   *)
(***************************************************************************)
LEMMA VacantNext ==
  ASSUME TypeOK, TypeOK', UNCHANGED KernelMmap,
         NEW e \in DOMAIN KernelMmap, NEW p \in Nat, NEW l \in Levels
  PROVE  <<e, p, l>> \in Vacant' <=>
           /\ p < Pages(KernelMmap, e)
           /\ Node(KernelMmap, e, p) \in FreeNodes' /\ mem'[Node(KernelMmap, e, p)].Level = l
<1>1. KernelMmap \in MemoryMaps /\ KernelMmap' = KernelMmap
  BY DEF TypeOK
<1>2. <<e, p, l>> \in FreeBlocks(KernelMmap, mem')
        <=> /\ p < Pages(KernelMmap, e)
            /\ mem'[Node(KernelMmap, e, p)].Pointer # Null
            /\ mem'[Node(KernelMmap, e, p)].Level = l
  BY <1>1, FreeBlocksIs
<1>3. p < Pages(KernelMmap, e) => Node(KernelMmap, e, p) \in DOMAIN mem'
  <2>1. p < Pages(KernelMmap, e) => Node(KernelMmap, e, p) \in Slots(KernelMmap)
    BY <1>1, NodeIsSlot
  <2> QED BY <1>1, <2>1 DEF TypeOK
<1> QED BY <1>1, <1>2, <1>3 DEF FreeNodes, IsFree, Vacant

\* The block of level k at page w of an entry and the one at page v become one of level j.
Sides(mmap, L, F, F2, e, k, j, v, w) ==
  /\ Begins(mmap, L, F2) /\ Begins(mmap, L, F) /\ F2[e] = v /\ F[e] = w
  /\ k \in Levels /\ j \in Levels /\ j = k + 1 /\ L <= k
  /\ w = v + BlockPages[k] /\ Aligned(v, j)
  /\ v < w /\ w < Whole(Pages(mmap, e), L) /\ w < Pages(mmap, e)
  /\ FreeBelow(mmap, L, F) = FreeBelow(mmap, L, F2) \cup {<<e, v, k>>}

Joined(left, right, j) ==
  /\ left \in FreeNodes /\ FreeNodes' = FreeNodes \ {right} /\ mem'[left].Level = j
  /\ \A a \in FreeNodes' \ {left} : mem'[a].Level = mem[a].Level

LEMMA MergedVacant ==
  ASSUME TypeOK, TypeOK', UNCHANGED KernelMmap, NEW L \in Levels, NEW F, NEW F2,
         NEW e \in DOMAIN KernelMmap, NEW k, NEW j, NEW v \in Nat, NEW w \in Nat,
         Sides(KernelMmap, L, F, F2, e, k, j, v, w),
         Vacant = FreeBelow(KernelMmap, L, F) \cup {<<e, w, k>>},
         Joined(Node(KernelMmap, e, v), Node(KernelMmap, e, w), j)
  PROVE  Vacant' = FreeBelow(KernelMmap, L, F2) \cup {<<e, v, j>>}
<1>14. PICK left, right : left = Node(KernelMmap, e, v) /\ right = Node(KernelMmap, e, w)
  OBVIOUS
<1>15. /\ left \in FreeNodes /\ FreeNodes' = FreeNodes \ {right} /\ mem'[left].Level = j
       /\ \A a \in FreeNodes' \ {left} : mem'[a].Level = mem[a].Level
  BY <1>14 DEF Joined
<1>16. /\ Begins(KernelMmap, L, F2) /\ Begins(KernelMmap, L, F) /\ F2[e] = v /\ F[e] = w
       /\ k \in Levels /\ j \in Levels
       /\ v < w /\ w < Whole(Pages(KernelMmap, e), L) /\ w < Pages(KernelMmap, e)
       /\ FreeBelow(KernelMmap, L, F) = FreeBelow(KernelMmap, L, F2) \cup {<<e, v, k>>}
  BY DEF Sides
<1>1. KernelMmap \in MemoryMaps /\ KernelMmap' = KernelMmap
  BY DEF TypeOK
<1>2. PICK T, T2 : T = FreeBelow(KernelMmap, L, F) /\ T2 = FreeBelow(KernelMmap, L, F2)
  OBVIOUS
<1>3. PICK n \in Nat, h \in Nat : n = Pages(KernelMmap, e) /\ h = Whole(n, L)
  BY <1>1, EntryPages, WholeFacts
<1>4. v < h /\ w < h /\ v < n /\ w < n
  BY <1>3, <1>16
<1>5. left # right
  <2>1. v < Pages(KernelMmap, e) /\ w < Pages(KernelMmap, e) /\ v # w
    BY <1>3, <1>4, <1>16
  <2>2. Node(KernelMmap, e, v) # Node(KernelMmap, e, w)
    BY ONLY <1>1, <2>1, e \in DOMAIN KernelMmap, v \in Nat, w \in Nat, NodesApart
  <2> QED BY <1>14, <2>2
<1>6. \A f \in DOMAIN KernelMmap : \A q \in Nat, l \in Levels :
        /\ <<f, q, l>> \in T2 => Node(KernelMmap, f, q) # left /\ q < Pages(KernelMmap, f)
        /\ <<f, q, l>> \in T => Node(KernelMmap, f, q) # right /\ q < Pages(KernelMmap, f)
  <2> SUFFICES ASSUME NEW f \in DOMAIN KernelMmap, NEW q \in Nat, NEW l \in Levels
               PROVE  /\ <<f, q, l>> \in T2 => Node(KernelMmap, f, q) # left /\ q < Pages(KernelMmap, f)
                      /\ <<f, q, l>> \in T => Node(KernelMmap, f, q) # right /\ q < Pages(KernelMmap, f)
    OBVIOUS
  <2>1. F2[e] < Whole(Pages(KernelMmap, e), L) /\ F[e] < Whole(Pages(KernelMmap, e), L)
    BY <1>3, <1>4, <1>16
  <2>2. <<f, q, l>> \in T2 => Node(KernelMmap, f, q) # Node(KernelMmap, e, F2[e]) /\ q < Pages(KernelMmap, f)
    BY <1>1, <1>2, <1>16, <2>1, FreeNodeFacts
  <2>3. <<f, q, l>> \in T => Node(KernelMmap, f, q) # Node(KernelMmap, e, F[e]) /\ q < Pages(KernelMmap, f)
    BY <1>1, <1>2, <1>16, <2>1, FreeNodeFacts
  <2> QED BY <1>14, <1>16, <2>2, <2>3
<1>7. PICK G : G = T2 \cup {<<e, v, j>>}
  OBVIOUS
<1>8. ASSUME NEW f \in DOMAIN KernelMmap, NEW q \in Nat, NEW l \in Levels
      PROVE  <<f, q, l>> \in Vacant' <=> <<f, q, l>> \in G
  <2>1. PICK a : a = Node(KernelMmap, f, q)
    OBVIOUS
  <2>2. <<f, q, l>> \in Vacant' <=>
          q < Pages(KernelMmap, f) /\ a \in FreeNodes' /\ mem'[a].Level = l
    BY <2>1, VacantNext
  <2>3. <<f, q, l>> \in Vacant <=>
          q < Pages(KernelMmap, f) /\ a \in FreeNodes /\ mem[a].Level = l
    BY <2>1, VacantIs
  <2>4. CASE q < Pages(KernelMmap, f) /\ a = left
    <3>1. f = e /\ q = v
      <4>1. q < Pages(KernelMmap, f) /\ v < Pages(KernelMmap, e)
            /\ Node(KernelMmap, f, q) = Node(KernelMmap, e, v)
        BY <1>3, <1>4, <1>14, <2>1, <2>4
      <4> QED BY ONLY <1>1, <4>1, e \in DOMAIN KernelMmap, f \in DOMAIN KernelMmap,
                      q \in Nat, v \in Nat, NodesApart
    <3>2. <<f, q, l>> \notin T2
      BY <1>6, <2>1, <2>4
    <3> QED BY <1>5, <1>7, <1>15, <1>16, <2>2, <2>4, <3>1, <3>2
  <2>5. CASE q < Pages(KernelMmap, f) /\ a = right
    <3>1. f = e /\ q = w
      <4>1. q < Pages(KernelMmap, f) /\ w < Pages(KernelMmap, e)
            /\ Node(KernelMmap, f, q) = Node(KernelMmap, e, w)
        BY <1>3, <1>4, <1>14, <2>1, <2>5
      <4> QED BY ONLY <1>1, <4>1, e \in DOMAIN KernelMmap, f \in DOMAIN KernelMmap,
                      q \in Nat, w \in Nat, NodesApart
    <3>2. <<f, q, l>> \notin T
      BY <1>6, <2>1, <2>5
    <3>3. <<f, q, l>> \notin T2 /\ q # v
      BY <1>2, <1>16, <3>1, <3>2
    <3> QED BY <1>7, <1>15, <2>2, <2>5, <3>3
  <2>6. CASE q < Pages(KernelMmap, f) /\ a # left /\ a # right
    <3>1. <<f, q, l>> # <<e, v, k>> /\ <<f, q, l>> # <<e, w, k>> /\ <<f, q, l>> # <<e, v, j>>
      BY <1>14, <2>1, <2>6
    <3>2. <<f, q, l>> \in Vacant <=> <<f, q, l>> \in T2
      BY <1>2, <1>16, <3>1
    <3> QED BY <1>7, <1>15, <2>2, <2>3, <2>6, <3>1, <3>2
  <2>7. CASE ~(q < Pages(KernelMmap, f))
    <3>1. <<f, q, l>> \notin T2
      BY <1>6, <2>7
    <3>2. <<f, q, l>> # <<e, v, j>>
      BY <1>3, <1>4, <2>7
    <3> QED BY <1>7, <2>2, <2>7, <3>1, <3>2
  <2> QED BY <2>4, <2>5, <2>6, <2>7
<1>9. PICK W : W = Vacant'
  OBVIOUS
<1>10. W \in SUBSET Blocks(KernelMmap)
  BY <1>1, <1>9 DEF Vacant, FreeBlocks
<1>11. G \in SUBSET Blocks(KernelMmap)
  <2>1. <<e, v, j>> \in Blocks(KernelMmap)
    BY <1>1, <1>3, <1>4, <1>16, PagesInRange
  <2> QED BY <1>2, <1>7, <2>1 DEF FreeBelow
<1>12. \A f \in DOMAIN KernelMmap : \A q \in Nat, l \in Levels : <<f, q, l>> \in W <=> <<f, q, l>> \in G
  BY <1>8, <1>9
<1>13. W = G
  BY ONLY <1>1, <1>10, <1>11, <1>12, BlocksEqual
<1> QED BY <1>2, <1>7, <1>9, <1>13

\* Two nodes are unlinked, and the first is linked again, as the front of a larger block.
Rejoined(mmap, left, right, x, y, P, N, P3, N3) ==
  /\ y = N[right]
  /\ \E P1, N1, P2, N2 :
       /\ Unlinked(mmap, right, P, N, P1, N1) /\ Unlinked(mmap, left, P1, N1, P2, N2)
       /\ x = P1[left] /\ Linked(mmap, left, x, y, P2, N2, P3, N3)

EndIs(mmap, L, e, end, y) ==
  /\ end <= Whole(Pages(mmap, e), L)
  /\ end = Whole(Pages(mmap, e), L) /\ Whole(Pages(mmap, e), L) < Pages(mmap, e)
       => y = Node(mmap, e, Whole(Pages(mmap, e), L))

LEMMA MergedPlaces ==
  ASSUME NEW mmap \in MemoryMaps, NEW L \in Levels, NEW F, NEW F2, NEW e \in DOMAIN mmap,
         NEW k, NEW j, NEW v \in Nat, NEW w \in Nat, Sides(mmap, L, F, F2, e, k, j, v, w),
         NEW P, NEW N, Placed(mmap, FreeBelow(mmap, L, F) \cup {<<e, w, k>>}, P, N),
         NEW x, NEW y, EndIs(mmap, L, e, w + BlockPages[k], y), NEW P3, NEW N3,
         Rejoined(mmap, Node(mmap, e, v), Node(mmap, e, w), x, y, P, N, P3, N3)
  PROVE  Placed(mmap, FreeBelow(mmap, L, F2) \cup {<<e, v, j>>}, P3, N3)
<1>13. PICK T, T2 : T = FreeBelow(mmap, L, F) /\ T2 = FreeBelow(mmap, L, F2)
  OBVIOUS
<1>14. /\ Begins(mmap, L, F2) /\ Begins(mmap, L, F) /\ F2[e] = v /\ F[e] = w
       /\ k \in Levels /\ j \in Levels /\ j = k + 1 /\ L <= k
       /\ w = v + BlockPages[k] /\ Aligned(v, j) /\ T = T2 \cup {<<e, v, k>>}
       /\ Placed(mmap, T \cup {<<e, w, k>>}, P, N)
  BY <1>13 DEF Sides
<1>15. PICK P1, N1, P2, N2 :
         /\ Unlinked(mmap, Node(mmap, e, w), P, N, P1, N1)
         /\ Unlinked(mmap, Node(mmap, e, v), P1, N1, P2, N2)
         /\ x = P1[Node(mmap, e, v)] /\ y = N[Node(mmap, e, w)]
         /\ Linked(mmap, Node(mmap, e, v), x, y, P2, N2, P3, N3)
  BY DEF Rejoined
<1>16. PICK end \in Nat : end = w + BlockPages[k]
  BY <1>14, SizesOfLevels
<1>17. /\ end <= Whole(Pages(mmap, e), L)
       /\ end = Whole(Pages(mmap, e), L) /\ Whole(Pages(mmap, e), L) < Pages(mmap, e)
            => y = Node(mmap, e, Whole(Pages(mmap, e), L))
  BY <1>16 DEF EndIs
<1>18. Begins(mmap, L, F) /\ k \in Levels /\ L <= k /\ T = FreeBelow(mmap, L, F)
  BY <1>13, <1>14
<1>19. Begins(mmap, L, F2) /\ k \in Levels /\ L <= k /\ T2 = FreeBelow(mmap, L, F2)
  BY <1>13, <1>14
<1>20. Begins(mmap, L, F2) /\ j \in Levels /\ T2 = FreeBelow(mmap, L, F2)
  BY <1>13, <1>14
<1>1. PICK b \in Nat \ {0} : b = BlockPages[k] /\ BlockPages[j] = b + b
  BY <1>14, SizesOfLevels
<1>2. PICK n \in Nat : n = Pages(mmap, e)
  BY EntryPages
<1>3. PICK h \in Nat : h = Whole(n, L)
  BY WholeFacts
<1>4. w = v + b /\ end = w + b /\ end <= h /\ v + BlockPages[j] = end
  BY <1>1, <1>2, <1>3, <1>14, <1>16, <1>17
<1>5. Aligned(v, k) /\ Aligned(w, k)
  BY <1>14, AlignedHalves, AlignedStep, SizesOfLevels
<1>6. /\ Placed(mmap, T, P1, N1)
      /\ PrecededBy(mmap, T, e, F[e], P[Node(mmap, e, F[e])])
      /\ Bounded(mmap, T, N1, e, F[e], P[Node(mmap, e, F[e])])
      /\ FollowedBy(mmap, T, e, F[e], F[e] + BlockPages[k], N[Node(mmap, e, F[e])])
  <2>1. PICK S1 : S1 = T \cup {<<e, F[e], k>>}
    OBVIOUS
  <2>2. Aligned(F[e], k) /\ Placed(mmap, S1, P, N) /\ Unlinked(mmap, Node(mmap, e, F[e]), P, N, P1, N1)
        /\ F[e] + BlockPages[k] <= Whole(Pages(mmap, e), L)
    BY <1>5, <1>14, <1>15, <1>16, <1>17, <2>1
  <2> QED BY ONLY <2>1, <2>2, mmap \in MemoryMaps, L \in Levels, e \in DOMAIN mmap,
                  <1>18, RemoveTop
<1>7. /\ Placed(mmap, T2, P2, N2)
      /\ PrecededBy(mmap, T2, e, F2[e], P1[Node(mmap, e, F2[e])])
      /\ Bounded(mmap, T2, N2, e, F2[e], P1[Node(mmap, e, F2[e])])
      /\ FollowedBy(mmap, T2, e, F2[e], F2[e] + BlockPages[k], N1[Node(mmap, e, F2[e])])
  <2>1. PICK S1 : S1 = T2 \cup {<<e, F2[e], k>>}
    OBVIOUS
  <2>2. Aligned(F2[e], k) /\ Placed(mmap, S1, P1, N1) /\ Unlinked(mmap, Node(mmap, e, F2[e]), P1, N1, P2, N2)
    BY <1>5, <1>6, <1>14, <1>15, <2>1
  <2>3. F2[e] + BlockPages[k] <= Whole(Pages(mmap, e), L)
    BY <1>1, <1>2, <1>3, <1>4, <1>14
  <2> QED BY ONLY <2>1, <2>2, <2>3, mmap \in MemoryMaps, L \in Levels, e \in DOMAIN mmap,
                  <1>19, RemoveTop
<1>8. FollowedBy(mmap, T2, e, v, end, y)
  <2>1. ASSUME NEW q \in Nat, NEW m \in Levels, v < q, <<e, q, m>> \in T2
        PROVE  F[e] < q /\ <<e, q, m>> \in T
    <3>1. F2[e] <= q /\ <<e, q, m>> \in FreeBelow(mmap, L, F2)
      BY <1>13, <1>14, <2>1
    <3>2. Whole(Pages(mmap, e), L) <= q
      BY <1>14, <3>1, BlocksAround
    <3>3. w < q
      BY <1>1, <1>2, <1>3, <1>4, <3>2
    <3> QED BY <1>14, <2>1, <3>3
  <2>2. F[e] < end /\ end <= Whole(Pages(mmap, e), L) /\ end <= end
        /\ FollowedBy(mmap, T, e, F[e], end, y)
    BY <1>1, <1>4, <1>6, <1>14, <1>15, <1>16, <1>17
  <2>3. \A q \in Nat, m \in Levels : v < q /\ <<e, q, m>> \in T2 => F[e] < q /\ <<e, q, m>> \in T
    BY <2>1
  <2> QED BY ONLY <2>2, <2>3, mmap \in MemoryMaps, L \in Levels, e \in DOMAIN mmap,
                  <1>13, <1>14, end \in Nat, v \in Nat, FollowedOn, ZenonT(20)
<1>9. PICK S1 : S1 = T2 \cup {<<e, F2[e], j>>}
  OBVIOUS
<1>10. /\ L <= j /\ Aligned(F2[e], j) /\ F2[e] + BlockPages[j] <= end /\ end <= Whole(Pages(mmap, e), L)
       /\ Placed(mmap, T2, P2, N2)
       /\ PrecededBy(mmap, T2, e, F2[e], x) /\ Bounded(mmap, T2, N2, e, F2[e], x)
       /\ FollowedBy(mmap, T2, e, F2[e], end, y)
       /\ Linked(mmap, Node(mmap, e, F2[e]), x, y, P2, N2, P3, N3)
  <2>1. L <= j
    <3>1. L \in Nat /\ k \in Nat
      BY <1>14, SizesOfLevels
    <3> QED BY <1>14, <3>1
  <2>2. F2[e] + BlockPages[j] <= end
    BY <1>1, <1>4, <1>14
  <2> QED BY <1>7, <1>8, <1>14, <1>15, <1>17, <2>1, <2>2
<1>11. (/\ LowestBit(F2[e] + BlockPages[j], j)
        /\ F2[e] + BlockPages[j] = Whole(Pages(mmap, e), L)
        /\ Whole(Pages(mmap, e), L) < Pages(mmap, e))
          => y = Node(mmap, e, Whole(Pages(mmap, e), L))
  BY <1>4, <1>14, <1>17
<1>12. Placed(mmap, S1, P3, N3)
  BY ONLY <1>9, <1>10, <1>11, mmap \in MemoryMaps, L \in Levels, e \in DOMAIN mmap,
          end \in Nat, <1>20, AddTop
<1> QED BY <1>9, <1>12, <1>13, <1>14

(***************************************************************************)
(* The steps of MergeBlock().                                              *)
(***************************************************************************)
\* A neighbour is not the node itself.
LEMMA NotBefore ==
  ASSUME NEW mmap \in MemoryMaps, NEW L \in Levels, NEW F, Begins(mmap, L, F),
         NEW e \in DOMAIN mmap, NEW S, FreeBelow(mmap, L, F) \subseteq S,
         NEW v \in Nat, v = F[e], v < Pages(mmap, e),
         NEW x, PrecededBy(mmap, S, e, v, x),
         NEW w \in Nat, v < w, w < Pages(mmap, e)
  PROVE  x # Node(mmap, e, w)
<1>1. F[e] < Pages(mmap, e) /\ PrecededBy(mmap, S, e, F[e], x)
  OBVIOUS
<1>2. \/ IsEarlier(mmap, e, x)
      \/ \E m \in Levels : LowestBit(F[e], m) /\ x = Node(mmap, e, F[e] - BlockPages[m])
  BY ONLY <1>1, mmap \in MemoryMaps, L \in Levels, Begins(mmap, L, F), e \in DOMAIN mmap,
          FreeBelow(mmap, L, F) \subseteq S, PrecededHow
<1>3. Node(mmap, e, w) # Null
  BY NodeIsSlot
<1>4. CASE IsEarlier(mmap, e, x)
  <2>1. CASE x = Null
    BY <1>3, <2>1
  <2>2. CASE \E f \in 1 .. e - 1 : \E c \in 0 .. Pages(mmap, f) - 1 : x = Node(mmap, f, c)
    <3>1. PICK f \in 1 .. e - 1 : \E c \in 0 .. Pages(mmap, f) - 1 : x = Node(mmap, f, c)
      BY <2>2
    <3>2. f \in DOMAIN mmap /\ f # e
      BY <3>1, MapIsSequence
    <3>3. PICK d \in Nat : d = Pages(mmap, f)
      BY <3>2, EntryPages
    <3>4. PICK c \in Nat : c < Pages(mmap, f) /\ x = Node(mmap, f, c)
      BY <3>1, <3>3
    <3>5. Node(mmap, f, c) # Node(mmap, e, w)
      BY <3>2, <3>4, NodesApart
    <3> QED BY <3>4, <3>5
  <2> QED BY <1>4, <2>1, <2>2 DEF IsEarlier
<1>5. CASE \E m \in Levels : LowestBit(F[e], m) /\ x = Node(mmap, e, F[e] - BlockPages[m])
  <2>1. PICK m \in Levels : LowestBit(v, m) /\ x = Node(mmap, e, v - BlockPages[m])
    BY <1>5
  <2>2. PICK b \in Nat \ {0} : b = BlockPages[m]
    BY SizesOfLevels
  <2>3. v - b \in Nat
    BY <2>1, <2>2, WithoutLowestBit
  <2>4. PICK c \in Nat : c = v - b
    BY <2>3
  <2>5. PICK n \in Nat : n = Pages(mmap, e)
    BY EntryPages
  <2>6. c < Pages(mmap, e) /\ c # w
    BY <2>2, <2>4, <2>5
  <2>7. x = Node(mmap, e, c)
    BY <2>1, <2>2, <2>4
  <2>8. Node(mmap, e, c) # Node(mmap, e, w)
    BY ONLY <2>6, mmap \in MemoryMaps, e \in DOMAIN mmap, c \in Nat, w \in Nat,
            w < Pages(mmap, e), NodesApart
  <2> QED BY <2>7, <2>8
<1> QED BY <1>2, <1>4, <1>5

LEMMA MergePreviousUniform ==
  TypeOK /\ TypeOK' /\ HeapInv /\ UniformInv /\ NoBridges /\ MergePrevious => UniformInv'
<1> SUFFICES ASSUME TypeOK, TypeOK', HeapInv, UniformInv, NoBridges, MergePrevious
             PROVE  UniformInv'
  OBVIOUS
<1>1. /\ KernelMmap \in MemoryMaps /\ KernelMmap' = KernelMmap /\ live' = live
      /\ call.op = "merge" /\ call.level < MaxLevel /\ MatchesPrevious
      /\ Merge(mem[call.node].PosPrevious, call.node)
  BY DEF TypeOK, MergePrevious
<1>2a. PICK L \in Levels : \E H, E : \E e \in DOMAIN KernelMmap : \E w \in Nat : \E F :
         /\ History(KernelMmap, L, H, E, live) /\ PositionsRight
         /\ call.node = Node(KernelMmap, e, w)
         /\ Extra(L, H[Len(live)], F, e, w, call.level)
         /\ NextRight(L, H[Len(live)], e)
  BY <1>1, MergeCall
<1>2. PICK H, E : \E e \in DOMAIN KernelMmap : \E w \in Nat : \E F :
         /\ History(KernelMmap, L, H, E, live) /\ PositionsRight
         /\ call.node = Node(KernelMmap, e, w)
         /\ Extra(L, H[Len(live)], F, e, w, call.level)
         /\ NextRight(L, H[Len(live)], e)
  BY <1>2a
<1>3. PICK V, k : V = H[Len(live)] /\ k = call.level
  OBVIOUS
<1>4. PICK e \in DOMAIN KernelMmap : \E w \in Nat : \E F :
         /\ History(KernelMmap, L, H, E, live) /\ PositionsRight
         /\ call.node = Node(KernelMmap, e, w)
         /\ Extra(L, V, F, e, w, k) /\ NextRight(L, V, e)
  BY <1>2, <1>3
<1>5a. PICK w \in Nat : \E F :
         /\ History(KernelMmap, L, H, E, live) /\ PositionsRight
         /\ call.node = Node(KernelMmap, e, w)
         /\ Extra(L, V, F, e, w, k) /\ NextRight(L, V, e)
  BY <1>4
<1>5. PICK F :
         /\ History(KernelMmap, L, H, E, live) /\ PositionsRight
         /\ call.node = Node(KernelMmap, e, w)
         /\ Extra(L, V, F, e, w, k) /\ NextRight(L, V, e)
  BY <1>5a
<1>6. PICK v, left, right : /\ v = w - BlockPages[k]
                            /\ left = Node(KernelMmap, e, v) /\ right = Node(KernelMmap, e, w)
  OBVIOUS
<1>7. LowestBit(w, k) /\ mem[call.node].PosPrevious = left /\ call.node = right
  BY <1>1, <1>3, <1>5, <1>6, PreviousMatches
<1>8. /\ v \in Nat /\ w = v + BlockPages[k] /\ Aligned(v, k + 1)
      /\ left \in FreeNodes /\ right \in FreeNodes /\ left # right
      /\ mem[left].Level = k /\ mem[right].Level = k
      /\ left # Null /\ right # Null
      /\ <<e, v, k>> \in FreeBelow(KernelMmap, L, F) /\ v < w /\ w < Pages(KernelMmap, e)
  <2>1. Extra(L, V, F, e, w, k) /\ LowestBit(w, k)
    BY <1>5, <1>7
  <2> QED BY ONLY TypeOK, L \in Levels, e \in DOMAIN KernelMmap, w \in Nat, <1>6, <2>1, BuddiesFree
<1>9. /\ k \in Levels /\ L <= k /\ V[e] = w + BlockPages[k]
      /\ Begins(KernelMmap, L, V) /\ FrontIs(F, V, e, w)
      /\ Begins(KernelMmap, L, F) /\ F[e] = w
      /\ V[e] <= Whole(Pages(KernelMmap, e), L)
      /\ Vacant = FreeBelow(KernelMmap, L, F) \cup {<<e, w, k>>}
      /\ NoneSmaller(L, V, e)
  BY <1>5 DEF Extra
<1>10. PICK j \in Levels : j = k + 1 /\ L <= j
  <2>1. k + 1 \in Levels
    BY <1>1, <1>3, <1>9, LevelAbove
  <2>2. L \in Nat /\ k \in Nat
    BY <1>9, SizesOfLevels
  <2> QED BY <1>9, <2>1, <2>2
<1>11. PICK b \in Nat \ {0} : b = BlockPages[k] /\ BlockPages[j] = b + b
  BY <1>9, <1>10, SizesOfLevels
<1>12. PICK n \in Nat : n = Pages(KernelMmap, e)
  BY <1>1, EntryPages
<1>13. PICK h \in Nat : h = Whole(n, L) /\ h <= n
  BY WholeFacts
<1>14. PICK end \in Nat : end = V[e]
  BY <1>9 DEF Begins
<1>15. w = v + b /\ end = w + b /\ end <= h /\ w < h /\ v < w /\ w < n
  BY <1>8, <1>9, <1>11, <1>12, <1>13, <1>14
<1>16. PICK F2 : FrontIs(F2, V, e, v)
  BY DEF FrontIs
<1>17. Begins(KernelMmap, L, F2) /\ F2[e] = v /\ F2 \in [DOMAIN KernelMmap -> Nat]
       /\ \A f \in DOMAIN KernelMmap \ {e} : F2[f] = V[f]
  <2>1. Aligned(v, L)
    <3>1. Aligned(v, j) /\ j \in AllLevels /\ L \in AllLevels
      BY <1>8, <1>10, SizesOfLevels
    <3> QED BY ONLY <3>1, <1>8, <1>10, AlignedBelow
  <2>2. v <= Whole(Pages(KernelMmap, e), L)
    BY <1>8, <1>12, <1>13, <1>15
  <2> QED BY ONLY <1>1, <1>8, <1>9, <1>16, <2>1, <2>2, L \in Levels, e \in DOMAIN KernelMmap, FrontAt
<1>18. PICK T, T2 : T = FreeBelow(KernelMmap, L, F) /\ T2 = FreeBelow(KernelMmap, L, F2)
  OBVIOUS
<1>19. T = T2 \cup {<<e, v, k>>}
  <2>1. \A f \in DOMAIN KernelMmap \ {e} : F[f] = F2[f]
    BY <1>9, <1>17 DEF FrontIs, Begins
  <2>2. F \in [DOMAIN KernelMmap -> Nat]
    BY <1>9 DEF Begins
  <2>3. Aligned(F2[e], k + 1) /\ F2[e] + BlockPages[k] <= Whole(Pages(KernelMmap, e), L)
        /\ F[e] = F2[e] + BlockPages[k]
    BY <1>8, <1>9, <1>11, <1>12, <1>13, <1>15, <1>17
  <2>4. FreeBelow(KernelMmap, L, F) = FreeBelow(KernelMmap, L, F2) \cup {<<e, F2[e], k>>}
    BY ONLY <1>1, <1>9, <1>17, <2>1, <2>2, <2>3, L \in Levels, e \in DOMAIN KernelMmap, FreeBelowAdded
  <2> QED BY <1>17, <1>18, <2>4
<1>20. SoundMerge(left, right) /\ Merge(left, right)
  BY <1>1, <1>7, MergesSoundUniform DEF MergesAreSound
<1>21. left \in Slots(KernelMmap) /\ right \in Slots(KernelMmap)
  BY <1>8 DEF FreeNodes, TypeOK
<1>22. /\ FreeNodes' = FreeNodes \ {right}
       /\ mem'[left].Level = k + 1
       /\ \A a \in FreeNodes' \ {left} : mem'[a].Level = mem[a].Level
  BY <1>1, <1>3, <1>20, <1>21, MergedNodes
<1>36. Sides(KernelMmap, L, F, F2, e, k, j, v, w)
  <2>1. w < Whole(Pages(KernelMmap, e), L)
    BY <1>12, <1>13, <1>15
  <2>2. Aligned(v, j)
    BY <1>8, <1>10
  <2> QED BY <1>8, <1>9, <1>10, <1>17, <1>18, <1>19, <2>1, <2>2 DEF Sides
<1>23. Vacant' = FreeBelow(KernelMmap, L, F2) \cup {<<e, v, j>>}
  <2>1. Vacant = FreeBelow(KernelMmap, L, F) \cup {<<e, w, k>>}
    BY <1>9
  <2>2. Joined(Node(KernelMmap, e, v), Node(KernelMmap, e, w), j)
    BY <1>6, <1>8, <1>10, <1>22 DEF Joined
  <2>3. UNCHANGED KernelMmap
    BY <1>1
  <2>4. v \in Nat
    BY <1>8
  <2> QED BY ONLY TypeOK, TypeOK', <1>36, <2>1, <2>2, <2>3, <2>4, L \in Levels,
                  e \in DOMAIN KernelMmap, w \in Nat, MergedVacant
<1>24. PICK y : y = mem[right].PosNext
  OBVIOUS
<1>25. /\ y = Null \/ (h < n /\ y = Node(KernelMmap, e, h))
       /\ h < n /\ end = h => y = Node(KernelMmap, e, h)
  BY <1>5, <1>7, <1>12, <1>13, <1>14, <1>24 DEF NextRight
<1>26. y # left /\ y # right
  <2>1. CASE y = Null
    BY <1>8, <2>1
  <2>2. CASE h < n /\ y = Node(KernelMmap, e, h)
    <3>1. h < Pages(KernelMmap, e) /\ v < Pages(KernelMmap, e) /\ w < Pages(KernelMmap, e) /\ h # v /\ h # w
      BY <1>8, <1>12, <1>15, <2>2
    <3>2. Node(KernelMmap, e, h) # Node(KernelMmap, e, v)
      BY ONLY <1>1, <1>8, <3>1, h \in Nat, e \in DOMAIN KernelMmap, NodesApart
    <3>3. Node(KernelMmap, e, h) # Node(KernelMmap, e, w)
      BY ONLY <1>1, <3>1, h \in Nat, w \in Nat, e \in DOMAIN KernelMmap, NodesApart
    <3> QED BY <1>6, <2>2, <3>2, <3>3
  <2> QED BY <1>25, <2>1, <2>2
<1>27. PICK x : x = mem[left].PosPrevious
  OBVIOUS
<1>28. x # right
  <2>1. <<e, v, k>> \in Vacant
    BY <1>8, <1>9
  <2>2. PrecededBy(KernelMmap, Vacant, e, v, x)
    BY <1>5, <1>6, <1>8, <1>9, <1>27, <2>1, PlacedOne
  <2>3. PICK S : S = Vacant
    OBVIOUS
  <2>4. FreeBelow(KernelMmap, L, F2) \subseteq S /\ PrecededBy(KernelMmap, S, e, v, x)
    BY <1>9, <1>18, <1>19, <2>2, <2>3
  <2>5. v = F2[e] /\ v < Pages(KernelMmap, e) /\ v < w /\ w < Pages(KernelMmap, e)
    BY <1>8, <1>12, <1>15, <1>17
  <2>6. x # Node(KernelMmap, e, w)
    BY ONLY <1>1, <1>8, <1>17, <2>4, <2>5, L \in Levels, e \in DOMAIN KernelMmap, w \in Nat, NotBefore
  <2> QED BY <1>6, <2>6
<1>29. PICK P1, N1, P2, N2 :
         /\ Unlinked(KernelMmap, right, Previous(mem), Following(mem), P1, N1)
         /\ P1[left] = x /\ N1[left] = y
         /\ Unlinked(KernelMmap, left, P1, N1, P2, N2)
         /\ Linked(KernelMmap, left, x, y, P2, N2, Previous(mem'), Following(mem'))
  <2>1. mem[right].PosPrevious = left
    BY <1>7
  <2> QED BY <1>8, <1>20, <1>21, <1>24, <1>26, <1>27, <1>28, <2>1, MergedLinks
<1>30. Placed(KernelMmap, FreeBelow(KernelMmap, L, F2) \cup {<<e, v, j>>}, Previous(mem'), Following(mem'))
  <2>1. PICK P, N, P3, N3 : P = Previous(mem) /\ N = Following(mem)
                            /\ P3 = Previous(mem') /\ N3 = Following(mem')
    OBVIOUS
  <2>2. Placed(KernelMmap, FreeBelow(KernelMmap, L, F) \cup {<<e, w, k>>}, P, N)
    BY <1>5, <1>9, <2>1 DEF PositionsRight
  <2>3. y = N[right]
    BY <1>8, <1>24, <2>1 DEF Following, FreeNodes
  <2>4. Rejoined(KernelMmap, Node(KernelMmap, e, v), Node(KernelMmap, e, w), x, y, P, N, P3, N3)
    BY <1>6, <1>29, <2>1, <2>3 DEF Rejoined
  <2>5. EndIs(KernelMmap, L, e, w + BlockPages[k], y)
    BY <1>9, <1>12, <1>13, <1>14, <1>25 DEF EndIs
  <2>6. v \in Nat
    BY <1>8
  <2>7. Placed(KernelMmap, FreeBelow(KernelMmap, L, F2) \cup {<<e, v, j>>}, P3, N3)
    BY ONLY <1>1, <1>36, <2>2, <2>4, <2>5, <2>6, L \in Levels, w \in Nat,
            e \in DOMAIN KernelMmap, MergedPlaces
  <2> QED BY <2>1, <2>7
<1>31. PositionsRight'
  BY <1>1, <1>23, <1>30 DEF PositionsRight
<1>32. call'.op = "merge" /\ call'.node = left /\ call'.level = j
  <2>1. call \in [op : {"merge"}, node : Slots(KernelMmap), level : Levels]
    BY <1>1, CallTypes DEF TypeOK
  <2> QED BY <1>3, <1>10, <1>20, <2>1 DEF Merge
<1>33. ExtraRight(L, V, e, v, call.node, call.level)'
  <2>1. F2 = [V EXCEPT ![e] = v]
    BY <1>16 DEF FrontIs
  <2>2. Aligned(v, j) /\ V[e] = v + BlockPages[j]
    BY <1>8, <1>10, <1>11, <1>14, <1>15
  <2> QED BY <1>1, <1>6, <1>9, <1>10, <1>18, <1>23, <1>32, <2>1, <2>2 DEF ExtraRight
<1>34. NextRight(L, V, e)'
  <2>1. mem'[left].PosNext = y
    <3>1. Following(mem')[left] = y
      BY <1>29 DEF Linked
    <3>2. left \in DOMAIN mem'
      BY <1>1, <1>21 DEF TypeOK
    <3> QED BY <3>1, <3>2 DEF Following
  <2>2. ASSUME h < n, end = h
        PROVE  y = Node(KernelMmap, e, h) /\ mem'[Node(KernelMmap, e, h)].PosPrevious = left
    <3>1. y = Node(KernelMmap, e, h)
      BY <1>25, <2>2
    <3>2. y \in Slots(KernelMmap)
      BY <1>1, <1>12, <2>2, <3>1, NodeIsSlot
    <3>3. Previous(mem')[y] = left
      BY <1>26, <1>29, <3>2 DEF Linked
    <3>4. mem'[y].PosPrevious = left
      BY <1>1, <3>2, <3>3 DEF Previous, TypeOK
    <3> QED BY <3>1, <3>4
  <2> QED BY <1>1, <1>12, <1>13, <1>14, <1>25, <1>32, <2>1, <2>2 DEF NextRight
<1>35. CallRight(L, V)'
  <2>1. v \in 0 .. V[e]
    BY <1>8, <1>11, <1>14, <1>15
  <2> QED BY <1>1, <1>32, <1>33, <1>34, <2>1 DEF CallRight
<1> QED BY <1>1, <1>3, <1>5, <1>31, <1>35 DEF UniformInv, UniformWith

LEMMA MergeDoneUniform ==
  TypeOK /\ HeapInv /\ UniformInv /\ NoBridges /\ MergeDone => UniformInv'
<1> SUFFICES ASSUME TypeOK, HeapInv, UniformInv, NoBridges, MergeDone
             PROVE  UniformInv'
  OBVIOUS
<1>1. /\ KernelMmap \in MemoryMaps /\ KernelMmap' = KernelMmap /\ mem' = mem /\ live' = live
      /\ call.op = "merge" /\ (call.level = MaxLevel \/ ~MatchesPrevious) /\ call' = Idle
  BY DEF TypeOK, MergeDone
<1>2a. PICK L \in Levels : \E H, E : \E e \in DOMAIN KernelMmap : \E w \in Nat : \E F :
         /\ History(KernelMmap, L, H, E, live) /\ PositionsRight
         /\ call.node = Node(KernelMmap, e, w)
         /\ Extra(L, H[Len(live)], F, e, w, call.level)
         /\ NextRight(L, H[Len(live)], e)
  BY <1>1, MergeCall
<1>2. PICK H, E : \E e \in DOMAIN KernelMmap : \E w \in Nat : \E F :
         /\ History(KernelMmap, L, H, E, live) /\ PositionsRight
         /\ call.node = Node(KernelMmap, e, w)
         /\ Extra(L, H[Len(live)], F, e, w, call.level)
         /\ NextRight(L, H[Len(live)], e)
  BY <1>2a
<1>3. PICK V, k : V = H[Len(live)] /\ k = call.level
  OBVIOUS
<1>4. PICK e \in DOMAIN KernelMmap : \E w \in Nat : \E F :
         /\ History(KernelMmap, L, H, E, live) /\ PositionsRight
         /\ call.node = Node(KernelMmap, e, w) /\ Extra(L, V, F, e, w, k)
  BY <1>2, <1>3
<1>5a. PICK w \in Nat : \E F :
         /\ History(KernelMmap, L, H, E, live) /\ PositionsRight
         /\ call.node = Node(KernelMmap, e, w) /\ Extra(L, V, F, e, w, k)
  BY <1>4
<1>5. PICK F :
         /\ History(KernelMmap, L, H, E, live) /\ PositionsRight
         /\ call.node = Node(KernelMmap, e, w) /\ Extra(L, V, F, e, w, k)
  BY <1>5a
<1>6. /\ k \in Levels /\ L <= k /\ V[e] = w + BlockPages[k] /\ Aligned(w, k)
      /\ Begins(KernelMmap, L, V) /\ FrontIs(F, V, e, w)
      /\ w + BlockPages[k] <= Pages(KernelMmap, e)
      /\ Vacant = FreeBelow(KernelMmap, L, F) \cup {<<e, w, k>>}
  BY <1>5 DEF Extra
<1>7. Aligned(w, k + 1)
  <2>1. CASE ~MatchesPrevious
    BY <1>3, <1>5, <2>1, PreviousMatches
  <2>2. CASE k = MaxLevel
    <3>1. PICK b \in Nat \ {0} : b = BlockPages[k] /\ BlockPages[MaxLevel + 1] = 2 * b
      BY <1>6, <2>2, SizesOfLevels
    <3>2. PICK n \in Nat : n = Pages(KernelMmap, e) /\ n < 2 * b
      BY <1>1, <3>1, EntryPages
    <3>3. w < b
      BY <1>6, <3>1, <3>2
    <3>4. w # 0 => b <= w
      BY <1>6, <3>1, LowestBitBelow
    <3>5. w = 0
      BY <3>1, <3>3, <3>4
    <3> QED BY <1>6, <3>5, AlignedZero, SizesOfLevels
  <2> QED BY <1>1, <1>3, <2>1, <2>2
<1>8. Vacant = FreeBelow(KernelMmap, L, V)
  <2>1. PICK G : FrontIs(G, V, e, w + BlockPages[k])
    BY DEF FrontIs
  <2>2. w + BlockPages[k] <= V[e] /\ w + BlockPages[k] = V[e]
    <3>1. PICK a \in Nat : a = V[e]
      BY <1>6 DEF Begins
    <3> QED BY <1>6, <3>1
  <2>3. /\ Begins(KernelMmap, L, F) /\ F[e] = w
        /\ Begins(KernelMmap, L, G) /\ G[e] = w + BlockPages[k]
        /\ FreeBelow(KernelMmap, L, G) = FreeBelow(KernelMmap, L, F) \cup {<<e, w, k>>}
        /\ w + BlockPages[k] = V[e] => G = V
    BY ONLY <1>1, <1>6, <1>7, <2>1, <2>2, L \in Levels, e \in DOMAIN KernelMmap, w \in Nat, FrontsApart
  <2> QED BY <1>6, <2>2, <2>3
<1>9. Vacant' = Vacant /\ PositionsRight'
  BY <1>1, <1>5, PositionsSame
<1>10. CallRight(L, V)'
  BY <1>1, <1>8, <1>9 DEF CallRight, Idle
<1> QED BY <1>1, <1>3, <1>5, <1>9, <1>10 DEF UniformInv, UniformWith

(***************************************************************************)
(* Every step of SpecUniform keeps the invariant.                          *)
(***************************************************************************)
LEMMA UniformStutter ==
  ASSUME UniformInv, UNCHANGED vars
  PROVE  UniformInv'
<1>1. UNCHANGED KernelMmap /\ UNCHANGED Nodes /\ UNCHANGED mem /\ UNCHANGED call /\ UNCHANGED live
  BY DEF vars
<1>2. CASE call.op \in {"wild", "false"}
  BY <1>1, <1>2 DEF UniformInv
<1>3. CASE call.op \notin {"wild", "false"}
  <2>1a. PICK L \in Levels : \E H, E : UniformWith(L, H, E)
    BY <1>3 DEF UniformInv
  <2>1. PICK H, E : UniformWith(L, H, E)
    BY <2>1a
  <2>2. Vacant' = Vacant /\ PositionsRight'
    BY <1>1, <2>1, PositionsSame DEF UniformWith
  <2>3. PICK V : V = H[Len(live)]
    OBVIOUS
  <2>4. History(KernelMmap, L, H, E, live)'
    BY <1>1, <2>1 DEF UniformWith
  <2>5. CarveRight => CarveRight'
    BY <1>1, <2>2 DEF CarveRight, CarvedTo
  <2>6. ASSUME NEW e, NEW p
        PROVE  /\ DivideRight(L, V, e, p) => DivideRight(L, V, e, p)'
               /\ ExtraRight(L, V, e, p, Nodes[L], L) => ExtraRight(L, V, e, p, Nodes[L], L)'
               /\ ExtraRight(L, V, e, p, call.node, call.level)
                    => ExtraRight(L, V, e, p, call.node, call.level)'
    BY <1>1, <2>2 DEF DivideRight, ExtraRight
  <2>7. ASSUME NEW e
        PROVE  NextRight(L, V, e) => NextRight(L, V, e)'
    BY <1>1 DEF NextRight
  <2>8. CallRight(L, V)
    BY <2>1, <2>3 DEF UniformWith
  <2>9. CallRight(L, V)'
    <3>1. CASE call.op = "carve"
      BY <1>1, <2>5, <2>8, <3>1 DEF CallRight
    <3>2. CASE call.op \in {"divide", "divideLast"}
      BY <1>1, <2>6, <2>8, <3>2 DEF CallRight
    <3>3. CASE call.op = "pop"
      BY <1>1, <2>6, <2>8, <3>3 DEF CallRight
    <3>4. CASE call.op = "merge"
      BY <1>1, <2>6, <2>7, <2>8, <3>4 DEF CallRight
    <3>5. CASE call.op \in {"idle", "null"}
      BY <1>1, <2>2, <2>8, <3>5 DEF CallRight
    <3>6. CASE call.op \notin {"carve", "divide", "divideLast", "pop", "merge", "idle", "null"}
      BY <1>1, <3>6 DEF CallRight
    <3> QED BY <3>1, <3>2, <3>3, <3>4, <3>5, <3>6
  <2>10. V = H[Len(live)]'
    BY <1>1, <2>3
  <2> QED BY <2>1, <2>2, <2>4, <2>9, <2>10 DEF UniformInv, UniformWith
<1> QED BY <1>2, <1>3

LEMMA UniformIsNext ==
  ASSUME TypeOK, [NextUniform]_vars
  PROVE  [Next]_vars
<1>1. CASE live # <<>> /\ Free(Len(live))
  <2>1. Len(live) \in DOMAIN live
    BY <1>1 DEF TypeOK
  <2> QED BY <1>1, <2>1 DEF Next
<1>2. CASE NextUniform /\ ~(live # <<>> /\ Free(Len(live)))
  BY <1>2 DEF NextUniform, Next, Allocate
<1> QED BY <1>1, <1>2

LEMMA UniformNext ==
  ASSUME TypeOK, TypeOK', HeapInv, UniformInv, NoBridges, [NextUniform]_vars
  PROVE  UniformInv'
<1>1. CASE Carve
  BY <1>1, CarveBlockUniform, CarveNextUniform, CarveDoneUniform DEF Carve
<1>2. CASE \E size \in Sizes : SameLevel(size) /\ (AllocatePop(size) \/ AllocateDivide(size))
  BY <1>2, AllocatePopUniform, AllocateDivideUniform
<1>3. CASE DividePush \/ DivideLast \/ DividePop
  BY <1>3, DividePushUniform, DivideLastUniform, DividePopUniform
<1>4. CASE NullSeen
  BY <1>4, SameUniform DEF NullSeen, Idle
<1>5. CASE live # <<>> /\ Free(Len(live))
  BY <1>5, FreeRefusedUniform, FreeBlockUniform DEF Free
<1>6. CASE MergeBlock
  <2>1. CASE MergePrevious
    BY <2>1, MergePreviousUniform
  <2>2. CASE MergeNext
    BY <2>2, NextNeverMatches DEF MergeNext
  <2>3. CASE MergeDone
    BY <2>3, MergeDoneUniform
  <2> QED BY <1>6, <2>1, <2>2, <2>3 DEF MergeBlock
<1>7. CASE UNCHANGED vars
  BY <1>7, UniformStutter
<1> QED BY <1>1, <1>2, <1>3, <1>4, <1>5, <1>6, <1>7 DEF NextUniform

LEMMA MapKept ==
  ASSUME [Next]_vars
  PROVE  KernelMmap' = KernelMmap
BY DEF Next, Carve, CarveBlock, CarveNextEntry, CarveDone, Allocate, AllocatePop,
       AllocateDivide, DividePush, DivideLast, DividePop, NullSeen, Free, FreeRefused,
       FreeBlock, MergeBlock, MergePrevious, MergeNext, MergeDone, FalseSeen, vars

\* The caller gives up when Free() reports a failure.
LEMMA NeverSeenFalse ==
  ASSUME [NextUniform]_vars, TypeOK
  PROVE  Given' => ~FalseSeen /\ Given
<1>1. NextUniform => call.op \notin {"wild", "false"}
  <2>1. Carve => call.op = "carve"
    BY DEF Carve, CarveBlock, CarveNextEntry, CarveDone
  <2>2. \A size : AllocatePop(size) => call = Idle
    BY DEF AllocatePop
  <2>3. \A size : AllocateDivide(size) => call = Idle
    BY DEF AllocateDivide
  <2>4. /\ DividePush => call.op = "divide"
        /\ DivideLast => call.op = "divideLast"
        /\ DividePop => call.op = "pop"
        /\ NullSeen => call.op = "null"
    BY DEF DividePush, DivideLast, DividePop, NullSeen
  <2>5. \A i : Free(i) => call = Idle
    BY DEF Free, FreeRefused, FreeBlock
  <2>6. MergeBlock => call.op = "merge"
    BY DEF MergeBlock, MergePrevious, MergeNext, MergeDone
  <2> QED BY <2>1, <2>2, <2>3, <2>4, <2>5, <2>6 DEF NextUniform, Idle
<1>2. CASE NextUniform
  BY <1>1, <1>2 DEF Given, FalseSeen
<1>3. CASE UNCHANGED vars
  BY <1>3 DEF Given, FalseSeen, Idle, vars
<1> QED BY <1>2, <1>3

UniformSafe == TypeOK /\ HeapInv /\ UniformInv /\ NoBridges /\ Covered

LEMMA UniformSafeInit == Init /\ NoBridges => UniformSafe
BY InitTypeOK, HeapInit, UniformInit, CoveredInit DEF UniformSafe

LEMMA UniformSafeNext ==
  ASSUME UniformSafe, [NextUniform]_vars
  PROVE  UniformSafe' /\ [Next]_vars /\ MergesAreSound
<1>1. TypeOK /\ HeapInv /\ UniformInv /\ NoBridges /\ Covered
  BY DEF UniformSafe
<1>2. [Next]_vars /\ MergesAreSound
  BY <1>1, UniformIsNext, MergesSoundUniform
<1>3. TypeOK' /\ HeapInv'
  BY <1>1, <1>2, NextTypeOK, NextInv
<1>4. UniformInv'
  BY <1>1, <1>3, UniformNext
<1>5. NoBridges'
  BY <1>1, <1>2, MapKept DEF NoBridges
<1>6. Covered'
  <2>1. CASE Given'
    <3>1. ~FalseSeen
      BY <1>1, <2>1, NeverSeenFalse
    <3>2. [Next /\ ~FalseSeen]_vars
      BY <1>2, <3>1
    <3> QED BY <1>1, <1>2, <3>2, CoveredNext
  <2>2. CASE ~Given'
    BY <2>2 DEF Covered
  <2> QED BY <2>1, <2>2
<1> QED BY <1>2, <1>3, <1>4, <1>5, <1>6 DEF UniformSafe

LEMMA UniformSafety ==
  SpecUniform /\ NoBridges => []UniformSafe /\ [][Next]_vars
<1>1. Init /\ NoBridges => UniformSafe
  BY UniformSafeInit
<1>2. UniformSafe /\ [NextUniform]_vars => UniformSafe' /\ [Next]_vars
  BY UniformSafeNext
<1> QED BY <1>1, <1>2, PTL DEF SpecUniform

\* Clients that hold blocks of one level at a time, free the newest first and give up
\* when Free() fails: whatever MergeBlock() (Mm.c:488-646) is about to merge are two
\* buddies of one size, although it tells the size of a neighbour by its distance.
THEOREM UniformMergesAreSound == SpecUniform /\ NoBridges => []MergesAreSound
<1>1. UniformSafe => MergesAreSound
  BY MergesSoundUniform DEF UniformSafe
<1> QED BY <1>1, UniformSafety, PTL

\* For these clients the lists, the nodes and the blocks in use agree at every step of
\* Allocate(), DivideBlock(), FreeBlock() and MergeBlock(), without a condition on merges.
THEOREM UniformInvariant == SpecUniform /\ NoBridges => []HeapInv
<1>1. UniformSafe => HeapInv
  BY DEF UniformSafe
<1> QED BY <1>1, UniformSafety, PTL

\* For these clients every page is between two calls in just one free block or one
\* block in use: what DivideBlock() splits and MergeBlock() joins is neither lost nor doubled.
THEOREM UniformPagesKept == SpecUniform /\ NoBridges => []EveryPageHasOneOwner
<1>1. UniformSafe => EveryPageHasOneOwner
  BY CoveredIsExact DEF UniformSafe
<1> QED BY <1>1, UniformSafety, PTL

\* For these clients Allocate() (Mm.c:653-721) returns NULL only if no free block is
\* large enough.
THEOREM UniformNullMeansExhausted == SpecUniform /\ NoBridges => []NullOnlyWhenExhausted
<1>1. UniformSafe => NullOnlyWhenExhausted
  BY DEF UniformSafe, HeapInv
<1> QED BY <1>1, UniformSafety, PTL

\* For these clients every step of Mm.c is a step of the abstract heap, or leaves what
\* is in use alone.
THEOREM UniformImplementsHeap == SpecUniform /\ NoBridges => ImplementsHeap
<1>1. Init => Promise!HeapInit
  BY InitRefines
<1>2. UniformSafe /\ UniformSafe' /\ [Next]_vars => [Promise!HeapNext]_<<Memory, live>>
  BY NextRefines DEF UniformSafe
<1>3. SpecUniform => Init
  BY PTL DEF SpecUniform
<1> QED BY <1>1, <1>2, <1>3, UniformSafety, PTL
        DEF ImplementsHeap, Promise!HeapSpec, Promise!heapVars

(***************************************************************************)
(* When nothing is in use, what is free is what the entries were carved    *)
(* into.                                                                   *)
(***************************************************************************)
LEMMA CarveOffset ==
  ASSUME NEW n \in Nat, NEW l \in Levels, NEW p, NEW o, o = (n \div BlockPages[l + 1]) * BlockPages[l + 1]
  PROVE  /\ o \in Nat
         /\ p \in Nat /\ Digit(n, p, l) <=> p = o /\ n - o >= BlockPages[l]
<1>1. PICK j \in AllLevels : j = l + 1
  BY SizesOfLevels
<1>2. PICK b \in Nat \ {0}, c \in Nat \ {0} : b = BlockPages[l] /\ c = BlockPages[j]
  BY SizesOfLevels
<1>3. PICK q \in Nat : q = n \div c /\ q * c <= n /\ n < q * c + c
  <2>1. n \div c \in Nat /\ n % c \in 0 .. c - 1 /\ n = (c * (n \div c)) + (n % c)
    BY <1>2
  <2>2. PICK q \in Nat : q = n \div c
    BY <2>1
  <2>3. PICK r \in Nat : r = n % c /\ r < c
    BY <1>2, <2>1
  <2>4. n = (c * q) + r
    BY <2>1, <2>2, <2>3
  <2>5. c * q = q * c
    BY <1>2, <2>2
  <2>6. q * c \in Nat
    BY <1>2, <2>2
  <2>7. q * c <= n /\ n < q * c + c
    BY <1>2, <2>3, <2>4, <2>5, <2>6
  <2> QED BY <2>2, <2>7
<1>4. o = q * c /\ o \in Nat
  BY <1>1, <1>2, <1>3
<1>5. Aligned(o, j)
  BY <1>2, <1>4, AlignedIs
<1>6. o <= n /\ n < o + c
  BY <1>3, <1>4
<1>7. ASSUME p \in Nat, Digit(n, p, l)
      PROVE  p = o /\ n - o >= b
  <2>1. Aligned(p, j) /\ p + b <= n /\ n < p + c
    BY <1>1, <1>2, <1>7 DEF Digit
  <2>2. ~(p < o)
    <3>1. p < o => p + BlockPages[j] <= o
      BY <1>4, <1>5, <1>7, <2>1, AlignedGap
    <3> QED BY <1>2, <1>4, <1>6, <1>7, <2>1, <3>1
  <2>3. ~(o < p)
    <3>1. o < p => o + BlockPages[j] <= p
      BY <1>4, <1>5, <1>7, <2>1, AlignedGap
    <3> QED BY <1>2, <1>4, <1>6, <1>7, <2>1, <3>1
  <2> QED BY <1>2, <1>4, <1>7, <2>1, <2>2, <2>3
<1>8. ASSUME n - o >= b
      PROVE  Digit(n, o, l)
  <2>1. o + b <= n
    BY <1>2, <1>4, <1>8
  <2> QED BY <1>1, <1>2, <1>5, <1>6, <2>1 DEF Digit
<1> QED BY <1>2, <1>4, <1>7, <1>8

LEMMA RestoredIs ==
  ASSUME TypeOK, HeapInv, UniformInv, call = Idle, live = <<>>
  PROVE  {<<mem[a].Pointer, mem[a].Level>> : a \in FreeNodes} = CarvedBlocks
<1>1. KernelMmap \in MemoryMaps
  BY DEF TypeOK
<1>2a. PICK L \in Levels : \E H, E :
        /\ History(KernelMmap, L, H, E, live)
        /\ Vacant = FreeBelow(KernelMmap, L, H[Len(live)])
  BY UniformIdle DEF Idle
<1>2. PICK H, E :
        /\ History(KernelMmap, L, H, E, live)
        /\ Vacant = FreeBelow(KernelMmap, L, H[Len(live)])
  BY <1>2a
<1>3. Len(live) = 0
  OBVIOUS
<1>4. PICK V : V = [e \in DOMAIN KernelMmap |-> Whole(Pages(KernelMmap, e), L)] /\ V = H[0]
  BY <1>2 DEF History
<1>5. Vacant = FreeBelow(KernelMmap, L, V)
  BY <1>2, <1>3, <1>4
<1>6. ASSUME NEW e \in DOMAIN KernelMmap, NEW p \in Nat, NEW l \in Levels
      PROVE  <<e, p, l>> \in Vacant <=> Digit(Pages(KernelMmap, e), p, l)
  BY <1>1, <1>4, <1>5, NothingInUse
<1> DEFINE Offset(pages, l) == (pages \div BlockPages[l + 1]) * BlockPages[l + 1]
           Bits(pages) == {l \in Levels : pages - Offset(pages, l) >= BlockPages[l]}
           Carved(e) == {<<PagePointer(KernelMmap[e], Offset(DataPages(KernelMmap[e]), l)), l>> :
                           l \in Bits(DataPages(KernelMmap[e]))}
           Free0 == {<<mem[a].Pointer, mem[a].Level>> : a \in FreeNodes}
<1>7. CarvedBlocks = UNION {Carved(e) : e \in DOMAIN KernelMmap}
  BY DEF CarvedBlocks
<1>8. ASSUME NEW e \in DOMAIN KernelMmap, NEW l \in Levels, NEW p
      PROVE  /\ Offset(Pages(KernelMmap, e), l) \in Nat
             /\ p \in Nat /\ Digit(Pages(KernelMmap, e), p, l)
                  <=> p = Offset(Pages(KernelMmap, e), l) /\ l \in Bits(Pages(KernelMmap, e))
  <2>1. PICK n \in Nat : n = Pages(KernelMmap, e)
    BY <1>1, EntryPages
  <2>2. PICK o : o = (n \div BlockPages[l + 1]) * BlockPages[l + 1]
    OBVIOUS
  <2>3. /\ o \in Nat
        /\ p \in Nat /\ Digit(n, p, l) <=> p = o /\ n - o >= BlockPages[l]
    BY ONLY n \in Nat, l \in Levels, <2>2, CarveOffset
  <2> QED BY <2>1, <2>2, <2>3
<1> HIDE DEF Offset, Bits
<1>9. ASSUME NEW a \in FreeNodes
      PROVE  <<mem[a].Pointer, mem[a].Level>> \in CarvedBlocks
  <2>1. PICK l \in Levels : l = mem[a].Level
    BY VacantNode
  <2>2. PICK e \in DOMAIN KernelMmap : \E p \in Nat :
          mem[a].Pointer = PagePointer(KernelMmap[e], p) /\ <<e, p, l>> \in Vacant
    BY <2>1, VacantNode
  <2>3. PICK p \in Nat : mem[a].Pointer = PagePointer(KernelMmap[e], p) /\ <<e, p, l>> \in Vacant
    BY <2>2
  <2>4. Digit(Pages(KernelMmap, e), p, l)
    BY <1>6, <2>3
  <2>5. p = Offset(DataPages(KernelMmap[e]), l) /\ l \in Bits(DataPages(KernelMmap[e]))
    BY <1>8, <2>4 DEF Pages
  <2>6. <<mem[a].Pointer, mem[a].Level>> \in Carved(e)
    BY <2>1, <2>3, <2>5
  <2> QED BY <1>7, <2>6
<1>10. ASSUME NEW e \in DOMAIN KernelMmap, NEW l \in Bits(DataPages(KernelMmap[e]))
       PROVE  <<PagePointer(KernelMmap[e], Offset(DataPages(KernelMmap[e]), l)), l>> \in Free0
  <2>1. l \in Levels
    BY DEF Bits
  <2>2. PICK p : p = Offset(DataPages(KernelMmap[e]), l)
    OBVIOUS
  <2>3. p \in Nat /\ Digit(Pages(KernelMmap, e), p, l)
    BY <1>8, <2>1, <2>2 DEF Pages
  <2>4. <<e, p, l>> \in Vacant
    BY <1>6, <2>1, <2>3
  <2>5. PICK a : a = Node(KernelMmap, e, p)
    OBVIOUS
  <2>6. p < Pages(KernelMmap, e) /\ a \in FreeNodes /\ mem[a].Level = l
    BY <2>1, <2>3, <2>4, <2>5, VacantIs
  <2>7. mem[a].Pointer = PagePointer(KernelMmap[e], p)
    BY <2>3, <2>5, <2>6, PageOfNode
  <2> QED BY <2>2, <2>6, <2>7
<1> QED BY <1>7, <1>9, <1>10

\* For these clients, when everything has been freed, FreeBlock() and MergeBlock() have
\* brought back the very blocks that InitializeMemoryManagementSubsystem() carved.
THEOREM UniformHeapRestored == SpecUniform /\ NoBridges => []HeapRestored
<1>1. UniformSafe => HeapRestored
  BY RestoredIs DEF UniformSafe, HeapRestored
<1> QED BY <1>1, UniformSafety, PTL
=============================================================================
