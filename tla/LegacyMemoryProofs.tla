------------------------- MODULE LegacyMemoryProofs -------------------------
(***************************************************************************)
(* Proofs about the third stage's use of memory, for every list of the     *)
(* BIOS, every kernel and every frame buffer: the usable map is free       *)
(* memory, what is allocated from it is shared with nothing, all of it is  *)
(* mapped, and the kernel gets the rest.                                   *)
(***************************************************************************)
EXTENDS LegacyMemory, InductionLemmas, FiniteSetTheorems, FunctionTheorems, TLAPS

-----------------------------------------------------------------------------
(***************************************************************************)
(* Arithmetic: what rounding to a page or to a large page does.            *)
(***************************************************************************)
LEMMA Division ==
  ASSUME NEW n \in Nat, NEW b \in Nat \ {0}
  PROVE  /\ n \div b \in Nat
         /\ n % b \in 0 .. b - 1
         /\ n = (n \div b) * b + (n % b)
OBVIOUS

LEMMA Order ==
  ASSUME NEW m \in Nat, NEW n \in Nat, NEW b \in Nat \ {0}, m <= n
  PROVE  m \div b <= n \div b
OBVIOUS

LEMMA MultipleOf ==
  ASSUME NEW k \in Nat, NEW b \in Nat \ {0}
  PROVE  (k * b) % b = 0 /\ (k * b) \div b = k /\ k * b \in Nat
OBVIOUS

LEMMA Distributes ==
  ASSUME NEW k \in Int, NEW l \in Int, NEW b \in Int
  PROVE  (k + l) * b = k * b + l * b /\ (k - l) * b = k * b - l * b
OBVIOUS

LEMMA IsMultiple ==
  ASSUME NEW n \in Nat, NEW b \in Nat \ {0}, n % b = 0
  PROVE  \E k \in Nat : n = k * b
<1>1. n \div b \in Nat /\ n = (n \div b) * b + 0
  BY Division
<1>2. (n \div b) * b \in Nat
  BY <1>1, MultipleOf
<1> QED BY <1>1, <1>2

LEMMA MultiplesAdd ==
  ASSUME NEW m \in Nat, NEW n \in Nat, NEW b \in Nat \ {0}, m % b = 0, n % b = 0
  PROVE  /\ (m + n) % b = 0
         /\ m <= n => (n - m) % b = 0
<1>1. PICK k \in Nat : m = k * b
  BY IsMultiple
<1>2. PICK l \in Nat : n = l * b
  BY IsMultiple
<1>3. (m + n) % b = 0
  <2>1. m + n = (k + l) * b /\ k + l \in Nat
    BY <1>1, <1>2, Distributes
  <2>2. ((k + l) * b) % b = 0
    BY <2>1, MultipleOf
  <2> QED BY <2>1, <2>2
<1>4. ASSUME m <= n PROVE (n - m) % b = 0
  <2>1. n - m = (l - k) * b
    BY <1>1, <1>2, Distributes
  <2>2. k <= l
    <3>1. m \div b = k /\ n \div b = l
      BY <1>1, <1>2, MultipleOf
    <3> QED BY <1>4, <3>1, Order
  <2>3. l - k \in Nat
    BY <2>2
  <2> QED BY <2>1, <2>3, MultipleOf
<1> QED BY <1>3, <1>4

RoundUp(n, b) == IF n % b = 0 THEN n ELSE n + b - (n % b)

\* The least multiple that is not below n.
LEMMA RoundingUp ==
  ASSUME NEW n \in Nat, NEW b \in Nat \ {0}
  PROVE  /\ RoundUp(n, b) \in Nat
         /\ RoundUp(n, b) % b = 0
         /\ n <= RoundUp(n, b) /\ RoundUp(n, b) < n + b
         /\ \A m \in Nat : m % b = 0 /\ n <= m => RoundUp(n, b) <= m
<1> DEFINE q == n \div b
           r == n % b
           up == RoundUp(n, b)
<1>1. q \in Nat /\ r \in 0 .. b - 1 /\ n = q * b + r
  BY Division
<1>2. CASE r = 0
  BY <1>2 DEF RoundUp
<1>3. CASE r # 0
  <2>1. up = n + b - r
    BY <1>3 DEF RoundUp
  <2> HIDE DEF q, r, up
  <2>2. (q + 1) * b = q * b + b /\ q * b \in Nat
    BY <1>1, Distributes, MultipleOf
  <2>3. up = (q + 1) * b
    <3> DEFINE k == q * b
    <3>1. k \in Nat /\ n = k + r /\ (q + 1) * b = k + b
      BY <1>1, <2>2
    <3> HIDE DEF k
    <3> QED BY <1>1, <2>1, <3>1
  <2>4. up \in Nat /\ up % b = 0 /\ up \div b = q + 1
    BY <1>1, <2>3, MultipleOf
  <2>5. n <= up /\ up < n + b
    BY <1>1, <1>3, <2>1
  <2>6. ASSUME NEW m \in Nat, m % b = 0, n <= m PROVE up <= m
    <3>1. PICK k \in Nat : m = k * b
      BY <2>6, IsMultiple
    <3>2. m \div b = k
      BY <3>1, MultipleOf
    <3>3. q <= k
      BY <2>6, <3>2, Order DEF q
    <3>4. CASE k = q
      <4>1. m = q * b
        BY <3>1, <3>4
      <4> DEFINE l == q * b
      <4>2. l \in Nat /\ n = l + r /\ m = l
        BY <1>1, <2>2, <4>1
      <4> HIDE DEF l
      <4> QED BY <1>1, <1>3, <2>6, <4>2
    <3>5. CASE k >= q + 1
      <4>1. (k - (q + 1)) * b = k * b - (q + 1) * b
        BY <1>1, Distributes
      <4>2. (k - (q + 1)) * b \in Nat
        <5>1. k - (q + 1) \in Nat
          BY <1>1, <3>5
        <5> QED BY <5>1, MultipleOf
      <4>3. m - up \in Nat
        BY <2>3, <3>1, <4>1, <4>2
      <4> QED BY <2>4, <4>3
    <3> QED BY <1>1, <3>3, <3>4, <3>5
  <2> QED BY <2>4, <2>5, <2>6 DEF up
<1> QED BY <1>2, <1>3

\* The greatest multiple that is not above n, which has the same quotient.
LEMMA RoundingDown ==
  ASSUME NEW n \in Nat, NEW b \in Nat \ {0}
  PROVE  /\ n - (n % b) \in Nat
         /\ (n - (n % b)) % b = 0
         /\ n - (n % b) <= n /\ n < n - (n % b) + b
         /\ (n - (n % b)) \div b = n \div b
<1> DEFINE q == n \div b
           r == n % b
<1>1. q \in Nat /\ r \in 0 .. b - 1 /\ n = q * b + r
  BY Division
<1> HIDE DEF q, r
<1>2. q * b \in Nat /\ (q * b) % b = 0 /\ (q * b) \div b = q
  BY <1>1, MultipleOf
<1>3. n - r = q * b
  <2> DEFINE k == q * b
  <2>1. k \in Nat /\ n = k + r
    BY <1>1, <1>2
  <2> HIDE DEF k
  <2>2. n - r = k
    BY <1>1, <2>1
  <2> QED BY <2>2 DEF k
<1>4. n - r \in Nat /\ n - r <= n /\ n < n - r + b
  BY <1>1, <1>2, <1>3
<1> QED BY <1>2, <1>3, <1>4 DEF q, r

\* What is left of a multiple by a greater multiple.
LEMMA RestOfMultiple ==
  ASSUME NEW n \in Nat, NEW b \in Nat \ {0}, NEW c \in Nat \ {0}, n % b = 0, c % b = 0
  PROVE  n % c \in Nat /\ n % c < c /\ (n % c) % b = 0 /\ (n < c => n % c = n)
<1> DEFINE q == n \div c
<1>1. q \in Nat /\ n % c \in 0 .. c - 1 /\ n = q * c + (n % c)
  BY Division
<1>2. PICK k \in Nat : c = k * b
  BY IsMultiple
<1>3. q * c = (q * k) * b /\ q * k \in Nat
  <2> HIDE DEF q
  <2> QED BY <1>1, <1>2
<1>4. q * c \in Nat /\ (q * c) % b = 0
  BY <1>3, MultipleOf
<1> DEFINE m == q * c
           l == n % c
<1>5. m \in Nat /\ m % b = 0 /\ l \in 0 .. c - 1 /\ n = m + l
  BY <1>1, <1>4
<1> HIDE DEF m, l
<1>6. m <= n /\ n - m = l
  BY <1>5
<1>7. (n - m) % b = 0
  BY <1>5, <1>6, MultiplesAdd
<1>8. n < c => n % c = n
  OBVIOUS
<1> QED BY <1>5, <1>6, <1>7, <1>8 DEF l

\* A multiple that is greater is so by the whole divisor.
LEMMA NextMultiple ==
  ASSUME NEW m \in Nat, NEW n \in Nat, NEW b \in Nat \ {0}, m % b = 0, n % b = 0, m < n
  PROVE  m + b <= n
<1> DEFINE d == n - m
<1>1. d \in Nat \ {0} /\ d % b = 0
  <2>1. m <= n /\ n - m \in Nat \ {0}
    OBVIOUS
  <2>2. (n - m) % b = 0
    BY <2>1, MultiplesAdd
  <2> QED BY <2>1, <2>2
<1> HIDE DEF d
<1>2. ~(d < b)
  BY <1>1
<1> QED BY <1>1, <1>2 DEF d

LEMMA Sizes ==
  /\ PageSize \in Nat \ {0} /\ Fanout \in Nat \ {0} /\ LargePage \in Nat \ {0}
  /\ PageSize <= LargePage
  /\ Word \in Nat \ {0}
<1>1. PageSize \in Nat \ {0} /\ Fanout \in Nat \ {0} /\ Word \in Nat \ {0}
  BY SizesAssumption
<1> DEFINE f == Fanout
           p == PageSize
<1>2. f * p \in Nat /\ f * p >= p
  <2>1. f \in Nat /\ p \in Nat /\ f >= 1
    BY <1>1
  <2> HIDE DEF f, p
  <2>2. (f - 1) * p = f * p - 1 * p /\ 1 * p = p
    BY <2>1, Distributes
  <2>3. (f - 1) * p \in Nat /\ f * p \in Nat
    BY <2>1
  <2> QED BY <2>1, <2>2, <2>3
<1> QED BY <1>1, <1>2 DEF LargePage

LEMMA PageAlignment ==
  ASSUME NEW n \in Nat
  PROVE  /\ PageAlign(n) \in Nat
         /\ PageAlign(n) % PageSize = 0
         /\ n <= PageAlign(n) /\ PageAlign(n) < n + PageSize
         /\ \A m \in Nat : m % PageSize = 0 /\ n <= m => PageAlign(n) <= m
<1>1. PageAlign(n) = RoundUp(n, PageSize)
  BY DEF PageAlign, RoundUp
<1> QED BY <1>1, Sizes, RoundingUp

-----------------------------------------------------------------------------
(***************************************************************************)
(* A set of indexes has one where a function is the greatest, and so a     *)
(* greatest and a least index.                                             *)
(***************************************************************************)
LEMMA GreatestOf ==
  ASSUME NEW n \in Nat, NEW I \in SUBSET (1 .. n), I # {}, NEW f, \A i \in I : f[i] \in Int
  PROVE  \E i \in I : \A j \in I : f[j] <= f[i]
<1> DEFINE Below(m) == I \cap (1 .. m)
           Has(m) == Below(m) = {} \/ \E i \in Below(m) : \A j \in Below(m) : f[j] <= f[i]
           S == {m \in 0 .. n : Has(m)}
<1>1. 0 \in S
  <2>1. 1 .. 0 = {}
    OBVIOUS
  <2> QED BY <2>1
<1>2. ASSUME NEW m \in 0 .. n - 1, m \in S
      PROVE  m + 1 \in S
  <2>1. m + 1 \in 0 .. n /\ Has(m)
    BY <1>2
  <2>2. Below(m + 1) = Below(m) \cup (I \cap {m + 1})
    OBVIOUS
  <2>3. CASE m + 1 \notin I
    <3>1. Below(m + 1) = Below(m)
      BY <2>2, <2>3
    <3> QED BY <2>1, <3>1
  <2>4. CASE m + 1 \in I /\ Below(m) = {}
    <3>1. Below(m + 1) = {m + 1}
      BY <2>2, <2>4
    <3>2. f[m + 1] <= f[m + 1]
      BY <2>4
    <3> QED BY <2>1, <3>1, <3>2
  <2>5. CASE m + 1 \in I /\ Below(m) # {}
    <3>1. PICK i \in Below(m) : \A j \in Below(m) : f[j] <= f[i]
      BY <2>1, <2>5
    <3>2. Below(m + 1) = Below(m) \cup {m + 1}
      BY <2>2, <2>5
    <3>3. \A j \in Below(m + 1) : f[j] \in Int
      OBVIOUS
    <3> HIDE DEF Below
    <3>4. CASE f[m + 1] <= f[i]
      BY <2>1, <3>1, <3>2, <3>4
    <3>5. CASE f[i] <= f[m + 1]
      <4>1. \A j \in Below(m + 1) : f[j] <= f[m + 1]
        BY <3>1, <3>2, <3>3, <3>5
      <4> QED BY <2>1, <3>2, <4>1
    <3> QED BY <3>1, <3>2, <3>3, <3>4, <3>5
  <2> QED BY <2>3, <2>4, <2>5
<1> HIDE DEF Has, S
<1>3. 0 .. n \subseteq S
  BY <1>1, <1>2, BoundedInduction
<1>4. Has(n)
  BY <1>3 DEF S
<1>5. Below(n) = I
  OBVIOUS
<1> QED BY <1>4, <1>5 DEF Has

LEMMA GreatestIndex ==
  ASSUME NEW n \in Nat, NEW I \in SUBSET (1 .. n), I # {}
  PROVE  \E i \in I : \A j \in I : j <= i
<1> DEFINE f == [i \in I |-> i]
<1>1. \A i \in I : f[i] \in Int /\ f[i] = i
  OBVIOUS
<1> HIDE DEF f
<1>2. \E i \in I : \A j \in I : f[j] <= f[i]
  BY <1>1, GreatestOf
<1> QED BY <1>1, <1>2

LEMMA LeastIndex ==
  ASSUME NEW n \in Nat, NEW I \in SUBSET (1 .. n), I # {}
  PROVE  \E i \in I : \A j \in I : i <= j
<1> DEFINE f == [i \in I |-> 0 - i]
<1>1. \A i \in I : f[i] \in Int /\ f[i] = 0 - i
  OBVIOUS
<1> HIDE DEF f
<1>2. PICK i \in I : \A j \in I : f[j] <= f[i]
  BY <1>1, GreatestOf
<1>3. \A j \in I : i <= j
  BY <1>1, <1>2
<1> QED BY <1>3

-----------------------------------------------------------------------------
(***************************************************************************)
(* Sorting: the ranks are the positions, so that the sorted list has the   *)
(* same entries, and is in order.                                          *)
(***************************************************************************)
LEMMA EntryTypes ==
  ASSUME NEW entries \in Seq(MmapEntry), NEW i \in DOMAIN entries
  PROVE  /\ entries[i] \in MmapEntry
         /\ entries[i].Base \in 0 .. Word - 1 /\ entries[i].Limit \in 0 .. Word - 1
         /\ entries[i].Type \in Nat
         /\ EndOf(entries[i]) \in 0 .. Word - 1
         /\ entries[i].Type = Free =>
              /\ Physical(entries[i].Base, entries[i].Limit)
              /\ EndOf(entries[i]) = entries[i].Base + entries[i].Limit
              /\ EndOf(entries[i]) + LargePage < Word
<1>1. /\ entries[i] \in MmapEntry
      /\ entries[i].Base \in 0 .. Word - 1 /\ entries[i].Limit \in 0 .. Word - 1
      /\ entries[i].Type \in Nat
      /\ entries[i].Type = Free => Physical(entries[i].Base, entries[i].Limit)
  <2>1. entries[i] \in MmapEntry
    OBVIOUS
  <2> QED BY <2>1 DEF MmapEntry
<1>2. EndOf(entries[i]) \in 0 .. Word - 1
  <2> DEFINE n == entries[i].Base + entries[i].Limit
  <2>1. n \in Nat
    BY <1>1
  <2>2. EndOf(entries[i]) = n % Word
    BY DEF EndOf, Add
  <2> HIDE DEF n
  <2> QED BY <2>1, <2>2, Sizes, Division
<1>3. ASSUME Physical(entries[i].Base, entries[i].Limit)
      PROVE  /\ EndOf(entries[i]) = entries[i].Base + entries[i].Limit
             /\ EndOf(entries[i]) + LargePage < Word
  <2> DEFINE n == entries[i].Base + entries[i].Limit
  <2>1. n \in Nat /\ n + LargePage < Word
    BY <1>1, <1>3 DEF Physical
  <2>2. EndOf(entries[i]) = n % Word
    BY DEF EndOf, Add
  <2> HIDE DEF n
  <2>3. n % Word = n
    BY <2>1, Sizes
  <2>4. EndOf(entries[i]) = n /\ n + LargePage < Word
    BY <2>1, <2>2, <2>3
  <2> QED BY <2>4 DEF n
<1> QED BY <1>1, <1>2, <1>3

\* Each position is the rank of one entry, and a lower rank means no higher base.
LEMMA Ranks ==
  ASSUME NEW entries \in Seq(MmapEntry)
  PROVE  /\ \A i \in DOMAIN entries : Rank(entries, i) \in DOMAIN entries
         /\ \A i, j \in DOMAIN entries :
              Rank(entries, i) <= Rank(entries, j) => entries[i].Base <= entries[j].Base
         /\ \A i, j \in DOMAIN entries : Rank(entries, i) = Rank(entries, j) => i = j
         /\ \A r \in DOMAIN entries : \E i \in DOMAIN entries : Rank(entries, i) = r
<1> DEFINE n == Len(entries)
           Upto(i) == {j \in 1 .. n : \/ entries[j].Base < entries[i].Base
                                      \/ entries[j].Base = entries[i].Base /\ j <= i}
           R(i) == Rank(entries, i)
<1>1. n \in Nat /\ DOMAIN entries = 1 .. n
  OBVIOUS
<1>2. \A i \in 1 .. n : entries[i].Base \in Int
  BY <1>1, EntryTypes
<1>3. \A i : R(i) = Cardinality(Upto(i))
  BY <1>1 DEF Rank
<1> HIDE DEF n, R
<1>4. IsFiniteSet(1 .. n) /\ Cardinality(1 .. n) = n
  BY <1>1, FS_Interval
<1>5. \A i \in 1 .. n : IsFiniteSet(Upto(i)) /\ i \in Upto(i) /\ Upto(i) \subseteq 1 .. n
  <2> TAKE i \in 1 .. n
  <2>1. i \in Upto(i) /\ Upto(i) \subseteq 1 .. n
    BY <1>1, <1>2
  <2> HIDE DEF Upto
  <2> QED BY <1>4, <2>1, FS_Subset
<1>6. \A i \in 1 .. n : R(i) \in 1 .. n
  <2> TAKE i \in 1 .. n
  <2> HIDE DEF Upto
  <2>1. Cardinality(Upto(i)) \in Nat /\ Cardinality(Upto(i)) <= n
    BY <1>4, <1>5, FS_Subset, FS_CardinalityType
  <2>2. Cardinality(Upto(i)) # 0
    BY <1>5, FS_EmptySet
  <2> QED BY <1>1, <1>3, <2>1, <2>2
<1>7. ASSUME NEW i \in 1 .. n, NEW j \in 1 .. n, i # j,
             \/ entries[i].Base < entries[j].Base
             \/ entries[i].Base = entries[j].Base /\ i <= j
      PROVE  R(i) < R(j)
  <2>1. Upto(i) \subseteq Upto(j) /\ j \notin Upto(i)
    <3>1. j \notin Upto(i)
      BY <1>1, <1>2, <1>7
    <3>2. ASSUME NEW k \in Upto(i) PROVE k \in Upto(j)
      <4>1. k \in 1 .. n /\ k \in Int /\ i \in Int /\ j \in Int
        BY <1>1
      <4>2. entries[k].Base \in Int /\ entries[i].Base \in Int /\ entries[j].Base \in Int
        BY <1>2, <4>1
      <4> QED BY <1>7, <4>1, <4>2
    <3> QED BY <3>1, <3>2
  <2> HIDE DEF Upto
  <2>2. Upto(i) # Upto(j)
    BY <1>5, <2>1
  <2>3. Cardinality(Upto(i)) <= Cardinality(Upto(j))
        /\ Cardinality(Upto(i)) # Cardinality(Upto(j))
    BY <1>5, <2>1, <2>2, FS_Subset
  <2>4. R(i) = Cardinality(Upto(i)) /\ R(j) = Cardinality(Upto(j))
    BY <1>3
  <2>5. R(i) \in Int /\ R(j) \in Int
    BY <1>6
  <2> QED BY <2>3, <2>4, <2>5
<1>8. ASSUME NEW i \in 1 .. n, NEW j \in 1 .. n
      PROVE  /\ R(i) <= R(j) => entries[i].Base <= entries[j].Base
             /\ R(i) = R(j) => i = j
  <2>1. R(i) \in Int /\ R(j) \in Int /\ i \in Int /\ j \in Int
        /\ entries[i].Base \in Int /\ entries[j].Base \in Int
    BY <1>1, <1>2, <1>6
  <2>2. entries[j].Base < entries[i].Base => R(j) < R(i)
    BY <1>7, <2>1
  <2>3. i # j => R(i) < R(j) \/ R(j) < R(i)
    BY <1>7, <2>1
  <2> QED BY <2>1, <2>2, <2>3
<1>9. ASSUME NEW r \in 1 .. n PROVE \E i \in 1 .. n : R(i) = r
  <2> DEFINE f == [i \in 1 .. n |-> R(i)]
  <2>1. f \in [1 .. n -> 1 .. n] /\ \A i, j \in 1 .. n : f[i] = f[j] => i = j
    BY <1>6, <1>8
  <2>2. f \in Injection(1 .. n, 1 .. n)
    <3> HIDE DEF f
    <3> QED BY <2>1, Fun_IsInj
  <2>3. f \in Surjection(1 .. n, 1 .. n)
    <3> HIDE DEF f
    <3> QED BY <1>4, <2>2, FS_Injection
  <2>4. \A t \in 1 .. n : \E i \in 1 .. n : f[i] = t
    <3> HIDE DEF f
    <3>1. ASSUME NEW S, f \in Surjection(S, S)
          PROVE  \A t \in S : \E i \in S : f[i] = t
      BY <3>1, Fun_SurjectionProperties
    <3> QED BY <2>3, <3>1
  <2> QED BY <2>4
<1> QED BY <1>1, <1>6, <1>8, <1>9 DEF R

LEMMA FreeFromIsFinite ==
  ASSUME NEW entries \in Seq(MmapEntry), NEW p
  PROVE  /\ IsFiniteSet(FreeFrom(entries, p))
         /\ Cardinality(FreeFrom(entries, p)) \in Nat
<1>1. IsFiniteSet(1 .. Len(entries))
  BY FS_Interval
<1>2. FreeFrom(entries, p) \in SUBSET (1 .. Len(entries))
  BY DEF FreeFrom
<1> QED BY <1>1, <1>2, FS_Subset, FS_CardinalityType

\* Sorting keeps the number of free entries, whatever order they were in.
LEMMA SortedList ==
  ASSUME NEW entries \in Seq(MmapEntry)
  PROVE  /\ Sorted(entries) \in Seq(MmapEntry)
         /\ Len(Sorted(entries)) = Len(entries)
         /\ EntriesInOrder(Sorted(entries))
         /\ Cardinality(FreeFrom(Sorted(entries), 1)) = Cardinality(FreeFrom(entries, 1))
<1> DEFINE n == Len(entries)
           at_(r) == CHOOSE i \in DOMAIN entries : Rank(entries, i) = r
           s == Sorted(entries)
<1>1. n \in Nat /\ DOMAIN entries = 1 .. n
  OBVIOUS
<1>2. s = [r \in 1 .. n |-> entries[at_(r)]]
  BY <1>1 DEF Sorted
<1>3. \A r \in 1 .. n : at_(r) \in 1 .. n /\ Rank(entries, at_(r)) = r
  BY <1>1, Ranks
<1>4. \A i \in 1 .. n : at_(Rank(entries, i)) = i /\ Rank(entries, i) \in 1 .. n
  <2> TAKE i \in 1 .. n
  <2>1. Rank(entries, i) \in 1 .. n
    BY <1>1, Ranks
  <2> QED BY <1>1, <1>3, <2>1, Ranks
<1> HIDE DEF n, at_, s
<1>5. \A i \in 1 .. n : entries[i] \in MmapEntry
  BY <1>1
<1>6. s \in Seq(MmapEntry) /\ Len(s) = n /\ DOMAIN s = 1 .. n
  <2>1. s \in [1 .. n -> MmapEntry]
    BY <1>2, <1>3, <1>5
  <2> QED BY <1>1, <2>1
<1>7. EntriesInOrder(s)
  <2> SUFFICES ASSUME NEW i \in 1 .. n, NEW j \in 1 .. n, i < j
               PROVE  s[i].Base <= s[j].Base
    BY <1>6 DEF EntriesInOrder
  <2>1. s[i] = entries[at_(i)] /\ s[j] = entries[at_(j)]
    BY <1>2
  <2>2. at_(i) \in DOMAIN entries /\ at_(j) \in DOMAIN entries
        /\ Rank(entries, at_(i)) <= Rank(entries, at_(j))
    BY <1>1, <1>3
  <2> QED BY <2>1, <2>2, Ranks
<1>8. Cardinality(FreeFrom(s, 1)) = Cardinality(FreeFrom(entries, 1))
  <2> DEFINE S == FreeFrom(s, 1)
             T == FreeFrom(entries, 1)
             f == [r \in S |-> at_(r)]
  <2>1. S = {r \in 1 .. n : entries[at_(r)].Type = Free} /\ T = {i \in 1 .. n : entries[i].Type = Free}
    BY <1>1, <1>2, <1>6 DEF FreeFrom
  <2>2. f \in [S -> T]
    BY <1>3, <2>1
  <2>3. \A q, r \in S : f[q] = f[r] => q = r
    BY <1>3, <2>1
  <2>4. \A i \in T : \E r \in S : f[r] = i
    <3> TAKE i \in T
    <3>1. Rank(entries, i) \in S /\ at_(Rank(entries, i)) = i
      BY <1>4, <2>1
    <3> QED BY <3>1
  <2>5. IsFiniteSet(S)
    BY <1>6, FreeFromIsFinite
  <2> HIDE DEF S, T, f
  <2>6. f \in Bijection(S, T)
    BY <2>2, <2>3, <2>4, Fun_IsBij
  <2>7. ExistsBijection(S, T)
    BY <2>6, Fun_ExistsBij
  <2>8. Cardinality(S) = Cardinality(T)
    BY <2>5, <2>7, FS_Bijection
  <2> QED BY <2>8 DEF S, T
<1> QED BY <1>6, <1>7, <1>8 DEF s, n

-----------------------------------------------------------------------------
(***************************************************************************)
(* A block that AllocateFromMmap() returns begins at or after the address  *)
(* that it is given, and lies within a usable entry.                       *)
(***************************************************************************)
UsableEntry == [Base : 0 .. Word - 1, Limit : 0 .. Word - 1]

LEMMA UsableTypes ==
  ASSUME NEW used \in Seq(UsableEntry), NEW i \in DOMAIN used
  PROVE  /\ used[i].Base \in Nat /\ used[i].Limit \in Nat
         /\ EndOf(used[i]) \in 0 .. Word - 1
         /\ ~Wrapped(used[i]) => EndOf(used[i]) = used[i].Base + used[i].Limit
<1>1. used[i] \in UsableEntry
  OBVIOUS
<1> DEFINE n == used[i].Base + used[i].Limit
<1>2. used[i].Base \in Nat /\ used[i].Limit \in Nat /\ n \in Nat
  BY <1>1 DEF UsableEntry
<1>3. EndOf(used[i]) = n % Word /\ (Wrapped(used[i]) <=> n >= Word)
  BY DEF EndOf, Add, Wrapped
<1> HIDE DEF n
<1>4. n % Word \in 0 .. Word - 1 /\ (n < Word => n % Word = n)
  BY <1>2, Sizes
<1>5. ~(n >= Word) => n < Word
  BY <1>2, Sizes
<1> QED BY <1>2, <1>3, <1>4, <1>5 DEF n

LEMMA Allocation ==
  ASSUME usable \in Seq(UsableEntry), usable # <<>>,
         NEW start \in Nat, NEW size \in Nat, size % PageSize = 0,
         AllocateFromMmap(start, size) \notin {0, Panic}
  PROVE  \E base \in Nat :
           /\ AllocateFromMmap(start, size) = base + size
           /\ start <= base /\ base % PageSize = 0 /\ (base + size) % PageSize = 0
           /\ base + size <= AddressLimit
           /\ \E e \in DOMAIN usable : usable[e].Base <= base /\ base + size < EndOf(usable[e])
<1> DEFINE n == Len(usable)
           B(e) == usable[e].Base
           below == {e \in DOMAIN usable : usable[e].Base <= start}
           first == IF below = {} THEN 1 ELSE CHOOSE e \in below : \A f \in below : f <= e
           From(e) == IF e = first /\ below # {} THEN start ELSE usable[e].Base
           fitting == {e \in first .. Len(usable) : Fits(PageAlign(From(e)), size, usable[e])}
           last == CHOOSE e \in fitting : \A f \in fitting : e <= f
           tried == IF fitting = {} THEN first .. Len(usable) ELSE first .. last
           end == AllocateFromMmap(start, size)
<1>1. n \in Nat \ {0} /\ DOMAIN usable = 1 .. n
  OBVIOUS
<1>2. end = IF \E e \in tried : From(e) + size > AddressLimit THEN Panic
            ELSE IF fitting = {} THEN 0
            ELSE PageAlign(From(CHOOSE e \in tried : \A f \in tried : f <= e)) + size
  BY DEF AllocateFromMmap
<1>3. fitting # {} /\ (\A e \in tried : ~(From(e) + size > AddressLimit))
      /\ end = PageAlign(From(CHOOSE e \in tried : \A f \in tried : f <= e)) + size
  BY <1>2
<1>4. \A e \in 1 .. n : B(e) \in Nat
  BY <1>1, UsableTypes
<1>5. below = {e \in 1 .. n : B(e) <= start}
  BY <1>1
<1>6. \A e : From(e) = IF e = first /\ below # {} THEN start ELSE B(e)
  OBVIOUS
<1>7. fitting = {e \in first .. n : Fits(PageAlign(From(e)), size, usable[e])}
  OBVIOUS
<1> HIDE DEF B, n, end
<1>8. first \in 1 .. n /\ (below # {} => B(first) <= start)
  <2>1. CASE below = {}
    BY <1>1, <2>1
  <2>2. CASE below # {}
    <3>1. below \in SUBSET (1 .. n) /\ \A e \in below : B(e) <= start
      BY <1>5
    <3> HIDE DEF below
    <3>2. \E e \in below : \A f \in below : f <= e
      BY <1>1, <2>2, <3>1, GreatestIndex
    <3>3. first \in below
      BY <2>2, <3>2
    <3> QED BY <2>2, <3>1, <3>3
  <2> QED BY <2>1, <2>2
<1>9. \A e \in first .. n : e # first \/ below = {} => start <= B(e)
  <2> SUFFICES ASSUME NEW e \in first .. n, e # first \/ below = {}, ~(start <= B(e))
               PROVE  FALSE
    OBVIOUS
  <2>1. e \in 1 .. n /\ first <= e /\ e \in Int /\ first \in Int
    BY <1>1, <1>8
  <2>2. e \in below
    BY <1>4, <1>5, <2>1
  <2>3. below \in SUBSET (1 .. n) /\ below # {}
    BY <1>5, <2>2
  <2> HIDE DEF below
  <2>4. \E g \in below : \A f \in below : f <= g
    BY <1>1, <2>3, GreatestIndex
  <2>5. \A f \in below : f <= first
    BY <2>3, <2>4
  <2> HIDE DEF first
  <2> QED BY <2>1, <2>2, <2>3, <2>5
<1> HIDE DEF below
<1>10. \A e \in first .. n : From(e) \in Nat /\ start <= From(e) /\ B(e) <= From(e)
  <2> TAKE e \in first .. n
  <2>1. e \in 1 .. n
    BY <1>1, <1>8
  <2>2. CASE e = first /\ below # {}
    BY <1>8, <1>6, <2>1, <2>2, <1>4
  <2>3. CASE ~(e = first /\ below # {})
    BY <1>4, <1>9, <1>6, <2>1, <2>3
  <2> QED BY <2>2, <2>3
<1> HIDE DEF first, From
<1>11. last \in fitting /\ last \in first .. n
  <2>1. fitting \in SUBSET (1 .. n)
    BY <1>1, <1>8, <1>7
  <2>2. fitting \in SUBSET (first .. n)
    BY <1>7
  <2> HIDE DEF fitting
  <2>3. \E e \in fitting : \A f \in fitting : e <= f
    BY <1>1, <1>3, <2>1, LeastIndex
  <2> QED BY <2>2, <2>3
<1>12. Fits(PageAlign(From(last)), size, usable[last])
  BY <1>11
<1>13. tried = first .. last
  BY <1>3
<1> HIDE DEF last, fitting, tried
<1>14. (CHOOSE e \in tried : \A f \in tried : f <= e) = last
  <2>1. first \in Int /\ last \in Int /\ first <= last
    BY <1>1, <1>8, <1>11
  <2>2. last \in tried /\ \A f \in tried : f <= last
    BY <1>13, <2>1
  <2>3. \A e \in tried : (\A f \in tried : f <= e) => e = last
    BY <1>13, <2>1, <2>2
  <2> QED BY <2>2, <2>3
<1>15. last \in tried
  BY <1>1, <1>8, <1>11, <1>13
<1> DEFINE from == From(last)
           base == PageAlign(from)
<1>16. end = base + size
  BY <1>3, <1>14
<1>17. from \in Nat /\ start <= from /\ B(last) <= from /\ ~(from + size > AddressLimit)
  BY <1>3, <1>10, <1>11, <1>15
<1> HIDE DEF from
<1>18. base \in Nat /\ base % PageSize = 0 /\ from <= base
       /\ \A m \in Nat : m % PageSize = 0 /\ from <= m => base <= m
  BY <1>17, PageAlignment
<1>19. base + size < EndOf(usable[last])
  BY <1>12 DEF Fits, from
<1>20. (base + size) % PageSize = 0
  BY <1>18, Sizes, MultiplesAdd
<1>21. base + size <= AddressLimit
  <2>1. AddressLimit \in Nat /\ AddressLimit % PageSize = 0
    BY SizesAssumption
  <2>2. size <= AddressLimit
    BY <1>17, <2>1
  <2>3. AddressLimit - size \in Nat /\ (AddressLimit - size) % PageSize = 0
    BY <2>1, <2>2, Sizes, MultiplesAdd
  <2>4. from <= AddressLimit - size
    BY <1>17, <2>1
  <2> HIDE DEF base
  <2>5. base <= AddressLimit - size
    BY <1>18, <2>3, <2>4
  <2> QED BY <1>18, <2>1, <2>5
<1>22. last \in DOMAIN usable
  BY <1>1, <1>8, <1>11
<1>23. B(last) <= base /\ start <= base
  <2>1. B(last) \in Nat
    BY <1>1, <1>4, <1>22
  <2> HIDE DEF base
  <2> QED BY <1>17, <1>18, <2>1
<1> HIDE DEF base
<1> QED BY <1>16, <1>18, <1>19, <1>20, <1>21, <1>22, <1>23 DEF end, B

\* A block of no size is where the search begins, if that is within an entry.
LEMMA AllocationOfNothing ==
  ASSUME usable \in Seq(UsableEntry), UsableInOrder(usable),
         NEW start \in Nat, start % PageSize = 0,
         NEW i \in DOMAIN usable, usable[i].Base < start, start < EndOf(usable[i]),
         AllocateFromMmap(start, 0) \notin {0, Panic}
  PROVE  AllocateFromMmap(start, 0) = start
<1> DEFINE n == Len(usable)
           B(e) == usable[e].Base
           below == {e \in DOMAIN usable : usable[e].Base <= start}
           first == IF below = {} THEN 1 ELSE CHOOSE e \in below : \A f \in below : f <= e
           From(e) == IF e = first /\ below # {} THEN start ELSE usable[e].Base
           fitting == {e \in first .. Len(usable) : Fits(PageAlign(From(e)), 0, usable[e])}
           last == CHOOSE e \in fitting : \A f \in fitting : e <= f
           tried == IF fitting = {} THEN first .. Len(usable) ELSE first .. last
           largest == CHOOSE e \in tried : \A f \in tried : f <= e
           end == AllocateFromMmap(start, 0)
<1>1. n \in Nat \ {0} /\ DOMAIN usable = 1 .. n
  OBVIOUS
<1>2. end = IF \E e \in tried : From(e) + 0 > AddressLimit THEN Panic
            ELSE IF fitting = {} THEN 0
            ELSE PageAlign(From(largest)) + 0
  BY DEF AllocateFromMmap
<1>3. fitting # {} /\ end = PageAlign(From(largest)) + 0
  BY <1>2
<1>4. \A e \in 1 .. n : B(e) \in Nat /\ EndOf(usable[e]) \in Nat
  <2>1. \A e \in 1 .. n : B(e) \in Nat /\ EndOf(usable[e]) \in 0 .. Word - 1
    BY <1>1, UsableTypes
  <2> QED BY <2>1, Sizes
<1>5. below \in SUBSET (1 .. n) /\ i \in below /\ \A e \in below : B(e) <= start
  BY <1>1, <1>4
<1> HIDE DEF n, B, end
<1>6. first \in below /\ \A f \in below : f <= first
  <2> HIDE DEF below
  <2>1. \E e \in below : \A f \in below : f <= e
    BY <1>1, <1>5, GreatestIndex
  <2> QED BY <1>5, <2>1
<1>7. From(first) = start
  BY <1>5
<1>8. start < EndOf(usable[first])
  <2> HIDE DEF below, first
  <2>1. i \in 1 .. n /\ first \in 1 .. n /\ i <= first
    BY <1>5, <1>6
  <2>2. CASE i = first
    BY <2>2
  <2>3. CASE i < first
    <3>1. EndOf(usable[i]) <= B(first) /\ B(first) <= start
      BY <1>1, <1>5, <1>6, <2>1, <2>3 DEF UsableInOrder, B
    <3> QED BY <1>4, <2>1, <3>1
  <2> QED BY <2>1, <2>2, <2>3
<1>9. PageAlign(start) = start
  BY DEF PageAlign
<1>10. first \in fitting
  <2>1. first \in first .. Len(usable)
    <3> HIDE DEF first, below
    <3> QED BY <1>1, <1>5, <1>6 DEF n
  <2>2. Fits(PageAlign(From(first)), 0, usable[first])
    <3> HIDE DEF first, From
    <3> QED BY <1>7, <1>8, <1>9 DEF Fits
  <2> QED BY <2>1, <2>2
<1>11. \A f \in fitting : first <= f
  <2> HIDE DEF first, From
  <2> QED OBVIOUS
<1>12. first \in Int /\ \A f \in fitting : f \in Int
  <2>1. first \in Int
    BY <1>1, <1>5, <1>6
  <2> HIDE DEF first, From
  <2> QED BY <2>1
<1>13. last = first
  <2> HIDE DEF fitting, first, last
  <2>1. last = CHOOSE e \in fitting : \A f \in fitting : e <= f
    BY DEF last
  <2>2. last \in fitting /\ \A f \in fitting : last <= f
    BY <1>10, <1>11, <2>1
  <2> QED BY <1>10, <1>11, <1>12, <2>2
<1>14. tried = {first}
  <2>1. tried = first .. last
    BY <1>3
  <2> HIDE DEF tried, first, last
  <2> QED BY <1>12, <1>13, <2>1
<1>15. largest = first
  <2>1. largest = CHOOSE e \in tried : \A f \in tried : f <= e
    BY DEF largest
  <2> HIDE DEF tried, first, largest
  <2>2. \E e \in tried : \A f \in tried : f <= e
    BY <1>12, <1>14
  <2>3. largest \in tried
    BY <2>1, <2>2
  <2> QED BY <1>14, <2>3
<1> HIDE DEF first, From, tried, largest
<1> QED BY <1>3, <1>7, <1>9, <1>15 DEF end

-----------------------------------------------------------------------------
(***************************************************************************)
(* One more area.                                                          *)
(***************************************************************************)
LEMMA LaidMore ==
  ASSUME NEW areas, NEW offset \in Nat, NEW name, name \notin DOMAIN areas, NEW area,
         Laid(areas, offset), LowMemory <= offset,
         area.Base \in Nat, area.Size \in Nat, offset <= area.Base
  PROVE  Laid(With(areas, name, area), EndOfArea(area))
<1> DEFINE more == With(areas, name, area)
           end == EndOfArea(area)
<1>1. DOMAIN more = DOMAIN areas \cup {name} /\ more[name] = area
      /\ \A n \in DOMAIN areas : more[n] = areas[n]
  BY DEF With
<1>2. LowMemory \in Nat
  BY SizesAssumption
<1>3. end = area.Base + area.Size /\ end \in Nat /\ offset <= end
  BY DEF EndOfArea
<1> HIDE DEF more, end
<1>4. \A n \in DOMAIN areas :
        /\ areas[n].Base \in Nat /\ areas[n].Size \in Nat
        /\ LowMemory <= areas[n].Base /\ EndOfArea(areas[n]) <= offset
        /\ EndOfArea(areas[n]) \in Nat
  BY DEF Laid, EndOfArea
<1>5. \A n \in DOMAIN areas :
        /\ EndOfArea(areas[n]) <= end
        /\ EndOfArea(areas[n]) <= area.Base
  BY <1>3, <1>4
<1>6. \A n \in DOMAIN more :
        /\ more[n].Base \in Nat /\ more[n].Size \in Nat
        /\ LowMemory <= more[n].Base /\ EndOfArea(more[n]) <= end
  <2> TAKE n \in DOMAIN more
  <2>1. CASE n \in DOMAIN areas
    BY <1>1, <1>4, <1>5, <2>1
  <2>2. CASE n = name
    <3>1. EndOfArea(area) = end
      BY DEF end
    <3> QED BY <1>1, <1>2, <1>3, <2>2, <3>1
  <2> QED BY <1>1, <2>1, <2>2
<1>7. \A n, o \in DOMAIN more : n # o =>
        Apart(more[n].Base, EndOfArea(more[n]), more[o].Base, EndOfArea(more[o]))
  <2> TAKE n, o \in DOMAIN more
  <2>1. CASE n \in DOMAIN areas /\ o \in DOMAIN areas
    BY <1>1, <2>1 DEF Laid
  <2>2. CASE n \in DOMAIN areas /\ o = name
    BY <1>1, <1>5, <2>2 DEF Apart
  <2>3. CASE n = name /\ o \in DOMAIN areas
    BY <1>1, <1>5, <2>3 DEF Apart
  <2> QED BY <1>1, <2>1, <2>2, <2>3
<1> QED BY <1>6, <1>7 DEF Laid, more, end

-----------------------------------------------------------------------------
(***************************************************************************)
(* The list of the BIOS.                                                   *)
(***************************************************************************)
LEMMA InitKeeps == Init => MemoryInv
<1> SUFFICES ASSUME Init PROVE MemoryInv
  OBVIOUS
<1>1. /\ at = "report" /\ report \in Reports /\ mmap = <<>> /\ usable = <<>> /\ num = 0
      /\ scan = [Position |-> 1, MinStart |-> 0] /\ Offset = 0
      /\ blocks = <<>> /\ copied = <<>> /\ kernel \in Kernels /\ framebuffer \in Framebuffers
      /\ map = [todo |-> <<>>, call |-> <<>>, tables |-> <<>>, pages |-> <<>>]
  BY DEF Init
<1>2. DOMAIN <<>> = {} /\ Len(<<>>) = 0 /\ DOMAIN map.tables = {} /\ DOMAIN map.pages = {}
      /\ DOMAIN blocks = {} /\ DOMAIN copied = {} /\ DOMAIN usable = {} /\ DOMAIN mmap = {}
  BY <1>1
<1>3. TypeInv
  BY <1>1, <1>2, Sizes, SizesAssumption, ReportAssumption DEF TypeInv, Seeking
<1>4. NumInv
  <2>1. FreeFrom(mmap, scan.Position) = {}
    BY <1>2 DEF FreeFrom
  <2>2. Cardinality({}) = 0
    BY FS_EmptySet
  <2>3. Len(usable) = 0 /\ Len(mmap) = 0 /\ scan.Position = 1 /\ num = 0
    BY <1>1, <1>2
  <2>4. num = Len(usable) + Cardinality(FreeFrom(mmap, scan.Position))
    BY <2>1, <2>2, <2>3
  <2> QED BY <1>1, <2>3, <2>4 DEF NumInv
<1>5. UsableInv
  BY <1>1, <1>2 DEF UsableInv, NoneWrapped, UsableInOrder, Granting
<1>6. OffsetInv
  BY <1>1 DEF OffsetInv, Granting
<1>7. DOMAIN Areas = {}
  BY <1>2 DEF Areas
<1>8. AreasInv
  BY <1>1, <1>7 DEF AreasInv, Laid, Granting
<1>9. NamesInv
  BY <1>1, <1>2 DEF NamesInv, Seeking, Granting
<1>10. FileInv
  BY <1>1, <1>2 DEF FileInv
<1>11. MapsInv
  BY <1>1 DEF MapsInv, EverythingIsMapped
<1> QED BY <1>3, <1>4, <1>5, <1>6, <1>8, <1>9, <1>10, <1>11 DEF MemoryInv

\* While the usable map is made, nothing is allocated and nothing mapped.
LEMMA SeekingKeeps ==
  ASSUME MemoryInv, at \in Seeking, at' \in Seeking,
         UNCHANGED <<Offset, blocks, copied, kernel, framebuffer, map>>
  PROVE  OffsetInv' /\ AreasInv' /\ NamesInv' /\ FileInv' /\ MapsInv'
<1>1. /\ blocks' = <<>> /\ copied' = <<>> /\ blocks = <<>> /\ copied = <<>>
      /\ DOMAIN map.tables = {} /\ DOMAIN map'.tables = {}
      /\ map.tables = map'.tables /\ map'.call = <<>>
      /\ at' \notin Granting \cup {"kernel", "read", "area", "copy", "trim", "map"}
  BY DEF MemoryInv, NamesInv, Seeking, Granting
<1>2. DOMAIN <<>> = {}
  OBVIOUS
<1>3. OffsetInv'
  BY <1>1 DEF OffsetInv
<1>4. AreasInv'
  <2>1. DOMAIN Areas' = {}
    BY <1>1, <1>2 DEF Areas
  <2> QED BY <1>1, <2>1 DEF AreasInv, Laid
<1>5. NamesInv'
  BY <1>1 DEF NamesInv
<1>6. FileInv'
  BY <1>1, <1>2 DEF FileInv
<1>7. MapsInv'
  BY <1>1 DEF MapsInv, EverythingIsMapped
<1> QED BY <1>3, <1>4, <1>5, <1>6, <1>7

LEMMA Element ==
  ASSUME NEW S, NEW s \in Seq(S), NEW i \in DOMAIN s
  PROVE  s[i] \in S
OBVIOUS

LEMMA AppendFacts ==
  ASSUME NEW S, NEW s \in Seq(S), NEW e \in S
  PROVE  /\ Append(s, e) \in Seq(S)
         /\ Len(Append(s, e)) = Len(s) + 1
         /\ DOMAIN Append(s, e) = 1 .. Len(s) + 1
         /\ Append(s, e)[Len(s) + 1] = e
         /\ \A i \in DOMAIN s : Append(s, e)[i] = s[i]
OBVIOUS

\* An entry is counted as free exactly if it is kept as free.
LEMMA GetMmapEntryKeeps == MemoryInv /\ GetMmapEntry => MemoryInv'
<1> SUFFICES ASSUME MemoryInv, GetMmapEntry PROVE MemoryInv'
  OBVIOUS
<1> USE DEF MemoryInv
<1>1. PICK entry \in IF report.entries = <<>> THEN Garbage ELSE {Head(report.entries)} :
        /\ mmap' = Append(mmap, entry)
        /\ num' = IF entry.Type = Free THEN num + 1 ELSE num
  BY DEF GetMmapEntry
<1>2. at = "report" /\ UNCHANGED <<usable, scan, Offset, blocks, copied, kernel, framebuffer, map>>
      /\ report' = [report EXCEPT !.entries = IF @ = <<>> THEN @ ELSE Tail(@)]
      /\ at' \in {"report", "sort"} /\ (at' = "report" => ~Full(mmap'))
  BY DEF GetMmapEntry
<1>3. report \in Report /\ mmap \in Seq(MmapEntry) /\ Len(mmap) < MaxMmapEntries
      /\ usable = <<>> /\ scan.Position = 1 /\ num = Len(usable) + Cardinality(FreeFrom(mmap, 1))
  BY <1>2 DEF TypeInv, NumInv
<1>4. entry \in MmapEntry
  <2>1. CASE report.entries = <<>>
    BY <1>1, <2>1, ReportAssumption
  <2>2. CASE report.entries # <<>>
    BY <1>1, <1>3, <2>2 DEF Report
  <2> QED BY <2>1, <2>2
<1>5. report' \in Report
  <2>1. report.entries \in Seq(MmapEntry)
    BY <1>3 DEF Report
  <2>2. (IF report.entries = <<>> THEN report.entries ELSE Tail(report.entries)) \in Seq(MmapEntry)
    BY <2>1
  <2> QED BY <1>2, <1>3, <2>2 DEF Report
<1> DEFINE n == Len(mmap)
<1>6. /\ mmap' \in Seq(MmapEntry) /\ Len(mmap') = n + 1 /\ n \in Nat
      /\ DOMAIN mmap = 1 .. n /\ DOMAIN mmap' = 1 .. n + 1
      /\ mmap'[n + 1] = entry /\ \A i \in DOMAIN mmap : mmap'[i] = mmap[i]
  BY <1>1, <1>3, <1>4, AppendFacts
<1> HIDE DEF n
<1>7. TypeInv'
  <2>1. MaxMmapEntries \in Nat
    BY SizesAssumption
  <2>2. Len(mmap') <= MaxMmapEntries /\ (at' = "report" => Len(mmap') < MaxMmapEntries)
    BY <1>2, <1>3, <1>6, <2>1 DEF Full, n
  <2> QED BY <1>2, <1>5, <1>6, <2>2 DEF TypeInv, Seeking
<1>8. NumInv'
  <2> DEFINE S == FreeFrom(mmap, 1)
             T == FreeFrom(mmap', 1)
  <2>1. IsFiniteSet(S) /\ Cardinality(S) \in Nat
    BY <1>3, FreeFromIsFinite
  <2>2. n + 1 \notin S
    BY <1>6 DEF FreeFrom
  <2>3. T = IF entry.Type = Free THEN S \cup {n + 1} ELSE S
    <3>1. \A i \in 1 .. n + 1 : i >= 1 /\ (i = n + 1 \/ i \in 1 .. n)
      BY <1>6
    <3>2. T = {i \in 1 .. n + 1 : mmap'[i].Type = Free} /\ S = {i \in 1 .. n : mmap[i].Type = Free}
      BY <1>6, <3>1 DEF FreeFrom
    <3>3. n + 1 \in 1 .. n + 1 /\ 1 .. n \subseteq 1 .. n + 1
      BY <1>6
    <3> HIDE DEF S, T
    <3> QED BY <1>6, <3>1, <3>2, <3>3
  <2> HIDE DEF S, T
  <2>4. num' = Cardinality(T)
    <3>1. num = Cardinality(S)
      <4>1. Len(usable) = 0
        BY <1>3
      <4> QED BY <1>3, <2>1, <4>1 DEF S
    <3>2. Cardinality(S \cup {n + 1}) = Cardinality(S) + 1
      BY <2>1, <2>2, FS_AddElement
    <3> QED BY <1>1, <2>3, <3>1, <3>2
  <2>5. Cardinality(T) \in Nat
    BY <1>6, FreeFromIsFinite DEF T
  <2>6. usable' = <<>> /\ Len(usable') = 0 /\ scan'.Position = 1
    BY <1>2, <1>3
  <2>7. num' = Len(usable') + Cardinality(FreeFrom(mmap', scan'.Position))
    BY <2>4, <2>5, <2>6 DEF T
  <2> QED BY <1>6, <2>6, <2>7 DEF NumInv
<1>9. UsableInv'
  <2>1. usable' = <<>> /\ DOMAIN usable' = {} /\ at' \notin Granting \cup {"kernel", "scan"}
    BY <1>2, <1>3 DEF Granting
  <2> QED BY <1>2, <2>1 DEF UsableInv, UsableInOrder
<1>10. at \in Seeking /\ at' \in Seeking
  BY <1>2 DEF Seeking
<1>11. OffsetInv' /\ AreasInv' /\ NamesInv' /\ FileInv' /\ MapsInv'
  BY <1>2, <1>10, SeekingKeeps
<1> QED BY <1>7, <1>8, <1>9, <1>11

\* Sorting is what makes the bases ascend.
LEMMA SortKeeps == MemoryInv /\ Sort => MemoryInv'
<1> SUFFICES ASSUME MemoryInv, Sort PROVE MemoryInv'
  OBVIOUS
<1> USE DEF MemoryInv
<1>1. at = "sort" /\ at' = "scan" /\ mmap' = Sorted(mmap)
      /\ UNCHANGED <<report, usable, num, scan, Offset, blocks, copied, kernel, framebuffer, map>>
  BY DEF Sort
<1>2. mmap \in Seq(MmapEntry) /\ usable = <<>> /\ scan.Position = 1
      /\ num = Len(usable) + Cardinality(FreeFrom(mmap, 1))
  BY <1>1 DEF TypeInv, NumInv
<1>3. mmap' \in Seq(MmapEntry) /\ Len(mmap') = Len(mmap) /\ EntriesInOrder(mmap')
      /\ Cardinality(FreeFrom(mmap', 1)) = Cardinality(FreeFrom(mmap, 1))
  BY <1>1, <1>2, SortedList
<1>4. TypeInv'
  BY <1>1, <1>3 DEF TypeInv, Seeking
<1>5. NumInv'
  BY <1>1, <1>2, <1>3 DEF NumInv
<1>6. UsableInv'
  <2>1. usable' = <<>> /\ DOMAIN usable' = {} /\ at' \notin Granting \cup {"kernel"}
    BY <1>1, <1>2 DEF Granting
  <2>2. scan'.Position = 1 /\ 1 .. 1 - 1 = {}
    BY <1>1, <1>2
  <2>3. PassedInv'
    BY <2>1, <2>2 DEF PassedInv
  <2> QED BY <1>1, <1>3, <2>1, <2>3 DEF UsableInv, UsableInOrder
<1>7. OffsetInv' /\ AreasInv' /\ NamesInv' /\ FileInv' /\ MapsInv'
  BY <1>1, SeekingKeeps DEF Seeking
<1> QED BY <1>4, <1>5, <1>6, <1>7

-----------------------------------------------------------------------------
(***************************************************************************)
(* The loop that makes the usable map.                                     *)
(***************************************************************************)
\* The entry, what is left of it, and what becomes of it.
Entry == mmap[scan.Position]

NextBase == IF scan.Position < Len(mmap) THEN mmap[scan.Position + 1].Base ELSE Word

From == StartAndEnd(Entry, NextBase)[1]

To == StartAndEnd(Entry, NextBase)[2]

Covered == EndOf(Entry) <= scan.MinStart

Small == ~Covered /\ Entry.Type = Free /\ Sub(To, From) < MmapEntryMemoryLimit

Added == ~Covered /\ Entry.Type = Free /\ ~Small

LEMMA ScanEntryEffects ==
  ASSUME ScanEntry
  PROVE  /\ at = "scan" /\ scan.Position <= Len(mmap)
         /\ num' = IF Entry.Type = Free /\ ~Added THEN num - 1 ELSE num
         /\ usable' = IF Added THEN Append(usable, [Base |-> From, Limit |-> Sub(To, From)]) ELSE usable
         /\ scan' = [Position |-> scan.Position + 1,
                     MinStart |-> IF Covered \/ Small THEN scan.MinStart
                                  ELSE IF Added THEN To ELSE EndOf(Entry)]
         /\ UNCHANGED <<at, report, mmap, Offset, blocks, copied, kernel, framebuffer, map>>
BY DEF ScanEntry, Entry, NextBase, From, To, Covered, Small, Added, Discount

\* A difference that wraps around is off by Word.
LEMMA Wrapping ==
  ASSUME NEW m \in Nat, NEW n \in Nat, m < Word, n < Word
  PROVE  /\ Sub(n, m) \in 0 .. Word - 1
         /\ m <= n => Sub(n, m) = n - m
         /\ n < m => Sub(n, m) = n - m + Word
<1> DEFINE w == Word
           d == n - m + w
<1>1. w \in Nat \ {0} /\ m < w /\ n < w
  BY Sizes
<1>2. Sub(n, m) = d % w
  BY DEF Sub
<1> HIDE DEF w
<1>3. d \in Nat
  BY <1>1
<1>4. d % w \in 0 .. w - 1
  BY <1>1, <1>3, Division
<1>5. CASE m <= n
  <2>1. n - m \in 0 .. w - 1 /\ d = (n - m) + w
    BY <1>1, <1>5
  <2> DEFINE e == n - m
  <2> HIDE DEF e
  <2>2. (e + w) % w = e
    BY <1>1, <2>1 DEF e
  <2> QED BY <1>2, <1>4, <1>5, <2>1, <2>2 DEF e, w
<1>6. CASE n < m
  <2>1. d \in 0 .. w - 1
    BY <1>1, <1>6
  <2> HIDE DEF d
  <2>2. d % w = d
    BY <1>1, <2>1
  <2> QED BY <1>2, <1>4, <1>6, <2>2 DEF d, w
<1> QED BY <1>1, <1>5, <1>6

\* What is left of a free entry, up to a wrap around.
LEMMA LeftOfEntry ==
  ASSUME TypeInv, scan.Position <= Len(mmap), Entry.Type = Free, ~Covered
  PROVE  /\ scan.Position \in DOMAIN mmap
         /\ From \in 0 .. Word - 1 /\ From % PageSize = 0
         /\ scan.MinStart <= From /\ Entry.Base <= From
         /\ To \in 0 .. Word - 1 /\ To % PageSize = 0
         /\ To <= EndOf(Entry) /\ To <= NextBase
         /\ Sub(To, From) \in 0 .. Word - 1
         /\ From <= To => Sub(To, From) = To - From
         /\ To < From => From + Sub(To, From) >= Word
<1> DEFINE p == scan.Position
           n == Len(mmap)
           start == IF Entry.Base < scan.MinStart THEN scan.MinStart ELSE Entry.Base
           end == IF EndOf(Entry) > NextBase THEN NextBase ELSE EndOf(Entry)
<1>1. mmap \in Seq(MmapEntry) /\ p \in Nat \ {0} /\ p <= n /\ n \in Nat /\ DOMAIN mmap = 1 .. n
      /\ scan.MinStart \in 0 .. Word - 1
  BY DEF TypeInv
<1>2. p \in DOMAIN mmap
  BY <1>1
<1>3. /\ Entry.Base \in 0 .. Word - 1 /\ EndOf(Entry) \in 0 .. Word - 1
      /\ Entry.Limit \in Nat
      /\ EndOf(Entry) = Entry.Base + Entry.Limit /\ EndOf(Entry) + LargePage < Word
  BY <1>1, <1>2, EntryTypes DEF Entry
<1>4. NextBase \in Nat
  <2>1. CASE p < n
    <3>1. p + 1 \in DOMAIN mmap
      BY <1>1, <2>1
    <3>2. mmap[p + 1].Base \in 0 .. Word - 1
      BY <1>1, <3>1, EntryTypes
    <3> QED BY <2>1, <3>2 DEF NextBase
  <2>2. CASE ~(p < n)
    BY <2>2, Sizes DEF NextBase
  <2> QED BY <2>1, <2>2
<1>5. From = PageAlign(start) /\ To = end - (end % PageSize)
  BY DEF From, To, StartAndEnd
<1>6. scan.MinStart < EndOf(Entry)
  BY <1>1, <1>3 DEF Covered
<1> DEFINE base == Entry.Base
           stop == EndOf(Entry)
           low == scan.MinStart
           next == NextBase
<1>7. /\ base \in Nat /\ stop \in Nat /\ low \in Nat /\ next \in Nat
      /\ low < stop /\ base <= stop /\ stop + LargePage < Word
      /\ start = (IF base < low THEN low ELSE base)
      /\ end = (IF stop > next THEN next ELSE stop)
  BY <1>1, <1>3, <1>4, <1>6
<1> HIDE DEF base, stop, low, next, start, end
<1>8. start \in Nat /\ low <= start /\ base <= start /\ start <= stop
      /\ end \in Nat /\ end <= stop /\ end <= next
  BY <1>7
<1>9. /\ From \in Nat /\ From % PageSize = 0 /\ start <= From /\ From < start + PageSize
  BY <1>5, <1>8, PageAlignment
<1>10. To \in Nat /\ To % PageSize = 0 /\ To <= end
  BY <1>5, <1>8, Sizes, RoundingDown
<1>11. From < Word /\ To < Word
  BY <1>7, <1>8, <1>9, <1>10, Sizes
<1>12. /\ Sub(To, From) \in 0 .. Word - 1
       /\ From <= To => Sub(To, From) = To - From
       /\ To < From => Sub(To, From) = To - From + Word
  BY <1>9, <1>10, <1>11, Wrapping
<1>13. Word \in Nat
  BY Sizes
<1>14. low <= From /\ base <= From /\ To <= stop /\ To <= next
  BY <1>7, <1>8, <1>9, <1>10
<1>15. From \in 0 .. Word - 1 /\ To \in 0 .. Word - 1
  BY <1>9, <1>10, <1>11, <1>13
<1>16. To < From => From + Sub(To, From) >= Word
  BY <1>12, <1>13, <1>15
<1> QED BY <1>2, <1>9, <1>10, <1>12, <1>14, <1>15, <1>16 DEF base, stop, low, next

\* What is added begins at MinStart or later, and all that was passed ends there.
LEMMA ScanEntryKeeps == MemoryInv /\ ScanEntry => MemoryInv'
<1> SUFFICES ASSUME MemoryInv, ScanEntry PROVE MemoryInv'
  OBVIOUS
<1> USE DEF MemoryInv
<1>1. /\ at = "scan" /\ scan.Position <= Len(mmap)
      /\ num' = IF Entry.Type = Free /\ ~Added THEN num - 1 ELSE num
      /\ usable' = IF Added THEN Append(usable, [Base |-> From, Limit |-> Sub(To, From)]) ELSE usable
      /\ scan' = [Position |-> scan.Position + 1,
                  MinStart |-> IF Covered \/ Small THEN scan.MinStart
                               ELSE IF Added THEN To ELSE EndOf(Entry)]
      /\ UNCHANGED <<at, report, mmap, Offset, blocks, copied, kernel, framebuffer, map>>
  BY ScanEntryEffects
<1> DEFINE p == scan.Position
           n == Len(mmap)
           k == Len(usable)
           new == [Base |-> From, Limit |-> Sub(To, From)]
<1>2. /\ mmap \in Seq(MmapEntry) /\ p \in Nat \ {0} /\ n \in Nat /\ p <= n
      /\ DOMAIN mmap = 1 .. n /\ p \in DOMAIN mmap
      /\ usable \in Seq(UsableEntry) /\ k \in Nat /\ DOMAIN usable = 1 .. k
      /\ scan.MinStart \in 0 .. Word - 1
  <2>1. /\ mmap \in Seq(MmapEntry) /\ p \in Nat \ {0} /\ scan.MinStart \in 0 .. Word - 1
        /\ usable \in Seq(UsableEntry)
    BY DEF TypeInv, UsableEntry
  <2> QED BY <1>1, <2>1
<1>3. EndOf(Entry) \in 0 .. Word - 1 /\ Entry.Type \in Nat
  BY <1>2, EntryTypes DEF Entry
<1>4. ASSUME Added
      PROVE  /\ Entry.Type = Free
             /\ From \in 0 .. Word - 1 /\ From % PageSize = 0
             /\ scan.MinStart <= From /\ Entry.Base <= From
             /\ To \in 0 .. Word - 1 /\ To % PageSize = 0
             /\ To <= EndOf(Entry) /\ To <= NextBase
             /\ new \in UsableEntry /\ Sub(To, From) >= MmapEntryMemoryLimit
             /\ ~Wrapped(new) => From <= To /\ EndOf(new) = To
  <2>1. Entry.Type = Free /\ ~Covered /\ ~(Sub(To, From) < MmapEntryMemoryLimit)
    BY <1>4 DEF Added, Small
  <2>2. /\ From \in 0 .. Word - 1 /\ From % PageSize = 0
        /\ scan.MinStart <= From /\ Entry.Base <= From
        /\ To \in 0 .. Word - 1 /\ To % PageSize = 0
        /\ To <= EndOf(Entry) /\ To <= NextBase
        /\ Sub(To, From) \in 0 .. Word - 1
        /\ From <= To => Sub(To, From) = To - From
        /\ To < From => From + Sub(To, From) >= Word
    BY <1>1, <2>1, LeftOfEntry
  <2>3. new \in UsableEntry
    BY <2>2 DEF UsableEntry
  <2>4. Sub(To, From) >= MmapEntryMemoryLimit
    BY <2>1, <2>2, SizesAssumption, Sizes
  <2>5. ASSUME ~Wrapped(new) PROVE From <= To /\ EndOf(new) = To
    <3> DEFINE a == From
               b == To
               d == Sub(To, From)
    <3>1. a \in Nat /\ b \in 0 .. Word - 1 /\ d \in Nat /\ Word \in Nat \ {0}
          /\ (a <= b => d = b - a) /\ (b < a => a + d >= Word)
      BY <2>2, Sizes
    <3>2. EndOf(new) = (a + d) % Word /\ ~(a + d >= Word)
      BY <2>5 DEF EndOf, Add, Wrapped
    <3> HIDE DEF a, b, d
    <3>3. a <= b /\ a + d = b
      BY <3>1, <3>2
    <3>4. b % Word = b
      BY <3>1
    <3>5. a <= b /\ EndOf(new) = b
      BY <3>2, <3>3, <3>4
    <3> QED BY <3>5 DEF a, b
  <2> QED BY <2>1, <2>2, <2>3, <2>4, <2>5
<1>5. ASSUME Added
      PROVE  /\ usable' \in Seq(UsableEntry) /\ Len(usable') = k + 1 /\ DOMAIN usable' = 1 .. k + 1
             /\ usable'[k + 1] = new /\ \A i \in 1 .. k : usable'[i] = usable[i]
  <2>1. usable' = Append(usable, new)
    BY <1>1, <1>5
  <2>2. new \in UsableEntry
    BY <1>4, <1>5
  <2> HIDE DEF new
  <2> QED BY <1>2, <2>1, <2>2, AppendFacts
<1> HIDE DEF p, n, k, new
<1>6. usable' \in Seq(UsableEntry) /\ (~Added => usable' = usable)
  BY <1>1, <1>2, <1>5
<1>7. /\ scan'.Position = p + 1
      /\ scan'.MinStart = (IF Covered \/ Small THEN scan.MinStart
                           ELSE IF Added THEN To ELSE EndOf(Entry))
      /\ scan'.MinStart \in 0 .. Word - 1
      /\ scan' \in [Position : Nat \ {0}, MinStart : 0 .. Word - 1]
  <2> DEFINE low == IF Covered \/ Small THEN scan.MinStart ELSE IF Added THEN To ELSE EndOf(Entry)
  <2>1. scan' = [Position |-> p + 1, MinStart |-> low]
    BY <1>1 DEF p
  <2>2. low \in 0 .. Word - 1
    BY <1>2, <1>3, <1>4
  <2>3. p + 1 \in Nat \ {0}
    BY <1>2
  <2> HIDE DEF low
  <2>4. scan'.Position = p + 1 /\ scan'.MinStart = low
        /\ scan' \in [Position : Nat \ {0}, MinStart : 0 .. Word - 1]
    BY <2>1, <2>2, <2>3
  <2> QED BY <2>2, <2>4 DEF low
<1>8. TypeInv'
  BY <1>1, <1>6, <1>7 DEF TypeInv, UsableEntry
<1>9. NumInv'
  <2> DEFINE S == FreeFrom(mmap, p)
             T == FreeFrom(mmap, p + 1)
  <2>1. IsFiniteSet(S) /\ Cardinality(S) \in Nat /\ Cardinality(T) \in Nat
    BY <1>2, FreeFromIsFinite
  <2>2. T = S \ {p} /\ (p \in S <=> Entry.Type = Free)
    <3>1. \A i \in DOMAIN mmap : i >= p + 1 <=> i >= p /\ i # p
      BY <1>2
    <3>2. p >= p
      BY <1>2
    <3> QED BY <1>2, <3>1, <3>2 DEF FreeFrom, Entry, p
  <2> DEFINE s == Cardinality(S)
             t == Cardinality(T)
  <2>3. t = IF Entry.Type = Free THEN s - 1 ELSE s
    <3> HIDE DEF S, T
    <3> QED BY <2>1, <2>2, FS_RemoveElement
  <2>4. num = k + s /\ k < p
    BY DEF NumInv, k, p
  <2>5. s \in Nat /\ t \in Nat
    BY <2>1
  <2> HIDE DEF S, T, s, t
  <2>6. Len(usable') = (IF Added THEN k + 1 ELSE k) /\ (Added => Entry.Type = Free)
    BY <1>4, <1>5, <1>6 DEF k
  <2>7. num' = Len(usable') + t
    <3>1. CASE Added
      <4>1. num' = num
        BY <1>1, <3>1
      <4>2. Len(usable') = k + 1 /\ t = s - 1
        BY <2>3, <2>6, <3>1
      <4> QED BY <1>2, <2>4, <2>5, <4>1, <4>2
    <3>2. CASE ~Added /\ Entry.Type = Free
      BY <1>1, <1>2, <2>3, <2>4, <2>5, <2>6, <3>2
    <3>3. CASE Entry.Type # Free
      BY <1>1, <1>2, <2>3, <2>4, <2>5, <2>6, <3>3
    <3> QED BY <3>1, <3>2, <3>3
  <2>8. Len(usable') < p + 1 /\ p + 1 <= n + 1
    <3>1. p <= n
      BY <1>2
    <3> QED BY <1>2, <2>4, <2>6, <3>1
  <2>9. mmap' = mmap /\ Len(mmap') = n
    BY <1>1 DEF n
  <2>10. num' = Len(usable') + Cardinality(FreeFrom(mmap', scan'.Position))
    BY <1>7, <2>7, <2>9 DEF t, T
  <2>11. at' = "scan"
    BY <1>1
  <2> QED BY <1>7, <2>8, <2>9, <2>10, <2>11 DEF NumInv
<1>10. UsableInv'
  <2>1. EntriesInOrder(mmap) /\ \A i \in DOMAIN usable : usable[i].Limit >= MmapEntryMemoryLimit
    BY <1>1 DEF UsableInv
  <2>2. \A i \in DOMAIN usable' : usable'[i].Limit >= MmapEntryMemoryLimit
    <3>1. CASE ~Added
      BY <1>6, <2>1, <3>1
    <3>2. CASE Added
      <4>1. new.Limit >= MmapEntryMemoryLimit
        BY <1>4, <3>2 DEF new
      <4>2. \A i \in 1 .. k + 1 : i = k + 1 \/ i \in 1 .. k
        BY <1>2
      <4> QED BY <1>2, <1>5, <2>1, <3>2, <4>1, <4>2
    <3> QED BY <3>1, <3>2
  <2>3. ASSUME NoneWrapped(usable')
        PROVE  /\ \A i \in DOMAIN usable' : PartOfFree(usable'[i].Base, EndOf(usable'[i]), mmap)
               /\ UsableInOrder(usable')
               /\ PassedInv'
    <3>1. NoneWrapped(usable)
      <4>1. CASE ~Added
        BY <1>6, <2>3, <4>1
      <4>2. CASE Added
        <5>1. \A i \in 1 .. k : i \in 1 .. k + 1
          BY <1>2
        <5> QED BY <1>2, <1>5, <2>3, <4>2, <5>1 DEF NoneWrapped
      <4> QED BY <4>1, <4>2
    <3>2. /\ \A i \in DOMAIN usable : PartOfFree(usable[i].Base, EndOf(usable[i]), mmap)
          /\ UsableInOrder(usable)
          /\ \A i \in DOMAIN usable : EndOf(usable[i]) <= scan.MinStart
          /\ \A j \in 1 .. p - 1 : mmap[j].Type # Free => EndOf(mmap[j]) <= scan.MinStart
      BY <1>1, <3>1 DEF UsableInv, PassedInv, p
    <3>3. Word \in Nat \ {0}
      BY Sizes
    <3>4. ASSUME Added PROVE ~Wrapped(new) /\ From <= To /\ EndOf(new) = To
      <4>1. k + 1 \in DOMAIN usable'
        BY <1>2, <1>5, <3>4
      <4>2. ~Wrapped(new)
        BY <1>5, <2>3, <3>4, <4>1 DEF NoneWrapped
      <4> QED BY <1>4, <3>4, <4>2
    <3>5. scan.MinStart <= scan'.MinStart /\ (Added => scan'.MinStart = To)
      <4>1. CASE Covered \/ Small
        BY <1>2, <1>7, <4>1 DEF Added
      <4>2. CASE ~(Covered \/ Small) /\ Added
        <5>1. scan.MinStart \in Int /\ From \in Int /\ To \in Int
              /\ scan.MinStart <= From /\ From <= To
          BY <1>2, <1>4, <3>3, <3>4, <4>2
        <5> QED BY <1>7, <4>2, <5>1
      <4>3. CASE ~(Covered \/ Small) /\ ~Added
        BY <1>2, <1>3, <1>7, <3>3, <4>3 DEF Covered
      <4> QED BY <4>1, <4>2, <4>3
    <3>6. \A j \in 1 .. p : mmap[j].Type # Free => EndOf(mmap[j]) <= scan'.MinStart
      <4> SUFFICES ASSUME NEW j \in 1 .. p, mmap[j].Type # Free
                   PROVE  EndOf(mmap[j]) <= scan'.MinStart
        OBVIOUS
      <4>1. CASE j = p
        <5>1. Entry.Type # Free /\ mmap[j] = Entry
          BY <4>1 DEF Entry, p
        <5>2. CASE Covered
          BY <1>7, <5>1, <5>2 DEF Covered
        <5>3. CASE ~Covered
          <6>1. scan'.MinStart = EndOf(Entry)
            BY <1>7, <5>1, <5>3 DEF Small, Added
          <6> QED BY <1>3, <5>1, <6>1
        <5> QED BY <5>2, <5>3
      <4>2. CASE j # p
        <5>1. j \in 1 .. p - 1 /\ j \in DOMAIN mmap
          BY <1>2, <4>2
        <5>2. EndOf(mmap[j]) <= scan.MinStart
          BY <3>2, <5>1
        <5>3. EndOf(mmap[j]) \in 0 .. Word - 1
          BY <1>2, <5>1, EntryTypes
        <5> QED BY <1>2, <1>7, <3>3, <3>5, <5>2, <5>3
      <4> QED BY <4>1, <4>2
    <3>7. ASSUME NEW i \in DOMAIN usable
          PROVE  EndOf(usable[i]) \in 0 .. Word - 1 /\ usable[i].Base \in Nat
      BY <1>2, UsableTypes
    <3>8. \A i \in DOMAIN usable : EndOf(usable[i]) <= scan'.MinStart
      BY <1>2, <1>7, <3>2, <3>3, <3>5, <3>7
    <3>9. CASE ~Added
      <4>1. PassedInv'
        <5>1. scan'.Position - 1 = p /\ mmap' = mmap
          <6>1. scan'.Position - 1 = p
            BY <1>2, <1>7
          <6>2. mmap' = mmap
            BY <1>1
          <6> QED BY <6>1, <6>2
        <5> QED BY <1>6, <3>6, <3>8, <3>9, <5>1 DEF PassedInv
      <4> QED BY <1>6, <3>2, <3>9, <4>1
    <3>10. CASE Added
      <4>1. \A i \in 1 .. k + 1 : i = k + 1 \/ i \in 1 .. k
        BY <1>2
      <4>2. PartOfFree(From, To, mmap)
        <5>1. Entry.Type = Free /\ Entry.Base <= From /\ To <= EndOf(Entry)
              /\ From % PageSize = 0 /\ To % PageSize = 0
          BY <1>4, <3>10
        <5>2. \E j \in DOMAIN mmap :
                mmap[j].Type = Free /\ mmap[j].Base <= From /\ To <= EndOf(mmap[j])
          BY <1>2, <5>1 DEF Entry, p
        <5>3. ASSUME NEW j \in DOMAIN mmap, mmap[j].Type # Free
              PROVE  Apart(From, To, mmap[j].Base, EndOf(mmap[j]))
          <6>1. j # p
            BY <5>1, <5>3 DEF Entry, p
          <6>2. EndOf(mmap[j]) \in 0 .. Word - 1 /\ mmap[j].Base \in 0 .. Word - 1
            BY <1>2, EntryTypes
          <6>3. CASE j < p
            <7>1. j \in 1 .. p - 1
              BY <1>2, <6>3
            <7>2. EndOf(mmap[j]) <= scan.MinStart
              BY <3>2, <5>3, <7>1
            <7>3. scan.MinStart <= From /\ From \in Nat
              BY <1>4, <3>3, <3>10
            <7>4. EndOf(mmap[j]) <= From
              BY <1>2, <3>3, <6>2, <7>2, <7>3
            <7> QED BY <7>4 DEF Apart
          <6>4. CASE j > p
            <7>1. p < n /\ p + 1 \in DOMAIN mmap /\ p + 1 <= j
              BY <1>2, <6>4
            <7>2. NextBase = mmap[p + 1].Base
              BY <7>1 DEF NextBase, p, n
            <7>3. mmap[p + 1].Base <= mmap[j].Base
              <8>1. mmap[p + 1].Base \in Int
                BY <1>2, <3>3, <7>1, EntryTypes
              <8>2. CASE p + 1 = j
                BY <8>1, <8>2
              <8>3. CASE p + 1 < j
                BY <2>1, <7>1, <8>3 DEF EntriesInOrder
              <8> QED BY <1>2, <7>1, <8>2, <8>3
            <7>4. To <= NextBase /\ To \in 0 .. Word - 1
              BY <1>4, <3>10
            <7>5. mmap[p + 1].Base \in 0 .. Word - 1
              BY <1>2, <7>1, EntryTypes
            <7>6. To <= mmap[j].Base
              BY <3>3, <6>2, <7>2, <7>3, <7>4, <7>5
            <7> QED BY <7>6 DEF Apart
          <6> QED BY <1>2, <6>1, <6>3, <6>4
        <5> QED BY <5>1, <5>2, <5>3 DEF PartOfFree
      <4>3. usable'[k + 1].Base = From /\ EndOf(usable'[k + 1]) = To
        <5>1. new.Base = From
          BY DEF new
        <5> QED BY <1>5, <3>4, <3>10, <5>1
      <4>4. \A i \in DOMAIN usable' : PartOfFree(usable'[i].Base, EndOf(usable'[i]), mmap)
        BY <1>2, <1>5, <3>2, <3>10, <4>1, <4>2, <4>3
      <4>5. UsableInOrder(usable')
        <5> SUFFICES ASSUME NEW i \in 1 .. k + 1, NEW j \in 1 .. k + 1, i < j
                     PROVE  EndOf(usable'[i]) <= usable'[j].Base
          BY <1>5, <3>10 DEF UsableInOrder
        <5>1. i \in 1 .. k
          BY <1>2
        <5>2. CASE j \in 1 .. k
          BY <1>2, <1>5, <3>2, <3>10, <5>1, <5>2 DEF UsableInOrder
        <5>3. CASE j = k + 1
          <6>1. EndOf(usable[i]) \in 0 .. Word - 1 /\ EndOf(usable[i]) <= scan.MinStart
            BY <1>2, <3>2, <3>7, <5>1
          <6>2. scan.MinStart <= From /\ From \in 0 .. Word - 1
            BY <1>4, <3>10
          <6>3. EndOf(usable[i]) <= From
            BY <1>2, <3>3, <6>1, <6>2
          <6> QED BY <1>2, <1>5, <3>10, <4>3, <5>1, <5>3, <6>3
        <5> QED BY <4>1, <5>2, <5>3
      <4>6. PassedInv'
        <5>1. scan'.Position - 1 = p /\ mmap' = mmap
          <6>1. scan'.Position - 1 = p
            BY <1>2, <1>7
          <6>2. mmap' = mmap
            BY <1>1
          <6> QED BY <6>1, <6>2
        <5>2. \A i \in DOMAIN usable' : EndOf(usable'[i]) <= scan'.MinStart
          <6>1. To <= To
            BY <1>4, <3>3, <3>10
          <6> QED BY <1>2, <1>5, <3>5, <3>8, <3>10, <4>1, <4>3, <6>1
        <5> QED BY <3>6, <5>1, <5>2 DEF PassedInv
      <4> QED BY <4>4, <4>5, <4>6
    <3> QED BY <3>9, <3>10
  <2>4. mmap' = mmap /\ at' = "scan"
    BY <1>1
  <2>5. at' \notin Granting \cup {"kernel"}
    BY <2>4 DEF Granting
  <2> QED BY <2>1, <2>2, <2>3, <2>4, <2>5 DEF UsableInv
<1>11. OffsetInv' /\ AreasInv' /\ NamesInv' /\ FileInv' /\ MapsInv'
  BY <1>1, SeekingKeeps DEF Seeking
<1> QED BY <1>8, <1>9, <1>10, <1>11

-----------------------------------------------------------------------------
(***************************************************************************)
(* The first address to allocate from.                                     *)
(***************************************************************************)
LEMMA ScanDoneKeeps == MemoryInv /\ ScanDone => MemoryInv'
<1> SUFFICES ASSUME MemoryInv, ScanDone PROVE MemoryInv'
  OBVIOUS
<1> USE DEF MemoryInv
<1> DEFINE k == Len(usable)
           high == {i \in 1 .. Len(usable) : usable[i].Base >= LowMemory}
           least == CHOOSE i \in high : \A j \in high : i <= j
<1>1. /\ at = "scan"
      /\ Offset' = IF high = {} THEN LowMemory ELSE usable[least].Base
      /\ at' = IF usable = <<>> \/ \E i \in DOMAIN usable : Wrapped(usable[i]) THEN "wild" ELSE "image"
      /\ UNCHANGED <<report, mmap, usable, num, scan, blocks, copied, kernel, framebuffer, map>>
  BY DEF ScanDone
<1>2. usable \in Seq(UsableEntry) /\ k \in Nat /\ DOMAIN usable = 1 .. k
  <2>1. usable \in Seq(UsableEntry)
    BY DEF TypeInv, UsableEntry
  <2> QED BY <2>1
<1>3. LowMemory \in Nat /\ LowMemory % PageSize = 0
  BY SizesAssumption
<1>4. high # {} => least \in DOMAIN usable /\ usable[least].Base >= LowMemory
  <2> SUFFICES ASSUME high # {} PROVE least \in DOMAIN usable /\ usable[least].Base >= LowMemory
    OBVIOUS
  <2>1. high \in SUBSET (1 .. k) /\ \A i \in high : i \in DOMAIN usable /\ usable[i].Base >= LowMemory
    BY <1>2
  <2> HIDE DEF high, k
  <2>2. \E i \in high : \A j \in high : i <= j
    BY <1>2, <2>1, LeastIndex
  <2>3. least \in high
    BY <2>2
  <2> HIDE DEF least
  <2> QED BY <2>1, <2>3
<1> HIDE DEF k, high, least
<1>5. Offset' \in Nat /\ LowMemory <= Offset'
  <2>1. CASE high = {}
    BY <1>1, <1>3, <2>1
  <2>2. CASE high # {}
    <3>1. usable[least].Base \in Nat
      BY <1>2, <1>4, <2>2, UsableTypes
    <3> QED BY <1>1, <1>3, <1>4, <2>2, <3>1
  <2> QED BY <2>1, <2>2
<1>6. at' \in {"wild", "image"} /\ (at' = "image" => NoneWrapped(usable) /\ usable # <<>>)
  BY <1>1 DEF NoneWrapped
<1>7. at' = "image" => Offset' % PageSize = 0
  <2>1. CASE high = {}
    BY <1>1, <1>3, <2>1
  <2>2. CASE high # {}
    <3>1. at' = "image" => PartOfFree(usable[least].Base, EndOf(usable[least]), mmap)
      BY <1>4, <1>6, <2>2 DEF UsableInv
    <3> QED BY <1>1, <2>2, <3>1 DEF PartOfFree
  <2> QED BY <2>1, <2>2
<1>8. TypeInv'
  BY <1>1, <1>5, <1>6 DEF TypeInv, Granting
<1>9. NumInv'
  BY <1>1, <1>6 DEF NumInv
<1>10. UsableInv'
  BY <1>1, <1>6 DEF UsableInv, Granting, NoneWrapped
<1>11. /\ blocks' = <<>> /\ copied' = <<>> /\ DOMAIN map'.tables = {} /\ map'.call = <<>>
       /\ DOMAIN blocks' = {} /\ DOMAIN copied' = {}
  BY <1>1 DEF NamesInv, Seeking
<1>12. OffsetInv'
  BY <1>5, <1>6, <1>7, <1>11 DEF OffsetInv, Granting
<1>13. AreasInv'
  <2>1. DOMAIN Areas' = {}
    BY <1>11 DEF Areas
  <2> QED BY <2>1 DEF AreasInv, Laid
<1>14. NamesInv'
  BY <1>6, <1>11 DEF NamesInv, Seeking, Granting, Granted
<1>15. FileInv'
  BY <1>11 DEF FileInv
<1>16. MapsInv'
  BY <1>6 DEF MapsInv, EverythingIsMapped
<1> QED BY <1>8, <1>9, <1>10, <1>12, <1>13, <1>14, <1>15, <1>16

-----------------------------------------------------------------------------
(***************************************************************************)
(* What the allocations leave alone.                                       *)
(***************************************************************************)
Stopped == {"panic", "wild"}

\* The usable map is not touched while memory is granted from it.
LEMMA UsableKept ==
  ASSUME NumInv, UsableInv, at \in Granting, at' \in Granting \cup Stopped,
         UNCHANGED <<mmap, usable, num, scan>>
  PROVE  NumInv' /\ UsableInv'
<1>1. at' \notin {"report", "sort", "scan", "kernel"} /\ at \notin {"report", "sort", "scan", "kernel"}
  BY DEF Granting, Stopped
<1>2. NumInv'
  BY <1>1 DEF NumInv
<1>3. /\ EntriesInOrder(mmap) /\ NoneWrapped(usable) /\ usable # <<>>
      /\ \A i \in DOMAIN usable : PartOfFree(usable[i].Base, EndOf(usable[i]), mmap)
      /\ UsableInOrder(usable)
      /\ \A i \in DOMAIN usable : usable[i].Limit >= MmapEntryMemoryLimit
  BY <1>1 DEF UsableInv
<1>4. UsableInv'
  BY <1>1, <1>3 DEF UsableInv
<1> QED BY <1>2, <1>4

LEMMA TypeKept ==
  ASSUME TypeInv, at' \in Granting \cup Stopped \cup {"kernel"},
         UNCHANGED <<report, mmap, scan, kernel, framebuffer>>,
         usable' \in Seq(UsableEntry), Offset' \in Nat,
         map' = [todo |-> map'.todo, call |-> map'.call, tables |-> map'.tables, pages |-> map'.pages],
         \A p \in DOMAIN map'.pages : map'.pages[p] \in BOOLEAN
  PROVE  TypeInv'
<1>1. at' # "report" /\ at' \in Seeking \cup Granting \cup {"kernel", "panic", "wild"}
  BY DEF Granting, Stopped
<1> QED BY <1>1 DEF TypeInv, UsableEntry

\* What depends on the kernel only.
LEMMA ProgramsKept ==
  ASSUME kernel' = kernel
  PROVE  /\ KernelAreaSize' = KernelAreaSize /\ (HeadersAreRefused' <=> HeadersAreRefused)
         /\ blocks'[<<"area">>] = blocks[<<"area">>] =>
              Copies(blocks[<<"area">>])' = Copies(blocks[<<"area">>])
<1>1. KernelAreaSize' = KernelAreaSize
  BY DEF KernelAreaSize, LatestVirtualAddress, EarliestVirtualAddress, EndOfProgram, Programs, SizeOf, StartOf
<1>2. HeadersAreRefused' <=> HeadersAreRefused
  BY DEF HeadersAreRefused, LatestVirtualAddress, EarliestVirtualAddress, EndOfProgram, Programs, SizeOf,
     StartOf
<1>3. ASSUME blocks'[<<"area">>] = blocks[<<"area">>]
      PROVE  Copies(blocks[<<"area">>])' = Copies(blocks[<<"area">>])
  BY <1>3 DEF Copies, Programs, SizeOf, StartOf, BytesWritten
<1> QED BY <1>1, <1>2, <1>3

\* No memory is granted anymore.
LEMMA StopKeeps ==
  ASSUME MemoryInv, at \in Granting \ {"trim"}, at' \in Stopped,
         UNCHANGED <<report, mmap, usable, num, scan, Offset, blocks, copied, kernel, framebuffer>>,
         map' = [todo |-> map'.todo, call |-> map'.call, tables |-> map.tables, pages |-> map.pages]
  PROVE  MemoryInv'
<1> USE DEF MemoryInv
<1>1. map'.tables = map.tables /\ map'.pages = map.pages
  OBVIOUS
<1>2. at' \notin Seeking \cup Granting \cup {"kernel"} /\ at \notin {"trim", "kernel"}
  BY DEF Seeking, Granting, Stopped
<1>3. TypeInv'
  <2>1. usable' \in Seq(UsableEntry) /\ Offset' \in Nat
        /\ \A p \in DOMAIN map.pages : map.pages[p] \in BOOLEAN
    BY DEF TypeInv, UsableEntry
  <2>2. map' = [todo |-> map'.todo, call |-> map'.call, tables |-> map'.tables, pages |-> map'.pages]
    BY <1>1
  <2> QED BY <1>1, <2>1, <2>2, TypeKept
<1>4. NumInv' /\ UsableInv'
  BY UsableKept
<1>5. OffsetInv'
  BY <1>2 DEF OffsetInv
<1>6. Areas' = Areas
  BY <1>1 DEF Areas
<1>7. AreasInv'
  BY <1>2, <1>6 DEF AreasInv
<1>8. copied = <<>> /\ DOMAIN copied = {}
  BY <1>2 DEF NamesInv
<1>9. NamesInv'
  <2>1. DOMAIN map.tables \subseteq {"pml3", "pml2"} \X Nat
    BY DEF NamesInv
  <2>2. at' \notin Seeking \cup {"image", "stack", "pml4"}
    BY DEF Seeking, Stopped
  <2> QED BY <1>1, <1>2, <1>8, <2>1, <2>2 DEF NamesInv
<1>10. FileInv'
  <2>1. KernelAreaSize' = KernelAreaSize /\ (HeadersAreRefused' <=> HeadersAreRefused)
    BY ProgramsKept
  <2> QED BY <1>6, <1>8, <2>1 DEF FileInv
<1>11. MapsInv'
  BY <1>2 DEF MapsInv, EverythingIsMapped, Granting
<1> QED BY <1>3, <1>4, <1>5, <1>7, <1>9, <1>10, <1>11

(***************************************************************************)
(* One more area, from Offset on.                                          *)
(***************************************************************************)
LEMMA AreaGranted ==
  ASSUME MemoryInv, at \in Granting, at' \in Granting \ {"image"},
         NEW size \in Nat, size % PageSize = 0, size # 0 \/ at # "image",
         AllocateFromMmap(Offset, size) \notin {0, Panic}, Offset' = AllocateFromMmap(Offset, size),
         UNCHANGED <<mmap, usable, num, scan>>,
         NEW name, name \notin DOMAIN Areas,
         NEW block, block = Block(Offset', size), Areas' = With(Areas, name, block)
  PROVE  /\ NumInv' /\ UsableInv' /\ OffsetInv' /\ AreasInv' /\ Offset' \in Nat
         /\ block.Size = size /\ block.Base \in Nat /\ Offset <= block.Base
         /\ EndOfArea(block) = Offset' /\ Offset' % PageSize = 0 /\ Offset' <= AddressLimit
<1> USE DEF MemoryInv
<1> DEFINE end == AllocateFromMmap(Offset, size)
<1>1. /\ usable \in Seq(UsableEntry) /\ usable # <<>> /\ Offset \in Nat /\ LowMemory <= Offset
  BY DEF TypeInv, UsableInv, OffsetInv, UsableEntry
<1>2. PICK base \in Nat :
        /\ end = base + size
        /\ Offset <= base /\ base % PageSize = 0 /\ (base + size) % PageSize = 0
        /\ base + size <= AddressLimit
        /\ \E e \in DOMAIN usable : usable[e].Base <= base /\ base + size < EndOf(usable[e])
  BY <1>1, Allocation
<1>3. Offset' = base + size
  BY <1>2
<1> HIDE DEF end
<1>4. PICK e \in DOMAIN usable : usable[e].Base <= base /\ base + size < EndOf(usable[e])
  BY <1>2
<1>5. usable[e].Base \in Nat /\ EndOf(usable[e]) \in Nat
  <2>1. usable[e].Base \in Nat /\ EndOf(usable[e]) \in 0 .. Word - 1
    BY <1>1, UsableTypes
  <2> QED BY <2>1, Sizes
<1>6. block.Base = base /\ block.Size = size /\ EndOfArea(block) = base + size
  BY <1>3 DEF Block, EndOfArea
<1>7. NumInv' /\ UsableInv'
  BY UsableKept
<1>8. Offset' \in Nat /\ Offset <= Offset'
  BY <1>1, <1>2, <1>3
<1>9. OffsetInv'
  <2>1. LowMemory \in Nat /\ AddressLimit \in Nat
    BY SizesAssumption
  <2>2. LowMemory <= Offset' /\ Offset' % PageSize = 0 /\ Offset' <= AddressLimit
    BY <1>1, <1>2, <1>3, <1>8, <2>1
  <2>3. \E i \in DOMAIN usable' : usable'[i].Base < Offset' /\ Offset' < EndOf(usable'[i])
    <3>1. CASE size # 0
      BY <1>3, <1>4, <1>5, <3>1
    <3>2. CASE size = 0
      <4>1. PICK i \in DOMAIN usable : usable[i].Base < Offset /\ Offset < EndOf(usable[i])
        BY <3>2 DEF OffsetInv
      <4>2. Offset % PageSize = 0 /\ UsableInOrder(usable)
        BY DEF OffsetInv, UsableInv
      <4> HIDE DEF MemoryInv
      <4>3. Offset' = Offset
        BY <1>1, <3>2, <4>1, <4>2, AllocationOfNothing
      <4> QED BY <4>1, <4>3
    <3> QED BY <3>1, <3>2
  <2> QED BY <2>2, <2>3 DEF OffsetInv
<1>10. AreasInv'
  <2>1. Laid(Areas', Offset')
    <3>1. Laid(Areas, Offset)
      BY DEF AreasInv
    <3> HIDE DEF MemoryInv
    <3> QED BY <1>1, <1>2, <1>3, <1>6, <3>1, LaidMore
  <2>2. DOMAIN Areas' = DOMAIN Areas \cup {name} /\ Areas'[name] = block
        /\ \A n \in DOMAIN Areas : Areas'[n] = Areas[n]
    BY DEF With
  <2>3. \A n \in DOMAIN Areas : Within(Areas[n], usable)
    BY DEF AreasInv
  <2>4. Within(block, usable)
    BY <1>4, <1>6 DEF Within
  <2>5. \A n \in DOMAIN Areas' : Within(Areas'[n], usable')
    BY <2>2, <2>3, <2>4
  <2> QED BY <2>1, <2>5 DEF AreasInv
<1>11. EndOfArea(block) = Offset' /\ Offset' % PageSize = 0 /\ Offset' <= AddressLimit
  BY <1>2, <1>3, <1>6
<1> QED BY <1>2, <1>6, <1>7, <1>8, <1>9, <1>10, <1>11

\* The names of the page tables differ from those of the blocks.
LEMMA TableNames ==
  ASSUME NamesInv, at \in Granting, NEW level \in {"pml3", "pml2"}, NEW k
  PROVE  <<level, k>> \notin DOMAIN blocks /\ <<level, k>> # <<"file">>
<1>1. \A n \in DOMAIN blocks : n \in {<<"image">>, <<"stack">>, <<"pml4">>, <<"file">>, <<"area">>}
  BY DEF NamesInv, Granted, Granting
<1> QED BY <1>1

\* A block for one of the callers that panic.
LEMMA BlockGranted ==
  ASSUME MemoryInv,
         NEW here \in {"image", "stack", "pml4", "area"}, NEW name \in {"image", "stack", "pml4", "area"},
         NEW there \in Granting, there # "image",
         NEW size \in Nat, size % PageSize = 0, size # 0 \/ here # "image",
         AllocateOrPanic(here, name, size, there),
         <<name>> \notin DOMAIN blocks, at' # "panic",
         map'.tables = map.tables
  PROVE  /\ at' = there /\ NumInv' /\ UsableInv' /\ OffsetInv' /\ AreasInv' /\ Offset' \in Nat
         /\ DOMAIN blocks' = DOMAIN blocks \cup {<<name>>}
         /\ \A n \in DOMAIN blocks : blocks'[n] = blocks[n]
         /\ Areas' = With(Areas, <<name>>, blocks'[<<name>>]) /\ <<name>> \notin DOMAIN Areas
         /\ blocks'[<<name>>].Size = size /\ Offset <= blocks'[<<name>>].Base
         /\ blocks'[<<name>>].Base \in Nat
         /\ EndOfArea(blocks'[<<name>>]) = Offset' /\ Offset' % PageSize = 0 /\ Offset' < AddressLimit
<1> DEFINE end == AllocateFromMmap(Offset, size)
           block == Block(end, size)
<1>01. /\ at = here /\ end # Panic /\ end % AddressLimit # 0 /\ at' = there /\ Offset' = end
       /\ blocks' = With(blocks, <<name>>, block)
       /\ UNCHANGED <<mmap, usable, num, scan>>
  BY DEF AllocateOrPanic
<1>02. AddressLimit \in Nat \ {0} /\ 0 % AddressLimit = 0 /\ AddressLimit % AddressLimit = 0
  <2>1. AddressLimit \in Nat \ {0}
    BY SizesAssumption
  <2>2. (0 * AddressLimit) % AddressLimit = 0 /\ (1 * AddressLimit) % AddressLimit = 0
    BY <2>1, MultipleOf
  <2> QED BY <2>1, <2>2
<1>1. /\ at = here /\ end \notin {0, Panic} /\ end # AddressLimit /\ at' = there /\ Offset' = end
      /\ blocks' = With(blocks, <<name>>, block)
      /\ UNCHANGED <<mmap, usable, num, scan>>
  <2> HIDE DEF end
  <2> QED BY <1>01, <1>02
<1>2. at \in Granting /\ at' \in Granting \ {"image"}
  BY <1>1 DEF Granting
<1> HIDE DEF end
<1>3. block = Block(Offset', size)
  BY <1>1
<1> HIDE DEF block
<1>4. DOMAIN blocks' = DOMAIN blocks \cup {<<name>>} /\ blocks'[<<name>>] = block
      /\ \A n \in DOMAIN blocks : blocks'[n] = blocks[n]
  BY <1>1 DEF With
<1>5. <<name>> # <<"file">> /\ \A n \in DOMAIN map.tables : n # <<name>>
  <2>1. DOMAIN map.tables \subseteq {"pml3", "pml2"} \X Nat
    BY DEF NamesInv, MemoryInv
  <2> QED BY <2>1
<1>6. <<name>> \notin DOMAIN Areas
  BY <1>5 DEF Areas
<1>7. Areas' = With(Areas, <<name>>, block)
  <2>1. Areas' = [n \in (DOMAIN blocks' \ {<<"file">>}) \cup DOMAIN map.tables |->
                   IF n \in DOMAIN blocks' THEN blocks'[n] ELSE map.tables[n]]
    BY DEF Areas
  <2>2. DOMAIN Areas = (DOMAIN blocks \ {<<"file">>}) \cup DOMAIN map.tables
        /\ \A n \in DOMAIN Areas : Areas[n] = IF n \in DOMAIN blocks THEN blocks[n] ELSE map.tables[n]
    BY DEF Areas
  <2>3. DOMAIN Areas \cup {<<name>>} = (DOMAIN blocks' \ {<<"file">>}) \cup DOMAIN map.tables
    BY <1>4, <1>5, <2>2
  <2>4. \A n \in DOMAIN Areas : n \in DOMAIN blocks' <=> n \in DOMAIN blocks
    BY <1>4, <1>6
  <2>5. \A n \in DOMAIN Areas \cup {<<name>>} :
          (IF n \in DOMAIN blocks' THEN blocks'[n] ELSE map.tables[n])
          = IF n = <<name>> THEN block ELSE Areas[n]
    <3> TAKE n \in DOMAIN Areas \cup {<<name>>}
    <3>1. CASE n = <<name>>
      BY <1>4, <3>1
    <3>2. CASE n # <<name>>
      BY <1>4, <2>2, <2>4, <3>2
    <3> QED BY <3>1, <3>2
  <2> QED BY <2>1, <2>3, <2>5 DEF With
<1>8. /\ NumInv' /\ UsableInv' /\ OffsetInv' /\ AreasInv' /\ Offset' \in Nat
      /\ block.Size = size /\ block.Base \in Nat /\ Offset <= block.Base
      /\ EndOfArea(block) = Offset' /\ Offset' % PageSize = 0 /\ Offset' <= AddressLimit
  <2>1. AllocateFromMmap(Offset, size) \notin {0, Panic} /\ Offset' = AllocateFromMmap(Offset, size)
    BY <1>1 DEF end
  <2>2. size # 0 \/ at # "image"
    BY <1>1
  <2> QED BY <1>1, <1>2, <1>3, <1>6, <1>7, <2>1, <2>2, AreaGranted
<1>9. Offset' < AddressLimit
  BY <1>1, <1>02, <1>8
<1> QED BY <1>1, <1>4, <1>6, <1>7, <1>8, <1>9

-----------------------------------------------------------------------------
(***************************************************************************)
(* The kernel and its area.                                                *)
(***************************************************************************)
LEMMA KernelTypes ==
  ASSUME kernel \in Kernels
  PROVE  /\ kernel.Size \in Nat \ {0} /\ kernel.Overrun \in Nat /\ kernel.Overrun <= KernelStackSize
         /\ Len(kernel.Programs) \in Nat /\ DOMAIN kernel.Programs = 1 .. Len(kernel.Programs)
         /\ \A i \in DOMAIN kernel.Programs :
              StartOf(i) \in Nat /\ kernel.Programs[i].Size \in Nat /\ kernel.Programs[i].PaddedSize \in Nat
         /\ \A i \in Programs : i \in DOMAIN kernel.Programs /\ SizeOf(i) \in Nat \ {0}
<1>1. kernel \in Kernel /\ kernel.Overrun <= KernelStackSize
  BY KernelAssumption
<1>2. kernel.Size \in Nat \ {0} /\ kernel.Overrun \in Nat /\ kernel.Programs \in Seq(Program)
  BY <1>1 DEF Kernel
<1>3. Len(kernel.Programs) \in Nat /\ DOMAIN kernel.Programs = 1 .. Len(kernel.Programs)
  BY <1>2
<1>4. \A i \in DOMAIN kernel.Programs : kernel.Programs[i] \in Program
  BY <1>2, Element
<1>5. \A i \in DOMAIN kernel.Programs :
        StartOf(i) \in Nat /\ kernel.Programs[i].Size \in Nat /\ kernel.Programs[i].PaddedSize \in Nat
  BY <1>4 DEF StartOf, Program
<1>6. \A i \in Programs : i \in DOMAIN kernel.Programs /\ SizeOf(i) \in Nat \ {0}
  BY <1>5 DEF Programs, SizeOf
<1> QED BY <1>1, <1>2, <1>3, <1>5, <1>6

\* The ends of the range of addresses are what the loop makes of them.
LEMMA Addresses ==
  ASSUME kernel \in Kernels, Programs # {}
  PROVE  /\ EarliestVirtualAddress \in Nat
         /\ LatestVirtualAddress \in Nat
         /\ LatestVirtualAddress = 0 \/ \E i \in Programs : LatestVirtualAddress = EndOfProgram(i)
         /\ \A i \in Programs : EndOfProgram(i) <= LatestVirtualAddress /\ EndOfProgram(i) \in Nat
<1> DEFINE n == Len(kernel.Programs)
           first == EarliestVirtualAddress
           last == LatestVirtualAddress
<1>1. /\ n \in Nat /\ Programs \in SUBSET (1 .. n)
      /\ \A i \in Programs : StartOf(i) \in Nat /\ SizeOf(i) \in Nat
  BY KernelTypes DEF Programs
<1>2. AddressLimit \in Nat \ {0}
  BY SizesAssumption
<1>3. \A i \in Programs : EndOfProgram(i) \in Nat
  <2> TAKE i \in Programs
  <2>1. (StartOf(i) + SizeOf(i)) \in Nat
    BY <1>1
  <2>2. (StartOf(i) + SizeOf(i)) % AddressLimit \in 0 .. AddressLimit - 1
    BY <1>2, <2>1, Division
  <2> QED BY <1>2, <2>2 DEF EndOfProgram
<1> HIDE DEF n
<1>4. first \in Nat
  <2> DEFINE f == [i \in Programs |-> -StartOf(i)]
             S == {StartOf(i) : i \in Programs} \cup {AddressLimit - 1}
  <2>1. \A i \in Programs : f[i] \in Int /\ f[i] = -StartOf(i)
    BY <1>1
  <2> HIDE DEF f
  <2>2. PICK i \in Programs : \A j \in Programs : f[j] <= f[i]
    <3>1. \A j \in Programs : f[j] \in Int
      BY <2>1
    <3> QED BY <1>1, <3>1, GreatestOf
  <2>3. StartOf(i) \in S /\ \A j \in Programs : StartOf(i) <= StartOf(j)
    BY <1>1, <2>1, <2>2
  <2>4. first \in S
    <3>1. first = CHOOSE s \in S : \A j \in Programs : s <= StartOf(j)
      BY DEF EarliestVirtualAddress
    <3> HIDE DEF S, first
    <3> QED BY <2>3, <3>1
  <2>5. \A s \in S : s \in Nat
    BY <1>1, <1>2
  <2> HIDE DEF S, first
  <2> QED BY <2>4, <2>5
<1>5. last \in {EndOfProgram(i) : i \in Programs} \cup {0} /\ \A j \in Programs : EndOfProgram(j) <= last
  <2> DEFINE f == [i \in Programs |-> EndOfProgram(i)]
             S == {EndOfProgram(i) : i \in Programs} \cup {0}
  <2>1. \A i \in Programs : f[i] \in Int /\ f[i] = EndOfProgram(i)
    BY <1>3
  <2> HIDE DEF f
  <2>2. PICK i \in Programs : \A j \in Programs : f[j] <= f[i]
    <3>1. \A j \in Programs : f[j] \in Int
      BY <2>1
    <3> QED BY <1>1, <3>1, GreatestOf
  <2>3. EndOfProgram(i) \in S /\ \A j \in Programs : EndOfProgram(j) <= EndOfProgram(i)
    BY <2>1, <2>2
  <2>4. last = CHOOSE e \in S : \A j \in Programs : EndOfProgram(j) <= e
    BY DEF LatestVirtualAddress
  <2>5. last \in S /\ \A j \in Programs : EndOfProgram(j) <= last
    <3> HIDE DEF S, last
    <3> QED BY <2>3, <2>4
  <2> QED BY <2>5
<1> HIDE DEF first, last
<1>6. last = 0 \/ \E i \in Programs : last = EndOfProgram(i)
  BY <1>5
<1>7. last \in Nat
  BY <1>3, <1>6
<1> QED BY <1>3, <1>4, <1>5, <1>6, <1>7 DEF first, last

\* The programs of a kernel as the linker makes it fit into the area.
LEMMA AreaSize ==
  ASSUME kernel \in Kernels, ~HeadersAreRefused
  PROVE  /\ KernelAreaSize \in Nat /\ KernelAreaSize % PageSize = 0
         /\ IsLinked => \A i \in Programs : StartOf(i) + kernel.Programs[i].PaddedSize <= KernelAreaSize
<1> DEFINE first == EarliestVirtualAddress
           last == LatestVirtualAddress
           size == PageAlign(last - first)
<1>1. Programs # {} /\ ~(last < first)
  BY DEF HeadersAreRefused
<1>2. /\ first \in Nat /\ last \in Nat
      /\ last = 0 \/ \E i \in Programs : last = EndOfProgram(i)
      /\ \A i \in Programs : EndOfProgram(i) <= last /\ EndOfProgram(i) \in Nat
  BY <1>1, Addresses
<1>3. KernelAreaSize = size % AddressLimit
  BY DEF KernelAreaSize
<1>4. AddressLimit \in Nat \ {0} /\ AddressLimit % PageSize = 0 /\ PageSize \in Nat \ {0}
  BY SizesAssumption
<1>5. IsLinked => first = 0
  BY DEF IsLinked
<1> HIDE DEF first, last
<1>6. last - first \in Nat
  BY <1>1, <1>2
<1>7. /\ size \in Nat /\ size % PageSize = 0 /\ last - first <= size
      /\ \A m \in Nat : m % PageSize = 0 /\ last - first <= m => size <= m
  BY <1>6, PageAlignment
<1> HIDE DEF size
<1>8. size % AddressLimit \in Nat /\ (size % AddressLimit) % PageSize = 0
      /\ (size < AddressLimit => size % AddressLimit = size)
  <2>1. size \in Nat /\ size % PageSize = 0
    BY <1>7
  <2> QED BY <1>4, <2>1, RestOfMultiple, Zenon
<1>9. ASSUME IsLinked, NEW i \in Programs
      PROVE  StartOf(i) + kernel.Programs[i].PaddedSize <= KernelAreaSize
  <2>1. \A j \in Programs :
          /\ StartOf(j) \in Nat /\ kernel.Programs[j].Size \in Nat /\ kernel.Programs[j].PaddedSize \in Nat
          /\ SizeOf(j) \in Nat \ {0}
    BY KernelTypes
  <2>2. \A j \in Programs :
          /\ kernel.Programs[j].Size <= kernel.Programs[j].PaddedSize
          /\ StartOf(j) + kernel.Programs[j].PaddedSize <= AddressLimit - PageSize
    BY <1>9 DEF IsLinked
  <2>3. \A j \in Programs : SizeOf(j) = kernel.Programs[j].PaddedSize
    BY <2>1, <2>2 DEF SizeOf
  <2>4. \A j \in Programs : EndOfProgram(j) = StartOf(j) + kernel.Programs[j].PaddedSize
    <3> TAKE j \in Programs
    <3> DEFINE e == StartOf(j) + kernel.Programs[j].PaddedSize
    <3>1. EndOfProgram(j) = e % AddressLimit
      BY <2>3 DEF EndOfProgram
    <3>2. e \in Nat /\ e < AddressLimit
      BY <1>4, <2>1, <2>2
    <3> HIDE DEF e
    <3>3. e % AddressLimit = e
      BY <1>4, <3>2
    <3> QED BY <3>1, <3>3 DEF e
  <2>5. AddressLimit - PageSize \in Nat /\ (AddressLimit - PageSize) % PageSize = 0
    <3>1. PageSize <= AddressLimit
      BY <1>4, <2>1, <2>2
    <3>2. PageSize % PageSize = 0
      BY <1>4
    <3>3. PageSize \in Nat /\ AddressLimit \in Nat /\ AddressLimit - PageSize \in Nat
      BY <1>4, <3>1
    <3> QED BY <1>4, <3>1, <3>2, <3>3, MultiplesAdd, Zenon
  <2>6. last <= AddressLimit - PageSize
    BY <1>2, <2>2, <2>4, <2>5
  <2>7. last - first = last
    BY <1>2, <1>5, <1>9
  <2>8. size <= AddressLimit - PageSize
    BY <1>7, <2>5, <2>6, <2>7, <1>6
  <2>9. size < AddressLimit
    BY <1>4, <1>7, <2>8
  <2>10. KernelAreaSize = size
    BY <1>3, <1>8, <2>9
  <2>11. StartOf(i) + kernel.Programs[i].PaddedSize <= last
    BY <1>2, <2>4
  <2>12. StartOf(i) + kernel.Programs[i].PaddedSize \in Nat
    BY <2>1
  <2> QED BY <1>2, <1>7, <2>7, <2>10, <2>11, <2>12
<1> QED BY <1>3, <1>8, <1>9

\* Whatever is granted after the stack.
LEMMA FileKept ==
  ASSUME FileInv, AreasInv, Offset \in Nat, <<"stack">> \in DOMAIN blocks,
         NEW name, name \notin DOMAIN Areas, name \notin {<<"image">>, <<"stack">>, <<"file">>},
         NEW area, Areas' = With(Areas, name, area), area.Base \in Nat, Offset <= area.Base,
         DOMAIN blocks \subseteq DOMAIN blocks', DOMAIN blocks' \subseteq DOMAIN blocks \cup {name},
         \A n \in DOMAIN blocks : blocks'[n] = blocks[n],
         <<"area">> \in DOMAIN blocks' =>
           /\ ~HeadersAreRefused
           /\ name = <<"area">> /\ blocks'[<<"area">>] = area /\ area.Size = KernelAreaSize
           /\ EndOfArea(area) = Offset' /\ Offset' % PageSize = 0 /\ Offset' < AddressLimit,
         kernel' = kernel, copied' = <<>>
  PROVE  FileInv'
<1>1. DOMAIN Areas' = DOMAIN Areas \cup {name} /\ Areas'[name] = area
      /\ \A n \in DOMAIN Areas : Areas'[n] = Areas[n]
  BY DEF With
<1>2. /\ <<"image">> \in DOMAIN blocks /\ blocks[<<"image">>].Size = PageAlign(kernel.Size)
      /\ EndOfArea(blocks[<<"image">>]) <= blocks[<<"stack">>].Base
      /\ blocks[<<"stack">>].Size = KernelStackSize
      /\ \A n \in DOMAIN Areas \ {<<"image">>, <<"stack">>} : EndOfArea(blocks[<<"stack">>]) <= Areas[n].Base
      /\ <<"file">> \in DOMAIN blocks => blocks[<<"file">>] =
            [Base |-> blocks[<<"image">>].Base, Size |-> kernel.Size + kernel.Overrun]
  BY DEF FileInv
<1>3. /\ blocks'[<<"image">>] = blocks[<<"image">>] /\ blocks'[<<"stack">>] = blocks[<<"stack">>]
      /\ <<"file">> \in DOMAIN blocks' => <<"file">> \in DOMAIN blocks /\ blocks'[<<"file">>] = blocks[<<"file">>]
  BY <1>2
<1>4. EndOfArea(blocks[<<"stack">>]) <= area.Base
  <2>1. <<"stack">> \in DOMAIN Areas /\ Areas[<<"stack">>] = blocks[<<"stack">>]
    BY DEF Areas
  <2>2. /\ EndOfArea(blocks[<<"stack">>]) <= Offset
        /\ blocks[<<"stack">>].Base \in Nat /\ blocks[<<"stack">>].Size \in Nat
    BY <2>1 DEF AreasInv, Laid
  <2>3. EndOfArea(blocks[<<"stack">>]) \in Nat
    BY <2>2 DEF EndOfArea
  <2> QED BY <2>2, <2>3
<1>5. KernelAreaSize' = KernelAreaSize /\ (HeadersAreRefused' <=> HeadersAreRefused)
  BY ProgramsKept
<1>6. <<"area">> \in DOMAIN blocks' =>
        \A n \in DOMAIN Areas' \ {<<"area">>} : EndOfArea(Areas'[n]) <= blocks'[<<"area">>].Base
  <2>1. \A n \in DOMAIN Areas : EndOfArea(Areas[n]) <= Offset /\ EndOfArea(Areas[n]) \in Nat
    BY DEF AreasInv, Laid, EndOfArea
  <2> QED BY <1>1, <2>1
<1>7. \A n \in DOMAIN Areas' \ {<<"image">>, <<"stack">>} : EndOfArea(blocks'[<<"stack">>]) <= Areas'[n].Base
  BY <1>1, <1>2, <1>3, <1>4
<1> QED BY <1>2, <1>3, <1>5, <1>6, <1>7 DEF FileInv

\* The image is the first area, at the first high address.
LEMMA AllocateImageKeeps == MemoryInv /\ AllocateImage => MemoryInv'
<1> SUFFICES ASSUME MemoryInv, AllocateImage PROVE MemoryInv'
  OBVIOUS
<1> USE DEF MemoryInv
<1> DEFINE size == PageAlign(kernel.Size)
<1>1. AllocateOrPanic("image", "image", size, "stack") /\ map' = map /\ at = "image"
  BY DEF AllocateImage, AllocateOrPanic
<1>2. UNCHANGED <<report, mmap, usable, num, scan, copied, kernel, framebuffer>>
      /\ (at' = "panic" => UNCHANGED <<Offset, blocks>>)
  BY <1>1 DEF AllocateOrPanic
<1>3. map = [todo |-> map.todo, call |-> map.call, tables |-> map.tables, pages |-> map.pages]
      /\ kernel \in Kernels
  BY DEF TypeInv
<1>4. CASE at' = "panic"
  <2>1. at \in Granting \ {"trim"} /\ at' \in Stopped
    BY <1>1, <1>4 DEF Granting, Stopped
  <2> QED BY <1>1, <1>2, <1>3, <1>4, <2>1, StopKeeps
<1>5. CASE at' # "panic"
  <2>1. size \in Nat \ {0} /\ size % PageSize = 0
    <3>1. kernel.Size \in Nat \ {0}
      BY <1>3, KernelTypes
    <3> QED BY <3>1, PageAlignment
  <2>2. DOMAIN blocks = {} /\ DOMAIN map.tables = {} /\ copied = <<>> /\ map.call = <<>>
    BY <1>1 DEF NamesInv, Granted, Granting
  <2>3. "stack" \in Granting /\ "image" \in {"image", "stack", "pml4", "area"} /\ <<"image">> \notin DOMAIN blocks
    BY <2>2 DEF Granting
  <2>4. map'.tables = map.tables
    BY <1>1
  <2> HIDE DEF size, MemoryInv
  <2>5. /\ at' = "stack" /\ NumInv' /\ UsableInv' /\ OffsetInv' /\ AreasInv' /\ Offset' \in Nat
        /\ DOMAIN blocks' = DOMAIN blocks \cup {<<"image">>}
        /\ blocks'[<<"image">>].Size = size
    BY <1>1, <1>5, <2>1, <2>3, <2>4, BlockGranted
  <2> USE DEF MemoryInv
  <2>6. TypeInv'
    <3>1. usable' \in Seq(UsableEntry) /\ \A p \in DOMAIN map.pages : map.pages[p] \in BOOLEAN
      BY <1>2 DEF TypeInv, UsableEntry
    <3>2. at' \in Granting \cup Stopped \cup {"kernel"}
      BY <2>3, <2>5
    <3> QED BY <1>1, <1>2, <1>3, <2>5, <3>1, <3>2, TypeKept
  <2>7. NamesInv'
    <3>1. DOMAIN blocks' = Granted["stack"]
      BY <2>2, <2>5 DEF Granted, Granting
    <3>2. at' \notin Seeking
      BY <2>5 DEF Seeking
    <3> QED BY <1>1, <1>2, <2>2, <2>5, <3>1, <3>2 DEF NamesInv
  <2>8. FileInv'
    <3>1. DOMAIN blocks' = {<<"image">>}
      BY <2>2, <2>5
    <3>2. <<"stack">> \notin DOMAIN blocks' /\ <<"file">> \notin DOMAIN blocks' /\ <<"area">> \notin DOMAIN blocks'
      BY <3>1
    <3>3. blocks'[<<"image">>].Size = PageAlign(kernel'.Size)
      BY <1>2, <2>5 DEF size
    <3>4. copied' = <<>>
      BY <1>2, <2>2
    <3> QED BY <3>2, <3>3, <3>4 DEF FileInv
  <2>9. MapsInv'
    BY <2>5 DEF MapsInv, EverythingIsMapped
  <2> QED BY <2>5, <2>6, <2>7, <2>8, <2>9
<1> QED BY <1>4, <1>5

\* The stack comes after the image, so that it takes what is written behind the file.
LEMMA AllocateStackKeeps == MemoryInv /\ AllocateStack => MemoryInv'
<1> SUFFICES ASSUME MemoryInv, AllocateStack PROVE MemoryInv'
  OBVIOUS
<1> USE DEF MemoryInv
<1>1. AllocateOrPanic("stack", "stack", KernelStackSize, "pml4") /\ map' = map /\ at = "stack"
  BY DEF AllocateStack, AllocateOrPanic
<1>2. UNCHANGED <<report, mmap, usable, num, scan, copied, kernel, framebuffer>>
      /\ (at' = "panic" => UNCHANGED <<Offset, blocks>>)
  BY <1>1 DEF AllocateOrPanic
<1>3. map = [todo |-> map.todo, call |-> map.call, tables |-> map.tables, pages |-> map.pages]
  BY DEF TypeInv
<1>4. CASE at' = "panic"
  <2>1. at \in Granting \ {"trim"} /\ at' \in Stopped
    BY <1>1, <1>4 DEF Granting, Stopped
  <2> QED BY <1>1, <1>2, <1>3, <1>4, <2>1, StopKeeps
<1>5. CASE at' # "panic"
  <2>1. KernelStackSize \in Nat \ {0} /\ KernelStackSize % PageSize = 0
    BY SizesAssumption
  <2>2. DOMAIN blocks = {<<"image">>} /\ DOMAIN map.tables = {} /\ copied = <<>> /\ map.call = <<>>
    BY <1>1 DEF NamesInv, Granted, Granting
  <2>3. "pml4" \in Granting /\ "stack" \in {"image", "stack", "pml4", "area"} /\ <<"stack">> \notin DOMAIN blocks
    BY <2>2 DEF Granting
  <2>4. map'.tables = map.tables
    BY <1>1
  <2> HIDE DEF MemoryInv
  <2>5. /\ at' = "pml4" /\ NumInv' /\ UsableInv' /\ OffsetInv' /\ AreasInv' /\ Offset' \in Nat
        /\ DOMAIN blocks' = DOMAIN blocks \cup {<<"stack">>}
        /\ \A n \in DOMAIN blocks : blocks'[n] = blocks[n]
        /\ blocks'[<<"stack">>].Size = KernelStackSize /\ Offset <= blocks'[<<"stack">>].Base
        /\ blocks'[<<"stack">>].Base \in Nat
    BY <1>1, <1>5, <2>1, <2>3, <2>4, BlockGranted
  <2> USE DEF MemoryInv
  <2>6. TypeInv'
    <3>1. usable' \in Seq(UsableEntry) /\ \A p \in DOMAIN map.pages : map.pages[p] \in BOOLEAN
      BY <1>2 DEF TypeInv, UsableEntry
    <3>2. at' \in Granting \cup Stopped \cup {"kernel"}
      BY <2>3, <2>5
    <3> QED BY <1>1, <1>2, <1>3, <2>5, <3>1, <3>2, TypeKept
  <2>7. NamesInv'
    <3>1. DOMAIN blocks' = Granted["pml4"]
      BY <2>2, <2>5 DEF Granted, Granting
    <3>2. at' \notin Seeking
      BY <2>5 DEF Seeking
    <3> QED BY <1>1, <1>2, <2>2, <2>5, <3>1, <3>2 DEF NamesInv
  <2>8. FileInv'
    <3>1. DOMAIN blocks' = {<<"image">>, <<"stack">>}
      BY <2>2, <2>5
    <3>2. <<"file">> \notin DOMAIN blocks' /\ <<"area">> \notin DOMAIN blocks'
      BY <3>1
    <3>3. blocks[<<"image">>].Size = PageAlign(kernel.Size) /\ blocks'[<<"image">>] = blocks[<<"image">>]
      BY <2>2, <2>5 DEF FileInv
    <3>4. copied' = <<>>
      BY <1>2, <2>2
    <3>5. EndOfArea(blocks[<<"image">>]) <= Offset /\ EndOfArea(blocks[<<"image">>]) \in Nat
      <4>1. <<"image">> \in DOMAIN Areas /\ Areas[<<"image">>] = blocks[<<"image">>]
        BY <2>2 DEF Areas
      <4> QED BY <4>1 DEF AreasInv, Laid, EndOfArea
    <3>6. EndOfArea(blocks'[<<"image">>]) <= blocks'[<<"stack">>].Base
      <4>1. Offset \in Nat
        BY DEF TypeInv
      <4> QED BY <2>5, <3>3, <3>5, <4>1
    <3>7. DOMAIN Areas' \ {<<"image">>, <<"stack">>} = {}
      <4>1. DOMAIN map'.tables = {}
        BY <1>1, <2>2
      <4> QED BY <3>1, <4>1 DEF Areas
    <3>8. kernel' = kernel
      BY <1>2
    <3> QED BY <2>5, <3>1, <3>2, <3>3, <3>4, <3>6, <3>7, <3>8 DEF FileInv
  <2>9. MapsInv'
    BY <2>5 DEF MapsInv, EverythingIsMapped
  <2> QED BY <2>5, <2>6, <2>7, <2>8, <2>9
<1> QED BY <1>4, <1>5

-----------------------------------------------------------------------------
(***************************************************************************)
(* The mappings: though start and size are rounded on their own, the pages *)
(* of a mapping hold the whole area that it was asked for.                 *)
(***************************************************************************)
LEMMA QuotientBound ==
  ASSUME NEW n \in Nat, NEW q \in Nat, NEW b \in Nat \ {0}, n < q * b + b
  PROVE  n \div b <= q
<1> DEFINE d == n \div b
           r == n % b
<1>1. d \in Nat /\ r \in 0 .. b - 1 /\ n = d * b + r
  BY Division
<1> HIDE DEF d, r
<1>2. SUFFICES ASSUME d >= q + 1 PROVE FALSE
  BY <1>1 DEF d
<1>3. d - (q + 1) \in Nat
  BY <1>1, <1>2
<1>4. (d - (q + 1)) * b = d * b - (q + 1) * b /\ (q + 1) * b = q * b + 1 * b /\ 1 * b = b
  BY <1>1, Distributes
<1>5. (d - (q + 1)) * b \in Nat /\ d * b \in Nat /\ q * b \in Nat
  BY <1>1, <1>3, MultipleOf
<1> DEFINE x == d * b
           y == q * b
           z == (d - (q + 1)) * b
           v == (q + 1) * b
<1>6. x \in Nat /\ y \in Nat /\ z \in Nat /\ z = x - v /\ v = y + b /\ n = x + r /\ n < y + b
  BY <1>1, <1>4, <1>5
<1> HIDE DEF x, y, z, v
<1> QED BY <1>1, <1>6

LEMMA MappingFacts ==
  ASSUME NEW base \in Nat, NEW size \in Nat \ {0}, Physical(base, size), NEW pat \in BOOLEAN
  PROVE  LET m == Mapping(base, size, pat)
         IN /\ m.pat = pat
            /\ FirstPage(m) \in Nat /\ LastPage(m) \in Nat /\ FirstPage(m) <= LastPage(m)
            /\ FirstPage(m) = base \div LargePage
            /\ (base + size - 1) \div LargePage <= LastPage(m)
<1> DEFINE m == Mapping(base, size, pat)
           g == LargePage
           start == base - (base % g)
           up == RoundUp(size, g)
           sum == start + up
           q == sum \div g
<1>1. m.pat = pat /\ m.start = start /\ m.size = up
  BY DEF Mapping, LargeAlign, RoundUp
<1>2. g \in Nat \ {0} /\ Word \in Nat /\ base + size + g < Word
  BY Sizes DEF Physical
<1>3. FirstPage(m) = start \div g /\ LastPage(m) = (sum % Word) \div g
  BY <1>1 DEF FirstPage, LastPage, Add
<1> HIDE DEF g, m
<1>4. start \in Nat /\ start % g = 0 /\ start <= base /\ base < start + g /\ start \div g = base \div g
  BY <1>2, RoundingDown
<1>5. up \in Nat /\ up % g = 0 /\ size <= up /\ up < size + g
  BY <1>2, RoundingUp
<1> HIDE DEF start, up
<1>6. sum \in Nat /\ sum % g = 0 /\ start <= sum /\ sum < Word
  <2>1. (start + up) % g = 0
    BY <1>2, <1>4, <1>5, MultiplesAdd
  <2> QED BY <1>2, <1>4, <1>5, <2>1
<1>7. base + size - 1 \in Nat /\ base + size - 1 < sum + g
  BY <1>2, <1>4, <1>5
<1> HIDE DEF sum
<1>8. sum % Word = sum
  BY <1>2, <1>6
<1>9. q \in Nat /\ sum = q * g
  <2>1. PICK k \in Nat : sum = k * g
    BY <1>2, <1>6, IsMultiple
  <2>2. q = k
    BY <1>2, <2>1, MultipleOf
  <2> QED BY <2>1, <2>2
<1>10. start \div g <= q /\ start \div g \in Nat
  BY <1>2, <1>4, <1>6, Order, Division
<1> HIDE DEF q
<1>11. (base + size - 1) \div g <= q
  <2> DEFINE n == base + size - 1
  <2>1. n \in Nat /\ n < q * g + g
    BY <1>7, <1>9
  <2> HIDE DEF n
  <2>2. n \div g <= q
    BY <1>2, <1>9, <2>1, QuotientBound
  <2> QED BY <2>2 DEF n
<1>12. LastPage(m) = q
  BY <1>3, <1>8 DEF q
<1> QED BY <1>1, <1>3, <1>4, <1>9, <1>10, <1>11, <1>12 DEF m, g

\* Every usable entry, and every frame buffer, is memory.
LEMMA UsableIsMemory ==
  ASSUME TypeInv, UsableInv, at \in Granting, NEW i \in DOMAIN usable
  PROVE  /\ usable[i].Base \in Nat /\ usable[i].Limit \in Nat \ {0}
         /\ EndOf(usable[i]) = usable[i].Base + usable[i].Limit
         /\ Physical(usable[i].Base, usable[i].Limit)
<1>1. usable \in Seq(UsableEntry) /\ mmap \in Seq(MmapEntry)
  BY DEF TypeInv, UsableEntry
<1>2. /\ ~Wrapped(usable[i]) /\ PartOfFree(usable[i].Base, EndOf(usable[i]), mmap)
      /\ usable[i].Limit >= MmapEntryMemoryLimit
  BY DEF UsableInv, NoneWrapped, Granting
<1>3. usable[i].Base \in Nat /\ usable[i].Limit \in Nat
      /\ EndOf(usable[i]) = usable[i].Base + usable[i].Limit /\ EndOf(usable[i]) \in 0 .. Word - 1
  BY <1>1, <1>2, UsableTypes
<1>4. PICK j \in DOMAIN mmap : mmap[j].Type = Free /\ EndOf(usable[i]) <= EndOf(mmap[j])
  BY <1>2 DEF PartOfFree
<1>5. EndOf(mmap[j]) \in 0 .. Word - 1 /\ EndOf(mmap[j]) + LargePage < Word
  BY <1>1, <1>4, EntryTypes
<1> DEFINE a == EndOf(usable[i])
           b == EndOf(mmap[j])
<1>6. a + LargePage < Word
  <2>1. a \in Nat /\ b \in Nat /\ LargePage \in Nat /\ Word \in Nat /\ a <= b /\ b + LargePage < Word
    BY <1>3, <1>4, <1>5, Sizes
  <2> HIDE DEF a, b
  <2> QED BY <2>1
<1>7. Physical(usable[i].Base, usable[i].Limit)
  BY <1>3, <1>6 DEF Physical
<1>8. usable[i].Limit # 0
  BY <1>2, <1>3, SizesAssumption
<1> QED BY <1>3, <1>7, <1>8

LEMMA FramebufferIsMemory ==
  ASSUME TypeInv, NEW i \in DOMAIN framebuffer
  PROVE  /\ framebuffer[i].Base \in Nat /\ framebuffer[i].Size \in Nat \ {0}
         /\ Physical(framebuffer[i].Base, framebuffer[i].Size)
<1>1. framebuffer \in Seq([Base : Nat, Size : Nat \ {0}])
      /\ Physical(framebuffer[i].Base, framebuffer[i].Size)
  BY FramebufferAssumption DEF TypeInv
<1>2. framebuffer[i] \in [Base : Nat, Size : Nat \ {0}]
  BY <1>1, Element
<1> QED BY <1>1, <1>2

\* Each mapping that is wanted has a first page and a last one.
LEMMA WantedFacts ==
  ASSUME TypeInv, UsableInv, at \in Granting, NEW m \in Wanted
  PROVE  /\ m.pat \in BOOLEAN
         /\ FirstPage(m) \in Nat /\ LastPage(m) \in Nat /\ FirstPage(m) <= LastPage(m)
<1>1. CASE m = Mapping(0, IdentityMapThreshold, FALSE)
  <2>1. IdentityMapThreshold \in Nat \ {0} /\ Physical(0, IdentityMapThreshold) /\ 0 \in Nat
    BY SizesAssumption
  <2> QED BY <1>1, <2>1, MappingFacts
<1>2. CASE \E i \in DOMAIN usable : m = Mapping(usable[i].Base, usable[i].Limit, FALSE)
  <2>1. PICK i \in DOMAIN usable : m = Mapping(usable[i].Base, usable[i].Limit, FALSE)
    BY <1>2
  <2>2. usable[i].Base \in Nat /\ usable[i].Limit \in Nat \ {0} /\ Physical(usable[i].Base, usable[i].Limit)
    BY UsableIsMemory
  <2> QED BY <2>1, <2>2, MappingFacts
<1>3. CASE \E i \in DOMAIN framebuffer : m = Mapping(framebuffer[i].Base, framebuffer[i].Size, TRUE)
  <2>1. PICK i \in DOMAIN framebuffer : m = Mapping(framebuffer[i].Base, framebuffer[i].Size, TRUE)
    BY <1>3
  <2>2. framebuffer[i].Base \in Nat /\ framebuffer[i].Size \in Nat \ {0}
        /\ Physical(framebuffer[i].Base, framebuffer[i].Size)
    BY FramebufferIsMemory
  <2> QED BY <2>1, <2>2, MappingFacts
<1> QED BY <1>1, <1>2, <1>3 DEF Wanted

\* What IsMapped says, of any tables.
Covers(pages, base, end, pats) ==
  \A p \in (base \div LargePage) .. ((end - 1) \div LargePage) : p \in DOMAIN pages /\ pages[p] \in pats

\* What a mapping covers.
LEMMA PartsAreMapped ==
  ASSUME NEW b \in Nat, NEW s \in Nat \ {0}, Physical(b, s), NEW pat \in BOOLEAN,
         NEW pages, Mapped(Mapping(b, s, pat), pages),
         NEW base \in Nat, NEW end \in Nat, b <= base, base < end, end <= b + s
  PROVE  /\ (\A p \in DOMAIN pages : pages[p] \in BOOLEAN) => Covers(pages, base, end, BOOLEAN)
         /\ pat = TRUE => Covers(pages, base, end, {TRUE})
<1> DEFINE m == Mapping(b, s, pat)
           last == b + s - 1
<1>1. /\ m.pat = pat
      /\ FirstPage(m) \in Nat /\ LastPage(m) \in Nat
      /\ FirstPage(m) = b \div LargePage
      /\ last \div LargePage <= LastPage(m)
  BY MappingFacts
<1>2. last \in Nat /\ end - 1 \in Nat /\ end - 1 <= last /\ LargePage \in Nat \ {0}
  BY Sizes
<1> HIDE DEF m, last
<1>3. b \div LargePage <= base \div LargePage /\ base \div LargePage \in Nat
  BY <1>2, Order, Division
<1>4. (end - 1) \div LargePage <= last \div LargePage /\ (end - 1) \div LargePage \in Nat
      /\ last \div LargePage \in Nat
  <2> DEFINE e == end - 1
  <2>1. e \in Nat /\ e <= last
    BY <1>2
  <2> HIDE DEF e
  <2>2. e \div LargePage <= last \div LargePage /\ e \div LargePage \in Nat /\ last \div LargePage \in Nat
    BY <1>2, <2>1, Order, Division
  <2> QED BY <2>2 DEF e
<1>5. SUFFICES ASSUME NEW p \in (base \div LargePage) .. ((end - 1) \div LargePage)
               PROVE  p \in DOMAIN pages /\ (pat = TRUE => pages[p] = TRUE)
  BY DEF Covers
<1>6. p \in FirstPage(m) .. LastPage(m)
  BY <1>1, <1>3, <1>4
<1>7. Mapped(m, pages)
  BY DEF m
<1> QED BY <1>1, <1>6, <1>7 DEF Mapped

LEMMA Joined ==
  ASSUME NEW S, NEW s \in Seq(S), NEW t \in Seq(S), NEW joined, joined = s \o t
  PROVE  /\ joined \in Seq(S)
         /\ Len(joined) = Len(s) + Len(t)
         /\ \A i \in DOMAIN s : i \in DOMAIN joined /\ joined[i] = s[i]
         /\ \A i \in DOMAIN t : Len(s) + i \in DOMAIN joined /\ joined[Len(s) + i] = t[i]
         /\ \A i \in DOMAIN joined :
              \/ i \in DOMAIN s /\ joined[i] = s[i]
              \/ i - Len(s) \in DOMAIN t /\ joined[i] = t[i - Len(s)]
OBVIOUS

LEMMA ListOf ==
  ASSUME NEW S, NEW n \in Nat, NEW f \in [1 .. n -> S]
  PROVE  f \in Seq(S) /\ Len(f) = n /\ DOMAIN f = 1 .. n
OBVIOUS

\* Elements of which only the last may be special.
LEMMA SpecialIsLast ==
  ASSUME NEW S, NEW Special, NEW d \in Seq(S), NEW c \in Seq(S), Len(c) <= 1,
         \A i \in DOMAIN d : d[i] \notin Special, NEW todo, todo = d \o c
  PROVE  \A i \in DOMAIN todo : todo[i] \in Special => i = Len(todo)
<1>1. /\ todo \in Seq(S)
      /\ Len(todo) = Len(d) + Len(c)
      /\ \A i \in DOMAIN todo :
           \/ i \in DOMAIN d /\ todo[i] = d[i]
           \/ i - Len(d) \in DOMAIN c /\ todo[i] = c[i - Len(d)]
  BY Joined
<1>2. Len(c) \in Nat /\ DOMAIN c = 1 .. Len(c) /\ Len(d) \in Nat
  OBVIOUS
<1>3. SUFFICES ASSUME NEW i \in DOMAIN todo, todo[i] \in Special PROVE i = Len(todo)
  OBVIOUS
<1>4. i - Len(d) \in DOMAIN c
  BY <1>1, <1>3
<1>5. i \in Nat
  BY <1>1
<1> QED BY <1>1, <1>2, <1>4, <1>5

\* The order in which InitializePageEntries() is called.
Low == <<Mapping(0, IdentityMapThreshold, FALSE)>>

Entries == [i \in DOMAIN usable |-> Mapping(usable[i].Base, usable[i].Limit, FALSE)]

Buffers == [i \in DOMAIN framebuffer |-> Mapping(framebuffer[i].Base, framebuffer[i].Size, TRUE)]

Before == Low \o Entries

Todo == Before \o Buffers

\* All that is wanted is asked for, and the frame buffer last.
LEMMA TodoFacts ==
  ASSUME TypeInv, UsableInv, at \in Granting
  PROVE  /\ Todo \in Seq(Wanted)
         /\ \A i \in DOMAIN Todo : Todo[i].pat => i = Len(Todo)
         /\ \A m \in Wanted : \E i \in DOMAIN Todo : Todo[i] = m
<1> DEFINE k == Len(usable)
           l == Len(framebuffer)
<1>1. /\ k \in Nat /\ DOMAIN usable = 1 .. k /\ l \in Nat /\ DOMAIN framebuffer = 1 .. l /\ l <= 1
  <2>1. usable \in Seq(UsableEntry) /\ framebuffer \in Seq([Base : Nat, Size : Nat \ {0}])
        /\ Len(framebuffer) <= 1
    BY FramebufferAssumption DEF TypeInv, UsableEntry
  <2> QED BY <2>1
<1>2. Low \in Seq(Wanted) /\ DOMAIN Low = {1} /\ Low[1] = Mapping(0, IdentityMapThreshold, FALSE)
  BY DEF Wanted, Low
<1>3. /\ Entries \in Seq(Wanted) /\ DOMAIN Entries = DOMAIN usable
      /\ \A i \in DOMAIN usable : Entries[i] = Mapping(usable[i].Base, usable[i].Limit, FALSE)
  <2>1. Entries \in [1 .. k -> Wanted]
    BY <1>1 DEF Wanted, Entries
  <2>2. DOMAIN Entries = DOMAIN usable
        /\ \A i \in DOMAIN usable : Entries[i] = Mapping(usable[i].Base, usable[i].Limit, FALSE)
    BY DEF Entries
  <2> HIDE DEF k
  <2>3. Entries \in Seq(Wanted)
    BY <1>1, <2>1, ListOf
  <2> QED BY <2>2, <2>3
<1>4. /\ Buffers \in Seq(Wanted) /\ Len(Buffers) <= 1 /\ DOMAIN Buffers = DOMAIN framebuffer
      /\ \A i \in DOMAIN framebuffer : Buffers[i] = Mapping(framebuffer[i].Base, framebuffer[i].Size, TRUE)
  <2>1. Buffers \in [1 .. l -> Wanted]
    BY <1>1 DEF Wanted, Buffers
  <2>2. DOMAIN Buffers = DOMAIN framebuffer
        /\ \A i \in DOMAIN framebuffer : Buffers[i] = Mapping(framebuffer[i].Base, framebuffer[i].Size, TRUE)
    BY DEF Buffers
  <2> HIDE DEF l
  <2>3. Buffers \in Seq(Wanted) /\ Len(Buffers) = l
    BY <1>1, <2>1, ListOf
  <2> QED BY <1>1, <2>2, <2>3
<1> HIDE DEF k, l
<1>5. /\ Before \in Seq(Wanted)
      /\ \A i \in DOMAIN Low : i \in DOMAIN Before /\ Before[i] = Low[i]
      /\ \A i \in DOMAIN Entries : Len(Low) + i \in DOMAIN Before /\ Before[Len(Low) + i] = Entries[i]
      /\ \A i \in DOMAIN Before :
           \/ i \in DOMAIN Low /\ Before[i] = Low[i]
           \/ i - Len(Low) \in DOMAIN Entries /\ Before[i] = Entries[i - Len(Low)]
  <2>1. Low \in Seq(Wanted) /\ Entries \in Seq(Wanted) /\ Before = Low \o Entries
    BY <1>2, <1>3 DEF Before
  <2> QED BY <2>1, Joined
<1>6. /\ Todo \in Seq(Wanted)
      /\ \A i \in DOMAIN Before : i \in DOMAIN Todo /\ Todo[i] = Before[i]
      /\ \A i \in DOMAIN Buffers : Len(Before) + i \in DOMAIN Todo /\ Todo[Len(Before) + i] = Buffers[i]
  <2>1. Before \in Seq(Wanted) /\ Buffers \in Seq(Wanted) /\ Todo = Before \o Buffers
    BY <1>4, <1>5 DEF Todo
  <2> QED BY <2>1, Joined
<1>7. \A i \in DOMAIN Todo : Todo[i].pat => i = Len(Todo)
  <2> DEFINE special == {m \in Wanted : m.pat}
  <2>1. \A i \in DOMAIN Before : Before[i].pat = FALSE
    <3> TAKE i \in DOMAIN Before
    <3>1. CASE i \in DOMAIN Low /\ Before[i] = Low[i]
      BY <1>2, <3>1 DEF Mapping
    <3>2. CASE i - Len(Low) \in DOMAIN Entries /\ Before[i] = Entries[i - Len(Low)]
      BY <1>3, <3>2 DEF Mapping
    <3> QED BY <1>5, <3>1, <3>2
  <2>2. \A i \in DOMAIN Before : Before[i] \notin special
    BY <2>1
  <2>3. \A i \in DOMAIN Todo : Todo[i].pat => Todo[i] \in special
    BY <1>6, Element
  <2> HIDE DEF special
  <2>4. \A i \in DOMAIN Todo : Todo[i] \in special => i = Len(Todo)
    <3>1. Todo = Before \o Buffers
      BY DEF Todo
    <3> QED BY <1>4, <1>5, <2>2, <3>1, SpecialIsLast
  <2> QED BY <2>3, <2>4
<1>8. \A m \in Wanted : \E i \in DOMAIN Todo : Todo[i] = m
  <2> TAKE m \in Wanted
  <2>1. CASE m = Mapping(0, IdentityMapThreshold, FALSE)
    BY <1>2, <1>5, <1>6, <2>1
  <2>2. CASE \E i \in DOMAIN usable : m = Mapping(usable[i].Base, usable[i].Limit, FALSE)
    <3>1. PICK i \in DOMAIN usable : m = Mapping(usable[i].Base, usable[i].Limit, FALSE)
      BY <2>2
    <3>2. i \in DOMAIN Entries /\ Entries[i] = m
      BY <1>3, <3>1
    <3>3. Len(Low) + i \in DOMAIN Before /\ Before[Len(Low) + i] = m
      BY <1>5, <3>2
    <3> QED BY <1>6, <3>3
  <2>3. CASE \E i \in DOMAIN framebuffer : m = Mapping(framebuffer[i].Base, framebuffer[i].Size, TRUE)
    BY <1>4, <1>6, <2>3
  <2> QED BY <2>1, <2>2, <2>3 DEF Wanted
<1> QED BY <1>6, <1>7, <1>8

\* What is wanted depends on the usable map and the frame buffer alone.
LEMMA WantedKept ==
  ASSUME UNCHANGED <<usable, framebuffer>>
  PROVE  Wanted' = Wanted
BY DEF Wanted, Mapping, LargeAlign

\* From the top table on, all that is wanted is pending.
LEMMA AllocatePml4Keeps == MemoryInv /\ AllocatePml4 => MemoryInv'
<1> SUFFICES ASSUME MemoryInv, AllocatePml4 PROVE MemoryInv'
  OBVIOUS
<1> USE DEF MemoryInv
<1>1. AllocateOrPanic("pml4", "pml4", PageSize, "map") /\ at = "pml4" /\ map' = [map EXCEPT !.todo = Todo]
  BY DEF AllocatePml4, AllocateOrPanic, Todo, Before, Low, Entries, Buffers
<1>2. UNCHANGED <<report, mmap, usable, num, scan, copied, kernel, framebuffer>>
      /\ (at' = "panic" => UNCHANGED <<Offset, blocks>>)
  BY <1>1 DEF AllocateOrPanic
<1>3. /\ map' = [todo |-> Todo, call |-> map.call, tables |-> map.tables, pages |-> map.pages]
      /\ map'.todo = Todo /\ map'.call = map.call /\ map'.tables = map.tables /\ map'.pages = map.pages
  <2>1. map = [todo |-> map.todo, call |-> map.call, tables |-> map.tables, pages |-> map.pages]
    BY DEF TypeInv
  <2> QED BY <1>1, <2>1
<1>4. at \in Granting \ {"trim"}
  BY <1>1 DEF Granting
<1>5. CASE at' = "panic"
  <2>1. at' \in Stopped
    BY <1>5 DEF Stopped
  <2>2. map' = [todo |-> map'.todo, call |-> map'.call, tables |-> map.tables, pages |-> map.pages]
    BY <1>3
  <2> QED BY <1>2, <1>4, <1>5, <2>1, <2>2, StopKeeps
<1>6. CASE at' # "panic"
  <2>1. PageSize \in Nat \ {0} /\ PageSize % PageSize = 0
    BY SizesAssumption, Sizes
  <2>2. /\ DOMAIN blocks = {<<"image">>, <<"stack">>} /\ DOMAIN map.tables = {}
        /\ copied = <<>> /\ map.call = <<>>
    BY <1>1 DEF NamesInv, Granted, Granting
  <2>3. "map" \in Granting /\ "pml4" \in {"image", "stack", "pml4", "area"} /\ <<"pml4">> \notin DOMAIN blocks
    BY <2>2 DEF Granting
  <2> HIDE DEF MemoryInv
  <2>4. /\ at' = "map" /\ NumInv' /\ UsableInv' /\ OffsetInv' /\ AreasInv' /\ Offset' \in Nat
        /\ DOMAIN blocks' = DOMAIN blocks \cup {<<"pml4">>}
        /\ \A n \in DOMAIN blocks : blocks'[n] = blocks[n]
        /\ Areas' = With(Areas, <<"pml4">>, blocks'[<<"pml4">>]) /\ <<"pml4">> \notin DOMAIN Areas
        /\ Offset <= blocks'[<<"pml4">>].Base /\ blocks'[<<"pml4">>].Base \in Nat
    BY <1>1, <1>3, <1>6, <2>1, <2>3, BlockGranted
  <2> USE DEF MemoryInv
  <2>5. TypeInv'
    <3>1. usable' \in Seq(UsableEntry) /\ \A p \in DOMAIN map.pages : map.pages[p] \in BOOLEAN
      BY <1>2 DEF TypeInv, UsableEntry
    <3>2. at' \in Granting \cup Stopped \cup {"kernel"}
      BY <2>3, <2>4
    <3>3. map' = [todo |-> map'.todo, call |-> map'.call, tables |-> map'.tables, pages |-> map'.pages]
          /\ \A p \in DOMAIN map'.pages : map'.pages[p] \in BOOLEAN
      BY <1>3, <3>1
    <3> QED BY <1>2, <2>4, <3>1, <3>2, <3>3, TypeKept
  <2>6. NamesInv'
    <3>1. DOMAIN blocks' = Granted["map"]
      BY <2>2, <2>4 DEF Granted, Granting
    <3>2. at' \notin Seeking
      BY <2>4 DEF Seeking
    <3> QED BY <1>2, <1>3, <2>2, <2>4, <3>1, <3>2 DEF NamesInv
  <2>7. FileInv'
    <3>1. <<"stack">> \in DOMAIN blocks /\ <<"area">> \notin DOMAIN blocks'
          /\ DOMAIN blocks \subseteq DOMAIN blocks' /\ DOMAIN blocks' \subseteq DOMAIN blocks \cup {<<"pml4">>}
      BY <2>2, <2>4
    <3>2. <<"pml4">> \notin {<<"image">>, <<"stack">>, <<"file">>} /\ Offset \in Nat
      BY DEF TypeInv
    <3>3. kernel' = kernel /\ copied' = <<>>
      BY <1>2, <2>2
    <3>4. FileInv /\ AreasInv
      OBVIOUS
    <3> HIDE DEF MemoryInv
    <3> QED BY <2>4, <3>1, <3>2, <3>3, <3>4, FileKept
  <2>8. MapsInv'
    <3>1. Wanted' = Wanted
      BY <1>2, WantedKept
    <3>2. /\ Todo \in Seq(Wanted)
          /\ \A i \in DOMAIN Todo : Todo[i].pat => i = Len(Todo)
          /\ \A m \in Wanted : \E i \in DOMAIN Todo : Todo[i] = m
      BY <1>4, TodoFacts
    <3>3. map'.todo = Todo /\ map'.call = <<>>
      BY <1>3, <2>2
    <3>4. \A m \in Wanted' : Pending(m, map'.todo, map'.call, map'.pages)
      BY <3>1, <3>2, <3>3 DEF Pending
    <3>5. /\ map'.todo \in Seq(Wanted')
          /\ \A i \in DOMAIN map'.todo : map'.todo[i].pat => i = Len(map'.todo)
      BY <3>1, <3>2, <3>3
    <3> QED BY <2>4, <3>3, <3>4, <3>5 DEF MapsInv, EverythingIsMapped
  <2> QED BY <2>4, <2>5, <2>6, <2>7, <2>8
<1> QED BY <1>5, <1>6

\* A step that grants nothing.
LEMMA MappingKeeps ==
  ASSUME MemoryInv, at = "map", at' \in {"map", "read"},
         UNCHANGED <<report, mmap, usable, num, scan, Offset, blocks, copied, kernel, framebuffer>>,
         map' = [todo |-> map'.todo, call |-> map'.call, tables |-> map.tables, pages |-> map'.pages],
         \A p \in DOMAIN map'.pages : map'.pages[p] \in BOOLEAN
  PROVE  TypeInv' /\ NumInv' /\ UsableInv' /\ OffsetInv' /\ AreasInv' /\ NamesInv' /\ FileInv'
<1> USE DEF MemoryInv
<1>1. map'.tables = map.tables
  OBVIOUS
<1>2. /\ at' \in Granting \ {"image"} /\ at \in Granting \ {"image"} /\ Granted[at'] = Granted[at]
      /\ at' \notin Seeking \cup {"image", "stack", "pml4", "trim", "kernel"}
  BY DEF Granting, Seeking, Granted
<1>3. TypeInv'
  <2>1. usable' \in Seq(UsableEntry) /\ Offset' \in Nat
    BY DEF TypeInv, UsableEntry
  <2>2. map' = [todo |-> map'.todo, call |-> map'.call, tables |-> map'.tables, pages |-> map'.pages]
    BY <1>1
  <2> QED BY <1>2, <2>1, <2>2, TypeKept
<1>4. NumInv' /\ UsableInv'
  BY <1>2, UsableKept
<1>5. OffsetInv'
  BY <1>2 DEF OffsetInv
<1>6. Areas' = Areas
  BY <1>1 DEF Areas
<1>7. AreasInv'
  BY <1>2, <1>6 DEF AreasInv
<1>8. copied = <<>> /\ DOMAIN copied = {} /\ DOMAIN map.tables \subseteq {"pml3", "pml2"} \X Nat
      /\ DOMAIN blocks = Granted[at]
  BY <1>2 DEF NamesInv
<1>9. NamesInv'
  BY <1>1, <1>2, <1>8 DEF NamesInv
<1>10. FileInv'
  <2>1. KernelAreaSize' = KernelAreaSize /\ (HeadersAreRefused' <=> HeadersAreRefused)
    BY ProgramsKept
  <2> QED BY <1>6, <1>8, <2>1 DEF FileInv
<1> QED BY <1>3, <1>4, <1>5, <1>7, <1>9, <1>10

\* Nothing is left to ask for, and so all that is wanted is mapped.
LEMMA MappingDoneKeeps == MemoryInv /\ MappingDone => MemoryInv'
<1> SUFFICES ASSUME MemoryInv, MappingDone PROVE MemoryInv'
  OBVIOUS
<1>1. /\ at = "map" /\ map.call = <<>> /\ map.todo = <<>> /\ at' = "read"
      /\ UNCHANGED <<report, mmap, usable, num, scan, Offset, blocks, copied, kernel, framebuffer, map>>
  BY DEF MappingDone
<1>2. /\ map = [todo |-> map.todo, call |-> map.call, tables |-> map.tables, pages |-> map.pages]
      /\ \A p \in DOMAIN map.pages : map.pages[p] \in BOOLEAN
      /\ \A m \in Wanted : Pending(m, map.todo, map.call, map.pages)
  BY <1>1 DEF MemoryInv, TypeInv, MapsInv
<1>3. TypeInv' /\ NumInv' /\ UsableInv' /\ OffsetInv' /\ AreasInv' /\ NamesInv' /\ FileInv'
  BY <1>1, <1>2, MappingKeeps
<1>4. \A m \in Wanted : Mapped(m, map.pages)
  <2>1. DOMAIN <<>> = {}
    OBVIOUS
  <2> QED BY <1>1, <1>2, <2>1 DEF Pending
<1>5. MapsInv'
  <2>1. Wanted' = Wanted
    BY <1>1, WantedKept
  <2>2. \A m \in Wanted' : Mapped(m, map'.pages)
    BY <1>1, <1>4, <2>1
  <2> QED BY <1>1, <2>2 DEF MapsInv, EverythingIsMapped
<1> QED BY <1>3, <1>5 DEF MemoryInv

LEMMA TailFacts ==
  ASSUME NEW S, NEW s \in Seq(S), s # <<>>
  PROVE  /\ Head(s) = s[1] /\ Head(s) \in S /\ 1 \in DOMAIN s
         /\ Tail(s) \in Seq(S) /\ Len(Tail(s)) = Len(s) - 1
         /\ \A i \in DOMAIN Tail(s) : i + 1 \in DOMAIN s /\ Tail(s)[i] = s[i + 1]
         /\ \A i \in DOMAIN s : i # 1 => i - 1 \in DOMAIN Tail(s) /\ Tail(s)[i - 1] = s[i]
OBVIOUS

LEMMA EmptyList ==
  ASSUME NEW S, NEW s \in Seq(S), Len(s) = 0
  PROVE  s = <<>>
OBVIOUS

\* The next mapping becomes the call in progress, with no table passed yet.
LEMMA StartMappingKeeps == MemoryInv /\ StartMapping => MemoryInv'
<1> SUFFICES ASSUME MemoryInv, StartMapping PROVE MemoryInv'
  OBVIOUS
<1> DEFINE todo == map.todo
           m == Head(todo)
           call == <<[map |-> m, table |-> FirstPage(m) \div Fanout]>>
<1>1. /\ at = "map" /\ map.call = <<>> /\ map.todo # <<>> /\ at' = "map"
      /\ map' = [map EXCEPT !.todo = Tail(todo), !.call = call]
      /\ UNCHANGED <<report, mmap, usable, num, scan, Offset, blocks, copied, kernel, framebuffer>>
  BY DEF StartMapping
<1>2. /\ map = [todo |-> map.todo, call |-> map.call, tables |-> map.tables, pages |-> map.pages]
      /\ \A p \in DOMAIN map.pages : map.pages[p] \in BOOLEAN
      /\ \A n \in Wanted : Pending(n, todo, map.call, map.pages)
      /\ todo \in Seq(Wanted) /\ \A i \in DOMAIN todo : todo[i].pat => i = Len(todo)
      /\ TypeInv /\ UsableInv /\ at \in Granting
  BY <1>1 DEF MemoryInv, TypeInv, MapsInv, Granting
<1> HIDE DEF call
<1>3. map' = [todo |-> Tail(todo), call |-> call, tables |-> map.tables, pages |-> map.pages]
  BY <1>1, <1>2
<1>4. /\ map'.todo = Tail(todo) /\ map'.call = call /\ map'.pages = map.pages
      /\ map' = [todo |-> map'.todo, call |-> map'.call, tables |-> map.tables, pages |-> map'.pages]
  BY <1>3
<1>5. TypeInv' /\ NumInv' /\ UsableInv' /\ OffsetInv' /\ AreasInv' /\ NamesInv' /\ FileInv'
  BY <1>1, <1>2, <1>4, MappingKeeps
<1> HIDE DEF todo, m
<1>6. /\ m = todo[1] /\ m \in Wanted /\ 1 \in DOMAIN todo
      /\ Tail(todo) \in Seq(Wanted) /\ Len(Tail(todo)) = Len(todo) - 1
      /\ \A i \in DOMAIN Tail(todo) : i + 1 \in DOMAIN todo /\ Tail(todo)[i] = todo[i + 1]
      /\ \A i \in DOMAIN todo : i # 1 => i - 1 \in DOMAIN Tail(todo) /\ Tail(todo)[i - 1] = todo[i]
  <2>1. todo \in Seq(Wanted) /\ todo # <<>>
    BY <1>1, <1>2 DEF todo
  <2> QED BY <2>1, TailFacts DEF m
<1>7. m.pat \in BOOLEAN /\ FirstPage(m) \in Nat /\ LastPage(m) \in Nat /\ FirstPage(m) <= LastPage(m)
  BY <1>2, <1>6, WantedFacts
<1>8. \A i \in DOMAIN Tail(todo) : Tail(todo)[i].pat => i = Len(Tail(todo))
  <2> TAKE i \in DOMAIN Tail(todo)
  <2>1. Tail(todo)[i].pat => i + 1 = Len(todo)
    BY <1>2, <1>6
  <2>2. i \in Nat /\ Len(todo) \in Nat
    BY <1>2, <1>6
  <2>3. Len(Tail(todo)) = Len(todo) - 1
    BY <1>6
  <2> DEFINE k == Len(todo)
             l == Len(Tail(todo))
             pat == Tail(todo)[i].pat
  <2>4. (pat => i + 1 = k) /\ i \in Nat /\ k \in Nat /\ l = k - 1
    BY <2>1, <2>2, <2>3
  <2> HIDE DEF k, l, pat
  <2>5. pat => i = l
    BY <2>4
  <2> QED BY <2>5 DEF pat, l
<1>9. m.pat => Tail(todo) = <<>>
  <2> SUFFICES ASSUME m.pat PROVE Tail(todo) = <<>>
    OBVIOUS
  <2>1. Len(todo) = 1
    BY <1>2, <1>6
  <2>2. Len(Tail(todo)) = 0
    BY <1>6, <2>1
  <2>3. Tail(todo) \in Seq(Wanted)
    BY <1>6
  <2> QED BY <2>2, <2>3, EmptyList
<1>10. call[1].map = m /\ call[1].table = FirstPage(m) \div Fanout /\ call # <<>>
       /\ call = <<[map |-> call[1].map, table |-> call[1].table]>>
  BY DEF call
<1>11. CallInv(call, map.pages)
  <2>1. Fanout \in Nat \ {0}
    BY Sizes
  <2>2. /\ FirstPage(m) \div Fanout \in Nat
        /\ FirstPage(m) \div Fanout <= LastPage(m) \div Fanout
    BY <1>7, <2>1, Division, Order
  <2>3. MappedBelow(m, FirstPage(m) \div Fanout, map.pages)
    <3>1. \A p \in FirstPage(m) .. LastPage(m) : ~(p \div Fanout < FirstPage(m) \div Fanout)
      <4> TAKE p \in FirstPage(m) .. LastPage(m)
      <4>1. p \in Nat /\ FirstPage(m) <= p
        BY <1>7
      <4>2. FirstPage(m) \div Fanout <= p \div Fanout /\ p \div Fanout \in Nat
        BY <1>7, <2>1, <4>1, Division, Order
      <4> QED BY <2>2, <4>2
    <3> QED BY <3>1 DEF MappedBelow
  <2> QED BY <1>6, <1>10, <2>2, <2>3 DEF CallInv
<1>12. \A n \in Wanted : Pending(n, Tail(todo), call, map.pages)
  <2> TAKE n \in Wanted
  <2>1. n.pat \in BOOLEAN
    BY <1>2, WantedFacts
  <2>2. CASE n = m
    BY <1>9, <1>10, <2>2 DEF Pending
  <2>3. CASE n # m /\ \E i \in DOMAIN todo : todo[i] = n
    <3>1. PICK i \in DOMAIN todo : todo[i] = n
      BY <2>3
    <3>2. i # 1
      BY <1>6, <2>3, <3>1
    <3> QED BY <1>6, <3>1, <3>2 DEF Pending
  <2>4. CASE n # m /\ ~\E i \in DOMAIN todo : todo[i] = n
    <3>1. Mapped(n, map.pages) /\ (n.pat => todo = <<>>)
      BY <1>1, <1>2, <2>4 DEF Pending
    <3>2. ~n.pat
      BY <1>6, <3>1
    <3> QED BY <3>1, <3>2 DEF Pending
  <2> QED BY <2>2, <2>3, <2>4
<1>13. MapsInv'
  <2>1. Wanted' = Wanted
    BY <1>1, WantedKept
  <2>2. \A n \in Wanted' : Pending(n, map'.todo, map'.call, map'.pages)
    BY <1>4, <1>12, <2>1
  <2>3. /\ map'.todo \in Seq(Wanted')
        /\ \A i \in DOMAIN map'.todo : map'.todo[i].pat => i = Len(map'.todo)
    BY <1>4, <1>6, <1>8, <2>1
  <2>4. CallInv(map.call, map.pages)'
    BY <1>4, <1>11, <2>1 DEF CallInv
  <2>5. map'.call # <<>> /\ map'.call[1].map.pat => map'.todo = <<>>
    BY <1>4, <1>9, <1>10
  <2> QED BY <1>1, <2>2, <2>3, <2>4, <2>5 DEF MapsInv, EverythingIsMapped
<1> QED BY <1>5, <1>13 DEF MemoryInv

\* A table that was filled.
Filled(m, t, pages) ==
  [p \in PagesIn(m, t) \cup DOMAIN pages |-> IF p \in PagesIn(m, t) THEN m.pat ELSE pages[p]]

LEMMA FilledFacts ==
  ASSUME NEW m, m.pat \in BOOLEAN, FirstPage(m) \in Nat, LastPage(m) \in Nat,
         NEW t \in Nat, NEW pages, MappedBelow(m, t, pages),
         \A p \in DOMAIN pages : pages[p] \in BOOLEAN
  PROVE  /\ \A p \in DOMAIN Filled(m, t, pages) : Filled(m, t, pages)[p] \in BOOLEAN
         /\ DOMAIN pages \subseteq DOMAIN Filled(m, t, pages)
         /\ MappedBelow(m, t + 1, Filled(m, t, pages))
<1> DEFINE filled == Filled(m, t, pages)
<1>1. /\ DOMAIN filled = PagesIn(m, t) \cup DOMAIN pages
      /\ \A p \in DOMAIN filled : filled[p] = IF p \in PagesIn(m, t) THEN m.pat ELSE pages[p]
  BY DEF Filled
<1> HIDE DEF filled
<1>2. \A p \in DOMAIN filled : filled[p] \in BOOLEAN
  BY <1>1
<1>3. SUFFICES ASSUME NEW p \in FirstPage(m) .. LastPage(m), p \div Fanout < t + 1
               PROVE  p \in DOMAIN filled /\ (m.pat => filled[p] = TRUE)
  BY <1>1, <1>2 DEF MappedBelow, filled
<1>4. p \in Nat /\ FirstPage(m) <= p /\ p <= LastPage(m)
  OBVIOUS
<1>5. p \div Fanout \in Nat
  BY <1>4, Sizes, Division
<1>6. CASE p \in PagesIn(m, t)
  <2>1. p \in DOMAIN filled /\ filled[p] = m.pat
    BY <1>1, <1>6
  <2> QED BY <2>1
<1>7. CASE p \notin PagesIn(m, t)
  <2>1. p \div Fanout # t
    <3> SUFFICES ASSUME p \div Fanout = t PROVE p \in PagesIn(m, t)
      BY <1>7
    <3> DEFINE f == Fanout
               q == p \div Fanout
               x == q * f
    <3>1. q \in Nat /\ f \in Nat \ {0} /\ p % f \in 0 .. f - 1 /\ p = q * f + (p % f) /\ q * f \in Nat
      BY <1>4, Sizes, Division, MultipleOf
    <3> HIDE DEF x
    <3>2. p \in q * f .. q * f + f - 1
      <4>1. x \in Nat /\ p % f \in 0 .. f - 1 /\ f \in Nat /\ p = x + (p % f)
        BY <3>1 DEF x
      <4> HIDE DEF f
      <4>2. p \in x .. x + f - 1
        BY <4>1
      <4> QED BY <4>2 DEF x
    <3> QED BY <1>4, <3>2 DEF PagesIn
  <2>2. p \div Fanout < t
    BY <1>3, <1>5, <2>1
  <2>3. p \in DOMAIN pages /\ (m.pat => pages[p] = TRUE)
    BY <2>2 DEF MappedBelow
  <2> QED BY <1>1, <1>7, <2>3
<1> QED BY <1>6, <1>7

\* One more table is passed, and with the last one the mapping is complete.
LEMMA FillTableKeeps == MemoryInv /\ FillTable => MemoryInv'
<1> SUFFICES ASSUME MemoryInv, FillTable PROVE MemoryInv'
  OBVIOUS
<1> DEFINE m == map.call[1].map
           t == map.call[1].table
           next == IF t = LastPage(m) \div Fanout THEN <<>> ELSE <<[map |-> m, table |-> t + 1]>>
           pages == Filled(m, t, map.pages)
<1>1. /\ at = "map" /\ map.call # <<>> /\ at' = "map"
      /\ map' = [map EXCEPT !.pages = pages, !.call = next]
      /\ UNCHANGED <<report, mmap, usable, num, scan, Offset, blocks, copied, kernel, framebuffer>>
  BY DEF FillTable, Filled
<1>2. /\ map = [todo |-> map.todo, call |-> map.call, tables |-> map.tables, pages |-> map.pages]
      /\ \A p \in DOMAIN map.pages : map.pages[p] \in BOOLEAN
      /\ \A n \in Wanted : Pending(n, map.todo, map.call, map.pages)
      /\ map.todo \in Seq(Wanted) /\ \A i \in DOMAIN map.todo : map.todo[i].pat => i = Len(map.todo)
      /\ TypeInv /\ UsableInv /\ at \in Granting
      /\ CallInv(map.call, map.pages) /\ (m.pat => map.todo = <<>>)
  BY <1>1 DEF MemoryInv, TypeInv, MapsInv, Granting
<1> HIDE DEF pages, next
<1>3. /\ map'.todo = map.todo /\ map'.call = next /\ map'.pages = pages
      /\ map' = [todo |-> map'.todo, call |-> map'.call, tables |-> map.tables, pages |-> map'.pages]
  <2>1. map' = [todo |-> map.todo, call |-> next, tables |-> map.tables, pages |-> pages]
    BY <1>1, <1>2
  <2> QED BY <2>1
<1>4. m \in Wanted /\ t \in Nat /\ t <= LastPage(m) \div Fanout /\ MappedBelow(m, t, map.pages)
  BY <1>2 DEF CallInv
<1> HIDE DEF m, t
<1>5. m.pat \in BOOLEAN /\ FirstPage(m) \in Nat /\ LastPage(m) \in Nat
  BY <1>2, <1>4, WantedFacts
<1>6. /\ \A p \in DOMAIN pages : pages[p] \in BOOLEAN
      /\ DOMAIN map.pages \subseteq DOMAIN pages
      /\ MappedBelow(m, t + 1, pages)
  BY <1>2, <1>4, <1>5, FilledFacts DEF pages
<1>7. TypeInv' /\ NumInv' /\ UsableInv' /\ OffsetInv' /\ AreasInv' /\ NamesInv' /\ FileInv'
  BY <1>1, <1>3, <1>6, MappingKeeps
<1>8. LastPage(m) \div Fanout \in Nat
  BY <1>5, Sizes, Division
<1>9. CASE t = LastPage(m) \div Fanout
  <2>1. next = <<>>
    BY <1>9 DEF next
  <2>2. Mapped(m, pages)
    <3> SUFFICES ASSUME NEW p \in FirstPage(m) .. LastPage(m)
                 PROVE  p \in DOMAIN pages /\ (m.pat => pages[p] = TRUE)
      BY DEF Mapped
    <3>1. p \in Nat /\ p <= LastPage(m)
      BY <1>5
    <3>2. p \div Fanout \in Nat /\ p \div Fanout <= LastPage(m) \div Fanout
      BY <1>5, <3>1, Sizes, Division, Order
    <3>3. p \div Fanout < t + 1
      BY <1>4, <1>9, <3>2
    <3> QED BY <1>6, <3>3 DEF MappedBelow
  <2>3. \A n \in Wanted : Pending(n, map.todo, next, pages)
    <3> TAKE n \in Wanted
    <3>1. CASE \E i \in DOMAIN map.todo : map.todo[i] = n
      BY <3>1 DEF Pending
    <3>2. CASE n = m
      BY <1>2, <2>1, <2>2, <3>2 DEF Pending, m
    <3>3. CASE n # m /\ ~\E i \in DOMAIN map.todo : map.todo[i] = n
      <4>1. Mapped(n, map.pages) /\ (n.pat => map.call = <<>>)
        BY <1>2, <3>3 DEF Pending, m
      <4>2. ~n.pat
        BY <1>1, <4>1
      <4>3. Mapped(n, pages)
        BY <1>6, <4>1, <4>2 DEF Mapped
      <4> QED BY <4>2, <4>3 DEF Pending
    <3> QED BY <3>1, <3>2, <3>3
  <2>4. MapsInv'
    <3>1. Wanted' = Wanted
      BY <1>1, WantedKept
    <3>2. \A n \in Wanted' : Pending(n, map'.todo, map'.call, map'.pages)
      BY <1>3, <2>3, <3>1
    <3>3. /\ map'.todo \in Seq(Wanted')
          /\ \A i \in DOMAIN map'.todo : map'.todo[i].pat => i = Len(map'.todo)
      BY <1>2, <1>3, <3>1
    <3>4. map'.call = <<>>
      BY <1>3, <2>1
    <3> QED BY <1>1, <3>2, <3>3, <3>4 DEF MapsInv, EverythingIsMapped
  <2> QED BY <1>7, <2>4 DEF MemoryInv
<1>10. CASE t # LastPage(m) \div Fanout
  <2>1. /\ next = <<[map |-> m, table |-> t + 1]>> /\ next # <<>>
        /\ next[1].map = m /\ next[1].table = t + 1
        /\ next = <<[map |-> next[1].map, table |-> next[1].table]>>
    BY <1>10 DEF next
  <2>2. CallInv(next, pages)
    <3>1. t + 1 \in Nat /\ t + 1 <= LastPage(m) \div Fanout
      BY <1>4, <1>8, <1>10
    <3> QED BY <1>4, <1>6, <2>1, <3>1 DEF CallInv
  <2>3. m.pat => map.todo = <<>>
    BY <1>2 DEF m
  <2>4. \A n \in Wanted : Pending(n, map.todo, next, pages)
    <3> TAKE n \in Wanted
    <3>1. CASE \E i \in DOMAIN map.todo : map.todo[i] = n
      BY <3>1 DEF Pending
    <3>2. CASE n = m
      BY <2>1, <2>3, <3>2 DEF Pending
    <3>3. CASE n # m /\ ~\E i \in DOMAIN map.todo : map.todo[i] = n
      <4>1. Mapped(n, map.pages) /\ (n.pat => map.call = <<>>)
        BY <1>2, <3>3 DEF Pending, m
      <4>2. ~n.pat
        BY <1>1, <4>1
      <4>3. Mapped(n, pages)
        BY <1>6, <4>1, <4>2 DEF Mapped
      <4> QED BY <4>2, <4>3 DEF Pending
    <3> QED BY <3>1, <3>2, <3>3
  <2>5. MapsInv'
    <3>1. Wanted' = Wanted
      BY <1>1, WantedKept
    <3>2. \A n \in Wanted' : Pending(n, map'.todo, map'.call, map'.pages)
      BY <1>3, <2>4, <3>1
    <3>3. /\ map'.todo \in Seq(Wanted')
          /\ \A i \in DOMAIN map'.todo : map'.todo[i].pat => i = Len(map'.todo)
      BY <1>2, <1>3, <3>1
    <3>4. CallInv(map.call, map.pages)'
      BY <1>3, <2>2, <3>1 DEF CallInv
    <3>5. map'.call # <<>> /\ map'.call[1].map.pat => map'.todo = <<>>
      BY <1>3, <2>1, <2>3
    <3> QED BY <1>1, <3>2, <3>3, <3>4, <3>5 DEF MapsInv, EverythingIsMapped
  <2> QED BY <1>7, <2>5 DEF MemoryInv
<1> QED BY <1>9, <1>10

\* A table is one more area, and changes no mapping.
LEMMA AllocateTableKeeps == MemoryInv /\ AllocateTable => MemoryInv'
<1> SUFFICES ASSUME MemoryInv, AllocateTable PROVE MemoryInv'
  OBVIOUS
<1> DEFINE t == map.call[1].table
           name == NextMissing(t)
           end == AllocateFromMmap(Offset, PageSize)
           block == Block(end, PageSize)
<1>1. /\ at = "map" /\ map.call # <<>> /\ Missing(t) # {}
      /\ UNCHANGED <<report, mmap, usable, num, scan, blocks, copied, kernel, framebuffer>>
      /\ end \in {0, Panic} => /\ at' \in {"panic", "wild"}
                               /\ UNCHANGED <<Offset, map>>
      /\ end \notin {0, Panic} => /\ at' = at /\ Offset' = end
                                  /\ map' = [map EXCEPT !.tables = With(@, name, block)]
  BY DEF AllocateTable, OffsetAfter
<1>2. /\ map = [todo |-> map.todo, call |-> map.call, tables |-> map.tables, pages |-> map.pages]
      /\ \A p \in DOMAIN map.pages : map.pages[p] \in BOOLEAN
      /\ usable \in Seq(UsableEntry)
  BY DEF MemoryInv, TypeInv, UsableEntry
<1>3. at \in Granting \ {"image", "trim"}
  BY <1>1 DEF Granting
<1>4. CASE end \in {0, Panic}
  <2>1. at' \in Stopped
    BY <1>1, <1>4 DEF Stopped
  <2>2. map' = [todo |-> map'.todo, call |-> map'.call, tables |-> map.tables, pages |-> map.pages]
    BY <1>1, <1>2, <1>4
  <2>3. UNCHANGED <<report, mmap, usable, num, scan, Offset, blocks, copied, kernel, framebuffer>>
    BY <1>1, <1>4
  <2> QED BY <1>3, <2>1, <2>2, <2>3, StopKeeps
<1>5. CASE end \notin {0, Panic}
  <2>1. end = AllocateFromMmap(Offset, PageSize)
    OBVIOUS
  <2> HIDE DEF end, block
  <2>2. /\ at' = "map" /\ Offset' = end
        /\ map' = [todo |-> map.todo, call |-> map.call, tables |-> With(map.tables, name, block),
                   pages |-> map.pages]
    BY <1>1, <1>2, <1>5
  <2>3. /\ map'.todo = map.todo /\ map'.call = map.call /\ map'.pages = map.pages
        /\ map'.tables = With(map.tables, name, block)
        /\ map' = [todo |-> map'.todo, call |-> map'.call, tables |-> map'.tables, pages |-> map'.pages]
    BY <2>2
  <2>4. t \in Nat
    BY <1>1 DEF MemoryInv, MapsInv, CallInv
  <2>5. /\ name \in {"pml3", "pml2"} \X Nat /\ name \notin DOMAIN map.tables
        /\ name \notin DOMAIN blocks /\ name # <<"file">>
    <3>1. name \in {<<"pml3", t \div Fanout>>, <<"pml2", t>>} /\ name \notin DOMAIN map.tables
      BY <1>1 DEF NextMissing, Missing
    <3>2. t \div Fanout \in Nat
      BY <2>4, Sizes, Division
    <3>3. \A level \in {"pml3", "pml2"} : \A k \in Nat :
            <<level, k>> \notin DOMAIN blocks /\ <<level, k>> # <<"file">>
      BY <1>3, TableNames DEF MemoryInv
    <3> HIDE DEF t, name
    <3>4. CASE name = <<"pml3", t \div Fanout>>
      BY <3>1, <3>2, <3>3, <3>4
    <3>5. CASE name = <<"pml2", t>>
      BY <2>4, <3>1, <3>3, <3>5
    <3> QED BY <3>1, <3>4, <3>5
  <2> HIDE DEF t, name
  <2>6. name \notin DOMAIN Areas /\ name \notin {<<"image">>, <<"stack">>, <<"file">>}
    <3>1. {<<"image">>, <<"stack">>} \cap ({"pml3", "pml2"} \X Nat) = {}
      OBVIOUS
    <3> QED BY <2>5, <3>1 DEF Areas
  <2>7. Areas' = With(Areas, name, block)
    <3>1. DOMAIN map'.tables = DOMAIN map.tables \cup {name} /\ map'.tables[name] = block
          /\ \A n \in DOMAIN map.tables : map'.tables[n] = map.tables[n]
      BY <2>3, <2>5 DEF With
    <3>2. Areas' = [n \in (DOMAIN blocks \ {<<"file">>}) \cup DOMAIN map'.tables |->
                     IF n \in DOMAIN blocks THEN blocks[n] ELSE map'.tables[n]]
      BY <1>1 DEF Areas
    <3>3. DOMAIN Areas = (DOMAIN blocks \ {<<"file">>}) \cup DOMAIN map.tables
          /\ \A n \in DOMAIN Areas : Areas[n] = IF n \in DOMAIN blocks THEN blocks[n] ELSE map.tables[n]
      BY DEF Areas
    <3>4. DOMAIN Areas \cup {name} = (DOMAIN blocks \ {<<"file">>}) \cup DOMAIN map'.tables
      BY <3>1, <3>3
    <3>5. \A n \in DOMAIN Areas \cup {name} :
            (IF n \in DOMAIN blocks THEN blocks[n] ELSE map'.tables[n])
            = IF n = name THEN block ELSE Areas[n]
      <4> TAKE n \in DOMAIN Areas \cup {name}
      <4>1. CASE n = name
        BY <2>5, <3>1, <4>1
      <4>2. CASE n # name
        BY <3>1, <3>3, <4>2
      <4> QED BY <4>1, <4>2
    <3> QED BY <3>2, <3>4, <3>5 DEF With
  <2>8. /\ NumInv' /\ UsableInv' /\ OffsetInv' /\ AreasInv' /\ Offset' \in Nat
        /\ block.Size = PageSize /\ block.Base \in Nat /\ Offset <= block.Base
    <3>1. PageSize \in Nat \ {0} /\ PageSize % PageSize = 0
      BY SizesAssumption, Sizes
    <3>2. AllocateFromMmap(Offset, PageSize) \notin {0, Panic} /\ Offset' = AllocateFromMmap(Offset, PageSize)
      BY <1>5, <2>1, <2>2
    <3>3. block = Block(Offset', PageSize)
      BY <2>2 DEF block
    <3>4. at' \in Granting \ {"image"} /\ UNCHANGED <<mmap, usable, num, scan>>
      BY <1>1, <1>3, <2>2
    <3> QED BY <1>3, <2>6, <2>7, <3>1, <3>2, <3>3, <3>4, AreaGranted
  <2>9. TypeInv'
    <3>1. at' \in Granting \cup Stopped \cup {"kernel"}
      BY <1>1, <1>3, <2>2
    <3> QED BY <1>1, <1>2, <2>3, <2>8, <3>1, TypeKept DEF MemoryInv
  <2>10. NamesInv'
    <3>1. DOMAIN map'.tables = DOMAIN map.tables \cup {name}
      BY <2>3 DEF With
    <3>2. DOMAIN map.tables \subseteq {"pml3", "pml2"} \X Nat /\ DOMAIN blocks = Granted["map"] /\ copied = <<>>
      BY <1>1, <1>3 DEF MemoryInv, NamesInv
    <3>3. at' \notin Seeking \cup {"image", "stack", "pml4", "trim", "kernel"}
      BY <2>2 DEF Seeking
    <3> QED BY <1>1, <2>2, <2>5, <3>1, <3>2, <3>3 DEF NamesInv
  <2>11. FileInv'
    <3>1. DOMAIN blocks = Granted["map"] /\ copied = <<>> /\ FileInv /\ AreasInv /\ Offset \in Nat
      BY <1>1, <1>3 DEF MemoryInv, NamesInv, TypeInv
    <3>2. <<"stack">> \in DOMAIN blocks /\ <<"area">> \notin DOMAIN blocks
      BY <3>1 DEF Granted, Granting
    <3>3. kernel' = kernel /\ copied' = <<>> /\ blocks' = blocks
      BY <1>1, <3>1
    <3> QED BY <2>6, <2>7, <2>8, <3>1, <3>2, <3>3, FileKept
  <2>12. MapsInv'
    <3>1. Wanted' = Wanted
      BY <1>1, WantedKept
    <3>2. /\ map.todo \in Seq(Wanted)
          /\ \A i \in DOMAIN map.todo : map.todo[i].pat => i = Len(map.todo)
          /\ CallInv(map.call, map.pages)
          /\ map.call[1].map.pat => map.todo = <<>>
          /\ \A m \in Wanted : Pending(m, map.todo, map.call, map.pages)
      BY <1>1 DEF MemoryInv, MapsInv
    <3>3. \A m \in Wanted' : Pending(m, map'.todo, map'.call, map'.pages)
      BY <2>3, <3>1, <3>2
    <3>4. CallInv(map.call, map.pages)'
      BY <2>3, <3>1, <3>2 DEF CallInv
    <3>5. /\ map'.todo \in Seq(Wanted')
          /\ \A i \in DOMAIN map'.todo : map'.todo[i].pat => i = Len(map'.todo)
          /\ map'.call # <<>> /\ map'.call[1].map.pat => map'.todo = <<>>
      BY <2>3, <3>1, <3>2
    <3> QED BY <2>2, <3>3, <3>4, <3>5 DEF MapsInv, EverythingIsMapped
  <2> QED BY <2>8, <2>9, <2>10, <2>11, <2>12 DEF MemoryInv
<1> QED BY <1>4, <1>5

-----------------------------------------------------------------------------
(***************************************************************************)
(* The file, and the copies of the programs.                               *)
(***************************************************************************)
\* The mappings stay as they are.
LEMMA MappedKept ==
  ASSUME MemoryInv, at \in {"read", "area", "copy"}, at' \in {"area", "copy", "trim"},
         UNCHANGED <<usable, framebuffer, map>>
  PROVE  MapsInv'
<1>1. Wanted' = Wanted
  BY WantedKept
<1>2. \A m \in Wanted' : Mapped(m, map'.pages)
  BY <1>1 DEF MemoryInv, MapsInv
<1> QED BY <1>2 DEF MapsInv, EverythingIsMapped

\* The file lies where the image was allocated, and may run into the stack.
LEMMA ReadKernelKeeps == MemoryInv /\ ReadKernel => MemoryInv'
<1> SUFFICES ASSUME MemoryInv, ReadKernel PROVE MemoryInv'
  OBVIOUS
<1> DEFINE file == [Base |-> blocks[<<"image">>].Base, Size |-> kernel.Size + kernel.Overrun]
<1>1. /\ at = "read" /\ UNCHANGED <<report, mmap, usable, num, scan, Offset, copied, kernel, framebuffer, map>>
      /\ \/ at' = "area" /\ blocks' = With(blocks, <<"file">>, file)
         \/ at' = "panic" /\ blocks' = blocks
  BY DEF ReadKernel
<1>2. /\ map = [todo |-> map.todo, call |-> map.call, tables |-> map.tables, pages |-> map.pages]
      /\ \A p \in DOMAIN map.pages : map.pages[p] \in BOOLEAN
      /\ usable \in Seq(UsableEntry) /\ Offset \in Nat
  BY DEF MemoryInv, TypeInv, UsableEntry
<1>3. at \in Granting \ {"image", "trim"}
  BY <1>1 DEF Granting
<1>4. CASE at' = "panic"
  <2>1. at' \in Stopped /\ blocks' = blocks
    BY <1>1, <1>4 DEF Stopped
  <2> QED BY <1>1, <1>2, <1>3, <2>1, StopKeeps
<1>5. CASE at' # "panic"
  <2>1. at' = "area" /\ blocks' = With(blocks, <<"file">>, file)
    BY <1>1, <1>5
  <2>2. at' \in Granting \ {"image"} /\ at' \notin Seeking \cup {"stack", "pml4", "trim", "kernel"}
    BY <2>1 DEF Granting, Seeking
  <2>3. /\ DOMAIN blocks = {<<"image">>, <<"stack">>, <<"pml4">>} /\ copied = <<>>
        /\ DOMAIN map.tables \subseteq {"pml3", "pml2"} \X Nat
    BY <1>1, <1>3 DEF MemoryInv, NamesInv, Granted
  <2>4. /\ DOMAIN blocks' = DOMAIN blocks \cup {<<"file">>} /\ blocks'[<<"file">>] = file
        /\ \A n \in DOMAIN blocks : blocks'[n] = blocks[n]
    BY <2>1, <2>3 DEF With
  <2> HIDE DEF file
  <2>5. Areas' = Areas
    <3>1. DOMAIN blocks' \ {<<"file">>} = DOMAIN blocks \ {<<"file">>} /\ map'.tables = map.tables
      BY <1>1, <2>3, <2>4
    <3>2. \A n \in (DOMAIN blocks \ {<<"file">>}) \cup DOMAIN map.tables :
            (IF n \in DOMAIN blocks' THEN blocks'[n] ELSE map'.tables[n])
            = IF n \in DOMAIN blocks THEN blocks[n] ELSE map.tables[n]
      <4>1. \A n \in DOMAIN map.tables : n # <<"file">>
        BY <2>3
      <4> QED BY <2>4, <3>1, <4>1
    <3> QED BY <3>1, <3>2 DEF Areas
  <2>6. TypeInv'
    BY <1>1, <1>2, <2>2, TypeKept DEF MemoryInv
  <2>7. NumInv' /\ UsableInv'
    BY <1>1, <1>3, <2>2, UsableKept DEF MemoryInv
  <2>8. OffsetInv'
    <3>1. blocks # <<>>
      <4>1. DOMAIN <<>> = {}
        OBVIOUS
      <4> QED BY <2>3, <4>1
    <3> QED BY <1>1, <1>3, <2>2, <3>1 DEF MemoryInv, OffsetInv
  <2>9. AreasInv'
    BY <1>1, <1>3, <2>5 DEF MemoryInv, AreasInv
  <2>10. NamesInv'
    <3>1. DOMAIN blocks' = Granted["area"]
      BY <2>3, <2>4 DEF Granted, Granting
    <3> QED BY <1>1, <2>1, <2>2, <2>3, <3>1 DEF NamesInv
  <2>11. FileInv'
    <3>1. copied' = <<>> /\ <<"area">> \notin DOMAIN blocks' /\ kernel' = kernel
      BY <1>1, <2>3, <2>4
    <3>2. /\ <<"image">> \in DOMAIN blocks /\ <<"stack">> \in DOMAIN blocks
          /\ blocks'[<<"image">>] = blocks[<<"image">>] /\ blocks'[<<"stack">>] = blocks[<<"stack">>]
      BY <2>3, <2>4
    <3>3. /\ blocks[<<"image">>].Size = PageAlign(kernel.Size)
          /\ EndOfArea(blocks[<<"image">>]) <= blocks[<<"stack">>].Base
          /\ blocks[<<"stack">>].Size = KernelStackSize
          /\ \A n \in DOMAIN Areas \ {<<"image">>, <<"stack">>} :
               EndOfArea(blocks[<<"stack">>]) <= Areas[n].Base
      BY <3>2 DEF MemoryInv, FileInv
    <3>4. blocks'[<<"file">>] = [Base |-> blocks[<<"image">>].Base, Size |-> kernel.Size + kernel.Overrun]
      BY <2>4 DEF file
    <3> QED BY <2>4, <2>5, <3>1, <3>2, <3>3, <3>4 DEF FileInv
  <2>12. MapsInv'
    BY <1>1, <2>1, MappedKept
  <2> QED BY <2>6, <2>7, <2>8, <2>9, <2>10, <2>11, <2>12 DEF MemoryInv
<1> QED BY <1>4, <1>5

\* The area for the programs is the last one.
LEMMA AllocateAreaKeeps == MemoryInv /\ AllocateArea => MemoryInv'
<1> SUFFICES ASSUME MemoryInv, AllocateArea PROVE MemoryInv'
  OBVIOUS
<1>1. AllocateOrPanic("area", "area", KernelAreaSize, "copy") /\ at = "area" /\ map' = map /\ ~HeadersAreRefused
  BY DEF AllocateArea, AllocateOrPanic
<1>2. UNCHANGED <<report, mmap, usable, num, scan, copied, kernel, framebuffer>>
      /\ (at' = "panic" => UNCHANGED <<Offset, blocks>>)
  BY <1>1 DEF AllocateOrPanic
<1>3. /\ map = [todo |-> map.todo, call |-> map.call, tables |-> map.tables, pages |-> map.pages]
      /\ \A p \in DOMAIN map.pages : map.pages[p] \in BOOLEAN
      /\ usable \in Seq(UsableEntry) /\ Offset \in Nat /\ kernel \in Kernels
  BY DEF MemoryInv, TypeInv, UsableEntry
<1>4. at \in Granting \ {"image", "trim"}
  BY <1>1 DEF Granting
<1>5. CASE at' = "panic"
  <2>1. at' \in Stopped
    BY <1>5 DEF Stopped
  <2> QED BY <1>1, <1>2, <1>3, <1>4, <1>5, <2>1, StopKeeps
<1>6. CASE at' # "panic"
  <2>1. KernelAreaSize \in Nat /\ KernelAreaSize % PageSize = 0
    BY <1>1, <1>3, AreaSize
  <2>2. /\ DOMAIN blocks = {<<"image">>, <<"stack">>, <<"pml4">>, <<"file">>} /\ copied = <<>>
        /\ DOMAIN map.tables \subseteq {"pml3", "pml2"} \X Nat
    BY <1>1, <1>4 DEF MemoryInv, NamesInv, Granted
  <2>3. "copy" \in Granting /\ "area" \in {"image", "stack", "pml4", "area"} /\ <<"area">> \notin DOMAIN blocks
        /\ map'.tables = map.tables
    BY <1>1, <2>2 DEF Granting
  <2>4. /\ at' = "copy" /\ NumInv' /\ UsableInv' /\ OffsetInv' /\ AreasInv' /\ Offset' \in Nat
        /\ DOMAIN blocks' = DOMAIN blocks \cup {<<"area">>}
        /\ \A n \in DOMAIN blocks : blocks'[n] = blocks[n]
        /\ Areas' = With(Areas, <<"area">>, blocks'[<<"area">>]) /\ <<"area">> \notin DOMAIN Areas
        /\ blocks'[<<"area">>].Size = KernelAreaSize
        /\ Offset <= blocks'[<<"area">>].Base /\ blocks'[<<"area">>].Base \in Nat
        /\ EndOfArea(blocks'[<<"area">>]) = Offset' /\ Offset' % PageSize = 0 /\ Offset' < AddressLimit
    BY <1>1, <1>6, <2>1, <2>3, BlockGranted
  <2>5. at' \in Granting \cup Stopped \cup {"kernel"}
        /\ at' \notin Seeking \cup {"image", "stack", "pml4", "trim", "kernel"}
    BY <2>4 DEF Granting, Seeking
  <2>6. TypeInv'
    BY <1>1, <1>2, <1>3, <2>4, <2>5, TypeKept DEF MemoryInv
  <2>7. NamesInv'
    <3>1. DOMAIN blocks' = Granted["copy"]
      BY <2>2, <2>4 DEF Granted, Granting
    <3> QED BY <1>1, <1>2, <2>2, <2>4, <2>5, <3>1 DEF NamesInv
  <2>8. FileInv'
    <3>1. <<"stack">> \in DOMAIN blocks
          /\ DOMAIN blocks \subseteq DOMAIN blocks' /\ DOMAIN blocks' \subseteq DOMAIN blocks \cup {<<"area">>}
      BY <2>2, <2>4
    <3>2. <<"area">> \notin {<<"image">>, <<"stack">>, <<"file">>}
      OBVIOUS
    <3>3. kernel' = kernel /\ copied' = <<>> /\ FileInv /\ AreasInv
      BY <1>2, <2>2 DEF MemoryInv
    <3> QED BY <1>1, <1>3, <2>4, <3>1, <3>2, <3>3, FileKept
  <2>9. MapsInv'
    BY <1>1, <1>2, <2>4, MappedKept
  <2> QED BY <2>4, <2>6, <2>7, <2>8, <2>9 DEF MemoryInv
<1> QED BY <1>5, <1>6

\* A kernel that is refused ends the boot.
LEMMA RefuseKernelKeeps == MemoryInv /\ RefuseKernel => MemoryInv'
<1> SUFFICES ASSUME MemoryInv, RefuseKernel PROVE MemoryInv'
  OBVIOUS
<1>1. /\ at = "area" /\ at' = "panic"
      /\ UNCHANGED <<report, mmap, usable, num, scan, Offset, blocks, copied, kernel, framebuffer, map>>
  BY DEF RefuseKernel
<1>2. at \in Granting \ {"trim"} /\ at' \in Stopped
  BY <1>1 DEF Granting, Stopped
<1>3. map = [todo |-> map.todo, call |-> map.call, tables |-> map.tables, pages |-> map.pages]
  BY DEF MemoryInv, TypeInv
<1> QED BY <1>1, <1>2, <1>3, StopKeeps

\* The programs are copied to where the area was granted.
LEMMA CopyProgramsKeeps == MemoryInv /\ CopyPrograms => MemoryInv'
<1> SUFFICES ASSUME MemoryInv, CopyPrograms PROVE MemoryInv'
  OBVIOUS
<1>1. /\ at = "copy" /\ at' = "trim"
      /\ copied' = Copies(blocks[<<"area">>])
      /\ UNCHANGED <<report, mmap, usable, num, scan, Offset, blocks, kernel, framebuffer, map>>
  BY DEF CopyPrograms
<1>2. /\ map = [todo |-> map.todo, call |-> map.call, tables |-> map.tables, pages |-> map.pages]
      /\ \A p \in DOMAIN map.pages : map.pages[p] \in BOOLEAN
      /\ usable \in Seq(UsableEntry) /\ Offset \in Nat /\ kernel \in Kernels
  BY DEF MemoryInv, TypeInv, UsableEntry
<1>3. at \in Granting \ {"image"} /\ at' \in Granting \ {"image"}
      /\ at' \notin Seeking \cup {"image", "stack", "pml4", "kernel"} /\ Granted[at'] = Granted[at]
  BY <1>1 DEF Granting, Seeking, Granted
<1>4. TypeInv'
  BY <1>1, <1>2, <1>3, TypeKept DEF MemoryInv
<1>5. NumInv' /\ UsableInv'
  BY <1>1, <1>3, UsableKept DEF MemoryInv
<1>6. OffsetInv'
  BY <1>1, <1>3 DEF MemoryInv, OffsetInv
<1>7. Areas' = Areas
  BY <1>1 DEF Areas
<1>8. AreasInv'
  BY <1>1, <1>3, <1>7 DEF MemoryInv, AreasInv
<1>9. NamesInv'
  BY <1>1, <1>3 DEF MemoryInv, NamesInv
<1>10. FileInv'
  <2>1. /\ KernelAreaSize' = KernelAreaSize /\ (HeadersAreRefused' <=> HeadersAreRefused)
        /\ Copies(blocks[<<"area">>])' = Copies(blocks[<<"area">>])
    BY <1>1, ProgramsKept
  <2>2. <<"area">> \in DOMAIN blocks
    BY <1>1, <1>3 DEF MemoryInv, NamesInv, Granted
  <2>3. copied' = Copies(blocks[<<"area">>])'
    BY <1>1, <2>1
  <2> QED BY <1>1, <1>7, <2>1, <2>2, <2>3 DEF MemoryInv, FileInv
<1>11. MapsInv'
  BY <1>1, MappedKept
<1> QED BY <1>4, <1>5, <1>6, <1>8, <1>9, <1>10, <1>11 DEF MemoryInv

-----------------------------------------------------------------------------
(***************************************************************************)
(* What is left of the map.                                                *)
(***************************************************************************)
LEMMA Suffix ==
  ASSUME NEW S, NEW s \in Seq(S), NEW k \in DOMAIN s
  PROVE  /\ SubSeq(s, k, Len(s)) \in Seq(S)
         /\ Len(SubSeq(s, k, Len(s))) = Len(s) - (k - 1)
         /\ \A i \in 1 .. Len(s) - (k - 1) : SubSeq(s, k, Len(s))[i] = s[i + (k - 1)]
OBVIOUS

LEMMA Replaced ==
  ASSUME NEW S, NEW s \in Seq(S), NEW k \in DOMAIN s, NEW e \in S
  PROVE  /\ [s EXCEPT ![k] = e] \in Seq(S) /\ Len([s EXCEPT ![k] = e]) = Len(s)
         /\ DOMAIN [s EXCEPT ![k] = e] = DOMAIN s
         /\ [s EXCEPT ![k] = e][k] = e
         /\ \A i \in DOMAIN s : i # k => [s EXCEPT ![k] = e][i] = s[i]
OBVIOUS

\* The entry that Offset is in comes first, without what is below.
Trimmed(used) ==
  /\ used \in DOMAIN usable
  /\ usable[used].Base < Offset /\ Offset < EndOf(usable[used])
  /\ num' = num - (used - 1)
  /\ usable' \in Seq(UsableEntry) /\ Len(usable') = Len(usable) - (used - 1)
  /\ usable'[1] = [Base |-> Offset, Limit |-> EndOf(usable[used]) - Offset]
  /\ \A k \in 2 .. Len(usable') : usable'[k] = usable[k + (used - 1)]

LEMMA TrimEffects ==
  ASSUME MemoryInv, Trim
  PROVE  \E used \in DOMAIN usable : Trimmed(used)
<1> DEFINE n == Len(usable)
           within == {i \in DOMAIN usable : EndOf(usable[i]) >= Offset /\ usable[i].Base < Offset}
           least == CHOOSE i \in within : \A j \in within : i <= j
           first == [Base |-> PageAlign(Offset), Limit |-> EndOf(usable[least]) - PageAlign(Offset)]
           trimmed == [usable EXCEPT ![least] = first]
<1>1. at = "trim" /\ at \in Granting \ {"image"}
  BY DEF Trim, Granting
<1>2. /\ usable \in Seq(UsableEntry) /\ Offset \in Nat /\ NoneWrapped(usable)
      /\ UsableInOrder(usable) /\ Offset % PageSize = 0
  BY <1>1 DEF MemoryInv, TypeInv, UsableInv, OffsetInv, UsableEntry
<1>3. PICK used \in DOMAIN usable : usable[used].Base < Offset /\ Offset < EndOf(usable[used])
  BY <1>1 DEF MemoryInv, OffsetInv
<1>4. n \in Nat /\ DOMAIN usable = 1 .. n /\ used \in Nat
  BY <1>2
<1>5. \A i \in DOMAIN usable : /\ usable[i].Base \in Nat /\ EndOf(usable[i]) \in 0 .. Word - 1
                               /\ EndOf(usable[i]) \in Nat
  <2>1. \A i \in DOMAIN usable : usable[i].Base \in Nat /\ EndOf(usable[i]) \in 0 .. Word - 1
    BY <1>2, UsableTypes
  <2> QED BY <2>1, Sizes
<1>6. used \in within /\ \A i \in within : used <= i
  <2>1. used \in within
    BY <1>2, <1>3, <1>5
  <2>2. \A i \in within : ~(i < used)
    <3> SUFFICES ASSUME NEW i \in DOMAIN usable, EndOf(usable[i]) >= Offset, i < used PROVE FALSE
      OBVIOUS
    <3>1. EndOf(usable[i]) <= usable[used].Base
      BY <1>2 DEF UsableInOrder
    <3> QED BY <1>2, <1>3, <1>5, <3>1
  <2>3. \A i \in within : i \in Nat
    BY <1>4
  <2> HIDE DEF within
  <2> QED BY <1>4, <2>1, <2>2, <2>3
<1>7. least = used
  <2>1. \A i \in within : i \in Nat
    BY <1>4
  <2> HIDE DEF within
  <2>2. \A i \in within : (\A j \in within : i <= j) => i = used
    BY <1>4, <1>6, <2>1
  <2> QED BY <1>6, <2>2
<1>8. PageAlign(Offset) = Offset
  BY <1>2 DEF PageAlign
<1>9. /\ usable' = SubSeq(trimmed, least, n)
      /\ num' = num - (least - 1)
  <2>1. within # {}
    BY <1>6
  <2>2. IF within = {} THEN UNCHANGED <<usable, num>>
        ELSE /\ usable' = SubSeq(trimmed, least, n)
             /\ num' = num - (least - 1)
    BY DEF Trim, FirstEntryLeft
  <2> QED BY <2>1, <2>2
<1> HIDE DEF within, least
<1>10. first = [Base |-> Offset, Limit |-> EndOf(usable[used]) - Offset] /\ first \in UsableEntry
  <2>1. first = [Base |-> Offset, Limit |-> EndOf(usable[used]) - Offset]
    BY <1>7, <1>8
  <2> DEFINE a == EndOf(usable[used])
  <2>2. a \in 0 .. Word - 1 /\ a \in Nat /\ Offset < a /\ Offset \in Nat /\ Word \in Nat
    BY <1>2, <1>3, <1>5, Sizes
  <2> HIDE DEF a
  <2>3. Offset \in 0 .. Word - 1 /\ a - Offset \in 0 .. Word - 1
    BY <2>2
  <2> HIDE DEF first
  <2>4. first = [Base |-> Offset, Limit |-> a - Offset]
    BY <2>1 DEF a
  <2> QED BY <2>1, <2>3, <2>4 DEF UsableEntry
<1> HIDE DEF first
<1>11. /\ trimmed \in Seq(UsableEntry) /\ Len(trimmed) = n /\ DOMAIN trimmed = DOMAIN usable
       /\ trimmed[used] = first
       /\ \A i \in DOMAIN usable : i # used => trimmed[i] = usable[i]
  BY <1>2, <1>7, <1>10, Replaced
<1> HIDE DEF trimmed
<1>12. /\ usable' \in Seq(UsableEntry) /\ Len(usable') = n - (used - 1)
       /\ \A i \in 1 .. n - (used - 1) : usable'[i] = trimmed[i + (used - 1)]
  <2>1. usable' = SubSeq(trimmed, used, Len(trimmed)) /\ used \in DOMAIN trimmed
    BY <1>7, <1>9, <1>11
  <2> QED BY <1>11, <2>1, Suffix
<1> HIDE DEF n
<1>13. usable'[1] = first
  <2>1. 1 \in 1 .. n - (used - 1) /\ 1 + (used - 1) = used
    BY <1>4
  <2> QED BY <1>11, <1>12, <2>1
<1>14. \A k \in 2 .. Len(usable') : usable'[k] = usable[k + (used - 1)]
  <2> TAKE k \in 2 .. Len(usable')
  <2>1. k \in 1 .. n - (used - 1) /\ k + (used - 1) \in 1 .. n /\ k + (used - 1) # used
    BY <1>4, <1>12
  <2> QED BY <1>4, <1>11, <1>12, <2>1
<1>15. num' = num - (used - 1)
  BY <1>7, <1>9
<1> QED BY <1>3, <1>10, <1>12, <1>13, <1>14, <1>15 DEF Trimmed, n

\* Whatever is left is what was there, from the same byte or a later one on.
LEMMA TrimmedFacts ==
  ASSUME MemoryInv, at = "trim", NEW used, Trimmed(used)
  PROVE  /\ usable' # <<>> /\ DOMAIN usable' = 1 .. Len(usable') /\ Len(usable') \in Nat
         /\ Len(usable') <= Len(usable)
         /\ \A k \in DOMAIN usable' :
              /\ k + (used - 1) \in DOMAIN usable
              /\ usable[k + (used - 1)].Base <= usable'[k].Base
              /\ Offset <= usable'[k].Base /\ usable'[k].Base \in Nat
              /\ usable'[k].Base % PageSize = 0
              /\ EndOf(usable'[k]) = EndOf(usable[k + (used - 1)])
              /\ ~Wrapped(usable'[k])
              /\ k > 1 => usable'[k] = usable[k + (used - 1)]
              /\ usable'[1].Limit > 0
<1>1. at \in Granting \ {"image"}
  BY DEF Granting
<1>2. /\ usable \in Seq(UsableEntry) /\ Offset \in Nat /\ NoneWrapped(usable)
      /\ UsableInOrder(usable) /\ Offset % PageSize = 0
      /\ \A i \in DOMAIN usable : PartOfFree(usable[i].Base, EndOf(usable[i]), mmap)
  BY <1>1 DEF MemoryInv, TypeInv, UsableInv, OffsetInv, UsableEntry
<1>3. /\ used \in DOMAIN usable
      /\ usable[used].Base < Offset /\ Offset < EndOf(usable[used])
      /\ usable' \in Seq(UsableEntry) /\ Len(usable') = Len(usable) - (used - 1)
      /\ usable'[1] = [Base |-> Offset, Limit |-> EndOf(usable[used]) - Offset]
      /\ \A k \in 2 .. Len(usable') : usable'[k] = usable[k + (used - 1)]
  BY DEF Trimmed
<1> DEFINE n == Len(usable)
           l == Len(usable')
<1>4. n \in Nat /\ DOMAIN usable = 1 .. n /\ used \in 1 .. n
  BY <1>2, <1>3
<1>5. l \in Nat /\ DOMAIN usable' = 1 .. l /\ l = n - (used - 1)
  BY <1>3
<1>6. \A i \in DOMAIN usable : /\ usable[i].Base \in Nat /\ usable[i].Limit \in Nat
                               /\ EndOf(usable[i]) \in 0 .. Word - 1 /\ EndOf(usable[i]) \in Nat
                               /\ ~Wrapped(usable[i]) /\ usable[i].Base % PageSize = 0
                               /\ EndOf(usable[i]) = usable[i].Base + usable[i].Limit
  <2>1. \A i \in DOMAIN usable : ~Wrapped(usable[i]) /\ usable[i].Base % PageSize = 0
    BY <1>2 DEF NoneWrapped, PartOfFree
  <2>2. \A i \in DOMAIN usable : /\ usable[i].Base \in Nat /\ usable[i].Limit \in Nat
                                 /\ EndOf(usable[i]) \in 0 .. Word - 1
                                 /\ EndOf(usable[i]) = usable[i].Base + usable[i].Limit
    BY <1>2, <2>1, UsableTypes
  <2> QED BY <2>1, <2>2, Sizes
<1> HIDE DEF n, l
<1>7. 1 \in DOMAIN usable' /\ l <= n
  BY <1>4, <1>5
<1>8. usable' # <<>>
  <2>1. DOMAIN <<>> = {}
    OBVIOUS
  <2> QED BY <1>7, <2>1
<1>9. /\ usable'[1].Base = Offset /\ usable'[1].Limit > 0
      /\ EndOf(usable'[1]) = EndOf(usable[used]) /\ ~Wrapped(usable'[1])
  <2> DEFINE a == EndOf(usable[used])
  <2>1. a \in 0 .. Word - 1 /\ a \in Nat /\ Offset < a /\ Offset \in Nat /\ Word \in Nat
    BY <1>2, <1>3, <1>6, Sizes
  <2>2. usable'[1].Base = Offset /\ usable'[1].Limit = a - Offset
    BY <1>3
  <2> HIDE DEF a
  <2>3. a - Offset > 0 /\ Offset + (a - Offset) = a /\ a < Word
    BY <2>1
  <2>4. a % Word = a
    BY <2>1, <2>3
  <2>5. EndOf(usable'[1]) = a /\ ~Wrapped(usable'[1])
    BY <2>1, <2>2, <2>3, <2>4 DEF EndOf, Add, Wrapped
  <2> QED BY <2>2, <2>3, <2>5 DEF a
<1>10. ASSUME NEW k \in DOMAIN usable'
       PROVE  /\ k + (used - 1) \in DOMAIN usable
              /\ usable[k + (used - 1)].Base <= usable'[k].Base
              /\ Offset <= usable'[k].Base /\ usable'[k].Base \in Nat
              /\ usable'[k].Base % PageSize = 0
              /\ EndOf(usable'[k]) = EndOf(usable[k + (used - 1)])
              /\ ~Wrapped(usable'[k])
              /\ k > 1 => usable'[k] = usable[k + (used - 1)]
              /\ usable'[1].Limit > 0
  <2> DEFINE i == k + (used - 1)
  <2>1. i \in DOMAIN usable /\ k \in 1 .. l
    BY <1>4, <1>5
  <2>2. CASE k = 1
    <3>1. i = used /\ ~(k > 1)
      BY <1>4, <2>2
    <3>2. usable[used].Base <= Offset
      BY <1>2, <1>3, <1>6
    <3> QED BY <1>2, <1>9, <2>1, <2>2, <3>1, <3>2
  <2>3. CASE k # 1
    <3>1. k \in 2 .. l
      BY <1>5, <2>1, <2>3
    <3>2. usable'[k] = usable[i]
      BY <1>3, <3>1 DEF l
    <3>3. used < i
      BY <1>4, <3>1
    <3>4. EndOf(usable[used]) <= usable[i].Base
      BY <1>2, <1>3, <2>1, <3>3 DEF UsableInOrder
    <3>5. usable[i].Base \in Nat /\ EndOf(usable[i]) \in Nat /\ ~Wrapped(usable[i])
          /\ EndOf(usable[used]) \in Nat /\ usable[i].Base % PageSize = 0
      BY <1>3, <1>6, <2>1
    <3>6. Offset <= usable[i].Base /\ usable[i].Base <= usable[i].Base
      BY <1>2, <1>3, <3>4, <3>5
    <3> HIDE DEF i
    <3>7. EndOf(usable'[k]) = EndOf(usable[i]) /\ ~Wrapped(usable'[k]) /\ usable'[k].Base = usable[i].Base
      BY <3>2, <3>5
    <3> QED BY <1>9, <2>1, <3>2, <3>5, <3>6, <3>7 DEF i
  <2> QED BY <2>2, <2>3
<1> QED BY <1>5, <1>7, <1>8, <1>10 DEF l, n

\* An entry that begins later is part of the same free entry.
LEMMA PartKept ==
  ASSUME NEW entries \in Seq(MmapEntry), NEW low \in Nat, NEW high \in Nat, NEW end \in Nat,
         low <= high, high % PageSize = 0, PartOfFree(low, end, entries)
  PROVE  PartOfFree(high, end, entries)
<1>1. \A j \in DOMAIN entries : entries[j].Base \in Nat /\ EndOf(entries[j]) \in Nat
  <2>1. \A j \in DOMAIN entries : entries[j].Base \in Nat /\ EndOf(entries[j]) \in 0 .. Word - 1
    BY EntryTypes
  <2> QED BY <2>1, Sizes
<1>2. PICK j \in DOMAIN entries :
        entries[j].Type = Free /\ entries[j].Base <= low /\ end <= EndOf(entries[j])
  BY DEF PartOfFree
<1>3. entries[j].Base <= high
  BY <1>1, <1>2
<1>4. \A i \in DOMAIN entries : entries[i].Type # Free /\ entries[i].Limit # 0 =>
        Apart(high, end, entries[i].Base, EndOf(entries[i]))
  BY <1>1 DEF PartOfFree, Apart
<1> QED BY <1>2, <1>3, <1>4 DEF PartOfFree

\* When the tables are complete.
LEMMA MemoryIsMapped ==
  ASSUME MemoryInv, at = "trim"
  PROVE  /\ Covers(map.pages, 0, IdentityMapThreshold, BOOLEAN)
         /\ \A i \in DOMAIN usable : \A base, end \in Nat :
              usable[i].Base <= base /\ base < end /\ end <= EndOf(usable[i]) =>
                Covers(map.pages, base, end, BOOLEAN)
         /\ \A i \in DOMAIN framebuffer :
              Covers(map.pages, framebuffer[i].Base, framebuffer[i].Base + framebuffer[i].Size, {TRUE})
<1>1. /\ \A m \in Wanted : Mapped(m, map.pages)
      /\ \A p \in DOMAIN map.pages : map.pages[p] \in BOOLEAN
      /\ TypeInv /\ UsableInv /\ at \in Granting
  BY DEF MemoryInv, MapsInv, TypeInv, Granting
<1>2. Covers(map.pages, 0, IdentityMapThreshold, BOOLEAN)
  <2> DEFINE s == IdentityMapThreshold
  <2>1. /\ s \in Nat \ {0} /\ Physical(0, s) /\ FALSE \in BOOLEAN
        /\ 0 \in Nat /\ s \in Nat /\ 0 <= 0 /\ 0 < s /\ s <= 0 + s
    BY SizesAssumption
  <2>2. Mapped(Mapping(0, s, FALSE), map.pages)
    BY <1>1 DEF Wanted
  <2> HIDE DEF s
  <2>3. Covers(map.pages, 0, s, BOOLEAN)
    BY <1>1, <2>1, <2>2, PartsAreMapped
  <2> QED BY <2>3 DEF s
<1>3. ASSUME NEW i \in DOMAIN usable, NEW base \in Nat, NEW end \in Nat,
             usable[i].Base <= base, base < end, end <= EndOf(usable[i])
      PROVE  Covers(map.pages, base, end, BOOLEAN)
  <2>1. /\ usable[i].Base \in Nat /\ usable[i].Limit \in Nat \ {0}
        /\ EndOf(usable[i]) = usable[i].Base + usable[i].Limit
        /\ Physical(usable[i].Base, usable[i].Limit)
    BY <1>1, UsableIsMemory
  <2>2. Mapped(Mapping(usable[i].Base, usable[i].Limit, FALSE), map.pages)
    BY <1>1 DEF Wanted
  <2>3. end <= usable[i].Base + usable[i].Limit
    BY <1>3, <2>1
  <2> DEFINE b == usable[i].Base
             s == usable[i].Limit
  <2>4. /\ b \in Nat /\ s \in Nat \ {0} /\ Physical(b, s) /\ Mapped(Mapping(b, s, FALSE), map.pages)
        /\ base \in Nat /\ end \in Nat /\ b <= base /\ base < end /\ end <= b + s /\ FALSE \in BOOLEAN
    BY <1>3, <2>1, <2>2, <2>3
  <2> HIDE DEF b, s
  <2>5. \A p \in DOMAIN map.pages : map.pages[p] \in BOOLEAN
    BY <1>1
  <2> QED BY <2>4, <2>5, PartsAreMapped
<1>4. ASSUME NEW i \in DOMAIN framebuffer
      PROVE  Covers(map.pages, framebuffer[i].Base, framebuffer[i].Base + framebuffer[i].Size, {TRUE})
  <2> DEFINE b == framebuffer[i].Base
             s == framebuffer[i].Size
  <2>1. b \in Nat /\ s \in Nat \ {0} /\ Physical(b, s)
    BY <1>1, FramebufferIsMemory
  <2>2. Mapped(Mapping(b, s, TRUE), map.pages)
    BY <1>1 DEF Wanted
  <2> HIDE DEF b, s
  <2>3. b + s \in Nat /\ b <= b /\ b < b + s /\ b + s <= b + s /\ TRUE \in BOOLEAN
    BY <2>1
  <2>4. Covers(map.pages, b, b + s, {TRUE})
    BY <2>1, <2>2, <2>3, PartsAreMapped
  <2> QED BY <2>4 DEF b, s
<1> QED BY <1>2, <1>3, <1>4

\* What is left begins at Offset or later, where nothing was granted.
LEMMA TrimKeeps == MemoryInv /\ Trim => MemoryInv'
<1> SUFFICES ASSUME MemoryInv, Trim PROVE MemoryInv'
  OBVIOUS
<1>1. /\ at = "trim" /\ at' = "kernel"
      /\ UNCHANGED <<report, mmap, scan, Offset, blocks, copied, kernel, framebuffer, map>>
  BY DEF Trim
<1>2. PICK used \in DOMAIN usable : Trimmed(used)
  BY TrimEffects
<1>3. /\ usable' # <<>> /\ DOMAIN usable' = 1 .. Len(usable') /\ Len(usable') \in Nat
      /\ Len(usable') <= Len(usable)
      /\ \A k \in DOMAIN usable' :
           /\ k + (used - 1) \in DOMAIN usable
           /\ usable[k + (used - 1)].Base <= usable'[k].Base
           /\ Offset <= usable'[k].Base /\ usable'[k].Base \in Nat
           /\ usable'[k].Base % PageSize = 0
           /\ EndOf(usable'[k]) = EndOf(usable[k + (used - 1)])
           /\ ~Wrapped(usable'[k])
           /\ k > 1 => usable'[k] = usable[k + (used - 1)]
           /\ usable'[1].Limit > 0
  BY <1>1, <1>2, TrimmedFacts
<1>4. /\ usable' \in Seq(UsableEntry) /\ Len(usable') = Len(usable) - (used - 1)
      /\ num' = num - (used - 1)
  BY <1>2 DEF Trimmed
<1>5. /\ at \in Granting \ {"image"} /\ at' \notin Granting
      /\ at' \notin Seeking \cup {"image", "stack", "pml4", "map", "read", "area", "copy", "trim"}
      /\ at' \in Granting \cup Stopped \cup {"kernel"}
      /\ Granted[at'] = Granted[at]
  BY <1>1 DEF Granting, Seeking, Granted
<1>6. /\ map = [todo |-> map.todo, call |-> map.call, tables |-> map.tables, pages |-> map.pages]
      /\ \A p \in DOMAIN map.pages : map.pages[p] \in BOOLEAN
      /\ usable \in Seq(UsableEntry) /\ Offset \in Nat /\ mmap \in Seq(MmapEntry)
  BY DEF MemoryInv, TypeInv, UsableEntry
<1>7. \A i \in DOMAIN usable : usable[i].Base \in Nat /\ EndOf(usable[i]) \in Nat
  <2>1. \A i \in DOMAIN usable : usable[i].Base \in Nat /\ EndOf(usable[i]) \in 0 .. Word - 1
    BY <1>6, UsableTypes
  <2> QED BY <2>1, Sizes
<1>8. DOMAIN usable = 1 .. Len(usable) /\ Len(usable) \in Nat /\ used \in Nat
  BY <1>2, <1>6
<1>9. TypeInv'
  BY <1>1, <1>4, <1>5, <1>6, TypeKept DEF MemoryInv
<1>10. NumInv'
  <2>1. /\ num = Len(usable) + Cardinality(FreeFrom(mmap, scan.Position))
        /\ Len(usable) < scan.Position /\ scan.Position <= Len(mmap) + 1 /\ scan.Position \in Nat
        /\ Len(mmap) \in Nat
    BY <1>6 DEF MemoryInv, NumInv, TypeInv
  <2>2. Cardinality(FreeFrom(mmap, scan.Position)) \in Nat
    BY <1>6, FreeFromIsFinite
  <2>3. FreeFrom(mmap, scan.Position)' = FreeFrom(mmap, scan.Position)
    BY <1>1 DEF FreeFrom
  <2> DEFINE c == Cardinality(FreeFrom(mmap, scan.Position))
             n == Len(usable)
             l == Len(usable')
  <2>4. n \in Nat /\ l \in Nat /\ l = n - (used - 1) /\ num = n + c /\ num' = num - (used - 1)
        /\ c \in Nat /\ used \in Nat /\ l <= n /\ n < scan.Position
    BY <1>3, <1>4, <1>8, <2>1, <2>2
  <2> HIDE DEF c, n, l
  <2>5. num' = l + c
    BY <2>4
  <2>6. l < scan.Position
    <3> DEFINE p == scan.Position
    <3>1. p \in Nat /\ n < p
      BY <2>1, <2>4
    <3> HIDE DEF p
    <3>2. l < p
      BY <2>4, <3>1
    <3> QED BY <3>2 DEF p
  <2> QED BY <1>1, <1>5, <2>1, <2>3, <2>5, <2>6 DEF NumInv, c, l
<1>11. UsableInv'
  <2>1. /\ EntriesInOrder(mmap) /\ UsableInOrder(usable)
        /\ \A i \in DOMAIN usable : /\ PartOfFree(usable[i].Base, EndOf(usable[i]), mmap)
                                    /\ usable[i].Limit >= MmapEntryMemoryLimit
    BY <1>1 DEF MemoryInv, UsableInv, Granting
  <2>2. NoneWrapped(usable')
    BY <1>3 DEF NoneWrapped
  <2>3. \A k \in DOMAIN usable' : PartOfFree(usable'[k].Base, EndOf(usable'[k]), mmap)
    <3> TAKE k \in DOMAIN usable'
    <3> DEFINE i == k + (used - 1)
    <3>1. /\ i \in DOMAIN usable /\ usable[i].Base <= usable'[k].Base /\ usable'[k].Base \in Nat
          /\ usable'[k].Base % PageSize = 0 /\ EndOf(usable'[k]) = EndOf(usable[i])
      BY <1>3
    <3> HIDE DEF i
    <3>2. usable[i].Base \in Nat /\ EndOf(usable[i]) \in Nat
          /\ PartOfFree(usable[i].Base, EndOf(usable[i]), mmap)
      BY <1>7, <2>1, <3>1
    <3>3. PartOfFree(usable'[k].Base, EndOf(usable[i]), mmap)
      BY <1>6, <3>1, <3>2, PartKept
    <3> QED BY <3>1, <3>3
  <2>4. UsableInOrder(usable')
    <3> SUFFICES ASSUME NEW j \in DOMAIN usable', NEW k \in DOMAIN usable', j < k
                 PROVE  EndOf(usable'[j]) <= usable'[k].Base
      BY DEF UsableInOrder
    <3> DEFINE x == j + (used - 1)
               y == k + (used - 1)
    <3>1. x \in DOMAIN usable /\ y \in DOMAIN usable /\ EndOf(usable'[j]) = EndOf(usable[x])
          /\ usable[y].Base <= usable'[k].Base /\ usable'[k].Base \in Nat
      BY <1>3
    <3>2. x < y
      BY <1>3, <1>8
    <3> HIDE DEF x, y
    <3>3. EndOf(usable[x]) <= usable[y].Base /\ EndOf(usable[x]) \in Nat /\ usable[y].Base \in Nat
      BY <1>7, <2>1, <3>1, <3>2 DEF UsableInOrder
    <3> QED BY <3>1, <3>3
  <2>5. \A k \in DOMAIN usable' : k > 1 => usable'[k].Limit >= MmapEntryMemoryLimit
    BY <1>3, <2>1
  <2>6. /\ usable'[1].Limit > 0
        /\ \A k \in DOMAIN usable' : usable'[k].Base >= Offset
    <3>1. 1 \in DOMAIN usable'
      <4>1. Len(usable') # 0
        BY <1>3, <1>4, EmptyList
      <4> QED BY <1>3, <4>1
    <3> QED BY <1>3, <1>6, <3>1
  <2> QED BY <1>1, <1>3, <1>5, <2>1, <2>2, <2>3, <2>4, <2>5, <2>6 DEF UsableInv
<1>12. OffsetInv'
  BY <1>1, <1>5 DEF MemoryInv, OffsetInv
<1>13. Areas' = Areas
  BY <1>1 DEF Areas
<1>14. AreasInv'
  BY <1>1, <1>5, <1>13 DEF MemoryInv, AreasInv
<1>15. NamesInv'
  BY <1>1, <1>5 DEF MemoryInv, NamesInv
<1>16. FileInv'
  <2>1. /\ KernelAreaSize' = KernelAreaSize /\ (HeadersAreRefused' <=> HeadersAreRefused)
        /\ Copies(blocks[<<"area">>])' = Copies(blocks[<<"area">>])
    BY <1>1, ProgramsKept
  <2>2. copied = <<>> \/ (<<"area">> \in DOMAIN blocks /\ copied = Copies(blocks[<<"area">>]))
    BY DEF MemoryInv, FileInv
  <2>3. copied' = <<>> \/ (<<"area">> \in DOMAIN blocks' /\ copied' = Copies(blocks[<<"area">>])')
    BY <1>1, <2>1, <2>2
  <2> QED BY <1>1, <1>13, <2>1, <2>3 DEF MemoryInv, FileInv
<1>17. /\ Covers(map.pages, 0, IdentityMapThreshold, BOOLEAN)
       /\ \A i \in DOMAIN usable : \A base, end \in Nat :
            usable[i].Base <= base /\ base < end /\ end <= EndOf(usable[i]) =>
              Covers(map.pages, base, end, BOOLEAN)
       /\ \A i \in DOMAIN framebuffer :
            Covers(map.pages, framebuffer[i].Base, framebuffer[i].Base + framebuffer[i].Size, {TRUE})
  BY <1>1, MemoryIsMapped
<1>18. \A k \in DOMAIN usable' : usable'[k].Limit > 0 =>
         Covers(map.pages, usable'[k].Base, EndOf(usable'[k]), BOOLEAN)
  <2> SUFFICES ASSUME NEW k \in DOMAIN usable', usable'[k].Limit > 0
               PROVE  Covers(map.pages, usable'[k].Base, EndOf(usable'[k]), BOOLEAN)
    OBVIOUS
  <2> DEFINE i == k + (used - 1)
  <2>1. /\ i \in DOMAIN usable /\ usable[i].Base <= usable'[k].Base /\ usable'[k].Base \in Nat
        /\ EndOf(usable'[k]) = EndOf(usable[i]) /\ ~Wrapped(usable'[k])
    BY <1>3
  <2> HIDE DEF i
  <2>2. usable'[k].Limit \in Nat /\ EndOf(usable'[k]) = usable'[k].Base + usable'[k].Limit
    BY <1>4, <2>1, UsableTypes
  <2> DEFINE base == usable'[k].Base
             end == EndOf(usable'[k])
  <2>3. base \in Nat /\ end \in Nat /\ usable[i].Base <= base /\ base < end /\ end <= EndOf(usable[i])
    BY <2>1, <2>2
  <2> HIDE DEF base, end
  <2>4. Covers(map.pages, base, end, BOOLEAN)
    BY <1>17, <2>1, <2>3
  <2> QED BY <2>4 DEF base, end
<1>19. \A n \in DOMAIN Areas : Areas[n].Size > 0 =>
         Covers(map.pages, Areas[n].Base, EndOfArea(Areas[n]), BOOLEAN)
  <2> SUFFICES ASSUME NEW n \in DOMAIN Areas, Areas[n].Size > 0
               PROVE  Covers(map.pages, Areas[n].Base, EndOfArea(Areas[n]), BOOLEAN)
    OBVIOUS
  <2> DEFINE base == Areas[n].Base
             end == EndOfArea(Areas[n])
  <2>1. base \in Nat /\ end \in Nat /\ base < end
    <3>1. Areas[n].Base \in Nat /\ Areas[n].Size \in Nat
      BY DEF MemoryInv, AreasInv, Laid
    <3> QED BY <3>1 DEF EndOfArea
  <2>2. PICK i \in DOMAIN usable : usable[i].Base <= base /\ end < EndOf(usable[i])
    BY <1>5 DEF MemoryInv, AreasInv, Within
  <2>4. end <= EndOf(usable[i])
    <3>1. EndOf(usable[i]) \in Nat
      BY <1>7
    <3> QED BY <2>1, <2>2, <3>1
  <2> HIDE DEF base, end
  <2>3. Covers(map.pages, base, end, BOOLEAN)
    BY <1>17, <2>1, <2>2, <2>4
  <2> QED BY <2>3 DEF base, end
<1>20. EverythingIsMapped'
  <2>1. /\ IsMapped(0, IdentityMapThreshold, BOOLEAN)'
        /\ \A k \in DOMAIN usable' : usable'[k].Limit > 0 =>
             Covers(map'.pages, usable'[k].Base, EndOf(usable'[k]), BOOLEAN)
        /\ \A n \in DOMAIN Areas' : Areas'[n].Size > 0 =>
             Covers(map'.pages, Areas'[n].Base, EndOfArea(Areas'[n]), BOOLEAN)
        /\ \A i \in DOMAIN framebuffer' :
             Covers(map'.pages, framebuffer'[i].Base, framebuffer'[i].Base + framebuffer'[i].Size, {TRUE})
    BY <1>1, <1>13, <1>17, <1>18, <1>19 DEF IsMapped, Covers
  <2> QED BY <2>1 DEF EverythingIsMapped, IsMapped, Covers
<1>21. MapsInv'
  BY <1>5, <1>20 DEF MapsInv
<1> QED BY <1>9, <1>10, <1>11, <1>12, <1>14, <1>15, <1>16, <1>21 DEF MemoryInv

-----------------------------------------------------------------------------
(***************************************************************************)
(* The inductive invariant, and what follows from it.                      *)
(***************************************************************************)
LEMMA StutterKeeps == MemoryInv /\ UNCHANGED vars => MemoryInv'
<1> SUFFICES ASSUME MemoryInv, UNCHANGED vars PROVE MemoryInv'
  OBVIOUS
<1> USE DEF MemoryInv
<1>1. /\ at' = at /\ report' = report /\ mmap' = mmap /\ usable' = usable /\ num' = num /\ scan' = scan
      /\ Offset' = Offset /\ blocks' = blocks /\ copied' = copied /\ kernel' = kernel
      /\ framebuffer' = framebuffer /\ map' = map
  BY DEF vars
<1>2. TypeInv'
  BY <1>1 DEF TypeInv
<1>3. NumInv'
  BY <1>1 DEF NumInv
<1>4. UsableInv'
  BY <1>1 DEF UsableInv, PassedInv
<1>5. OffsetInv'
  BY <1>1 DEF OffsetInv
<1>6. Areas' = Areas
  BY <1>1 DEF Areas
<1>7. AreasInv'
  BY <1>1, <1>6 DEF AreasInv
<1>8. NamesInv'
  BY <1>1 DEF NamesInv
<1>9. FileInv'
  <2>1. /\ KernelAreaSize' = KernelAreaSize /\ (HeadersAreRefused' <=> HeadersAreRefused)
        /\ Copies(blocks[<<"area">>])' = Copies(blocks[<<"area">>])
    BY <1>1, ProgramsKept
  <2>2. copied = <<>> \/ (<<"area">> \in DOMAIN blocks /\ copied = Copies(blocks[<<"area">>]))
    BY DEF FileInv
  <2>3. copied' = <<>> \/ (<<"area">> \in DOMAIN blocks' /\ copied' = Copies(blocks[<<"area">>])')
    BY <1>1, <2>1, <2>2
  <2> QED BY <1>1, <1>6, <2>1, <2>3 DEF FileInv
<1>10. MapsInv'
  <2>1. Wanted' = Wanted
    BY <1>1, WantedKept
  <2>2. CallInv(map.call, map.pages) => CallInv(map.call, map.pages)'
    BY <1>1, <2>1 DEF CallInv
  <2>3. EverythingIsMapped'
    <3>1. EverythingIsMapped
      BY DEF MapsInv
    <3> QED BY <1>1, <1>6, <3>1 DEF EverythingIsMapped, IsMapped
  <2>4. at = "map" =>
          /\ map.todo \in Seq(Wanted)
          /\ \A i \in DOMAIN map.todo : map.todo[i].pat => i = Len(map.todo)
          /\ map.call = <<>> \/ CallInv(map.call, map.pages)
          /\ map.call # <<>> /\ map.call[1].map.pat => map.todo = <<>>
          /\ \A m \in Wanted : Pending(m, map.todo, map.call, map.pages)
    BY DEF MapsInv
  <2>5. at \in {"read", "area", "copy", "trim"} => \A m \in Wanted : Mapped(m, map.pages)
    BY DEF MapsInv
  <2> QED BY <1>1, <2>1, <2>2, <2>3, <2>4, <2>5 DEF MapsInv
<1> QED BY <1>2, <1>3, <1>4, <1>5, <1>7, <1>8, <1>9, <1>10

\* Every step keeps the invariant.
LEMMA NextKeeps == MemoryInv /\ [Next]_vars => MemoryInv'
<1> SUFFICES ASSUME MemoryInv, [Next]_vars PROVE MemoryInv'
  OBVIOUS
<1>1. CASE GetMmapEntry
  BY <1>1, GetMmapEntryKeeps
<1>2. CASE Sort
  BY <1>2, SortKeeps
<1>3. CASE ScanEntry
  BY <1>3, ScanEntryKeeps
<1>4. CASE ScanDone
  BY <1>4, ScanDoneKeeps
<1>5. CASE AllocateImage
  BY <1>5, AllocateImageKeeps
<1>6. CASE AllocateStack
  BY <1>6, AllocateStackKeeps
<1>7. CASE AllocatePml4
  BY <1>7, AllocatePml4Keeps
<1>8. CASE StartMapping
  BY <1>8, StartMappingKeeps
<1>9. CASE AllocateTable
  BY <1>9, AllocateTableKeeps
<1>10. CASE FillTable
  BY <1>10, FillTableKeeps
<1>11. CASE MappingDone
  BY <1>11, MappingDoneKeeps
<1>12. CASE ReadKernel
  BY <1>12, ReadKernelKeeps
<1>13. CASE AllocateArea
  BY <1>13, AllocateAreaKeeps
<1>14. CASE RefuseKernel
  BY <1>14, RefuseKernelKeeps
<1>15. CASE CopyPrograms
  BY <1>15, CopyProgramsKeeps
<1>16. CASE Trim
  BY <1>16, TrimKeeps
<1>17. CASE UNCHANGED vars
  BY <1>17, StutterKeeps
<1> QED BY <1>1, <1>2, <1>3, <1>4, <1>5, <1>6, <1>7, <1>8, <1>9, <1>10, <1>11, <1>12, <1>13, <1>14,
           <1>15, <1>16, <1>17 DEF Next

\* The entry that the kernel may refuse is the first one.
LEMMA SmallEntries ==
  ASSUME MemoryInv
  PROVE  OnlyFirstEntryIsSmall
<1> SUFFICES ASSUME at = "kernel"
             PROVE  /\ num > 0 /\ usable[1].Limit > 0
                    /\ MemoryMapStatus(usable, PageSize, MmapEntryMemoryLimit) \in
                         IF usable[1].Limit < MmapEntryMemoryLimit THEN {"EntryUnderMinSize"}
                         ELSE {"Success", "MemoryUnderLimit"}
                    /\ MemoryMapStatus(Tail(usable), PageSize, MmapEntryMemoryLimit)
                         \in {"Success", "HasNoEntries", "MemoryUnderLimit"}
  BY DEF OnlyFirstEntryIsSmall
<1> DEFINE tail == Tail(usable)
           k == MmapEntryMemoryLimit
           Wrong(map0) == {i \in DOMAIN map0 : NotAligned(map0[i], PageSize) \/ map0[i].Limit < k}
<1>1. /\ usable \in Seq(UsableEntry) /\ usable # <<>> /\ NoneWrapped(usable) /\ UsableInOrder(usable)
      /\ usable[1].Limit > 0
      /\ \A i \in DOMAIN usable : PartOfFree(usable[i].Base, EndOf(usable[i]), mmap)
      /\ \A i \in DOMAIN usable : i > 1 => usable[i].Limit >= k
  BY DEF MemoryInv, TypeInv, UsableInv, UsableEntry
<1>2. DOMAIN usable = 1 .. Len(usable) /\ Len(usable) \in Nat \ {0} /\ 1 \in DOMAIN usable
  BY <1>1
<1>3. \A i \in DOMAIN usable :
        /\ usable[i].Base \in Nat /\ usable[i].Limit \in Nat
        /\ EndOf(usable[i]) = usable[i].Base + usable[i].Limit
        /\ usable[i].Base % PageSize = 0 /\ (usable[i].Base + usable[i].Limit) % PageSize = 0
  BY <1>1, UsableTypes DEF NoneWrapped, PartOfFree
<1>4. \A i \in DOMAIN usable : ~NotAligned(usable[i], PageSize)
  BY <1>3 DEF NotAligned
<1>5. k \in Nat \ {0}
  BY SizesAssumption
<1>6. num > 0
  <2>1. num = Len(usable) + Cardinality(FreeFrom(mmap, scan.Position))
    BY DEF MemoryInv, NumInv
  <2>2. Cardinality(FreeFrom(mmap, scan.Position)) \in Nat
    BY FreeFromIsFinite DEF MemoryInv, TypeInv
  <2> QED BY <1>2, <2>1, <2>2
<1>7. ~Overlapping(usable)
  <2>1. SUFFICES ASSUME NEW i \in 2 .. Len(usable)
                 PROVE  ~(usable[i].Base < usable[i - 1].Base + usable[i - 1].Limit)
    BY DEF Overlapping
  <2>2. i \in DOMAIN usable /\ i - 1 \in DOMAIN usable /\ i - 1 < i
    BY <1>2
  <2>3. EndOf(usable[i - 1]) <= usable[i].Base
    BY <1>1, <2>2 DEF UsableInOrder
  <2> QED BY <1>3, <2>2, <2>3
<1> HIDE DEF k
<1>8. MemoryMapStatus(usable, PageSize, k) \in
        IF usable[1].Limit < k THEN {"EntryUnderMinSize"} ELSE {"Success", "MemoryUnderLimit"}
  <2>1. CASE usable[1].Limit < k
    <3>1. Wrong(usable) = {1}
      <4>1. \A i \in DOMAIN usable : i # 1 => i > 1
        BY <1>2
      <4> QED BY <1>1, <1>2, <1>3, <1>4, <1>5, <2>1, <4>1
    <3>2. (CHOOSE i \in Wrong(usable) : \A j \in Wrong(usable) : i <= j) = 1
      BY <3>1
    <3> HIDE DEF Wrong
    <3>3. Wrong(usable) # {} /\ ~NotAligned(usable[1], PageSize)
      BY <1>2, <1>4, <3>1
    <3>4. MemoryMapStatus(usable, PageSize, k) = "EntryUnderMinSize"
      BY <1>1, <1>7, <3>2, <3>3 DEF MemoryMapStatus, Wrong
    <3> QED BY <2>1, <3>4
  <2>2. CASE ~(usable[1].Limit < k)
    <3>1. Wrong(usable) = {}
      <4>1. \A i \in DOMAIN usable : i # 1 => i > 1
        BY <1>2
      <4> QED BY <1>1, <1>2, <1>3, <1>4, <1>5, <2>2, <4>1
    <3>2. MemoryMapStatus(usable, PageSize, k) \in {"Success", "MemoryUnderLimit"}
      BY <1>1, <1>7, <3>1 DEF MemoryMapStatus
    <3> QED BY <2>2, <3>2
  <2> QED BY <2>1, <2>2
<1>9. MemoryMapStatus(tail, PageSize, k) \in {"Success", "HasNoEntries", "MemoryUnderLimit"}
  <2>1. /\ tail \in Seq(UsableEntry) /\ Len(tail) \in Nat /\ DOMAIN tail = 1 .. Len(tail)
        /\ \A i \in DOMAIN tail : i + 1 \in DOMAIN usable /\ tail[i] = usable[i + 1]
    BY <1>1, TailFacts
  <2> HIDE DEF tail
  <2>2. ~Overlapping(tail)
    <3>1. SUFFICES ASSUME NEW i \in 2 .. Len(tail)
                   PROVE  ~(tail[i].Base < tail[i - 1].Base + tail[i - 1].Limit)
      BY DEF Overlapping
    <3>2. i \in DOMAIN tail /\ i - 1 \in DOMAIN tail /\ (i - 1) + 1 = i /\ i < i + 1
      BY <2>1
    <3>3. i \in DOMAIN usable /\ i + 1 \in DOMAIN usable
          /\ tail[i] = usable[i + 1] /\ tail[i - 1] = usable[i]
      BY <2>1, <3>2
    <3>4. EndOf(usable[i]) <= usable[i + 1].Base
      BY <1>1, <3>2, <3>3 DEF UsableInOrder
    <3> QED BY <1>3, <3>3, <3>4
  <2>3. Wrong(tail) = {}
    <3>1. \A i \in DOMAIN tail : i + 1 \in DOMAIN usable /\ i + 1 > 1 /\ tail[i] = usable[i + 1]
      BY <2>1
    <3>2. \A i \in DOMAIN tail : ~NotAligned(tail[i], PageSize) /\ tail[i].Limit >= k /\ tail[i].Limit \in Nat
      BY <1>1, <1>3, <1>4, <3>1
    <3> QED BY <1>5, <3>2
  <2> QED BY <2>2, <2>3 DEF MemoryMapStatus
<1> QED BY <1>1, <1>6, <1>8, <1>9 DEF tail, k

\* What the invariant says of the map.
LEMMA MapFollows == MemoryInv => MapIsRight
<1> SUFFICES ASSUME MemoryInv PROVE MapIsRight
  OBVIOUS
<1>1. /\ mmap \in Seq(MmapEntry) /\ usable \in Seq(UsableEntry) /\ scan.Position \in Nat \ {0}
      /\ Len(mmap) \in Nat /\ Len(usable) \in Nat /\ Len(mmap) <= MaxMmapEntries
  BY DEF MemoryInv, TypeInv, UsableEntry
<1>2. NumIsRight
  <2>1. FreeFrom(mmap, scan.Position) = {i \in DOMAIN mmap : mmap[i].Type = Free /\ i >= scan.Position}
    BY DEF FreeFrom
  <2> QED BY <2>1 DEF MemoryInv, NumInv, NumIsRight
<1>3. TypeOK
  <2>1. num \in 0 .. MaxMmapEntries
    <3> DEFINE left == FreeFrom(mmap, scan.Position)
               p == scan.Position
               n == Len(mmap)
               c == Cardinality(p .. n)
    <3>1. left \in SUBSET (p .. n)
      BY <1>1 DEF FreeFrom
    <3>2. p \in Int /\ n \in Int
      BY <1>1
    <3>3. IsFiniteSet(p .. n) /\ Cardinality(p .. n) = IF p > n THEN 0 ELSE n - p + 1
      <4> HIDE DEF p, n
      <4> QED BY <3>2, FS_Interval
    <3>4. Cardinality(left) <= c /\ Cardinality(left) \in Nat
      <4>1. Cardinality(left) \in Nat
        BY <1>1, FreeFromIsFinite
      <4> HIDE DEF left, p, n
      <4> QED BY <3>1, <3>3, <4>1, FS_Subset
    <3>5. num = Len(usable) + Cardinality(left) /\ Len(usable) < p /\ p <= n + 1
      BY DEF MemoryInv, NumInv
    <3>6. n <= MaxMmapEntries /\ n \in Nat /\ p \in Nat /\ MaxMmapEntries \in Nat /\ Len(usable) \in Nat
      BY <1>1, SizesAssumption
    <3> DEFINE d == Cardinality(left)
               l == Len(usable)
    <3>7. /\ c = (IF p > n THEN 0 ELSE n - p + 1) /\ d <= c /\ d \in Nat /\ num = l + d
          /\ l < p /\ p <= n + 1 /\ n <= MaxMmapEntries /\ l \in Nat
      BY <3>3, <3>4, <3>5, <3>6
    <3> HIDE DEF left, p, n, c, d, l
    <3> QED BY <3>6, <3>7
  <2>2. at \in Seeking \cup Granting \cup {"kernel", "panic", "wild"}
    BY DEF MemoryInv, TypeInv
  <2>3. at \in {"report", "sort", "scan", "image", "stack", "pml4", "map", "read", "area", "copy",
                "trim", "kernel", "panic", "wild"}
    BY <2>2 DEF Seeking, Granting
  <2>4. \A i \in DOMAIN usable : usable[i] \in [Base : 0 .. Word - 1, Limit : 0 .. Word - 1]
    <3>1. \A i \in DOMAIN usable : usable[i] \in UsableEntry
      BY <1>1, Element
    <3> QED BY <3>1 DEF UsableEntry
  <2>5. Offset \in Nat /\ (blocks # <<>> => Offset <= AddressLimit)
    BY DEF MemoryInv, TypeInv, OffsetInv
  <2>6. \A p \in DOMAIN map.pages : map.pages[p] \in BOOLEAN
    BY DEF MemoryInv, TypeInv
  <2> QED BY <1>1, <2>1, <2>3, <2>4, <2>5, <2>6 DEF TypeOK
<1>4. UsableIsFree
  <2> SUFFICES ASSUME Intact
               PROVE  \A i \in DOMAIN usable :
                        /\ PartOfFree(usable[i].Base, EndOf(usable[i]), mmap)
                        /\ i > 1 => EndOf(usable[i - 1]) <= usable[i].Base
    BY DEF UsableIsFree
  <2>1. NoneWrapped(usable)
    BY DEF Intact, SmallEntriesAreSkipped, NoneWrapped
  <2>2. /\ \A i \in DOMAIN usable : PartOfFree(usable[i].Base, EndOf(usable[i]), mmap)
        /\ UsableInOrder(usable)
    BY <2>1 DEF MemoryInv, UsableInv
  <2>3. \A i \in DOMAIN usable : i > 1 => i - 1 \in DOMAIN usable /\ i - 1 < i
    BY <1>1
  <2> QED BY <2>2, <2>3 DEF UsableInOrder
<1>5. OnlyFirstEntryIsSmall
  BY SmallEntries
<1> QED BY <1>2, <1>3, <1>4, <1>5 DEF MapIsRight

\* What the invariant says of the areas.
LEMMA AreasFollow == MemoryInv => AreasAreOwned
<1> SUFFICES ASSUME MemoryInv, Intact
             PROVE  /\ \A n, o \in DOMAIN Areas : n # o =>
                         Apart(Areas[n].Base, EndOfArea(Areas[n]), Areas[o].Base, EndOfArea(Areas[o]))
                    /\ \A n \in DOMAIN Areas :
                         /\ Areas[n].Base >= LowMemory
                         /\ IF at = "kernel"
                            THEN \A i \in DOMAIN usable :
                                   Apart(Areas[n].Base, EndOfArea(Areas[n]), usable[i].Base, EndOf(usable[i]))
                            ELSE \E i \in DOMAIN usable :
                                   usable[i].Base <= Areas[n].Base /\ EndOfArea(Areas[n]) <= EndOf(usable[i])
  BY DEF AreasAreOwned
<1>1. Laid(Areas, Offset) /\ Offset \in Nat /\ usable \in Seq(UsableEntry)
  BY DEF MemoryInv, AreasInv, TypeInv, UsableEntry
<1>2. LowMemory \in Nat
  BY SizesAssumption
<1>3. \A n \in DOMAIN Areas :
        /\ Areas[n].Base \in Nat /\ Areas[n].Base >= LowMemory
        /\ EndOfArea(Areas[n]) \in Nat /\ EndOfArea(Areas[n]) <= Offset
  BY <1>1, <1>2 DEF Laid, EndOfArea
<1>4. CASE at = "kernel"
  <2>1. \A i \in DOMAIN usable : usable[i].Base >= Offset /\ usable[i].Base \in Nat
    BY <1>1, <1>4, UsableTypes DEF MemoryInv, UsableInv
  <2>2. \A n \in DOMAIN Areas : \A i \in DOMAIN usable : EndOfArea(Areas[n]) <= usable[i].Base
    BY <1>1, <1>3, <2>1
  <2> QED BY <1>1, <1>3, <1>4, <2>2 DEF Laid, Apart
<1>5. CASE at # "kernel"
  <2>1. at \in Seeking \cup Granting
    BY <1>5 DEF MemoryInv, TypeInv, Intact
  <2>2. CASE at \in Granting
    <3>1. \A n \in DOMAIN Areas : Within(Areas[n], usable)
      BY <2>2 DEF MemoryInv, AreasInv
    <3>2. \A i \in DOMAIN usable : EndOf(usable[i]) \in Nat
      <4>1. \A i \in DOMAIN usable : EndOf(usable[i]) \in 0 .. Word - 1
        BY <1>1, UsableTypes
      <4> QED BY <4>1, Sizes
    <3>3. \A n \in DOMAIN Areas : \E i \in DOMAIN usable :
            usable[i].Base <= Areas[n].Base /\ EndOfArea(Areas[n]) <= EndOf(usable[i])
      BY <1>3, <3>1, <3>2 DEF Within
    <3> QED BY <1>1, <1>3, <1>5, <3>3 DEF Laid
  <2>3. CASE at \in Seeking
    <3>1. blocks = <<>> /\ DOMAIN map.tables = {} /\ DOMAIN <<>> = {}
      BY <2>3 DEF MemoryInv, NamesInv
    <3>2. DOMAIN Areas = {}
      BY <3>1 DEF Areas
    <3> QED BY <3>2
  <2> QED BY <2>1, <2>2, <2>3
<1> QED BY <1>4, <1>5

\* Where a program is written to, if its addresses do not wrap around.
LEMMA CopiedPrograms ==
  ASSUME MemoryInv, NEW i \in DOMAIN copied
  PROVE  LET area == blocks[<<"area">>]
             base == area.Base + StartOf(i)
         IN /\ <<"area">> \in DOMAIN Areas /\ Areas[<<"area">>] = area
            /\ area.Base \in Nat /\ StartOf(i) \in Nat /\ i \in Programs
            /\ copied[i].Size = BytesWritten(i) /\ copied[i].Size \in Nat \ {0}
            /\ base < AddressLimit => copied[i].Base = base
<1> DEFINE area == blocks[<<"area">>]
           base == area.Base + StartOf(i)
<1>1. <<"area">> \in DOMAIN blocks /\ copied = Copies(area)
  <2>1. DOMAIN <<>> = {}
    OBVIOUS
  <2>2. copied # <<>>
    BY <2>1
  <2> QED BY <2>2 DEF MemoryInv, FileInv
<1>2. <<"area">> \in DOMAIN Areas /\ Areas[<<"area">>] = area
  BY <1>1 DEF Areas
<1>3. area.Base \in Nat
  BY <1>2 DEF MemoryInv, AreasInv, Laid
<1>4. i \in Programs /\ copied[i] = [Base |-> base % AddressLimit, Size |-> BytesWritten(i)]
  BY <1>1 DEF Copies
<1>5. /\ StartOf(i) \in Nat /\ kernel.Programs[i].Size \in Nat /\ kernel.Programs[i].PaddedSize \in Nat
      /\ SizeOf(i) \in Nat \ {0}
  BY <1>4, KernelTypes DEF MemoryInv, TypeInv
<1>6. SseOverrun \in Nat /\ AddressLimit \in Nat \ {0}
  BY SizesAssumption
<1>7. BytesWritten(i) \in Nat \ {0}
  BY <1>5, <1>6 DEF BytesWritten, SizeOf
<1>8. ASSUME base < AddressLimit PROVE base % AddressLimit = base
  <2>1. base \in Nat
    BY <1>3, <1>5
  <2> HIDE DEF base
  <2> QED BY <1>6, <1>8, <2>1
<1> HIDE DEF base, area
<1>9. copied[i].Base = base % AddressLimit /\ copied[i].Size = BytesWritten(i)
  BY <1>4
<1> QED BY <1>2, <1>3, <1>4, <1>5, <1>7, <1>8, <1>9 DEF base, area

\* What the invariant says of the programs: they lie behind all other areas.
LEMMA ProgramsFollow ==
  ASSUME MemoryInv, NEW i \in DOMAIN copied,
         blocks[<<"area">>].Base + StartOf(i) + copied[i].Size <= AddressLimit,
         NEW n \in DOMAIN Areas \ {<<"area">>}
  PROVE  EndOfArea(Areas[n]) <= copied[i].Base
<1> DEFINE area == blocks[<<"area">>]
           start == StartOf(i)
           size == copied[i].Size
<1>1. /\ <<"area">> \in DOMAIN Areas /\ area.Base \in Nat /\ start \in Nat /\ size \in Nat \ {0}
      /\ area.Base + start < AddressLimit => copied[i].Base = area.Base + start
  BY CopiedPrograms
<1>2. EndOfArea(Areas[n]) <= area.Base /\ EndOfArea(Areas[n]) \in Nat
  <2>1. <<"area">> \in DOMAIN blocks
    <3>1. <<"area">> \notin DOMAIN map.tables
      <4>1. DOMAIN map.tables \subseteq {"pml3", "pml2"} \X Nat
        BY DEF MemoryInv, NamesInv
      <4> QED BY <4>1
    <3> QED BY <1>1, <3>1 DEF Areas
  <2>2. EndOfArea(Areas[n]) \in Nat
    BY DEF MemoryInv, AreasInv, Laid, EndOfArea
  <2> QED BY <2>1, <2>2 DEF MemoryInv, FileInv
<1>3. area.Base + start + size <= AddressLimit /\ AddressLimit \in Nat
  BY SizesAssumption
<1> HIDE DEF area, start, size
<1> QED BY <1>1, <1>2, <1>3

\* Those of a kernel as the linker makes it fit into the area, and into the page behind it.
LEMMA LinkedPrograms ==
  ASSUME MemoryInv, IsLinked, NEW i \in DOMAIN copied
  PROVE  /\ blocks[<<"area">>].Base <= copied[i].Base
         /\ EndOfArea(copied[i]) - SseOverrun <= EndOfArea(blocks[<<"area">>])
         /\ at = "trim" => \E e \in DOMAIN usable :
              usable[e].Base <= copied[i].Base /\ EndOfArea(copied[i]) <= EndOf(usable[e])
<1> DEFINE area == blocks[<<"area">>]
           start == StartOf(i)
           padded == kernel.Programs[i].PaddedSize
           end == EndOfArea(copied[i])
<1>1. /\ <<"area">> \in DOMAIN Areas /\ Areas[<<"area">>] = area
      /\ area.Base \in Nat /\ start \in Nat /\ i \in Programs
      /\ copied[i].Size = BytesWritten(i)
      /\ area.Base + start < AddressLimit => copied[i].Base = area.Base + start
  BY CopiedPrograms
<1>2. <<"area">> \in DOMAIN blocks
  <2>1. DOMAIN map.tables \subseteq {"pml3", "pml2"} \X Nat
    BY DEF MemoryInv, NamesInv
  <2>2. <<"area">> \notin DOMAIN map.tables
    BY <2>1
  <2> QED BY <1>1, <2>2 DEF Areas
<1>3. /\ ~HeadersAreRefused /\ area.Size = KernelAreaSize
      /\ EndOfArea(area) = Offset /\ Offset % PageSize = 0 /\ Offset < AddressLimit
  BY <1>2 DEF MemoryInv, FileInv
<1>4. KernelAreaSize \in Nat /\ start + padded <= KernelAreaSize
  BY <1>1, <1>3, AreaSize DEF MemoryInv, TypeInv
<1>5. kernel.Programs[i].Size \in Nat /\ padded \in Nat /\ kernel.Programs[i].Size <= padded
      /\ SizeOf(i) \in Nat \ {0}
  BY <1>1, KernelTypes DEF MemoryInv, TypeInv, IsLinked
<1>6. padded # 0
  BY <1>5 DEF SizeOf
<1>7. SseOverrun \in Nat /\ SseOverrun <= PageSize /\ AddressLimit \in Nat /\ Offset \in Nat
  BY Sizes, SizesAssumption DEF MemoryInv, TypeInv
<1>8. BytesWritten(i) = padded + SseOverrun
  BY <1>5, <1>7 DEF BytesWritten
<1>9. EndOfArea(area) = area.Base + KernelAreaSize
  BY <1>3 DEF EndOfArea
<1> HIDE DEF area, start, padded
<1>10. area.Base + start < AddressLimit
  BY <1>1, <1>3, <1>4, <1>5, <1>6, <1>7, <1>9
<1>11. end = area.Base + start + padded + SseOverrun
  BY <1>1, <1>5, <1>7, <1>8, <1>10 DEF EndOfArea
<1> HIDE DEF end
<1>12. area.Base <= copied[i].Base /\ end - SseOverrun <= EndOfArea(area) /\ end <= Offset + PageSize
  BY <1>1, <1>3, <1>4, <1>5, <1>7, <1>9, <1>10, <1>11, Sizes
<1>13. ASSUME at = "trim"
       PROVE  \E e \in DOMAIN usable : usable[e].Base <= copied[i].Base /\ end <= EndOf(usable[e])
  <2>1. at \in Granting
    BY <1>13 DEF Granting
  <2>2. PICK e \in DOMAIN usable : usable[e].Base <= area.Base /\ Offset < EndOf(usable[e])
    BY <1>1, <1>3, <2>1 DEF MemoryInv, AreasInv, Within
  <2>3. EndOf(usable[e]) % PageSize = 0
    BY <2>1 DEF MemoryInv, UsableInv, PartOfFree
  <2>4. usable[e].Base \in Nat /\ EndOf(usable[e]) \in Nat
    <3>1. usable \in Seq(UsableEntry)
      BY DEF MemoryInv, TypeInv, UsableEntry
    <3>2. usable[e].Base \in Nat /\ EndOf(usable[e]) \in 0 .. Word - 1
      BY <3>1, UsableTypes
    <3> QED BY <3>2, Sizes
  <2>5. Offset + PageSize <= EndOf(usable[e])
    BY <1>3, <1>7, <2>2, <2>3, <2>4, Sizes, NextMultiple
  <2>6. usable[e].Base <= copied[i].Base /\ end <= EndOf(usable[e])
    BY <1>1, <1>5, <1>7, <1>10, <1>11, <1>12, <2>2, <2>4, <2>5, Sizes
  <2> QED BY <2>6
<1> QED BY <1>12, <1>13 DEF area, end

\* What the invariant says of the file: its overrun ends within the stack.
LEMMA FileFollows == MemoryInv => FileStaysOffTables
<1> SUFFICES ASSUME MemoryInv PROVE FileStaysOffTables
  OBVIOUS
<1>1. \A i \in DOMAIN copied :
        blocks[<<"area">>].Base + StartOf(i) + copied[i].Size <= AddressLimit =>
          \A n \in DOMAIN Areas \ {<<"area">>} : EndOfArea(Areas[n]) <= copied[i].Base
  BY ProgramsFollow
<1>2. ASSUME <<"file">> \in DOMAIN blocks
      PROVE  \A n \in DOMAIN Areas \ {<<"image">>, <<"stack">>} :
               EndOfArea(blocks[<<"file">>]) <= Areas[n].Base
  <2> DEFINE image == blocks[<<"image">>]
             stack == blocks[<<"stack">>]
             file == blocks[<<"file">>]
  <2>1. /\ <<"stack">> \in DOMAIN blocks /\ <<"image">> \in DOMAIN blocks
        /\ file = [Base |-> image.Base, Size |-> kernel.Size + kernel.Overrun]
        /\ image.Size = PageAlign(kernel.Size) /\ EndOfArea(image) <= stack.Base
        /\ stack.Size = KernelStackSize
        /\ \A n \in DOMAIN Areas \ {<<"image">>, <<"stack">>} : EndOfArea(stack) <= Areas[n].Base
    BY <1>2 DEF MemoryInv, FileInv
  <2>2. image.Base \in Nat /\ stack.Base \in Nat
    <3>1. /\ <<"image">> \in DOMAIN Areas /\ Areas[<<"image">>] = image
          /\ <<"stack">> \in DOMAIN Areas /\ Areas[<<"stack">>] = stack
      BY <2>1 DEF Areas
    <3> QED BY <3>1 DEF MemoryInv, AreasInv, Laid
  <2>3. kernel.Size \in Nat /\ kernel.Overrun \in Nat /\ kernel.Overrun <= KernelStackSize
    BY KernelTypes DEF MemoryInv, TypeInv
  <2>4. KernelStackSize \in Nat
    BY SizesAssumption
  <2>5. PageAlign(kernel.Size) \in Nat /\ kernel.Size <= PageAlign(kernel.Size)
    BY <2>3, PageAlignment
  <2> HIDE DEF image, stack, file
  <2>6. EndOfArea(file) <= EndOfArea(stack) /\ EndOfArea(file) \in Nat /\ EndOfArea(stack) \in Nat
    BY <2>1, <2>2, <2>3, <2>4, <2>5 DEF EndOfArea
  <2>7. \A n \in DOMAIN Areas : Areas[n].Base \in Nat
    BY DEF MemoryInv, AreasInv, Laid
  <2>8. \A n \in DOMAIN Areas \ {<<"image">>, <<"stack">>} : EndOfArea(file) <= Areas[n].Base
    BY <2>1, <2>6, <2>7
  <2> QED BY <2>8 DEF file
<1>3. IsLinked =>
        \A i \in DOMAIN copied :
          /\ blocks[<<"area">>].Base <= copied[i].Base
          /\ EndOfArea(copied[i]) - SseOverrun <= EndOfArea(blocks[<<"area">>])
          /\ at = "trim" => \E e \in DOMAIN usable :
               usable[e].Base <= copied[i].Base /\ EndOfArea(copied[i]) <= EndOf(usable[e])
  BY LinkedPrograms
<1> QED BY <1>1, <1>2, <1>3 DEF FileStaysOffTables, Apart

(***************************************************************************)
(* Whatever the BIOS reports, and whatever kernel is on the drive.         *)
(***************************************************************************)
THEOREM MemoryInvariant == Spec => []MemoryInv
BY InitKeeps, NextKeeps, PTL DEF Spec

(***************************************************************************)
(* As long as no end falls before its start, every usable entry is free    *)
(* memory, in order and aligned; the number of entries is the one that is  *)
(* kept, and the kernel can only object to the first, or to the sum.       *)
(* (Stage3/Bootloader.c:284-472, :1608; Entry.c:230-289)                   *)
(***************************************************************************)
THEOREM MapAlwaysRight == Spec => []MapIsRight
BY MemoryInvariant, MapFollows, PTL

(***************************************************************************)
(* As long as no end of a usable entry falls before its start, no two      *)
(* areas share memory, none is low, each is usable memory, and none is     *)
(* left in the map that the kernel gets.                                   *)
(* (Paging.c:84, AllocateFromMmap; Stage3/Bootloader.c:1611)               *)
(***************************************************************************)
THEOREM AreasAlwaysOwned == Spec => []AreasAreOwned
BY MemoryInvariant, AreasFollow, PTL

(***************************************************************************)
(* The file, with what is written behind its end, reaches no page table.   *)
(* Programs whose addresses do not wrap around reach no other area, and    *)
(* those of a kernel as the linker makes it stay in their area, but for    *)
(* what the vector functions write too much, which is usable memory.       *)
(* (Stage3/Bootloader.c:1236, :1304-1396 and :1420-1453)                   *)
(***************************************************************************)
THEOREM FileAlwaysOffTables == Spec => []FileStaysOffTables
BY MemoryInvariant, FileFollows, PTL

(***************************************************************************)
(* When the kernel is entered, all of its memory is mapped, and the frame  *)
(* buffer is write-combining.  (Paging.c:202; Stage3/Bootloader.c:1150)    *)
(***************************************************************************)
THEOREM EverythingAlwaysMapped == Spec => []EverythingIsMapped
<1>1. MemoryInv => EverythingIsMapped
  BY DEF MemoryInv, MapsInv
<1> QED BY <1>1, MemoryInvariant, PTL

=============================================================================
