-------------------------- MODULE InductionLemmas --------------------------
(***************************************************************************)
(* Induction over the natural numbers, stated of a set of numbers: those   *)
(* of which something holds.  The least number that is not in it would     *)
(* have a predecessor that is.                                             *)
(***************************************************************************)
EXTENDS Integers, WellFoundedInduction, TLAPS

LEMMA SetInduction ==
  ASSUME NEW S, 0 \in S, \A n \in Nat : n \in S => n + 1 \in S
  PROVE  Nat \subseteq S
<1> DEFINE Others == Nat \ S
           Less == OpToRel(<, Nat)
<1>1. IsWellFoundedOn(Less, Nat)
  BY NatLessThanWellFounded
<1>2. Less = {pair \in Nat \X Nat : pair[1] < pair[2]}
  BY DEF OpToRel
<1> HIDE DEF Less
<1>3. SUFFICES ASSUME Others # {} PROVE FALSE
  OBVIOUS
<1>4. PICK x \in Others : \A y \in Others : ~(<<y, x>> \in Less)
  <2>1. Others \subseteq Nat
    OBVIOUS
  <2> HIDE DEF Others
  <2> QED BY <1>1, <1>3, <2>1, WFMin
<1>5. x \in Nat /\ x - 1 \in Nat
  BY <1>4
<1>6. x - 1 \in S
  <2>1. <<x - 1, x>> \in Less
    BY <1>2, <1>5
  <2> QED BY <1>4, <1>5, <2>1
<1> QED BY <1>4, <1>5, <1>6

\* The same up to a bound.
LEMMA BoundedInduction ==
  ASSUME NEW N \in Nat, NEW S, 0 \in S, \A n \in 0 .. N - 1 : n \in S => n + 1 \in S
  PROVE  0 .. N \subseteq S
<1> DEFINE Extended == S \cup {n \in Nat : n > N}
<1>1. 0 \in Extended
  OBVIOUS
<1>2. ASSUME NEW n \in Nat, n \in Extended
      PROVE  n + 1 \in Extended
  <2>1. CASE n < N
    BY <1>2, <2>1
  <2>2. CASE n >= N
    BY <2>2
  <2> QED BY <2>1, <2>2
<1> HIDE DEF Extended
<1>3. Nat \subseteq Extended
  BY <1>1, <1>2, SetInduction
<1> QED BY <1>3 DEF Extended
(***************************************************************************)
(* The function that iterates f, from c on, exists, so that a recursive    *)
(* definition of it defines it.                                            *)
(***************************************************************************)
Iterates(V, c, f, n, g) ==
  /\ g \in [0 .. n -> V]
  /\ g[0] = c
  /\ \A k \in 1 .. n : g[k] = f[g[k - 1]]

\* Two functions that iterate f agree as far as both go.
LEMMA IterationsAgree ==
  ASSUME NEW V, NEW c, NEW f, NEW m \in Nat, NEW n \in Nat, m <= n,
         NEW g, Iterates(V, c, f, m, g), NEW h, Iterates(V, c, f, n, h)
  PROVE  g[m] = h[m]
<1> DEFINE S == {k \in 0 .. m : g[k] = h[k]}
<1>1. 0 \in S
  BY DEF Iterates
<1>2. ASSUME NEW k \in 0 .. m - 1, k \in S
      PROVE  k + 1 \in S
  <2>1. k + 1 \in 1 .. m /\ k + 1 \in 1 .. n /\ (k + 1) - 1 = k
    OBVIOUS
  <2>2. g[k + 1] = f[g[k]] /\ h[k + 1] = f[h[k]]
    BY <2>1 DEF Iterates
  <2> QED BY <1>2, <2>1, <2>2
<1> HIDE DEF S
<1>3. 0 .. m \subseteq S
  BY <1>1, <1>2, BoundedInduction
<1> QED BY <1>3 DEF S

\* There is one for every number.
LEMMA IterationsExist ==
  ASSUME NEW V, NEW c \in V, NEW f \in [V -> V], NEW n \in Nat
  PROVE  \E g : Iterates(V, c, f, n, g)
<1> DEFINE S == {m \in Nat : \E g : Iterates(V, c, f, m, g)}
<1>1. 0 \in S
  <2>1. Iterates(V, c, f, 0, [k \in 0 .. 0 |-> c])
    BY DEF Iterates
  <2> QED BY <2>1
<1>2. ASSUME NEW m \in Nat, m \in S
      PROVE  m + 1 \in S
  <2>1. PICK g : Iterates(V, c, f, m, g)
    BY <1>2
  <2> DEFINE h == [k \in 0 .. m + 1 |-> IF k = m + 1 THEN f[g[m]] ELSE g[k]]
  <2>2. h \in [0 .. m + 1 -> V]
    BY <2>1 DEF Iterates
  <2>3. h[0] = c
    BY <2>1 DEF Iterates
  <2>4. ASSUME NEW k \in 1 .. m + 1
        PROVE  h[k] = f[h[k - 1]]
    <3>1. k - 1 \in 0 .. m /\ h[k - 1] = g[k - 1]
      OBVIOUS
    <3>2. CASE k = m + 1
      BY <3>1, <3>2
    <3>3. CASE k # m + 1
      BY <2>1, <3>1, <3>3 DEF Iterates
    <3> QED BY <3>2, <3>3
  <2> HIDE DEF h
  <2>5. Iterates(V, c, f, m + 1, h)
    BY <2>2, <2>3, <2>4 DEF Iterates
  <2> QED BY <2>5
<1> HIDE DEF S
<1>3. Nat \subseteq S
  BY <1>1, <1>2, SetInduction
<1> QED BY <1>3 DEF S

Iterated(c, f, g) == g[0] = c /\ \A k \in Nat : g[k + 1] = f[g[k]]

LEMMA Iteration ==
  ASSUME NEW V, NEW c \in V, NEW f \in [V -> V]
  PROVE  \E g \in [Nat -> V] : Iterated(c, f, g)
<1> DEFINE G(n) == CHOOSE g : Iterates(V, c, f, n, g)
           link == [n \in Nat |-> G(n)[n]]
<1>1. \A n \in Nat : Iterates(V, c, f, n, G(n))
  <2> TAKE n \in Nat
  <2> QED BY IterationsExist
<1>2. \A n \in Nat : G(n)[n] \in V
  BY <1>1 DEF Iterates
<1>3. ASSUME NEW k \in Nat
      PROVE  link[k] = IF k = 0 THEN c ELSE f[link[k - 1]]
  <2>1. CASE k = 0
    BY <1>1, <2>1 DEF Iterates
  <2>2. CASE k # 0
    <3>1. k - 1 \in Nat /\ k - 1 <= k /\ k \in 1 .. k
      BY <2>2
    <3> HIDE DEF G
    <3>2. G(k)[k] = f[G(k)[k - 1]]
      BY <1>1, <3>1 DEF Iterates
    <3>3. G(k - 1)[k - 1] = G(k)[k - 1]
      <4>1. Iterates(V, c, f, k - 1, G(k - 1)) /\ Iterates(V, c, f, k, G(k))
        BY <1>1, <3>1
      <4> DEFINE g == G(k - 1)
                 h == G(k)
      <4> HIDE DEF g, h
      <4>2. g[k - 1] = h[k - 1]
        BY <3>1, <4>1, IterationsAgree DEF g, h
      <4> QED BY <4>2 DEF g, h
    <3> QED BY <2>2, <3>1, <3>2, <3>3
  <2> QED BY <2>1, <2>2
<1>4. link \in [Nat -> V]
  BY <1>2
<1> HIDE DEF link
<1>5. \A k \in Nat : k + 1 \in Nat /\ k + 1 # 0 /\ (k + 1) - 1 = k
  OBVIOUS
<1>6. link[0] = c /\ \A k \in Nat : link[k + 1] = f[link[k]]
  BY <1>3, <1>5
<1> QED BY <1>4, <1>6 DEF Iterated
=============================================================================
