----------------------------- MODULE Induction -----------------------------
(***************************************************************************)
(* Induction without an operator parameter.  A property of the naturals is *)
(* the set of the numbers that have it, and a recursive definition is the  *)
(* iteration of a function: in this form both principles follow from the   *)
(* fact that strict inclusion of finite sets is well founded, and can be   *)
(* used wherever a proof needs them.                                       *)
(***************************************************************************)
EXTENDS Integers, FiniteSetTheorems, WellFoundedInduction, TLAPS

\* Every nonempty set of naturals has a least element: the smallest of the
\* intervals that end in one of its elements.
LEMMA LeastElement ==
  ASSUME NEW T \in SUBSET Nat, T # {}
  PROVE  \E x \in T : \A y \in T : x <= y
<1> DEFINE Below == {0..n : n \in T}
           Smaller == StrictSubsetOrdering(Nat)
<1>1. \A n \in Nat : 0..n \in SUBSET Nat /\ IsFiniteSet(0..n)
  BY FS_Interval
<1>2. Below \subseteq FiniteSubsetsOf(Nat) /\ Below # {}
  BY <1>1 DEF FiniteSubsetsOf
<1>3. PICK B \in Below : \A C \in Below : ~(<<C, B>> \in Smaller)
  <2>1. IsWellFoundedOn(Smaller, FiniteSubsetsOf(Nat))
    BY FS_StrictSubsetOrderingWellFounded
  <2> HIDE DEF Smaller, Below
  <2> QED BY <1>2, <2>1, WFMin
<1>4. PICK x \in T : B = 0..x
  OBVIOUS
<1>5. ASSUME NEW y \in T PROVE x <= y
  <2>1. SUFFICES ASSUME y < x PROVE FALSE
    OBVIOUS
  <2>2. 0..y \in SUBSET Nat /\ 0..x \in SUBSET Nat /\ 0..y \subseteq 0..x /\ 0..y # 0..x
    BY <2>1
  <2>3. 0..y \in Below
    OBVIOUS
  <2>4. <<0..y, 0..x>> \in Smaller
    BY <2>2 DEF StrictSubsetOrdering
  <2> QED BY <1>3, <1>4, <2>3, <2>4
<1> QED BY <1>5

\* A set that holds zero and the successor of each of its elements holds
\* every natural.
LEMMA SetInduction ==
  ASSUME NEW S \in SUBSET Nat, 0 \in S, \A n \in S : n + 1 \in S
  PROVE  \A n \in Nat : n \in S
<1> DEFINE T == Nat \ S
<1>1. SUFFICES ASSUME T # {} PROVE FALSE
  OBVIOUS
<1>2. PICK x \in T : \A y \in T : x <= y
  <2>1. T \in SUBSET Nat
    OBVIOUS
  <2> HIDE DEF T
  <2> QED BY <1>1, <2>1, LeastElement
<1>3. x \in Nat /\ x # 0 /\ x - 1 \in Nat
  OBVIOUS
<1>4. x - 1 \in S
  BY <1>2, <1>3
<1> QED BY <1>3, <1>4

\* What a definition by primitive recursion defines.
Iterates(g, V, first, Step) ==
  /\ g \in [Nat -> V]
  /\ g[0] = first
  /\ \A k \in Nat : g[k + 1] = Step[k][g[k]]

\* Steps that map V to V can be iterated from any element of V.
LEMMA Iteration ==
  ASSUME NEW V, NEW first \in V, NEW Step \in [Nat -> [V -> V]]
  PROVE  \E g : Iterates(g, V, first, Step)
<1> DEFINE Upto(h, n) == /\ h \in [0..n -> V]
                         /\ h[0] = first
                         /\ \A k \in 0..(n - 1) : h[k + 1] = Step[k][h[k]]
           Reached == {n \in Nat : \E h : Upto(h, n)}
<1>1. \A n \in Nat : \E h : Upto(h, n)
  <2>1. 0 \in Reached
    <3>1. Upto([k \in 0..0 |-> first], 0)
      OBVIOUS
    <3> QED BY <3>1
  <2>2. ASSUME NEW n \in Reached PROVE n + 1 \in Reached
    <3>1. PICK h : Upto(h, n)
      OBVIOUS
    <3> DEFINE j == [k \in 0..(n + 1) |-> IF k = n + 1 THEN Step[n][h[n]] ELSE h[k]]
    <3>2. n \in Nat /\ n \in 0..n /\ h[n] \in V /\ Step[n][h[n]] \in V
      BY <3>1
    <3>3. j \in [0..(n + 1) -> V]
      BY <3>1, <3>2
    <3>4. j[0] = first
      BY <3>1, <3>2
    <3>5. ASSUME NEW k \in 0..n PROVE j[k + 1] = Step[k][j[k]]
      <4>1. k \in 0..(n + 1) /\ k + 1 \in 0..(n + 1) /\ k # n + 1
        BY <3>2
      <4>2. CASE k = n
        BY <4>1, <4>2, <3>2
      <4>3. CASE k # n
        <5>1. k \in 0..(n - 1) /\ k + 1 # n + 1
          BY <4>3, <3>2
        <5> QED BY <5>1, <4>1, <3>1
      <4> QED BY <4>2, <4>3
    <3>6. Upto(j, n + 1)
      <4>1. (n + 1) - 1 = n
        BY <3>2
      <4> QED BY <3>3, <3>4, <3>5, <4>1
    <3> HIDE DEF j, Upto
    <3> QED BY <3>6, <3>2
  <2> HIDE DEF Upto
  <2>3. Reached \in SUBSET Nat
    OBVIOUS
  <2>4. \A n \in Nat : n \in Reached
    <3> HIDE DEF Reached
    <3> QED BY <2>1, <2>2, <2>3, SetInduction
  <2> QED BY <2>4
<1>2. ASSUME NEW m \in Nat, NEW n \in Nat, NEW h, NEW j, Upto(h, m), Upto(j, n), m <= n
      PROVE  h[m] = j[m]
  <2> DEFINE Agree == {k \in Nat : k <= m => h[k] = j[k]}
  <2>1. 0 \in Agree
    BY <1>2
  <2>2. ASSUME NEW k \in Agree PROVE k + 1 \in Agree
    <3>1. SUFFICES ASSUME k + 1 <= m PROVE h[k + 1] = j[k + 1]
      OBVIOUS
    <3>2. k \in 0..(m - 1) /\ k \in 0..(n - 1) /\ h[k] = j[k]
      BY <3>1, <1>2
    <3> QED BY <3>2, <1>2
  <2>3. \A k \in Nat : k \in Agree
    <3>1. Agree \in SUBSET Nat
      OBVIOUS
    <3> HIDE DEF Agree
    <3> QED BY <2>1, <2>2, <3>1, SetInduction
  <2> QED BY <2>3
<1> DEFINE H(n) == CHOOSE h : Upto(h, n)
           g == [n \in Nat |-> H(n)[n]]
<1>3. \A n \in Nat : Upto(H(n), n)
  <2>1. ASSUME NEW n \in Nat PROVE Upto(H(n), n)
    <3>1. PICK h : Upto(h, n)
      BY <1>1
    <3> HIDE DEF Upto
    <3> QED BY <3>1, Zenon
  <2> QED BY <2>1
<1>4. ASSUME NEW n \in Nat PROVE g[n] \in V
  <2>1. n \in 0..n
    OBVIOUS
  <2> QED BY <1>3, <2>1
<1>5. g[0] = first
  BY <1>3
<1>6. ASSUME NEW k \in Nat PROVE g[k + 1] = Step[k][g[k]]
  <2>1. Upto(H(k), k) /\ Upto(H(k + 1), k + 1)
    <3>1. k + 1 \in Nat
      OBVIOUS
    <3> HIDE DEF Upto, H
    <3> QED BY <1>3, <3>1
  <2>2. H(k)[k] = H(k + 1)[k]
    <3> HIDE DEF Upto, H
    <3> QED BY <2>1, <1>2
  <2>3. k \in 0..((k + 1) - 1) /\ k + 1 \in Nat
    OBVIOUS
  <2>4. H(k + 1)[k + 1] = Step[k][H(k + 1)[k]]
    <3> HIDE DEF H
    <3> QED BY <2>1, <2>3
  <2> QED BY <2>2, <2>3, <2>4
<1> QED
  <2>1. g \in [Nat -> V]
    BY <1>4
  <2> HIDE DEF g
  <2> QED BY <2>1, <1>5, <1>6 DEF Iterates

=============================================================================
