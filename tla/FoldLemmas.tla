----------------------------- MODULE FoldLemmas -----------------------------
(* Induction over the natural numbers as a fact about sets, and what a fold *)
(* of the community modules computes, row by row.                           *)
EXTENDS Integers, FiniteSetsExt, WellFoundedInduction, TLAPS

\* A nonempty set of natural numbers has a least element.
LEMMA LeastElement ==
  ASSUME NEW T \in SUBSET Nat, T # {}
  PROVE  \E x \in T : \A y \in T : ~(y < x)
  <1>. DEFINE R == OpToRel(<, Nat)
  <1>1. IsWellFoundedOn(R, Nat)
    BY NatLessThanWellFounded
  <1>2. \A x, y \in Nat : <<y, x>> \in R <=> y < x
    BY DEF OpToRel
  <1>. HIDE DEF R
  <1>3. \E x \in T : \A y \in T : ~ (<<y, x>> \in R)
    BY <1>1, WFMin, Zenon
  <1>. QED
    BY <1>2, <1>3, Zenon

\* What holds of 0, and of n + 1 when of n, holds of every natural number.
LEMMA SetInduction ==
  ASSUME NEW T, 0 \in T, \A n \in Nat : n \in T => n + 1 \in T
  PROVE  Nat \subseteq T
  <1>. SUFFICES ASSUME Nat \ T # {} PROVE FALSE
    OBVIOUS
  <1>1. PICK x \in Nat \ T : \A y \in Nat \ T : ~(y < x)
    BY LeastElement
  <1>2. x # 0 /\ x - 1 \in Nat
    BY <1>1
  <1>3. x - 1 \in T
    BY <1>1, <1>2
  <1>. QED
    BY <1>1, <1>2, <1>3

\* The same up to a bound.
LEMMA IntervalInduction ==
  ASSUME NEW n \in Nat, NEW T, 0 \in T, \A k \in 0 .. n - 1 : k \in T => k + 1 \in T
  PROVE  0 .. n \subseteq T
  <1>. DEFINE U == {k \in Nat : k <= n => k \in T}
  <1>1. 0 \in U /\ \A k \in Nat : k \in U => k + 1 \in U
    OBVIOUS
  <1>. HIDE DEF U
  <1>2. Nat \subseteq U
    BY <1>1, SetInduction
  <1>. QED
    BY <1>2 DEF U

\* A nonempty set of numbers up to n has a largest element.
LEMMA MaxIn ==
  ASSUME NEW n \in Nat, NEW s \in SUBSET (1 .. n), s # {}
  PROVE  Max(s) \in s
  <1>. DEFINE T == {n - x : x \in s}
  <1>0. \A x \in s : n - x \in Nat
    OBVIOUS
  <1>1. T \in SUBSET Nat /\ T # {}
    BY <1>0
  <1>2. PICK y \in T : \A z \in T : ~(z < y)
    BY <1>1, LeastElement
  <1>3. PICK x \in s : y = n - x
    BY <1>2
  <1>4. \A z \in s : x >= z
    <2>. TAKE z \in s
    <2>1. n - z \in T
      OBVIOUS
    <2>. QED
      BY <1>2, <1>3, <2>1
  <1>. QED
    BY <1>4 DEF Max

\* The table that MapThenFoldSet computes, with the largest element last.
IsTable(it, base, g, n) ==
  it = [s \in SUBSET (1 .. n) |-> IF s = {} THEN base ELSE g[<<it[s \ {Max(s)}], Max(s)>>]]

\* The largest element of a set of numbers up to n + 1 that has n + 1.
LEMMA MaxLast ==
  ASSUME NEW n \in Nat, NEW s \in SUBSET (1 .. n + 1), n + 1 \in s
  PROVE  Max(s) = n + 1
  <1>1. \A x \in s : (\A y \in s : x >= y) <=> x = n + 1
    OBVIOUS
  <1>. QED
    BY <1>1 DEF Max

\* The table exists.
LEMMA TableExists ==
  ASSUME NEW S, NEW base \in S, NEW n \in Nat, NEW g \in [S \X (1 .. n) -> S]
  PROVE  \E it \in [SUBSET (1 .. n) -> S] : IsTable(it, base, g, n)
  <1>. DEFINE P(k) == \E it \in [SUBSET (1 .. k) -> S] : IsTable(it, base, g, k)
              T == {k \in Nat : k <= n => P(k)}
  <1>1. P(0)
    <2>. DEFINE it == [s \in SUBSET (1 .. 0) |-> base]
    <2>1. 1 .. 0 = {} /\ SUBSET (1 .. 0) = {{}}
      OBVIOUS
    <2>2. it \in [SUBSET (1 .. 0) -> S] /\ IsTable(it, base, g, 0)
      BY <2>1 DEF IsTable
    <2>. QED
      BY <2>2
  <1>2. ASSUME NEW k \in Nat, k + 1 <= n, P(k)
        PROVE  P(k + 1)
    <2>1. PICK old \in [SUBSET (1 .. k) -> S] : IsTable(old, base, g, k)
      BY <1>2
    <2>. DEFINE it == [s \in SUBSET (1 .. k + 1) |->
                        IF k + 1 \in s THEN g[<<old[s \ {k + 1}], k + 1>>] ELSE old[s]]
    <2>2. \A s \in SUBSET (1 .. k + 1) :
            /\ k + 1 \in s => s \ {k + 1} \in SUBSET (1 .. k) /\ it[s] = g[<<old[s \ {k + 1}], k + 1>>]
            /\ k + 1 \notin s => s \in SUBSET (1 .. k) /\ it[s] = old[s]
      OBVIOUS
    <2>3. it \in [SUBSET (1 .. k + 1) -> S]
      <3>1. ASSUME NEW s \in SUBSET (1 .. k + 1)
            PROVE  (IF k + 1 \in s THEN g[<<old[s \ {k + 1}], k + 1>>] ELSE old[s]) \in S
        <4>1. CASE k + 1 \in s
          <5>1. old[s \ {k + 1}] \in S /\ k + 1 \in 1 .. n
            BY <1>2, <2>2, <4>1
          <5>. QED
            BY <4>1, <5>1
        <4>2. CASE k + 1 \notin s
          BY <2>2, <4>2
        <4>. QED
          BY <4>1, <4>2
      <3>. QED
        BY <3>1
    <2>4. ASSUME NEW s \in SUBSET (1 .. k + 1)
          PROVE  it[s] = IF s = {} THEN base ELSE g[<<it[s \ {Max(s)}], Max(s)>>]
      <3>1. CASE k + 1 \in s
        <4>1. Max(s) = k + 1
          BY <3>1, MaxLast
        <4>2. it[s \ {k + 1}] = old[s \ {k + 1}]
          BY <2>2
        <4>. QED
          BY <2>2, <3>1, <4>1, <4>2
      <3>2. CASE k + 1 \notin s /\ s # {}
        <4>1. it[s] = old[s] /\ s \in SUBSET (1 .. k)
          BY <2>2, <3>2
        <4>2. old[s] = g[<<old[s \ {Max(s)}], Max(s)>>]
          BY <2>1, <3>2, <4>1 DEF IsTable
        <4>3. it[s \ {Max(s)}] = old[s \ {Max(s)}]
          BY <2>2, <3>2
        <4>. QED
          BY <3>2, <4>1, <4>2, <4>3
      <3>3. CASE s = {}
        BY <2>1, <2>2, <3>3 DEF IsTable
      <3>. QED
        BY <3>1, <3>2, <3>3
    <2>5. IsTable(it, base, g, k + 1)
      BY <2>3, <2>4 DEF IsTable
    <2>. QED
      BY <2>3, <2>5
  <1>. HIDE DEF P
  <1>3. 0 \in T /\ \A k \in Nat : k \in T => k + 1 \in T
    BY <1>1, <1>2
  <1>4. n \in T
    BY <1>3, SetInduction
  <1>5. P(n)
    BY <1>4
  <1>. QED
    BY <1>5 DEF P

=============================================================================
