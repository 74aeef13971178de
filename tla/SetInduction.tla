---------------------------- MODULE SetInduction ----------------------------
(***************************************************************************)
(* Induction over the natural numbers with sets in place of predicates,    *)
(* and the existence of functions defined by recursion.                    *)
(***************************************************************************)
EXTENDS Integers, TLAPS, WellFoundedInduction

\* A set of natural numbers that is not empty has a least element.
LEMMA LeastElement ==
    ASSUME NEW T, T \subseteq Nat, T # {}
    PROVE  \E n \in T : \A m \in T : n <= m
<1>1. \E n \in T : \A m \in T : ~ (<<m, n>> \in OpToRel(<, Nat))
  BY WFMin, NatLessThanWellFounded
<1>2. PICK n \in T : \A m \in T : ~ (<<m, n>> \in OpToRel(<, Nat))
  BY <1>1
<1>3. \A m \in T : ~(m < n)
  BY <1>2 DEF OpToRel
<1>. QED
  BY <1>3

\* A set that has 0, and the successor of each number it has, has them all.
LEMMA SetInduction ==
    ASSUME NEW T, 0 \in T, \A n \in Nat : n \in T => n + 1 \in T
    PROVE  Nat \subseteq T
<1>. DEFINE rest == Nat \ T
<1>. SUFFICES ASSUME rest # {} PROVE FALSE
  OBVIOUS
<1>1. PICK n \in rest : \A m \in rest : n <= m
  BY LeastElement
<1>2. n # 0 /\ n - 1 \in Nat /\ n - 1 \notin rest
  BY <1>1
<1>. QED
  BY <1>1, <1>2

\* f begins with c and goes on by step, which may depend on the number.
GoesOn(f, c, step) ==
    f[0] = c /\ \A n \in Nat : f[n + 1] = step[<<n, f[n]>>]

\* Recursion: a first value and a step define a function on the natural numbers.
LEMMA SetRecursion ==
    ASSUME NEW S, NEW c \in S, NEW step \in [Nat \X S -> S]
    PROVE  \E f \in [Nat -> S] : GoesOn(f, c, step)
<1>. DEFINE Upto(n) == {g \in [0..n -> S] :
                           /\ g[0] = c
                           /\ \A i \in 0..(n - 1) : g[i + 1] = step[<<i, g[i]>>]}
            Have == {n \in Nat : Upto(n) # {}}
<1>1. Nat \subseteq Have
  <2>1. 0 \in Have
    <3>1. [i \in 0..0 |-> c] \in Upto(0)
      OBVIOUS
    <3>. QED
      BY <3>1
  <2>2. ASSUME NEW n \in Nat, n \in Have PROVE n + 1 \in Have
    <3>1. PICK g \in [0..n -> S] :
              g[0] = c /\ \A i \in 0..(n - 1) : g[i + 1] = step[<<i, g[i]>>]
      BY <2>2
    <3>. DEFINE h == [i \in 0..(n + 1) |-> IF i = n + 1 THEN step[<<n, g[n]>>] ELSE g[i]]
    <3>2. h \in [0..(n + 1) -> S] /\ h[0] = c
      BY <3>1
    <3>3. ASSUME NEW i \in 0..n PROVE h[i + 1] = step[<<i, h[i]>>]
      <4>1. i + 1 \in 0..(n + 1) /\ i \in 0..(n + 1) /\ i # n + 1 /\ h[i] = g[i]
        OBVIOUS
      <4>2. CASE i = n
        <5>1. h[i + 1] = step[<<n, g[n]>>]
          BY <4>1, <4>2
        <5>. QED
          BY <4>1, <4>2, <5>1
      <4>3. CASE i # n
        <5>1. i \in 0..(n - 1) /\ i + 1 # n + 1
          BY <4>3
        <5>2. h[i + 1] = g[i + 1]
          BY <4>1, <5>1
        <5>3. g[i + 1] = step[<<i, g[i]>>]
          BY <3>1, <5>1
        <5>. QED
          BY <4>1, <5>2, <5>3
      <4>. QED
        BY <4>2, <4>3
    <3>. HIDE DEF h
    <3>4. \A i \in 0..((n + 1) - 1) : h[i + 1] = step[<<i, h[i]>>]
      BY <3>3
    <3>5. h \in Upto(n + 1)
      BY <3>2, <3>4
    <3>6. n + 1 \in Nat
      OBVIOUS
    <3>. HIDE DEF Upto
    <3>. QED
      BY <3>5, <3>6
  <2>3. \A n \in Nat : n \in Have => n + 1 \in Have
    BY <2>2
  <2>. HIDE DEF Have
  <2>. QED
    BY <2>1, <2>3, SetInduction
<1>2. \A n \in Nat : Upto(n) # {}
  <2>. HIDE DEF Upto
  <2>. QED
    BY <1>1
<1>. DEFINE pick == [n \in Nat |-> CHOOSE g : g \in Upto(n)]
            f == [n \in Nat |-> pick[n][n]]
<1>3. \A n \in Nat : pick[n] \in Upto(n)
  BY <1>2
<1>. HIDE DEF pick
<1>4. ASSUME NEW n \in Nat, NEW m \in Nat, n <= m
      PROVE  \A i \in 0..n : pick[n][i] = pick[m][i]
  <2>. DEFINE Same == {i \in Nat : i <= n => pick[n][i] = pick[m][i]}
  <2>1. 0 \in Same
    BY <1>3
  <2>2. ASSUME NEW i \in Nat, i \in Same PROVE i + 1 \in Same
    <3>. SUFFICES ASSUME i + 1 <= n PROVE pick[n][i + 1] = pick[m][i + 1]
      OBVIOUS
    <3>1. i \in 0..(n - 1) /\ i \in 0..(m - 1) /\ pick[n][i] = pick[m][i]
      BY <1>4, <2>2
    <3>2. pick[n][i + 1] = step[<<i, pick[n][i]>>]
      BY <1>3, <3>1
    <3>3. pick[m][i + 1] = step[<<i, pick[m][i]>>]
      BY <1>3, <3>1
    <3>. QED
      BY <3>1, <3>2, <3>3
  <2>3. \A i \in Nat : i \in Same => i + 1 \in Same
    BY <2>2
  <2>4. Nat \subseteq Same
    <3>. HIDE DEF Same
    <3>. QED
      BY <2>1, <2>3, SetInduction
  <2>. QED
    BY <2>4
<1>5. f \in [Nat -> S] /\ f[0] = c
  BY <1>3
<1>6. ASSUME NEW n \in Nat PROVE f[n + 1] = step[<<n, f[n]>>]
  <2>1. pick[n + 1][n] = pick[n][n]
    BY <1>4
  <2>2. pick[n + 1][n + 1] = step[<<n, pick[n + 1][n]>>]
    BY <1>3
  <2>. QED
    BY <2>1, <2>2
<1>. HIDE DEF f
<1>. QED
  BY <1>5, <1>6 DEF GoesOn
=============================================================================
