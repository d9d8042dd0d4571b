------------------------------ MODULE Recursion ------------------------------
(***************************************************************************)
(* Induction over the naturals, stated with a set where NaturalsInduction  *)
(* takes an operator, and what the recursive functions of the modules      *)
(* need: f[n \in 0..N] == IF n = 0 THEN .. ELSE .. f[n - 1] .. is the      *)
(* CHOOSE of a function that satisfies its equation, and there is one.     *)
(***************************************************************************)
EXTENDS Integers, WellFoundedInduction, TLAPS

LEMMA SetInduction ==
  ASSUME NEW S, 0 \in S, \A n \in Nat : n \in S => n + 1 \in S
  PROVE  Nat \subseteq S
<1> DEFINE R == OpToRel(<, Nat)
           T == Nat \ S
<1> SUFFICES ASSUME T # {}
             PROVE  FALSE
  OBVIOUS
<1>1. IsWellFoundedOn(R, Nat)
  BY NatLessThanWellFounded
<1>2. T \subseteq Nat /\ T # {}
  OBVIOUS
<1> HIDE DEF R, T
<1>3. PICK x \in T : \A y \in T : ~(<<y, x>> \in R)
  BY <1>1, <1>2, WFMin
<1>4. \A y \in T : ~(y < x)
  BY <1>2, <1>3 DEF R, OpToRel
<1>5. x \in Nat /\ x \notin S /\ x # 0
  BY <1>3 DEF T
<1>6. x - 1 \in Nat /\ x - 1 < x /\ (x - 1) + 1 = x
  BY <1>5
<1>7. x - 1 \in S
  BY <1>4, <1>6 DEF T
<1> QED
  BY <1>5, <1>6, <1>7

(* The same up to a bound.                                                 *)
LEMMA BoundedInduction ==
  ASSUME NEW N \in Nat, NEW S, 0 \in S, \A n \in 0..N : n # N /\ n \in S => n + 1 \in S
  PROVE  0..N \subseteq S
<1> DEFINE T == {n \in Nat : n <= N => n \in S}
<1>1. 0 \in T /\ \A n \in Nat : n \in T => n + 1 \in T
  OBVIOUS
<1> HIDE DEF T
<1>2. Nat \subseteq T
  BY <1>1, SetInduction
<1> QED
  BY <1>2 DEF T

(* The function that begins with b and goes on by F, in V.                 *)
IsRecursion(g, N, V, b, F) ==
    /\ g \in [0..N -> V]
    /\ g[0] = b
    /\ \A i \in 1..N : g[i] = F[<<i, g[i - 1]>>]

LEMMA FunctionByRecursion ==
  ASSUME NEW N \in Nat, NEW V, NEW b \in V, NEW F \in [(1..N) \X V -> V]
  PROVE  \E g : IsRecursion(g, N, V, b, F)
<1> USE DEF IsRecursion
<1> DEFINE S == {n \in 0..N : \E g : IsRecursion(g, n, V, b, F)}
<1>1. 0 \in S
  <2> DEFINE h == [i \in 0..0 |-> b]
  <2>1. h \in [0..0 -> V] /\ h[0] = b
    OBVIOUS
  <2> HIDE DEF h
  <2>2. IsRecursion(h, 0, V, b, F)
    BY <2>1
  <2> QED
    BY <2>2
<1>2. ASSUME NEW n \in 0..N, n # N, n \in S
      PROVE  n + 1 \in S
  <2>1. PICK g : IsRecursion(g, n, V, b, F)
    BY <1>2
  <2>2. n + 1 \in 1..N /\ g[n] \in V /\ n \in Nat
    BY <1>2, <2>1
  <2> DEFINE h == [i \in 0..(n + 1) |-> IF i = n + 1 THEN F[<<n + 1, g[n]>>] ELSE g[i]]
  <2>3. \A i \in 0..n : h[i] = g[i]
    BY <2>2
  <2>4. h[n + 1] = F[<<n + 1, g[n]>>] /\ h[n + 1] \in V
    BY <2>2
  <2>5. h \in [0..(n + 1) -> V]
    BY <2>1, <2>3, <2>4
  <2> HIDE DEF h
  <2>6. ASSUME NEW i \in 1..(n + 1)
        PROVE  h[i] = F[<<i, h[i - 1]>>]
    <3>1. CASE i = n + 1
      <4>1. i - 1 = n /\ n \in 0..n
        BY <2>2, <3>1
      <4> QED
        BY <2>3, <2>4, <3>1, <4>1
    <3>2. CASE i # n + 1
      <4>1. i \in 1..n /\ i \in 0..n /\ i - 1 \in 0..n
        BY <2>2, <3>2
      <4> QED
        BY <2>1, <2>3, <4>1
    <3> QED
      BY <3>1, <3>2
  <2>7. h[0] = b
    BY <2>1, <2>2, <2>3
  <2> QED
    BY <2>2, <2>5, <2>6, <2>7
<1> HIDE DEF S
<1>3. N \in S
  BY <1>1, <1>2, BoundedInduction
<1> QED
  BY <1>3 DEF S
=============================================================================
