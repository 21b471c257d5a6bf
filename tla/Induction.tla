------------------------------- MODULE Induction -------------------------------
(***************************************************************************)
(* Induction over the natural numbers as facts about sets: the theorems of *)
(* the library take the property as a parameter; a set of numbers may be   *)
(* that of any property.                                                   *)
(***************************************************************************)
EXTENDS Integers, Sequences, WellFoundedInduction, TLAPS

LEMMA Least ==
  ASSUME NEW T \in SUBSET Nat, T # {}
  PROVE  \E x \in T : \A y \in T : x <= y
<1> DEFINE r == {ss \in Nat \X Nat : ss[1] < ss[2]}
<1>1. OpToRel(<, Nat) = r
  BY DEF OpToRel
<1>2. \A x, y \in Nat : <<y, x>> \in r <=> y < x
  OBVIOUS
<1>3. IsWellFoundedOn(r, Nat)
  BY <1>1, NatLessThanWellFounded
<1> HIDE DEF r
<1>4. PICK x \in T : \A y \in T : ~(<<y, x>> \in r)
  BY <1>3, WFMin
<1>5. ASSUME NEW y \in T
      PROVE  x <= y
  <2>1. x \in Nat /\ y \in Nat /\ ~(y < x)
    BY <1>2, <1>4
  <2>2. QED
    BY <2>1
<1>6. QED
  BY <1>5

LEMMA SetInduction ==
  ASSUME NEW S, 0 \in S, \A n \in Nat : n \in S => n + 1 \in S
  PROVE  Nat \subseteq S
<1> DEFINE T == Nat \ S
<1> SUFFICES ASSUME T # {} PROVE FALSE
  OBVIOUS
<1>1. T \in SUBSET Nat
  OBVIOUS
<1> HIDE DEF T
<1>2. PICK x \in T : \A y \in T : x <= y
  BY <1>1, Least
<1>3. x \in Nat /\ x # 0
  BY <1>1 DEF T
<1>4. x - 1 \in Nat /\ x - 1 \notin T
  BY <1>2, <1>3
<1>5. x - 1 \in S
  BY <1>4 DEF T
<1>6. (x - 1) + 1 \in S
  BY <1>4, <1>5
<1>7. QED
  BY <1>2, <1>3, <1>6 DEF T

-------------------------------------------------------------------------------
(***************************************************************************)
(* What goes on from step to step, each of its values made of the one      *)
(* before, is a function of the natural numbers. The prefixes of it are    *)
(* one another's prefixes.                                                 *)
(***************************************************************************)
Unrolls(h, n, b, g) ==
  /\ h[0] = b
  /\ \A k \in 0..n - 1 : h[k + 1] = g[k][h[k]]

LEMMA PrefixesExist ==
  ASSUME NEW b, NEW g
  PROVE  \A n \in Nat : \E h : Unrolls(h, n, b, g)
<1> DEFINE S == {n \in Nat : \E h : Unrolls(h, n, b, g)}
<1>1. 0 \in S
  <2> DEFINE h == [i \in {0} |-> b]
  <2>1. h[0] = b
    OBVIOUS
  <2> HIDE DEF h
  <2>2. QED
    BY <2>1 DEF Unrolls
<1>2. ASSUME NEW n \in Nat, n \in S
      PROVE  n + 1 \in S
  <2>1. PICK h : Unrolls(h, n, b, g)
    BY <1>2
  <2> DEFINE e == [i \in 0..n + 1 |-> IF i = n + 1 THEN g[n][h[n]] ELSE h[i]]
  <2>2. e[0] = b
    BY <2>1 DEF Unrolls
  <2>3. ASSUME NEW k \in 0..(n + 1) - 1
        PROVE  e[k + 1] = g[k][e[k]]
    <3>1. CASE k = n
      BY <3>1
    <3>2. CASE k # n
      <4>1. k \in 0..n - 1 /\ e[k] = h[k] /\ e[k + 1] = h[k + 1]
        BY <3>2
      <4>2. QED
        BY <2>1, <4>1 DEF Unrolls
    <3>3. QED
      BY <3>1, <3>2
  <2> HIDE DEF e
  <2>4. QED
    BY <2>2, <2>3 DEF Unrolls
<1> HIDE DEF S
<1>3. Nat \subseteq S
  BY <1>1, <1>2, SetInduction
<1>4. QED
  BY <1>3 DEF S

LEMMA PrefixesAgree ==
  ASSUME NEW b, NEW g, NEW h, NEW e, NEW n \in Nat,
         Unrolls(h, n, b, g), Unrolls(e, n, b, g)
  PROVE  \A i \in 0..n : h[i] = e[i]
<1> DEFINE S == {i \in Nat : i <= n => h[i] = e[i]}
<1>1. 0 \in S
  BY DEF Unrolls
<1>2. ASSUME NEW i \in Nat, i \in S
      PROVE  i + 1 \in S
  <2>1. CASE i + 1 <= n
    <3>1. i \in 0..n - 1 /\ h[i] = e[i]
      BY <1>2, <2>1
    <3>2. QED
      BY <3>1 DEF Unrolls
  <2>2. QED
    BY <2>1
<1> HIDE DEF S
<1>3. Nat \subseteq S
  BY <1>1, <1>2, SetInduction
<1>4. QED
  BY <1>3 DEF S

Iterates(f, D, b, g) ==
  f \in [Nat -> D] /\ f[0] = b /\ \A k \in Nat : f[k + 1] = g[k][f[k]]

LEMMA Iteration ==
  ASSUME NEW D, NEW b \in D, NEW g \in [Nat -> [D -> D]]
  PROVE  \E f : Iterates(f, D, b, g)
<1> DEFINE prefix(n) == CHOOSE h : Unrolls(h, n, b, g)
           f == [n \in Nat |-> prefix(n)[n]]
<1>1. \A n \in Nat : Unrolls(prefix(n), n, b, g)
  BY PrefixesExist
<1> HIDE DEF prefix
<1>2. f[0] = b
  BY <1>1 DEF Unrolls
<1>3. ASSUME NEW k \in Nat
      PROVE  f[k + 1] = g[k][f[k]]
  <2>1. Unrolls(prefix(k), k, b, g) /\ Unrolls(prefix(k + 1), k + 1, b, g)
    BY <1>1
  <2>2. Unrolls(prefix(k + 1), k, b, g) /\ prefix(k + 1)[k + 1] = g[k][prefix(k + 1)[k]]
    BY <2>1 DEF Unrolls
  <2>3. prefix(k)[k] = prefix(k + 1)[k]
    BY <2>1, <2>2, PrefixesAgree
  <2>4. QED
    BY <2>2, <2>3
<1>4. f = [n \in Nat |-> f[n]]
  OBVIOUS
<1> HIDE DEF f
<1>5. \A n \in Nat : f[n] \in D
  <2> DEFINE S == {n \in Nat : f[n] \in D}
  <2>1. 0 \in S /\ \A n \in Nat : n \in S => n + 1 \in S
    BY <1>2, <1>3
  <2> HIDE DEF S
  <2>2. Nat \subseteq S
    BY <2>1, SetInduction
  <2>3. QED
    BY <2>2 DEF S
<1>6. f \in [Nat -> D]
  BY <1>4, <1>5
<1>7. Iterates(f, D, b, g)
  BY <1>2, <1>3, <1>6 DEF Iterates
<1>8. QED
  BY <1>7

================================================================================
