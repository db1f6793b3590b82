---------------------------- MODULE SumTheorems -----------------------------
(***************************************************************************)
(* What Sum computes, for sequences of every length.  The library's        *)
(* induction theorems take an operator as a parameter; the ones used here  *)
(* (well-foundedness of < on Nat and minimal elements) speak of sets, and  *)
(* induction over a set of numbers follows from them.                      *)
(***************************************************************************)
EXTENDS Sums, TLAPS, WellFoundedInduction

Less == {pr \in Nat \X Nat : pr[1] < pr[2]}

\* The order on the natural numbers, as a relation, is well founded.
LEMMA LessWF == IsWellFoundedOn(Less, Nat)
<1>1. Less = OpToRel(<, Nat)
  BY DEF Less, OpToRel
<1> QED BY <1>1, NatLessThanWellFounded

\* Every non-empty set of natural numbers has a least element.
LEMMA Least ==
  ASSUME NEW T, T \subseteq Nat, T # {}
  PROVE \E x \in T : \A y \in T : x <= y
<1>1. PICK x \in T : \A y \in T : ~ (<<y, x>> \in Less)
  BY LessWF, WFMin, Zenon
<1>2. ASSUME NEW y \in T, y < x PROVE FALSE
  <2>1. <<y, x>> \in Nat \X Nat /\ <<y, x>>[1] < <<y, x>>[2]
    BY <1>2
  <2>2. <<y, x>> \in Less
    BY <2>1 DEF Less
  <2> QED BY <1>1, <2>2
<1>3. \A y \in T : x <= y
  BY <1>2
<1> QED BY <1>3

\* Induction over the natural numbers, for a set instead of a predicate.
LEMMA SetInduction ==
  ASSUME NEW S, 0 \in S, \A n \in Nat : n \in S => n+1 \in S
  PROVE Nat \subseteq S
<1> SUFFICES ASSUME Nat \ S # {} PROVE FALSE
  OBVIOUS
<1>1. PICK x \in Nat \ S : \A y \in Nat \ S : x <= y
  BY Least, Zenon
<1>2. x # 0 /\ x - 1 \in Nat
  BY <1>1
<1>3. x - 1 \in S
  BY <1>1, <1>2
<1> QED BY <1>2, <1>3

\* p lists the partial sums of s, up to n.
IsPartial(p, s, n) ==
  /\ p \in [0..n -> Int]
  /\ p[0] = 0
  /\ \A i \in 1..n : p[i] = p[i-1] + s[i]

\* A function into the integers has a list of partial sums.
LEMMA Exists ==
  ASSUME NEW m \in Nat, NEW s \in [1..m -> Int]
  PROVE \E p : IsPartial(p, s, m)
<1> DEFINE A == {n \in Nat : n <= m => \E p : IsPartial(p, s, n)}
<1>1. 0 \in A 
  <2>1. IsPartial([i \in 0..0 |-> 0], s, 0) BY DEF IsPartial
  <2> QED BY <2>1
<1>2. \A i \in Nat : i \in A => i+1 \in A
  <2> SUFFICES ASSUME NEW i \in Nat, i \in A, i+1 <= m PROVE \E p : IsPartial(p, s, i+1)
    OBVIOUS
  <2>1. PICK p : IsPartial(p, s, i) OBVIOUS
  <2> DEFINE q == [j \in 0..(i+1) |-> IF j <= i THEN p[j] ELSE p[i] + s[i+1]]
  <2>2. IsPartial(q, s, i+1)
    <3>1. q \in [0..(i+1) -> Int] /\ q[0] = 0
      BY <2>1 DEF IsPartial
    <3>2. ASSUME NEW j \in 1..(i+1) PROVE q[j] = q[j-1] + s[j]
      <4>1. CASE j <= i
        <5>1. j \in 1..i /\ q[j] = p[j] /\ q[j-1] = p[j-1]
          BY <4>1
        <5> QED
          BY <2>1, <5>1, Zenon DEF IsPartial
      <4>2. CASE j = i+1
        BY <4>2
      <4> QED
        BY <4>1, <4>2
    <3> QED
      BY <3>1, <3>2, Zenon DEF IsPartial
  <2> QED BY <2>2
<1>3. Nat \subseteq A 
  <2> HIDE DEF A
  <2> QED BY <1>1, <1>2, SetInduction, Zenon
<1> QED BY <1>3

\* Sum is the last partial sum.
LEMMA SumIs ==
  ASSUME NEW n \in Nat, NEW s \in [1..n -> Int], NEW p, IsPartial(p, s, n)
  PROVE Sum(s, n) = p[n]
<1> DEFINE P[i \in 0..n] == IF i = 0 THEN 0 ELSE P[i-1] + s[i]
<1>1. \E g : g = [i \in 0..n |-> IF i = 0 THEN 0 ELSE g[i-1] + s[i]]
  <2>1. p = [i \in 0..n |-> IF i = 0 THEN 0 ELSE p[i-1] + s[i]]
    BY DEF IsPartial
  <2> QED BY <2>1
<1>2. P = [i \in 0..n |-> IF i = 0 THEN 0 ELSE P[i-1] + s[i]]
  BY <1>1, Zenon
<1>3. Sum(s, n) = P[n] BY DEF Sum
<1>4. P = p
   <2> DEFINE A == {i \in Nat : i \in 0..n => P[i] = p[i]}
   <2> HIDE DEF P
   <2>1. 0 \in A BY <1>2 DEF IsPartial
   <2>2. \A i \in Nat : i \in A => i+1 \in A
     <3> SUFFICES ASSUME NEW i \in Nat, i \in A, i+1 \in 0..n PROVE P[i+1] = p[i+1]
       OBVIOUS
     <3>1. P[i] = p[i] OBVIOUS
     <3>2. i+1 \in 1..n /\ (i+1)-1 = i OBVIOUS
     <3>3. P[i+1] = P[i] + s[i+1] BY <1>2, <3>2
     <3>4. p[i+1] = p[i] + s[i+1] BY <3>2 DEF IsPartial
     <3> QED BY <3>1, <3>3, <3>4
   <2>3. Nat \subseteq A
     <3> HIDE DEF A
     <3> QED BY <2>1, <2>2, SetInduction, Zenon
   <2>4. \A i \in 0..n : P[i] = p[i] BY <2>3
   <2>5. DOMAIN P = 0..n BY <1>2
   <2>6. P = [i \in 0..n |-> P[i]] BY <1>2
   <2>7. p = [i \in 0..n |-> p[i]] BY DEF IsPartial
   <2> QED BY <2>4, <2>6, <2>7
<1> QED BY <1>3, <1>4, Zenon

\* Every sum is the last of a list of partial sums.
LEMMA PartialSums ==
  ASSUME NEW n \in Nat, NEW s \in [1..n -> Int]
  PROVE  \E p : IsPartial(p, s, n) /\ Sum(s, n) = p[n]
<1>1. PICK p : IsPartial(p, s, n)
  BY Exists
<1> QED
  BY <1>1, SumIs

\* A sum of integers is an integer.
LEMMA SumType ==
  ASSUME NEW n \in Nat, NEW s \in [1..n -> Int]
  PROVE  Sum(s, n) \in Int
<1>1. PICK p : IsPartial(p, s, n) /\ Sum(s, n) = p[n]
  BY PartialSums
<1> QED
  BY <1>1 DEF IsPartial

\* A sum depends on the values only.
LEMMA SumEqual ==
  ASSUME NEW n \in Nat, NEW s \in [1..n -> Int], NEW t,
         \A i \in 1..n : t[i] = s[i], t \in [1..n -> Int]
  PROVE  Sum(t, n) = Sum(s, n)
<1>1. t = s
  OBVIOUS
<1> QED
  BY <1>1

\* Changing one value changes the sum by the difference.
LEMMA SumUpdate ==
  ASSUME NEW n \in Nat, NEW s \in [1..n -> Int], NEW t \in [1..n -> Int],
         NEW u \in 1..n, \A i \in 1..n : i # u => t[i] = s[i]
  PROVE  Sum(t, n) = Sum(s, n) + (t[u] - s[u])
<1>1. PICK p : IsPartial(p, s, n) /\ Sum(s, n) = p[n]
  BY PartialSums
<1> DEFINE q == [i \in 0..n |-> IF i < u THEN p[i] ELSE p[i] + (t[u] - s[u])]
<1>2. IsPartial(q, t, n)
  <2>1. q \in [0..n -> Int] /\ q[0] = 0
    <3>1. t[u] - s[u] \in Int
      OBVIOUS
    <3>2. \A i \in 0..n : p[i] \in Int
      BY <1>1 DEF IsPartial
    <3>3. \A i \in 0..n : p[i] + (t[u] - s[u]) \in Int
      BY <3>1, <3>2
    <3>4. 0 < u /\ p[0] = 0
      BY <1>1 DEF IsPartial
    <3> QED
      BY <3>2, <3>3, <3>4
  <2>2. ASSUME NEW i \in 1..n PROVE q[i] = q[i - 1] + t[i]
    <3>1. p[i] = p[i - 1] + s[i] /\ p[i] \in Int /\ p[i - 1] \in Int
      BY <1>1 DEF IsPartial
    <3>2. CASE i = u
      BY <3>1, <3>2
    <3>3. CASE i < u
      <4>1. q[i] = p[i] /\ q[i - 1] = p[i - 1] /\ t[i] = s[i]
        BY <3>3
      <4> QED
        BY <3>1, <4>1, Zenon
    <3>4. CASE i > u
      <4>1. /\ q[i] = p[i] + (t[u] - s[u])
            /\ q[i - 1] = p[i - 1] + (t[u] - s[u])
            /\ t[i] = s[i]
        BY <3>4
      <4> HIDE DEF q
      <4> QED
        BY <3>1, <4>1
    <3> QED
      BY <3>2, <3>3, <3>4
  <2> QED
    BY <2>1, <2>2, Zenon DEF IsPartial
<1>3. Sum(t, n) = q[n]
  BY <1>2, SumIs
<1> QED
  BY <1>1, <1>3

\* One value more adds that value.
LEMMA SumExtend ==
  ASSUME NEW n \in Nat, NEW s \in [1..n -> Int], NEW t \in [1..(n + 1) -> Int],
         \A i \in 1..n : t[i] = s[i]
  PROVE  Sum(t, n + 1) = Sum(s, n) + t[n + 1]
<1>1. PICK p : IsPartial(p, s, n) /\ Sum(s, n) = p[n]
  BY PartialSums
<1> DEFINE q == [i \in 0..(n + 1) |-> IF i <= n THEN p[i] ELSE p[n] + t[n + 1]]
<1>2. IsPartial(q, t, n + 1)
  BY <1>1 DEF IsPartial
<1>3. Sum(t, n + 1) = q[n + 1]
  BY <1>2, SumIs
<1> QED
  BY <1>1, <1>3

\* r is s plus c times t.
IsLinear(r, s, c, t, n) == \A i \in 1..n : r[i] = s[i] + c * t[i]

\* The sum of s[i] + c * t[i] is the sum of s plus c times the sum of t.
LEMMA SumLinear ==
  ASSUME NEW n \in Nat, NEW c \in Int,
         NEW s \in [1..n -> Int], NEW t \in [1..n -> Int], NEW r \in [1..n -> Int],
         IsLinear(r, s, c, t, n)
  PROVE  Sum(r, n) = Sum(s, n) + c * Sum(t, n)
<1>1. PICK p : IsPartial(p, s, n) /\ Sum(s, n) = p[n]
  BY PartialSums
<1>2. PICK q : IsPartial(q, t, n) /\ Sum(t, n) = q[n]
  BY PartialSums
<1> DEFINE w == [i \in 0..n |-> p[i] + c * q[i]]
<1>3. IsPartial(w, r, n)
  <2>1. w \in [0..n -> Int] /\ w[0] = 0
    BY <1>1, <1>2 DEF IsPartial
  <2>2. ASSUME NEW i \in 1..n PROVE w[i] = w[i - 1] + r[i]
    <3>0. i \in 0..n /\ i - 1 \in 0..n
      OBVIOUS
    <3>1. p[i] = p[i - 1] + s[i] /\ p[i] \in Int /\ p[i - 1] \in Int /\ s[i] \in Int
      BY <1>1, <3>0, Zenon DEF IsPartial
    <3>2. q[i] = q[i - 1] + t[i] /\ q[i] \in Int /\ q[i - 1] \in Int /\ t[i] \in Int
      BY <1>2, <3>0, Zenon DEF IsPartial
    <3>3. c * q[i] = c * q[i - 1] + c * t[i]
      <4>1. \A x, y \in Int : c * (x + y) = c * x + c * y
        OBVIOUS
      <4> QED
        BY <3>2, <4>1, Zenon
    <3>4. w[i] = p[i] + c * q[i] /\ w[i - 1] = p[i - 1] + c * q[i - 1]
      OBVIOUS
    <3>5. r[i] = s[i] + c * t[i]
      BY Zenon DEF IsLinear
    <3>6. c * q[i - 1] \in Int /\ c * t[i] \in Int
      BY <3>2
    <3> HIDE DEF w
    <3>7. (p[i - 1] + s[i]) + (c * q[i - 1] + c * t[i])
            = (p[i - 1] + c * q[i - 1]) + (s[i] + c * t[i])
      <4>1. \A a, b \in Int : (p[i - 1] + s[i]) + (a + b) = (p[i - 1] + a) + (s[i] + b)
        BY <3>1
      <4> QED
        BY <3>6, <4>1, Zenon
    <3> QED
      BY <3>1, <3>3, <3>4, <3>5, <3>7, Zenon
  <2> QED
    BY <2>1, <2>2, Zenon DEF IsPartial
<1>4. Sum(r, n) = w[n]
  BY <1>3, SumIs
<1> QED
  BY <1>1, <1>2, <1>4

\* A sum grows with its values.
LEMMA SumMonotone ==
  ASSUME NEW n \in Nat, NEW s \in [1..n -> Int], NEW t \in [1..n -> Int],
         \A i \in 1..n : s[i] <= t[i]
  PROVE  Sum(s, n) <= Sum(t, n)
<1>1. PICK p : IsPartial(p, s, n) /\ Sum(s, n) = p[n]
  BY PartialSums
<1>2. PICK q : IsPartial(q, t, n) /\ Sum(t, n) = q[n]
  BY PartialSums
<1> DEFINE A == {i \in Nat : i \in 0..n => p[i] <= q[i]}
<1>3. 0 \in A
  BY <1>1, <1>2 DEF IsPartial
<1>4. \A i \in Nat : i \in A => i + 1 \in A
  <2> SUFFICES ASSUME NEW i \in Nat, i \in A, i + 1 \in 0..n
               PROVE  p[i + 1] <= q[i + 1]
    OBVIOUS
  <2>1. i + 1 \in 1..n /\ (i + 1) - 1 = i /\ i \in 0..n
    OBVIOUS
  <2>2. p[i + 1] = p[i] + s[i + 1] /\ p[i] \in Int
    BY <1>1, <2>1 DEF IsPartial
  <2>3. q[i + 1] = q[i] + t[i + 1] /\ q[i] \in Int
    BY <1>2, <2>1 DEF IsPartial
  <2>4. p[i] <= q[i] /\ s[i + 1] <= t[i + 1] /\ s[i + 1] \in Int /\ t[i + 1] \in Int
    BY <2>1
  <2> QED
    BY <2>2, <2>3, <2>4
<1>5. Nat \subseteq A
  <2> HIDE DEF A
  <2> QED
    BY <1>3, <1>4, SetInduction, Zenon
<1>6. p[n] <= q[n]
  BY <1>5
<1> QED
  BY <1>1, <1>2, <1>6

\* A sum of zeros is zero.
LEMMA SumZero ==
  ASSUME NEW n \in Nat
  PROVE  Sum([i \in 1..n |-> 0], n) = 0
<1> DEFINE s == [i \in 1..n |-> 0]
<1>1. IsPartial([i \in 0..n |-> 0], s, n)
  BY DEF IsPartial
<1>2. s \in [1..n -> Int]
  OBVIOUS
<1> HIDE DEF s
<1>3. Sum(s, n) = [i \in 0..n |-> 0][n]
  BY <1>1, <1>2, SumIs
<1> QED
  BY <1>3 DEF s

\* A sum of natural numbers is one, and bounds each of them.
LEMMA SumNat ==
  ASSUME NEW n \in Nat, NEW s \in [1..n -> Nat]
  PROVE  Sum(s, n) \in Nat /\ \A u \in 1..n : s[u] <= Sum(s, n)
<1> DEFINE z == [i \in 1..n |-> 0]
<1>1. s \in [1..n -> Int] /\ z \in [1..n -> Int]
  OBVIOUS
<1>2. Sum(z, n) = 0
  BY SumZero
<1>3. Sum(s, n) \in Nat
  <2>1. Sum(z, n) <= Sum(s, n)
    <3>1. \A i \in 1..n : z[i] <= s[i]
      OBVIOUS
    <3> HIDE DEF z
    <3> QED
      BY <1>1, <3>1, SumMonotone, Zenon
  <2>2. Sum(s, n) \in Int
    BY <1>1, SumType
  <2> QED
    BY <1>2, <2>1, <2>2
<1>4. ASSUME NEW u \in 1..n PROVE s[u] <= Sum(s, n)
  <2> DEFINE t == [s EXCEPT ![u] = 0]
  <2>1. /\ t \in [1..n -> Int]
        /\ \A i \in 1..n : z[i] <= t[i]
        /\ \A i \in 1..n : i # u => t[i] = s[i]
        /\ t[u] = 0
    OBVIOUS
  <2> HIDE DEF t, z
  <2>2. Sum(t, n) = Sum(s, n) + (t[u] - s[u])
    BY <1>1, <2>1, SumUpdate, Zenon
  <2>3. Sum(z, n) <= Sum(t, n) /\ Sum(t, n) \in Int
    BY <1>1, <2>1, SumMonotone, SumType, Zenon
  <2> QED
    BY <1>2, <1>3, <2>1, <2>2, <2>3
<1> QED
  BY <1>3, <1>4
=============================================================================
