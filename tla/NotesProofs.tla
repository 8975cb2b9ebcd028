---------------------------- MODULE NotesProofs -----------------------------
(***************************************************************************)
(* What the run of module Formats checks of signed checkpoints, proved for *)
(* every set of tree heads, every name and keys and every setting of the   *)
(* clock.                                                                  *)
(***************************************************************************)
EXTENDS Notes, FiniteSetTheorems, SequenceTheorems, WellFoundedInduction, TLAPS

-----------------------------------------------------------------------------
(* The line of the size: ParseInt reads back what FormatInt writes.        *)

(* A set of natural numbers that is not empty has a smallest.              *)
LEMMA Smallest ==
    ASSUME NEW I, I \subseteq Nat, I # {}
    PROVE  \E x \in I : \A y \in I : x =< y
<1> DEFINE less == {ss \in Nat \X Nat : ss[1] < ss[2]}
<1>1. IsWellFoundedOn(less, Nat)
    BY NatLessThanWellFounded DEF OpToRel
<1>2. PICK x \in I : \A y \in I : ~ (<<y, x>> \in less)
  <2> HIDE DEF less
  <2> QED  BY <1>1, WFMin
<1>3. ASSUME NEW y \in I
      PROVE  x =< y
  <2>1. x \in Nat /\ y \in Nat /\ <<y, x>> \in Nat \X Nat
      BY <1>2
  <2>2. ~ (y < x)
      BY <1>2, <2>1
  <2> QED  BY <2>1, <2>2
<1> QED
    BY <1>2, <1>3

\* g is what FormatInt gives for the numbers up to n.
Decimals(g, n) ==
    /\ g \in [0 .. n -> Seq(0 .. 9)]
    /\ \A i \in 0 .. n : g[i] = IF i < 10 THEN <<i>> ELSE Append(g[i \div 10], i % 10)

(* The last digit of a number and the others.                              *)
LEMMA DivTen ==
    ASSUME NEW i \in Nat
    PROVE  /\ i \div 10 \in Nat /\ i % 10 \in 0 .. 9 /\ i = 10 * (i \div 10) + (i % 10)
           /\ i # 0 => i \div 10 < i
    OBVIOUS

(* There is such a table, ...                                              *)
LEMMA DecimalsExist == \A n \in Nat : \E g : Decimals(g, n)
<1> DEFINE I == {n \in Nat : ~ \E g : Decimals(g, n)}
<1> SUFFICES ASSUME I # {}
             PROVE  FALSE
    OBVIOUS
<1>1. PICK n \in I : \A y \in I : n =< y
  <2>1. I \subseteq Nat
      OBVIOUS
  <2> HIDE DEF I
  <2> QED  BY <2>1, Smallest
<1>2. n \in Nat /\ ~ \E g : Decimals(g, n)
    OBVIOUS
<1>3. CASE n = 0
  <2> DEFINE g == [i \in 0 .. 0 |-> <<i>>]
  <2>1. Decimals(g, 0)
      BY DEF Decimals
  <2> QED  BY <1>2, <1>3, <2>1
<1>4. CASE n # 0
  <2>1. n - 1 \in Nat /\ ~ (n =< n - 1)
      BY <1>2, <1>4
  <2>2. PICK g : Decimals(g, n - 1)
      BY <1>1, <2>1
  <2> DEFINE last == IF n < 10 THEN <<n>> ELSE Append(g[n \div 10], n % 10)
             h == [i \in 0 .. n |-> IF i = n THEN last ELSE g[i]]
  <2>3. n \div 10 \in 0 .. (n - 1) /\ n % 10 \in 0 .. 9
      BY <1>2, <1>4, DivTen
  <2>4. last \in Seq(0 .. 9)
    <3>1. g[n \div 10] \in Seq(0 .. 9)
        BY <2>2, <2>3 DEF Decimals
    <3>2. CASE n < 10
      <4>1. last = <<n>> /\ n \in 0 .. 9
          BY <1>2, <3>2
      <4>2. <<n>> \in Seq(0 .. 9)
          BY <4>1
      <4> QED  BY <4>1, <4>2, Zenon
    <3>3. CASE ~ (n < 10)
      <4>1. Append(g[n \div 10], n % 10) \in Seq(0 .. 9)
          BY <2>3, <3>1
      <4> QED  BY <3>3, <4>1
    <3> QED  BY <3>2, <3>3
  <2>5. h \in [0 .. n -> Seq(0 .. 9)]
    <3>1. \A i \in 0 .. n : i # n => i \in 0 .. (n - 1)
        BY <1>2
    <3> HIDE DEF last
    <3> QED  BY <2>2, <2>4, <3>1 DEF Decimals
  <2>6. ASSUME NEW i \in 0 .. n
        PROVE  h[i] = IF i < 10 THEN <<i>> ELSE Append(h[i \div 10], i % 10)
    <3>1. CASE i = n
      <4>1. h[n] = last /\ h[n \div 10] = g[n \div 10]
        <5>1. n \in 0 .. n /\ n \div 10 \in 0 .. n /\ n \div 10 # n
            BY <1>2, <2>3
        <5> HIDE DEF last
        <5> QED  BY <5>1
      <4> HIDE DEF h
      <4> QED  BY <3>1, <4>1
    <3>2. CASE i # n
      <4>1. i \in 0 .. (n - 1) /\ i \in Nat
          BY <1>2, <3>2
      <4>2. i \div 10 \in 0 .. n /\ i \div 10 # n
          BY <1>2, <4>1, DivTen
      <4>3. h[i] = g[i] /\ h[i \div 10] = g[i \div 10]
        <5> HIDE DEF last
        <5> QED  BY <3>2, <4>2
      <4> HIDE DEF h
      <4> QED  BY <2>2, <4>1, <4>3 DEF Decimals
    <3> QED  BY <3>1, <3>2
  <2>7. Decimals(h, n)
    <3> HIDE DEF h
    <3> QED  BY <2>5, <2>6 DEF Decimals
  <2> QED  BY <1>2, <2>7
<1> QED
    BY <1>3, <1>4

(* ... and only one.                                                       *)
LEMMA DecimalsAgree ==
    ASSUME NEW n \in Nat, NEW m \in Nat, NEW g, NEW h, Decimals(g, n), Decimals(h, m),
           NEW k \in Nat, k <= n, k <= m
    PROVE  g[k] = h[k]
<1> DEFINE I == {i \in Nat : i <= n /\ i <= m /\ g[i] # h[i]}
<1> SUFFICES ASSUME I # {}
             PROVE  FALSE
    OBVIOUS
<1>1. PICK i \in I : \A y \in I : i =< y
  <2>1. I \subseteq Nat
      OBVIOUS
  <2> HIDE DEF I
  <2> QED  BY <2>1, Smallest
<1>2. i \in Nat /\ i \in 0 .. n /\ i \in 0 .. m /\ g[i] # h[i]
    OBVIOUS
<1>3. g[i] = IF i < 10 THEN <<i>> ELSE Append(g[i \div 10], i % 10)
    BY <1>2 DEF Decimals
<1>4. h[i] = IF i < 10 THEN <<i>> ELSE Append(h[i \div 10], i % 10)
    BY <1>2 DEF Decimals
<1>5. i >= 10 /\ g[i \div 10] # h[i \div 10]
    BY <1>2, <1>3, <1>4
<1>6. i \div 10 \in Nat /\ i \div 10 < i
    BY <1>2, <1>5, DivTen
<1>7. i \div 10 \in I
    BY <1>2, <1>5, <1>6
<1> QED
    BY <1>1, <1>2, <1>6, <1>7

(* So FormatInt is what its definition says.                               *)
LEMMA FormatIntIs ==
    ASSUME NEW n \in Nat
    PROVE  /\ FormatInt[n] = IF n < 10 THEN <<n>> ELSE Append(FormatInt[n \div 10], n % 10)
           /\ FormatInt[n] \in Seq(0 .. 9)
<1> DEFINE T(k) == CHOOSE g : Decimals(g, k)
           F == [k \in Nat |-> T(k)[k]]
<1>1. ASSUME NEW k \in Nat
      PROVE  Decimals(T(k), k)
    BY DecimalsExist, Zenon
<1> HIDE DEF T
<1>2. ASSUME NEW k \in Nat
      PROVE  /\ F[k] = IF k < 10 THEN <<k>> ELSE Append(F[k \div 10], k % 10)
             /\ F[k] \in Seq(0 .. 9)
  <2> DEFINE d == k \div 10
  <2>1. Decimals(T(k), k) /\ k \in 0 .. k /\ F[k] = T(k)[k]
      BY <1>1
  <2>2. d \in Nat /\ d <= k /\ d <= d
    <3>1. k = 0 => d = 0
        OBVIOUS
    <3> QED  BY <3>1, DivTen
  <2>3. F[d] = T(d)[d] /\ Decimals(T(d), d)
      BY <1>1, <2>2
  <2> HIDE DEF F
  <2>4. T(d)[d] = T(k)[d]
    <3> HIDE DEF d
    <3> QED  BY <2>1, <2>2, <2>3, DecimalsAgree
  <2>5. T(k)[k] = IF k < 10 THEN <<k>> ELSE Append(T(k)[d], k % 10)
      BY <2>1 DEF Decimals
  <2>6. T(k)[k] \in Seq(0 .. 9)
      BY <2>1 DEF Decimals
  <2> HIDE DEF d
  <2> QED  BY <2>1, <2>3, <2>4, <2>5, <2>6, Zenon DEF d
<1>3. F = [k \in Nat |-> IF k < 10 THEN <<k>> ELSE Append(F[k \div 10], k % 10)]
  <2>1. F = [k \in Nat |-> F[k]]
      BY Zenon
  <2> HIDE DEF F
  <2> QED  BY <1>2, <2>1, Zenon
<1>4. FormatInt = [k \in Nat |-> IF k < 10 THEN <<k>> ELSE Append(FormatInt[k \div 10], k % 10)]
  <2> HIDE DEF F
  <2> QED  BY <1>3, Zenon DEF FormatInt
<1> DEFINE I == {k \in Nat : FormatInt[k] # F[k]}
<1>5. I = {}
  <2> SUFFICES ASSUME I # {}
               PROVE  FALSE
      OBVIOUS
  <2> HIDE DEF F
  <2>1. PICK k \in I : \A y \in I : k =< y
    <3>1. I \subseteq Nat
        OBVIOUS
    <3> HIDE DEF I
    <3> QED  BY <3>1, Smallest
  <2>2. k \in Nat /\ FormatInt[k] # F[k]
      OBVIOUS
  <2>3. FormatInt[k] = IF k < 10 THEN <<k>> ELSE Append(FormatInt[k \div 10], k % 10)
      BY <1>4, <2>2, Zenon
  <2>4. F[k] = IF k < 10 THEN <<k>> ELSE Append(F[k \div 10], k % 10)
      BY <1>2, <2>2
  <2>5. k >= 10 /\ FormatInt[k \div 10] # F[k \div 10]
      BY <2>2, <2>3, <2>4
  <2>6. k \div 10 \in Nat /\ k \div 10 < k
      BY <2>2, <2>5, DivTen
  <2> QED  BY <2>1, <2>2, <2>5, <2>6
<1>6. FormatInt[n] = F[n]
    BY <1>5
<1> HIDE DEF F, I
<1>7. FormatInt[n] \in Seq(0 .. 9)
    BY <1>2, <1>6
<1> QED
    BY <1>4, <1>7, Zenon

\* v is what FromDigits has of s after each of its first k digits.
PartialValues(v, s, k) ==
    /\ v \in [0 .. k -> Nat] /\ v[0] = 0
    /\ \A i \in 1 .. k : v[i] = 10 * v[i - 1] + s[i]

(* One digit more.                                                         *)
LEMMA PartialValuesGrow ==
    ASSUME NEW s, NEW k \in Nat, NEW v, PartialValues(v, s, k), s[k + 1] \in Nat
    PROVE  \E w : PartialValues(w, s, k + 1) /\ w[k + 1] = 10 * v[k] + s[k + 1]
<1> DEFINE x == 10 * v[k] + s[k + 1]
           w == [i \in 0 .. k + 1 |-> IF i = k + 1 THEN x ELSE v[i]]
<1>1. v \in [0 .. k -> Nat] /\ v[0] = 0 /\ \A i \in 1 .. k : v[i] = 10 * v[i - 1] + s[i]
    BY DEF PartialValues
<1>2. x \in Nat
    BY <1>1
<1>3. w \in [0 .. k + 1 -> Nat] /\ w[k + 1] = x /\ \A i \in 0 .. k : w[i] = v[i]
  <2> HIDE DEF x
  <2>1. \A i \in 0 .. k + 1 : i # k + 1 => i \in 0 .. k
      OBVIOUS
  <2>2. \A i \in 0 .. k : i \in 0 .. k + 1 /\ i # k + 1
      OBVIOUS
  <2>3. k + 1 \in 0 .. k + 1
      OBVIOUS
  <2> QED  BY <1>1, <1>2, <2>1, <2>2, <2>3
<1> HIDE DEF w
<1>4. ASSUME NEW i \in 1 .. k + 1
      PROVE  w[i] = 10 * w[i - 1] + s[i]
  <2>1. CASE i = k + 1
    <3>1. i - 1 = k /\ k \in 0 .. k
        BY <2>1
    <3> QED  BY <1>3, <2>1, <3>1
  <2>2. CASE i # k + 1
    <3>1. i \in 1 .. k /\ i \in 0 .. k /\ i - 1 \in 0 .. k
        BY <2>2
    <3> QED  BY <1>1, <1>3, <3>1
  <2> QED  BY <2>1, <2>2
<1>5. w[0] = 0
    BY <1>1, <1>3
<1> QED
    BY <1>3, <1>4, <1>5 DEF PartialValues

(* FromDigits gets to the end of every line.                               *)
LEMMA PartialValuesExist ==
    ASSUME NEW s \in Seq(0 .. 9)
    PROVE  \E v : PartialValues(v, s, Len(s))
<1> DEFINE I == {k \in 0 .. Len(s) : ~ \E v : PartialValues(v, s, k)}
<1>0. Len(s) \in Nat
    OBVIOUS
<1> SUFFICES ASSUME I # {}
             PROVE  FALSE
  <2>1. Len(s) \in 0 .. Len(s)
      BY <1>0
  <2> QED  BY <2>1
<1>1. PICK k \in I : \A y \in I : k =< y
  <2>1. I \subseteq Nat
      BY <1>0
  <2> HIDE DEF I
  <2> QED  BY <2>1, Smallest
<1>2. k \in 0 .. Len(s) /\ ~ \E v : PartialValues(v, s, k)
    OBVIOUS
<1>3. CASE k = 0
  <2> DEFINE v == [i \in 0 .. 0 |-> 0]
  <2>1. PartialValues(v, s, 0)
      BY DEF PartialValues
  <2> QED  BY <1>2, <1>3, <2>1
<1>4. CASE k # 0
  <2>1. k - 1 \in Nat /\ k - 1 \in 0 .. Len(s) /\ ~ (k =< k - 1) /\ (k - 1) + 1 = k /\ k \in 1 .. Len(s)
      BY <1>0, <1>2, <1>4
  <2>2. PICK v : PartialValues(v, s, k - 1)
      BY <1>1, <2>1
  <2>3. s[k] \in Nat
      BY <2>1
  <2>4. \E w : PartialValues(w, s, k)
    <3> DEFINE j == k - 1
    <3>1. j \in Nat /\ PartialValues(v, s, j) /\ s[j + 1] \in Nat /\ j + 1 = k
        BY <2>1, <2>2, <2>3
    <3> HIDE DEF j
    <3>2. \E w : PartialValues(w, s, j + 1) /\ w[j + 1] = 10 * v[j] + s[j + 1]
        BY <3>1, PartialValuesGrow
    <3> QED  BY <3>1, <3>2
  <2> QED  BY <1>2, <2>4
<1> QED
    BY <1>3, <1>4

(* What it computes is the last of its partial values.                     *)
LEMMA FromDigitsIs ==
    ASSUME NEW s \in Seq(0 .. 9), NEW v, PartialValues(v, s, Len(s))
    PROVE  FromDigits(s) = v[Len(s)] /\ FromDigits(s) \in Nat
<1> DEFINE V == CHOOSE g : g = [i \in 0 .. Len(s) |-> IF i = 0 THEN 0 ELSE 10 * g[i - 1] + s[i]]
<1>0. Len(s) \in Nat /\ Len(s) \in 0 .. Len(s)
    OBVIOUS
<1>1. FromDigits(s) = V[Len(s)]
    BY Zenon DEF FromDigits
<1>2. v \in [0 .. Len(s) -> Nat] /\ v[0] = 0 /\ \A i \in 1 .. Len(s) : v[i] = 10 * v[i - 1] + s[i]
    BY DEF PartialValues
<1>3. v = [i \in 0 .. Len(s) |-> IF i = 0 THEN 0 ELSE 10 * v[i - 1] + s[i]]
  <2>1. \A i \in 0 .. Len(s) : i # 0 => i \in 1 .. Len(s)
      BY <1>0
  <2>2. v = [i \in 0 .. Len(s) |-> v[i]]
      BY <1>2
  <2> QED  BY <1>2, <2>1, <2>2, Zenon
<1>4. V = [i \in 0 .. Len(s) |-> IF i = 0 THEN 0 ELSE 10 * V[i - 1] + s[i]]
    BY <1>3, Zenon
<1> HIDE DEF V
<1> DEFINE I == {i \in 0 .. Len(s) : V[i] # v[i]}
<1>5. I = {}
  <2> SUFFICES ASSUME I # {}
               PROVE  FALSE
      OBVIOUS
  <2>1. PICK i \in I : \A y \in I : i =< y
    <3>1. I \subseteq Nat
        BY <1>0
    <3> HIDE DEF I
    <3> QED  BY <3>1, Smallest
  <2>2. V[0] = 0
      BY <1>0, <1>4
  <2>3. i \in 0 .. Len(s) /\ i # 0 /\ i - 1 \in 0 .. Len(s) /\ i \in 1 .. Len(s) /\ ~ (i =< i - 1)
      BY <1>0, <1>2, <2>1, <2>2
  <2>4. V[i - 1] = v[i - 1]
      BY <2>1, <2>3
  <2>5. V[i] = 10 * V[i - 1] + s[i]
      BY <1>4, <2>3
  <2>6. v[i] = 10 * v[i - 1] + s[i]
      BY <1>2, <2>3
  <2> QED  BY <2>1, <2>4, <2>5, <2>6
<1> QED
    BY <1>0, <1>1, <1>2, <1>5

(* What a digit at the end does to the value.                              *)
LEMMA FromDigitsAppend ==
    ASSUME NEW s \in Seq(0 .. 9), NEW d \in 0 .. 9
    PROVE  FromDigits(Append(s, d)) = 10 * FromDigits(s) + d /\ FromDigits(s) \in Nat
<1> DEFINE t == Append(s, d)
           k == Len(s)
<1>1. /\ t \in Seq(0 .. 9) /\ Len(t) = k + 1 /\ k \in Nat /\ t[k + 1] = d
      /\ \A i \in 1 .. k : t[i] = s[i]
    OBVIOUS
<1>2. PICK v : PartialValues(v, s, k)
    BY PartialValuesExist
<1>3. FromDigits(s) = v[k] /\ FromDigits(s) \in Nat
    BY <1>2, FromDigitsIs
<1> HIDE DEF t, k
<1>4. PartialValues(v, t, k)
    BY <1>1, <1>2 DEF PartialValues
<1>5. PICK w : PartialValues(w, t, k + 1) /\ w[k + 1] = 10 * v[k] + t[k + 1]
    BY <1>1, <1>4, PartialValuesGrow
<1>6. FromDigits(t) = w[k + 1]
    BY <1>1, <1>5, FromDigitsIs
<1> QED
    BY <1>1, <1>3, <1>5, <1>6 DEF t

(* What FormatInt writes is not empty, has no sign, and ParseInt reads it  *)
(* as the number it was.                                                   *)
LEMMA SizeReadBack == \A n \in Nat : ParseInt(FormatInt[n]) = n
<1> DEFINE Good(n) == /\ Len(FormatInt[n]) > 0 /\ FromDigits(FormatInt[n]) = n
           I == {n \in Nat : ~ Good(n)}
<1>1. I = {}
  <2> SUFFICES ASSUME I # {}
               PROVE  FALSE
      OBVIOUS
  <2>1. PICK n \in I : \A y \in I : n =< y
    <3>1. I \subseteq Nat
        OBVIOUS
    <3> HIDE DEF I
    <3> QED  BY <3>1, Smallest
  <2>2. n \in Nat /\ ~ Good(n)
      OBVIOUS
  <2>3. FormatInt[n] = IF n < 10 THEN <<n>> ELSE Append(FormatInt[n \div 10], n % 10)
      BY <2>2, FormatIntIs
  <2>4. CASE n < 10
    <3> DEFINE e == <<>>
    <3>1. e \in Seq(0 .. 9) /\ Len(e) = 0 /\ <<n>> = Append(e, n) /\ n \in 0 .. 9 /\ Len(<<n>>) = 1
        BY <2>2, <2>4
    <3> DEFINE v == [i \in 0 .. 0 |-> 0]
    <3>2. PartialValues(v, e, 0) /\ v[0] = 0
        BY DEF PartialValues
    <3> HIDE DEF e, v
    <3>3. FromDigits(e) = 0
        BY <3>1, <3>2, FromDigitsIs
    <3>4. FromDigits(<<n>>) = 10 * FromDigits(e) + n
        BY <3>1, FromDigitsAppend
    <3>5. FromDigits(<<n>>) = n
        BY <2>2, <3>3, <3>4
    <3> QED  BY <2>2, <2>3, <2>4, <3>1, <3>5
  <2>5. CASE ~ (n < 10)
    <3> DEFINE d == n \div 10
               u == n % 10
               s == FormatInt[d]
    <3>1. d \in Nat /\ u \in 0 .. 9 /\ n = 10 * d + u /\ d < n
        BY <2>2, <2>5, DivTen
    <3>2. Good(d)
        BY <2>1, <2>2, <3>1
    <3>3. s \in Seq(0 .. 9)
        BY <3>1, FormatIntIs
    <3>4. FormatInt[n] = Append(s, u)
        BY <2>3, <2>5
    <3>5. Len(s) > 0 /\ FromDigits(s) = d
        BY <3>2
    <3> HIDE DEF d, u, s
    <3>6. FromDigits(Append(s, u)) = 10 * FromDigits(s) + u
        BY <3>1, <3>3, FromDigitsAppend
    <3>7. Len(Append(s, u)) > 0
        BY <3>1, <3>3
    <3> QED  BY <2>2, <3>1, <3>4, <3>5, <3>6, <3>7
  <2> QED  BY <2>4, <2>5
<1>2. ASSUME NEW n \in Nat
      PROVE  ParseInt(FormatInt[n]) = n
  <2>1. Good(n) /\ FormatInt[n] \in Seq(0 .. 9)
      BY <1>1, FormatIntIs
  <2>2. Head(FormatInt[n]) # Plus /\ Head(FormatInt[n]) # Minus /\ FormatInt[n] # <<>>
    <3> DEFINE s == FormatInt[n]
    <3>1. s \in Seq(0 .. 9) /\ Len(s) > 0
        BY <2>1
    <3> HIDE DEF s
    <3>2. Head(s) \in 0 .. 9 /\ s # <<>>
        BY <3>1
    <3> QED  BY <3>2 DEF s, Plus, Minus
  <2> QED  BY <2>1, <2>2, Zenon DEF ParseInt
<1> QED
    BY <1>2

-----------------------------------------------------------------------------
(* The inductive invariant.                                                *)

IsSigned(s) ==
    /\ s = [note |-> s.note, tree |-> s.tree, time |-> s.time]
    /\ s.tree \in Trees /\ s.time \in Nat
    /\ s.note \in SignTreeHead(Name, Key, WitnessKey, s.tree, s.time)

SignedInv == now \in Nat /\ \A s \in signed : IsSigned(s)

-----------------------------------------------------------------------------
(* Signatures, and how one is found in a note.                             *)

(* A set of natural numbers that is not empty has a smallest.              *)
LEMMA SmallestIsIn ==
    ASSUME NEW I, I \subseteq Nat, I # {}
    PROVE  Min(I) \in I
<1> DEFINE less == {ss \in Nat \X Nat : ss[1] < ss[2]}
<1>1. IsWellFoundedOn(less, Nat)
    BY NatLessThanWellFounded DEF OpToRel
<1>2. PICK x \in I : \A y \in I : ~ (<<y, x>> \in less)
  <2> HIDE DEF less
  <2> QED  BY <1>1, WFMin
<1>3. ASSUME NEW y \in I
      PROVE  x =< y
  <2>1. x \in Nat /\ y \in Nat /\ <<y, x>> \in Nat \X Nat
      BY <1>2
  <2>2. ~ (y < x)
      BY <1>2, <2>1
  <2> QED  BY <2>1, <2>2
<1> QED
    BY <1>2, <1>3 DEF Min

(* A verifier's signature is among those of the note, if any is of its     *)
(* name and hash.                                                          *)
LEMMA OfFinds ==
    ASSUME NEW note, NEW P, note.sigs \in Seq(P), NEW v
    PROVE  /\ Found(note, v) => /\ Of(note, v) \in DOMAIN note.sigs
                                /\ note.sigs[Of(note, v)] \in P
                                /\ note.sigs[Of(note, v)] \in Range(note.sigs)
                                /\ note.sigs[Of(note, v)].name = Name
                                /\ note.sigs[Of(note, v)].hash = v
           /\ (\E x \in Range(note.sigs) : x.name = Name /\ x.hash = v) => Found(note, v)
<1> DEFINE s == note.sigs
           I == {i \in 1 .. Len(s) : s[i].name = Name /\ s[i].hash = v}
<1>1. DOMAIN s = 1 .. Len(s) /\ Len(s) \in Nat
    OBVIOUS
<1>2. Of(note, v) = IF I # {} THEN Min(I) ELSE 0
    BY DEF Of, SelectInSeq
<1>3. I # {} => Min(I) \in I
  <2>1. I \subseteq Nat
      BY <1>1
  <2> HIDE DEF I
  <2> QED  BY <2>1, SmallestIsIn
<1>4. Found(note, v) <=> I # {}
    BY <1>1, <1>2, <1>3 DEF Found
<1>5. ASSUME Found(note, v)
      PROVE  /\ Of(note, v) \in DOMAIN s /\ s[Of(note, v)].name = Name
             /\ s[Of(note, v)].hash = v
    BY <1>1, <1>2, <1>3, <1>4, <1>5
<1>6. ASSUME NEW i \in DOMAIN s
      PROVE  s[i] \in P /\ s[i] \in Range(s)
    BY <1>1 DEF Range
<1>7. ASSUME NEW x \in Range(s), x.name = Name, x.hash = v
      PROVE  Found(note, v)
  <2>1. PICK i \in DOMAIN s : x = s[i]
      BY DEF Range
  <2> QED  BY <1>1, <1>4, <1>7, <2>1
<1> QED
    BY <1>5, <1>6, <1>7

(* There are few of them.                                                  *)
LEMMA GreaseFinite == Cardinality(Grease) \in Nat
<1> DEFINE a == Signature("grease.invalid", KeyHash("grease.invalid", 0, "none"), 0, "random")
           b == Signature(Name, KeyHash(Name, 0, "none"), 0, "random")
<1>1. Grease = {a} \cup {b}
    BY DEF Grease
<1> HIDE DEF a, b
<1> QED
    BY <1>1, FS_Singleton, FS_Union, FS_CardinalityType

(* The note that is signed is the text of the tree head.                   *)
LEMMA SignTreeHeadText ==
    ASSUME NEW name, NEW key, NEW witness, NEW tree, NEW time,
           NEW note \in SignTreeHead(name, key, witness, tree, time)
    PROVE  note.text = TextOf(name, tree)
    BY DEF SignTreeHead

(* Whatever the order in which the signers were shuffled, both have signed *)
(* and what else there is, is grease.                                      *)
LEMMA SignTreeHeadSigs ==
    ASSUME NEW name, NEW key, NEW witness, NEW tree, NEW time,
           NEW note \in SignTreeHead(name, key, witness, tree, time)
    PROVE  LET both == {SignedV1(name, key, tree, time), SignedV2(name, witness, tree)}
           IN  /\ note = [text |-> TextOf(name, tree), sigs |-> note.sigs]
               /\ note.text = TextOf(name, tree)
               /\ note.sigs \in Seq(Grease \cup both)
               /\ SignedV1(name, key, tree, time) \in Range(note.sigs)
               /\ SignedV2(name, witness, tree) \in Range(note.sigs)
<1> DEFINE a == SignedV1(name, key, tree, time)
           b == SignedV2(name, witness, tree)
           both == {a, b}
<1>0. SignTreeHead(name, key, witness, tree, time) =
          {[text |-> TextOf(name, tree), sigs |-> g \o s] : g \in SetToSeqs(Grease),
                                                            s \in SetToSeqs(both)}
    BY DEF SignTreeHead
<1>1. PICK g \in SetToSeqs(Grease), s \in SetToSeqs(both) :
          note = [text |-> TextOf(name, tree), sigs |-> g \o s]
  <2> HIDE DEF both
  <2> QED  BY <1>0
<1>2. a # b
  <2>1. a.hash = <<name, 5, key>> /\ b.hash = <<name, 1, witness>>
      BY DEF SignedV1, SignedV2, Signature, KeyHash
  <2>2. <<name, 5, key>>[2] # <<name, 1, witness>>[2]
      OBVIOUS
  <2> QED  BY <2>1, <2>2
<1> HIDE DEF a, b
<1>3. Cardinality(both) = 2
  <2>1. IsFiniteSet({a}) /\ Cardinality({a}) = 1
      BY FS_Singleton
  <2>2. Cardinality({a} \cup {b}) = 2
      BY <1>2, <2>1, FS_AddElement
  <2>3. both = {a} \cup {b}
      OBVIOUS
  <2> QED  BY <2>2, <2>3
<1>4. s \in [1 .. 2 -> both] /\ s[1] # s[2]
  <2> HIDE DEF both
  <2>1. s \in [1 .. 2 -> both] /\ \A i, j \in 1 .. 2 : i # j => s[i] # s[j]
      BY <1>1, <1>3, Zenon DEF SetToSeqs
  <2> QED  BY <2>1
<1>5. g \in [1 .. Cardinality(Grease) -> Grease]
    BY <1>1 DEF SetToSeqs
<1>6. g \in Seq(Grease \cup both) /\ s \in Seq(Grease \cup both) /\ Len(s) = 2
  <2>1. g \in Seq(Grease)
      BY <1>5, GreaseFinite
  <2>2. s \in Seq(both) /\ Len(s) = 2
    <3>1. s \in Seq(both)
        BY <1>4
    <3>2. Len(s) \in Nat /\ DOMAIN s = 1 .. Len(s)
        BY <3>1, LenProperties
    <3>3. DOMAIN s = 1 .. 2
        BY <1>4
    <3>4. 2 \in 1 .. Len(s) /\ 3 \notin 1 .. Len(s)
      <4>1. 2 \in 1 .. 2 /\ 3 \notin 1 .. 2
          OBVIOUS
      <4> QED  BY <3>2, <3>3, <4>1, Zenon
    <3>5. Len(s) = 2
        BY <3>2, <3>4
    <3> QED  BY <3>1, <3>5
  <2> QED  BY <2>1, <2>2
<1>7. g \o s \in Seq(Grease \cup both)
    BY <1>6
<1>8. s[1] \in Range(g \o s) /\ s[2] \in Range(g \o s)
  <2>0. Len(g) \in Nat /\ DOMAIN (g \o s) = 1 .. Len(g \o s)
      BY <1>6, <1>7, LenProperties
  <2>1. /\ Len(g \o s) = Len(g) + Len(s)
        /\ \A i \in 1 .. Len(g) + Len(s) :
              (g \o s)[i] = IF i <= Len(g) THEN g[i] ELSE s[i - Len(g)]
      BY <1>6, ConcatProperties, Zenon
  <2>3. (g \o s)[Len(g) + 1] = s[1] /\ (g \o s)[Len(g) + 2] = s[2]
      BY <1>6, <2>0, <2>1
  <2>2. Len(g) + 1 \in DOMAIN (g \o s) /\ Len(g) + 2 \in DOMAIN (g \o s)
      BY <1>6, <2>0, <2>1
  <2> QED  BY <2>2, <2>3 DEF Range
<1>9. a \in Range(g \o s) /\ b \in Range(g \o s)
    BY <1>4, <1>8
<1>10. /\ note = [text |-> TextOf(name, tree), sigs |-> note.sigs]
       /\ note.text = TextOf(name, tree) /\ note.sigs = g \o s
    BY <1>1
<1>11. a \in Range(note.sigs) /\ b \in Range(note.sigs)
    BY <1>9, <1>10
<1> QED
    BY <1>7, <1>10, <1>11 DEF a, b

-----------------------------------------------------------------------------
(* What a reader makes of signatures of other notes.                       *)

(* The fields of the two signatures of signTreeHead.                       *)
LEMMA SignedV1Fields ==
    ASSUME NEW name, NEW key, NEW tree, NEW time
    PROVE  LET a == SignedV1(name, key, tree, time)
           IN  /\ a = [name |-> name, hash |-> <<name, 5, key>>,
                       raw |-> [timestamp |-> time,
                                signature |-> Sig(key, TreeHead(tree.n, tree.hash, time))]]
               /\ a = [name |-> a.name, hash |-> a.hash, raw |-> a.raw]
               /\ a.name = name /\ a.hash = <<name, 5, key>> /\ a.raw.timestamp = time
               /\ a.raw.signature = Sig(key, TreeHead(tree.n, tree.hash, time))
    BY DEF SignedV1, Signature, KeyHash

LEMMA SignedV2Fields ==
    ASSUME NEW name, NEW witness, NEW tree
    PROVE  LET b == SignedV2(name, witness, tree)
           IN  /\ b = [name |-> b.name, hash |-> b.hash, raw |-> b.raw]
               /\ b.name = name /\ b.hash = <<name, 1, witness>>
               /\ b.raw.signature = Sig(witness, TextOf(name, tree))
    BY DEF SignedV2, Signature, KeyHash

(* The algorithm in a key hash says which of the two a signature is.       *)
LEMMA HashesDiffer ==
    ASSUME NEW n1, NEW k1, NEW n2, NEW k2, NEW a1 \in Int, NEW a2 \in Int, a1 # a2
    PROVE  <<n1, a1, k1>> # <<n2, a2, k2>>
<1>1. <<n1, a1, k1>>[2] = a1 /\ <<n2, a2, k2>>[2] = a2
    OBVIOUS
<1> QED
    BY <1>1

LEMMA NotV1 ==
    ASSUME NEW name, NEW witness, NEW tree
    PROVE  SignedV2(name, witness, tree).hash # V1
<1>1. V1 = <<Name, 5, Key>> /\ SignedV2(name, witness, tree).hash = <<name, 1, witness>>
    BY SignedV2Fields DEF V1, KeyHash
<1> QED
    BY <1>1, HashesDiffer

(* Signatures of other keys or messages are others.                        *)
LEMMA SigsDiffer ==
    ASSUME NEW k1, NEW m1, NEW k2, NEW m2, Sig(k1, m1) = Sig(k2, m2)
    PROVE  k1 = k2 /\ m1 = m2
<1>1. /\ Sig(k1, m1).key = k1 /\ Sig(k1, m1).msg = m1
      /\ Sig(k2, m2).key = k2 /\ Sig(k2, m2).msg = m2
    BY DEF Sig
<1> QED
    BY <1>1

LEMMA HeadsDiffer ==
    ASSUME NEW n1, NEW h1, NEW t1, NEW n2, NEW h2, NEW t2,
           TreeHead(n1, h1, t1) = TreeHead(n2, h2, t2)
    PROVE  n1 = n2 /\ h1 = h2 /\ t1 = t2
<1>1. /\ TreeHead(n1, h1, t1).size = n1 /\ TreeHead(n1, h1, t1).root = h1
      /\ TreeHead(n1, h1, t1).timestamp = t1
      /\ TreeHead(n2, h2, t2).size = n2 /\ TreeHead(n2, h2, t2).root = h2
      /\ TreeHead(n2, h2, t2).timestamp = t2
    BY DEF TreeHead
<1> QED
    BY <1>1

(* The signatures of a note that are not grease are the two.               *)
LEMMA NotGrease ==
    ASSUME NEW name, NEW key, NEW witness, NEW tree, NEW time,
           NEW note \in SignTreeHead(name, key, witness, tree, time),
           NEW x \in Range(note.sigs) \ Grease
    PROVE  x = SignedV1(name, key, tree, time) \/ x = SignedV2(name, witness, tree)
<1> DEFINE a == SignedV1(name, key, tree, time)
           b == SignedV2(name, witness, tree)
<1>1. note.sigs \in Seq(Grease \cup {a, b})
    BY SignTreeHeadSigs
<1> HIDE DEF a, b
<1>2. PICK i \in DOMAIN note.sigs : x = note.sigs[i]
    BY DEF Range
<1>3. x \in Grease \cup {a, b}
    BY <1>1, <1>2
<1> QED
    BY <1>3 DEF a, b

(* The parts a note is put together from: a signature of the log, one with *)
(* its timestamp altered, or another log's under its own or this log's     *)
(* key hash.                                                               *)
Ours(x, s) ==
    \/ x = SignedV1(Name, Key, s.tree, s.time)
    \/ x = SignedV2(Name, WitnessKey, s.tree)
Postdated(x, s) ==
    /\ x.raw.timestamp = s.time + 1
    /\ x.raw.signature = Sig(Key, TreeHead(s.tree.n, s.tree.hash, s.time))
Theirs(x) ==
    \/ x.hash[2] = 5 /\ x.raw.signature.key = "otherKey"
    \/ x.hash[2] = 1

LEMMA PartsAre ==
    ASSUME SignedInv, NEW x \in Parts
    PROVE  \/ \E s \in signed : Ours(x, s) \/ Postdated(x, s)
           \/ Theirs(x)
<1> DEFINE parts == UNION {Range(s.note.sigs) \ Grease : s \in signed}
           foreign == UNION {Range(note.sigs) \ Grease :
                                note \in Foreign(CHOOSE t \in Trees : TRUE)}
           later == {[s EXCEPT !.raw.timestamp = @ + 1] : s \in {y \in parts : y.hash = V1}}
           claimed == {[s EXCEPT !.hash = <<Name, s.hash[2], Own(s.hash[2])>>] : s \in foreign}
<1>1. x \in parts \/ x \in later \/ x \in foreign \/ x \in claimed
    BY DEF Parts
<1>2. ASSUME NEW y \in parts
      PROVE  \E s \in signed : Ours(y, s)
  <2>1. PICK s \in signed : y \in Range(s.note.sigs) \ Grease
      OBVIOUS
  <2>2. s.note \in SignTreeHead(Name, Key, WitnessKey, s.tree, s.time)
      BY DEF SignedInv, IsSigned
  <2> QED  BY <2>1, <2>2, NotGrease DEF Ours
<1>3. ASSUME x \in later
      PROVE  \E s \in signed : Postdated(x, s)
  <2>1. PICK y \in parts : y.hash = V1 /\ x = [y EXCEPT !.raw.timestamp = @ + 1]
      BY <1>3
  <2>2. PICK s \in signed : Ours(y, s)
      BY <1>2
  <2>3. y # SignedV2(Name, WitnessKey, s.tree)
      BY <2>1, NotV1
  <2> DEFINE sig == Sig(Key, TreeHead(s.tree.n, s.tree.hash, s.time))
  <2>4. y = [name |-> Name, hash |-> <<Name, 5, Key>>,
             raw |-> [timestamp |-> s.time, signature |-> sig]]
      BY <2>2, <2>3, SignedV1Fields DEF Ours
  <2> HIDE DEF sig
  <2>5. x.raw.timestamp = s.time + 1 /\ x.raw.signature = sig
      BY <2>1, <2>4
  <2> QED  BY <2>5 DEF Postdated, sig
<1>4. ASSUME NEW y \in foreign
      PROVE  Theirs(y) /\ y = [name |-> y.name, hash |-> y.hash, raw |-> y.raw]
  <2>1. PICK tree : tree = CHOOSE t \in Trees : TRUE
      OBVIOUS
  <2>2. PICK note \in Foreign(tree) : y \in Range(note.sigs) \ Grease
      BY <2>1
  <2>3. \/ y = SignedV1(Name, "otherKey", tree, 1)
        \/ y = SignedV2(Name, "otherWitness", tree)
      BY <2>2, NotGrease DEF Foreign
  <2>4. CASE y = SignedV1(Name, "otherKey", tree, 1)
    <3>1. /\ y.hash = <<Name, 5, "otherKey">>
          /\ y.raw.signature = Sig("otherKey", TreeHead(tree.n, tree.hash, 1))
          /\ y = [name |-> y.name, hash |-> y.hash, raw |-> y.raw]
        BY <2>4, SignedV1Fields
    <3>2. y.hash[2] = 5 /\ y.raw.signature.key = "otherKey"
        BY <3>1 DEF Sig
    <3> QED  BY <3>1, <3>2 DEF Theirs
  <2>5. CASE y = SignedV2(Name, "otherWitness", tree)
    <3>1. /\ y.hash = <<Name, 1, "otherWitness">>
          /\ y = [name |-> y.name, hash |-> y.hash, raw |-> y.raw]
        BY <2>5, SignedV2Fields
    <3>2. y.hash[2] = 1
        BY <3>1
    <3> QED  BY <3>1, <3>2 DEF Theirs
  <2> QED  BY <2>3, <2>4, <2>5
<1>5. ASSUME x \in claimed
      PROVE  Theirs(x)
  <2>1. PICK y \in foreign : x = [y EXCEPT !.hash = <<Name, y.hash[2], Own(y.hash[2])>>]
      BY <1>5
  <2>2. Theirs(y) /\ y = [name |-> y.name, hash |-> y.hash, raw |-> y.raw]
      BY <1>4
  <2>3. x.hash[2] = y.hash[2] /\ x.raw = y.raw
      BY <2>1, <2>2
  <2> QED  BY <2>2, <2>3 DEF Theirs
<1> QED
    BY <1>1, <1>2, <1>3, <1>4, <1>5

(* A signature of the log's key over the tree head that its own timestamp  *)
(* completes is one that the log made.                                     *)
LEMMA OnlySignedVerifies ==
    ASSUME SignedInv, NEW x \in Parts, NEW n, NEW hash,
           x.hash = V1,
           x.raw.signature = Sig(Key, TreeHead(n, hash, x.raw.timestamp))
    PROVE  \E s \in signed : n = s.tree.n /\ hash = s.tree.hash /\ x.raw.timestamp = s.time
<1>1. CASE \E s \in signed : Ours(x, s)
  <2>1. PICK s \in signed : Ours(x, s)
      BY <1>1
  <2>2. x # SignedV2(Name, WitnessKey, s.tree)
      BY NotV1
  <2>3. /\ x.raw.timestamp = s.time
        /\ x.raw.signature = Sig(Key, TreeHead(s.tree.n, s.tree.hash, s.time))
      BY <2>1, <2>2, SignedV1Fields DEF Ours
  <2> QED  BY <2>3, SigsDiffer, HeadsDiffer
<1>2. CASE \E s \in signed : Postdated(x, s)
  <2>1. PICK s \in signed : Postdated(x, s)
      BY <1>2
  <2>2. x.raw.timestamp = s.time
      BY <2>1, SigsDiffer, HeadsDiffer DEF Postdated
  <2>3. s.time \in Nat
      BY DEF SignedInv, IsSigned
  <2> QED  BY <2>1, <2>2, <2>3 DEF Postdated
<1>3. CASE Theirs(x)
  <2>1. x.hash[2] = 5
      BY DEF V1, KeyHash
  <2>2. x.raw.signature.key = Key
      BY DEF Sig
  <2> QED  BY <1>3, <2>1, <2>2, KeysAssumption DEF Theirs
<1> QED
    BY <1>1, <1>2, <1>3, PartsAre

-----------------------------------------------------------------------------
(* Only what was signed is opened.                                         *)

(* What openCheckpoint makes of a note of such parts is refused, or was    *)
(* signed.                                                                 *)
LEMMA OpenedWasSigned ==
    ASSUME SignedInv, NEW note, note.sigs \in Seq(Parts), NEW t,
           OpenCheckpoint(note, t) # Refused
    PROVE  \E s \in signed : OpenCheckpoint(note, t) = [tree |-> s.tree, time |-> s.time]
<1> DEFINE c == ParseCheckpoint(note.text)
           x == note.sigs[Of(note, V1)]
<1>1. /\ Found(note, V1) /\ VerifyV1(note.text, Raw(note, V1))
      /\ OpenCheckpoint(note, t) = Opened(c, Raw(note, V1).timestamp)
    BY DEF OpenCheckpoint, NoteOpens
<1>2. x \in Parts /\ x.hash = V1 /\ Raw(note, V1) = x.raw
    BY <1>1, OfFinds DEF Raw
<1>3. x.raw.signature = Sig(Key, TreeHead(c.n, c.hash, x.raw.timestamp))
    BY <1>1, <1>2 DEF VerifyV1
<1> HIDE DEF c, x
<1>4. PICK s \in signed : c.n = s.tree.n /\ c.hash = s.tree.hash /\ x.raw.timestamp = s.time
    BY <1>2, <1>3, OnlySignedVerifies
<1>5. s.tree = [n |-> s.tree.n, hash |-> s.tree.hash]
  <2>1. s.tree \in Trees
      BY DEF SignedInv, IsSigned
  <2> QED  BY <2>1, TreesAssumption
<1>6. Opened(c, Raw(note, V1).timestamp) = [tree |-> s.tree, time |-> s.time]
    BY <1>2, <1>4, <1>5 DEF Opened
<1> QED
    BY <1>1, <1>6

LEMMA InitSigned == NoteInit => SignedInv /\ OnlySignedOpens
    BY DEF NoteInit, SignedInv, OnlySignedOpens

LEMMA NextSigned == SignedInv /\ OnlySignedOpens /\ [NoteNext]_noteVars
                        => SignedInv' /\ OnlySignedOpens'
<1> SUFFICES ASSUME SignedInv, OnlySignedOpens, [NoteNext]_noteVars
             PROVE  SignedInv' /\ OnlySignedOpens'
    OBVIOUS
<1>1. ASSUME NEW tree \in Trees, Sign(tree)
      PROVE  SignedInv' /\ OnlySignedOpens'
  <2>1. PICK note \in SignTreeHead(Name, Key, WitnessKey, tree, now) :
            signed' = signed \cup {[note |-> note, tree |-> tree, time |-> now]}
      BY <1>1 DEF Sign
  <2>2. IsSigned([note |-> note, tree |-> tree, time |-> now])
      BY <2>1 DEF IsSigned, SignedInv
  <2>3. SignedInv'
      BY <1>1, <2>1, <2>2 DEF Sign, SignedInv, IsSigned
  <2>4. OnlySignedOpens'
      BY <1>1, <2>1 DEF Sign, OnlySignedOpens
  <2> QED  BY <2>3, <2>4
<1>2. ASSUME NEW t \in 1 .. MaxNow, SetClock(t)
      PROVE  SignedInv' /\ OnlySignedOpens'
    BY <1>2, KeysAssumption DEF SetClock, SignedInv, IsSigned, OnlySignedOpens
<1>3. ASSUME NEW text \in Texts, NEW sigs \in SeqOf(Parts, 2),
             Receive([text |-> text, sigs |-> sigs])
      PROVE  SignedInv' /\ OnlySignedOpens'
  <2> DEFINE note == [text |-> text, sigs |-> sigs]
  <2>1. note.sigs \in Seq(Parts)
    <3>1. PICK m \in 0 .. 2 : sigs \in [1 .. m -> Parts]
        BY DEF SeqOf
    <3> QED  BY <3>1
  <2>2. SignedInv'
      BY <1>3 DEF Receive, SignedInv, IsSigned
  <2>3. opened' = OpenCheckpoint(note, now) /\ signed' = signed
      BY <1>3 DEF Receive
  <2> HIDE DEF note
  <2>4. OnlySignedOpens'
      BY <2>1, <2>3, OpenedWasSigned DEF OnlySignedOpens
  <2> QED  BY <2>2, <2>4
<1>4. CASE UNCHANGED noteVars
    BY <1>4 DEF noteVars, SignedInv, IsSigned, OnlySignedOpens
<1> QED
    BY <1>1, <1>2, <1>3, <1>4 DEF NoteNext

(* openCheckpoint accepts a tree and a time only if the log signed the two *)
(* together, whatever the note is put together from: altered texts, its    *)
(* own signatures of other checkpoints or with another timestamp, and      *)
(* another log's, under its own key hash or this log's.                    *)
THEOREM OnlySignedCheckpointsOpen == NoteSpec => []OnlySignedOpens
<1>1. NoteSpec => [](SignedInv /\ OnlySignedOpens)
    BY InitSigned, NextSigned, PTL DEF NoteSpec
<1> QED
    BY <1>1, PTL

-----------------------------------------------------------------------------
(* What was signed opens.                                                  *)

(* A text of signTreeHead parses as the checkpoint it was made of.         *)
LEMMA TextParses ==
    ASSUME NEW tree \in Trees, NEW name
    PROVE  /\ TextOf(name, tree) = <<name, FormatInt[tree.n], Base64(tree.hash)>>
           /\ ParseCheckpoint(TextOf(name, tree)) =
                 [origin |-> name, n |-> tree.n, hash |-> tree.hash, extension |-> <<>>]
           /\ ParseCheckpoint(TextOf(name, tree)) # Malformed
<1> DEFINE d == FormatInt[tree.n]
           r == Base64(tree.hash)
           text == <<name, d, r>>
           c == [origin |-> name, n |-> tree.n, hash |-> tree.hash, extension |-> <<>>]
<1>1. ParseInt(d) = tree.n /\ ParseInt(d) >= 0
    BY TreesAssumption, SizeReadBack
<1>2. r.len = 32 /\ r.hash = tree.hash
    BY DEF Base64
<1>3. TextOf(name, tree) = text
  <2>1. TextOf(name, tree) = text \o <<>>
      BY DEF TextOf, FormatCheckpoint
  <2> HIDE DEF d, r
  <2>2. text \o <<>> = text
      OBVIOUS
  <2> QED  BY <2>1, <2>2
<1>4. d = FormatInt[ParseInt(d)]
    BY <1>1
<1> HIDE DEF d, r
<1>5. /\ Len(text) = 3 /\ text[1] = name /\ text[2] = d /\ text[3] = r
      /\ SubSeq(text, 4, 3) = <<>>
    OBVIOUS
<1> HIDE DEF text
<1>6. \A i \in 4 .. 3 : text[i] # ""
  <2>1. 4 .. 3 = {}
      OBVIOUS
  <2> QED  BY <2>1
<1>7. ParseCheckpoint(text) = [origin |-> text[1], n |-> ParseInt(text[2]),
                               hash |-> text[3].hash, extension |-> SubSeq(text, 4, Len(text))]
    BY <1>1, <1>2, <1>4, <1>5, <1>6 DEF ParseCheckpoint
<1>8. ParseCheckpoint(text) = c
    BY <1>1, <1>2, <1>5, <1>7
<1>9. c # Malformed
    BY DEF Malformed
<1> QED
    BY <1>3, <1>8, <1>9 DEF text, d, r

(* The verifiers pass over the grease.                                     *)
LEMMA GreaseIsNone ==
    ASSUME NEW x \in Grease
    PROVE  x.hash # V1 /\ x.hash # V2
<1>1. PICK name : x.hash = <<name, 0, "none">>
    BY DEF Grease, Signature, KeyHash
<1> QED
    BY <1>1, HashesDiffer DEF V1, V2, KeyHash

LEMMA SignedOpens ==
    ASSUME NEW tree \in Trees, NEW time, NEW t,
           NEW note \in SignTreeHead(Name, Key, WitnessKey, tree, time)
    PROVE  OpenCheckpoint(note, t) =
               IF time <= t THEN [tree |-> tree, time |-> time] ELSE Refused
<1> DEFINE a == SignedV1(Name, Key, tree, time)
           b == SignedV2(Name, WitnessKey, tree)
           x == note.sigs[Of(note, V1)]
           y == note.sigs[Of(note, V2)]
           c == ParseCheckpoint(note.text)
<1>1. /\ note.text = TextOf(Name, tree) /\ note.sigs \in Seq(Grease \cup {a, b})
      /\ a \in Range(note.sigs) /\ b \in Range(note.sigs)
  <2>2. a \in Range(note.sigs) /\ b \in Range(note.sigs)
      BY SignTreeHeadSigs
  <2>3. note.text = TextOf(Name, tree) /\ note.sigs \in Seq(Grease \cup {a, b})
      BY SignTreeHeadSigs
  <2> HIDE DEF a, b
  <2> QED  BY <2>2, <2>3
<1>2. a.name = Name /\ a.hash = V1 /\ b.name = Name /\ b.hash = V2
    BY SignedV1Fields, SignedV2Fields DEF V1, V2, KeyHash
<1>3. a.hash # V2 /\ b.hash # V1
    BY <1>2, HashesDiffer DEF V1, V2, KeyHash
<1>4. /\ a.raw.timestamp = time
      /\ a.raw.signature = Sig(Key, TreeHead(tree.n, tree.hash, time))
      /\ b.raw.signature = Sig(WitnessKey, TextOf(Name, tree))
    BY SignedV1Fields, SignedV2Fields
<1> HIDE DEF a, b
<1>5. /\ Found(note, V1) /\ x \in Grease \cup {a, b} /\ x.hash = V1
      /\ Found(note, V2) /\ y \in Grease \cup {a, b} /\ y.hash = V2
    BY <1>1, <1>2, OfFinds
<1>6. x = a /\ y = b
    BY <1>3, <1>5, GreaseIsNone
<1>7. Raw(note, V1) = a.raw /\ Raw(note, V2) = b.raw
    BY <1>6 DEF Raw
<1>8. /\ c = [origin |-> Name, n |-> tree.n, hash |-> tree.hash, extension |-> <<>>]
      /\ c # Malformed
    BY <1>1, TextParses
<1>9. c.origin = Name /\ c.n = tree.n /\ c.hash = tree.hash /\ c.extension = <<>>
    BY <1>8
<1>10. VerifyV1(note.text, Raw(note, V1))
    BY <1>4, <1>7, <1>8, <1>9 DEF VerifyV1
<1>11. VerifyV2(note.text, Raw(note, V2))
    BY <1>1, <1>4, <1>7 DEF VerifyV2
<1>12. NoteOpens(note)
    BY <1>5, <1>10, <1>11 DEF NoteOpens
<1>13. Opened(c, time) = [tree |-> tree, time |-> time]
  <2>1. tree = [n |-> tree.n, hash |-> tree.hash]
      BY TreesAssumption
  <2> QED  BY <1>9, <2>1 DEF Opened
<1> HIDE DEF c
<1>14. OpenCheckpoint(note, t) = IF time <= t THEN Opened(c, time) ELSE Refused
    BY <1>4, <1>5, <1>7, <1>8, <1>9, <1>12 DEF OpenCheckpoint, c
<1> QED
    BY <1>13, <1>14

(* Every checkpoint that signTreeHead makes opens as the tree and the time *)
(* that were signed, however the signers and the grease were shuffled,     *)
(* unless the clock has been set back behind its time.                     *)
THEOREM SignedCheckpointsOpen == NoteSpec => []CheckpointsOpen
<1>1. NoteSpec => [](SignedInv /\ OnlySignedOpens)
    BY InitSigned, NextSigned, PTL DEF NoteSpec
<1>2. SignedInv => CheckpointsOpen
    BY SignedOpens DEF SignedInv, IsSigned, CheckpointsOpen
<1> QED
    BY <1>1, <1>2, PTL

-----------------------------------------------------------------------------
(* A checkpoint has one form.                                              *)

\* At least three lines, of which the third is of a hash.
IsText(text) ==
    /\ text \in Seq(Range(text)) /\ Len(text) >= 3
    /\ text[3] = [hash |-> text[3].hash, strict |-> text[3].strict, len |-> text[3].len]

(* Another encoding of the hash of a line.                                 *)
LEMMA EncodedWith ==
    ASSUME NEW h, NEW b, NEW l, NEW strict, NEW len
    PROVE  /\ [[hash |-> h, strict |-> b, len |-> l] EXCEPT !.strict = strict]
               = [hash |-> h, strict |-> strict, len |-> l]
           /\ [[hash |-> h, strict |-> b, len |-> l] EXCEPT !.len = len]
               = [hash |-> h, strict |-> b, len |-> len]
    OBVIOUS

(* The lines that ParseCheckpoint takes a text apart into, put together    *)
(* again.                                                                  *)
LEMMA Reassembled ==
    ASSUME NEW text, IsText(text), text[3].len = 32
    PROVE  <<text[1], text[2], Base64(text[3].hash)>> \o SubSeq(text, 4, Len(text))
               = [text EXCEPT ![3].strict = TRUE]
<1> DEFINE r == Base64(text[3].hash)
           Y == Range(text) \cup {r}
           A == <<text[1], text[2], r>>
           B == SubSeq(text, 4, Len(text))
           u == [text EXCEPT ![3].strict = TRUE]
<1>1. /\ text \in Seq(Y) /\ Len(text) \in Nat /\ DOMAIN text = 1 .. Len(text)
      /\ Len(text) >= 3 /\ \A i \in 1 .. Len(text) : text[i] \in Y
    BY DEF IsText
<1>2. [text[3] EXCEPT !.strict = TRUE] = r
  <2>1. PICK h, b : text[3] = [hash |-> h, strict |-> b, len |-> 32]
      BY DEF IsText
  <2>2. text[3].hash = h
      BY <2>1
  <2>3. [[hash |-> h, strict |-> b, len |-> 32] EXCEPT !.strict = TRUE]
            = [hash |-> h, strict |-> TRUE, len |-> 32]
    <3>1. PICK v : v = TRUE
        OBVIOUS
    <3>2. [[hash |-> h, strict |-> b, len |-> 32] EXCEPT !.strict = v]
              = [hash |-> h, strict |-> v, len |-> 32]
        BY EncodedWith
    <3> QED  BY <3>1, <3>2, Zenon
  <2> QED  BY <2>1, <2>2, <2>3, Zenon DEF Base64
<1>3. u = [text EXCEPT ![3] = r]
    BY <1>2
<1> HIDE DEF r, u
<1>4. r \in Y
    OBVIOUS
<1> HIDE DEF Y
<1>5. /\ u \in Seq(Y) /\ Len(u) = Len(text)
      /\ \A i \in 1 .. Len(text) : u[i] = IF i = 3 THEN r ELSE text[i]
  <2>1. 3 \in 1 .. Len(text)
      BY <1>1
  <2> QED  BY <1>1, <1>3, <1>4, <2>1, ExceptSeq
<1>6. /\ A \in Seq(Y) /\ Len(A) = 3
      /\ A[1] = text[1] /\ A[2] = text[2] /\ A[3] = r
  <2>1. text[1] \in Y /\ text[2] \in Y
      BY <1>1
  <2> QED  BY <1>4, <2>1
<1>7. /\ B \in Seq(Y) /\ Len(B) = Len(text) - 3
      /\ \A i \in 1 .. Len(text) - 3 : B[i] = text[3 + i]
  <2>1. \A i \in 4 .. Len(text) : text[i] \in Y
      BY <1>1
  <2>2. /\ B \in Seq(Y) /\ Len(B) = IF 4 <= Len(text) THEN Len(text) - 4 + 1 ELSE 0
        /\ \A i \in 1 .. Len(text) - 4 + 1 : B[i] = text[4 + i - 1]
      BY <1>1, <2>1, SubSeqProperties
  <2> HIDE DEF B
  <2>3. Len(B) = Len(text) - 3
    <3>1. PICK n \in Nat : n = Len(text) /\ n >= 3
        BY <1>1
    <3>2. Len(B) = IF 4 <= n THEN n - 4 + 1 ELSE 0
        BY <2>2, <3>1
    <3>3. (IF 4 <= n THEN n - 4 + 1 ELSE 0) = n - 3
        BY <3>1
    <3> QED  BY <3>1, <3>2, <3>3
  <2>4. ASSUME NEW i \in 1 .. Len(text) - 3
        PROVE  B[i] = text[3 + i]
    <3>1. i \in 1 .. Len(text) - 4 + 1 /\ 4 + i - 1 = 3 + i
        BY <1>1
    <3> QED  BY <2>2, <3>1
  <2> QED  BY <2>2, <2>3, <2>4
<1> HIDE DEF A, B
<1>8. /\ A \o B \in Seq(Y) /\ Len(A \o B) = Len(A) + Len(B)
      /\ \A i \in 1 .. Len(A) + Len(B) :
            (A \o B)[i] = IF i <= Len(A) THEN A[i] ELSE B[i - Len(A)]
    BY <1>6, <1>7, ConcatProperties, Zenon
<1>9. Len(A \o B) = Len(u)
    BY <1>1, <1>5, <1>6, <1>7, <1>8
<1>10. ASSUME NEW i \in 1 .. Len(u)
       PROVE  (A \o B)[i] = u[i]
  <2>1. i \in 1 .. Len(A) + Len(B) /\ i \in 1 .. Len(text)
      BY <1>1, <1>5, <1>6, <1>7
  <2>2. (A \o B)[i] = IF i <= 3 THEN A[i] ELSE B[i - 3]
      BY <1>6, <1>8, <2>1
  <2>3. CASE i <= 3
    <3>1. i = 1 \/ i = 2 \/ i = 3
        BY <2>1, <2>3
    <3> QED  BY <1>5, <1>6, <2>1, <2>2, <2>3, <3>1
  <2>4. CASE i > 3
    <3>1. i - 3 \in 1 .. Len(text) - 3 /\ 3 + (i - 3) = i
        BY <1>1, <2>1, <2>4
    <3>2. B[i - 3] = text[i]
        BY <1>7, <3>1
    <3> QED  BY <1>5, <2>1, <2>2, <2>4, <3>2
  <2> QED  BY <2>1, <2>3, <2>4
<1>11. A \o B = u
    BY <1>5, <1>8, <1>9, <1>10, SeqEqual
<1> QED
    BY <1>11 DEF A, B, u, r

(* A text that is taken apart is the one that FormatCheckpoint makes of    *)
(* the result, but for the encoding of the hash.                           *)
LEMMA ParsesExactly ==
    ASSUME NEW text, IsText(text), ParseCheckpoint(text) # Malformed
    PROVE  FormatCheckpoint(ParseCheckpoint(text)) = [text EXCEPT ![3].strict = TRUE]
<1> DEFINE c == ParseCheckpoint(text)
           e == SubSeq(text, 4, Len(text))
<1>1. /\ text[2] = FormatInt[ParseInt(text[2])] /\ text[3].len = 32
      /\ c = [origin |-> text[1], n |-> ParseInt(text[2]), hash |-> text[3].hash,
              extension |-> e]
    BY DEF ParseCheckpoint
<1> HIDE DEF c, e
<1>2. c.origin = text[1] /\ c.n = ParseInt(text[2]) /\ c.hash = text[3].hash /\ c.extension = e
    BY <1>1
<1>3. FormatCheckpoint(c) = <<text[1], text[2], Base64(text[3].hash)>> \o e
    BY <1>1, <1>2 DEF FormatCheckpoint
<1> QED
    BY <1>1, <1>3, Reassembled DEF c, e

(* The texts that are received are still of this form.                     *)
LEMMA IsTextOf ==
    ASSUME NEW tree \in Trees, NEW name
    PROVE  /\ IsText(TextOf(name, tree))
           /\ TextOf(name, tree)[3] = [hash |-> tree.hash, strict |-> TRUE, len |-> 32]
<1> DEFINE d == FormatInt[tree.n]
           r == Base64(tree.hash)
           text == <<name, d, r>>
<1>1. TextOf(name, tree) = text
    BY TextParses
<1>2. r = [hash |-> tree.hash, strict |-> TRUE, len |-> 32]
    BY DEF Base64
<1> HIDE DEF d, r
<1>3. DOMAIN text = 1 .. 3 /\ Len(text) = 3 /\ text[1] = name /\ text[2] = d /\ text[3] = r
    OBVIOUS
<1>4. text \in Seq(Range(text))
  <2>1. name \in Range(text) /\ d \in Range(text) /\ r \in Range(text)
    <3>1. 1 \in DOMAIN text /\ 2 \in DOMAIN text /\ 3 \in DOMAIN text
        BY <1>3
    <3> HIDE DEF text
    <3> QED  BY <1>3, <3>1 DEF Range
  <2>2. \A S : name \in S /\ d \in S /\ r \in S => text \in Seq(S)
      OBVIOUS
  <2> HIDE DEF text
  <2> QED  BY <2>1, <2>2
<1>5. /\ r.hash = tree.hash /\ r.len = 32
      /\ r = [hash |-> r.hash, strict |-> r.strict, len |-> r.len]
    BY <1>2
<1> HIDE DEF text
<1>6. IsText(text)
    BY <1>3, <1>4, <1>5 DEF IsText
<1> QED
    BY <1>1, <1>2, <1>3, <1>6

LEMMA IsTextMore ==
    ASSUME NEW text, IsText(text), NEW line
    PROVE  IsText(Append(text, line))
<1> DEFINE u == Append(text, line)
           S == Range(text) \cup {line}
<1>1. text \in Seq(S) /\ line \in S /\ Len(text) \in Nat /\ Len(text) >= 3
    BY DEF IsText
<1> HIDE DEF S
<1>2. /\ u \in Seq(S) /\ Len(u) = Len(text) + 1
      /\ \A i \in 1 .. Len(text) : u[i] = text[i]
    BY <1>1, AppendProperties
<1> HIDE DEF u
<1>3. u \in Seq(Range(u))
    BY <1>2, SeqOfRange
<1>4. Len(u) >= 3 /\ u[3] = text[3]
    BY <1>1, <1>2
<1> QED
    BY <1>3, <1>4 DEF IsText, u

LEMMA IsTextWith ==
    ASSUME NEW text, IsText(text), NEW i \in {1, 2, 3}, NEW line,
           i = 3 => line = [hash |-> line.hash, strict |-> line.strict, len |-> line.len]
    PROVE  IsText([text EXCEPT ![i] = line])
<1> DEFINE u == [text EXCEPT ![i] = line]
           S == Range(text) \cup {line}
<1>1. /\ text \in Seq(S) /\ line \in S /\ Len(text) \in Nat /\ Len(text) >= 3
      /\ i \in 1 .. Len(text)
    BY DEF IsText
<1> HIDE DEF S
<1>2. /\ u \in Seq(S) /\ Len(u) = Len(text)
      /\ \A j \in 1 .. Len(text) : u[j] = IF j = i THEN line ELSE text[j]
    BY <1>1, ExceptSeq
<1> HIDE DEF u
<1>3. u \in Seq(Range(u))
    BY <1>2, SeqOfRange
<1>4. Len(u) >= 3 /\ u[3] = IF i = 3 THEN line ELSE text[3]
    BY <1>1, <1>2
<1> QED
    BY <1>3, <1>4 DEF IsText, u

LEMMA TextsAreTexts ==
    ASSUME SignedInv, NEW text \in Texts
    PROVE  IsText(text)
<1> DEFINE texts == {s.note.text : s \in signed}
<1>1. ASSUME NEW t \in texts
      PROVE  IsText(t) /\ \E h, b : t[3] = [hash |-> h, strict |-> b, len |-> 32]
  <2>1. PICK s \in signed : t = s.note.text
      OBVIOUS
  <2>2. s.tree \in Trees /\ s.note \in SignTreeHead(Name, Key, WitnessKey, s.tree, s.time)
      BY DEF SignedInv, IsSigned
  <2>3. PICK tree \in Trees :
            \E time : \E note \in SignTreeHead(Name, Key, WitnessKey, tree, time) : t = note.text
      BY <2>1, <2>2
  <2>4. PICK time :
            \E note \in SignTreeHead(Name, Key, WitnessKey, tree, time) : t = note.text
      BY <2>3
  <2>5. PICK note \in SignTreeHead(Name, Key, WitnessKey, tree, time) : t = note.text
      BY <2>4
  <2>6. note.text = TextOf(Name, tree)
      BY SignTreeHeadText
  <2> QED  BY <2>5, <2>6, IsTextOf, Zenon
<1>2. \/ text \in texts
      \/ \E t \in texts : \E line : text = Append(t, line)
      \/ \E t \in texts : \E line : text = [t EXCEPT ![1] = line]
      \/ \E t \in texts : \E line : text = [t EXCEPT ![2] = line]
      \/ \E t \in texts : \E n : text = [t EXCEPT ![3].len = n]
      \/ \E t \in texts : text = [t EXCEPT ![3].strict = FALSE]
  <2>1. PICK t \in texts : text \in Altered(t)
      BY DEF Texts
  <2> HIDE DEF texts
  <2>2. \/ text = t
        \/ \E line : text = Append(t, line)
        \/ \E line : text = [t EXCEPT ![1] = line]
        \/ \E line : text = [t EXCEPT ![2] = line]
        \/ \E n : text = [t EXCEPT ![3].len = n]
        \/ text = [t EXCEPT ![3].strict = FALSE]
      BY <2>1, Zenon DEF Altered
  <2> QED  BY <2>2, Zenon
<1> HIDE DEF texts
<1>3. CASE \E t \in texts : \E line : text = Append(t, line)
    BY <1>1, <1>3, IsTextMore
<1>4. CASE \E t \in texts : \E line : \/ text = [t EXCEPT ![1] = line]
                                      \/ text = [t EXCEPT ![2] = line]
  <2>0. PICK t \in texts : \E line : \/ text = [t EXCEPT ![1] = line]
                                     \/ text = [t EXCEPT ![2] = line]
      BY <1>4
  <2>1. PICK line : text = [t EXCEPT ![1] = line] \/ text = [t EXCEPT ![2] = line]
      BY <2>0
  <2>2. 1 \in {1, 2, 3} /\ 1 # 3 /\ 2 \in {1, 2, 3} /\ 2 # 3
      OBVIOUS
  <2> QED  BY <1>1, <2>1, <2>2, IsTextWith
<1>5. CASE \E t \in texts : \E n : text = [t EXCEPT ![3].len = n]
  <2>0. PICK t \in texts : \E n : text = [t EXCEPT ![3].len = n]
      BY <1>5
  <2>1. PICK n : text = [t EXCEPT ![3].len = n]
      BY <2>0
  <2>2. PICK h, b : t[3] = [hash |-> h, strict |-> b, len |-> 32]
      BY <1>1
  <2> DEFINE line == [t[3] EXCEPT !.len = n]
  <2>3. line = [hash |-> h, strict |-> b, len |-> n]
      BY <2>2, EncodedWith
  <2>4. text = [t EXCEPT ![3] = line]
      BY <2>1
  <2> HIDE DEF line
  <2>5. line = [hash |-> line.hash, strict |-> line.strict, len |-> line.len]
      BY <2>3
  <2> QED  BY <1>1, <2>4, <2>5, IsTextWith, Zenon
<1>6. CASE \E t \in texts : text = [t EXCEPT ![3].strict = FALSE]
  <2>0. PICK t \in texts : text = [t EXCEPT ![3].strict = FALSE]
      BY <1>6
  <2>1. PICK h, b : t[3] = [hash |-> h, strict |-> b, len |-> 32]
      BY <1>1
  <2> DEFINE line == [t[3] EXCEPT !.strict = FALSE]
  <2>2. PICK v : v = FALSE
      OBVIOUS
  <2>3. [t[3] EXCEPT !.strict = v] = [hash |-> h, strict |-> v, len |-> 32]
      BY <2>1, EncodedWith
  <2>4. line = [hash |-> h, strict |-> v, len |-> 32]
      BY <2>2, <2>3, Zenon
  <2>5. text = [t EXCEPT ![3] = line]
      BY <2>0
  <2> HIDE DEF line
  <2>6. line = [hash |-> line.hash, strict |-> line.strict, len |-> line.len]
      BY <2>4
  <2> QED  BY <1>1, <2>5, <2>6, IsTextWith, Zenon
<1> QED
    BY <1>1, <1>2, <1>3, <1>4, <1>5, <1>6

(* The text of an accepted tree head, with the log's name and the strict   *)
(* encoding, is the one that was signed.                                   *)
LEMMA AcceptedIsSigned ==
    ASSUME NEW text, IsText(text), NEW tree \in Trees,
           ParseCheckpoint(text) # Malformed,
           ParseCheckpoint(text).extension = <<>>,
           ParseCheckpoint(text).n = tree.n, ParseCheckpoint(text).hash = tree.hash
    PROVE  [text EXCEPT ![1] = Name, ![3].strict = TRUE] = TextOf(Name, tree)
<1> DEFINE c == ParseCheckpoint(text)
           d == FormatInt[tree.n]
           r == Base64(tree.hash)
           u == [text EXCEPT ![3].strict = TRUE]
<1>1. FormatCheckpoint(c) = u
    BY ParsesExactly
<1>2. FormatCheckpoint(c) = <<c.origin, d, r>> \o <<>>
    BY Zenon DEF FormatCheckpoint
<1> HIDE DEF c, d, r
<1>3. <<c.origin, d, r>> \o <<>> = <<c.origin, d, r>>
    OBVIOUS
<1>4. u = <<c.origin, d, r>>
    BY <1>1, <1>2, <1>3, Zenon
<1>5. [text EXCEPT ![1] = Name, ![3].strict = TRUE] = [u EXCEPT ![1] = Name]
  <2> DEFINE line == [text[3] EXCEPT !.strict = TRUE]
             v == [text EXCEPT ![1] = Name]
  <2>1. [text EXCEPT ![1] = Name, ![3].strict = TRUE] = [v EXCEPT ![3] = line]
    <3>1. v[3] = text[3]
      <4>1. 1 # 3
          OBVIOUS
      <4>2. DOMAIN v = DOMAIN text
          OBVIOUS
      <4>3. 3 \in DOMAIN text
          BY DEF IsText
      <4> QED  BY <4>1, <4>3
    <3>2. [text EXCEPT ![1] = Name, ![3].strict = TRUE] = [v EXCEPT ![3].strict = TRUE]
        OBVIOUS
    <3>3. [v EXCEPT ![3].strict = TRUE] = [v EXCEPT ![3] = [v[3] EXCEPT !.strict = TRUE]]
        OBVIOUS
    <3> HIDE DEF v
    <3> QED  BY <3>1, <3>2, <3>3, Zenon
  <2>2. u = [text EXCEPT ![3] = line]
      OBVIOUS
  <2> HIDE DEF line
  <2>3. [v EXCEPT ![3] = line] = [[text EXCEPT ![3] = line] EXCEPT ![1] = Name]
    <3>1. 1 # 3
        OBVIOUS
    <3> HIDE DEF u
    <3> QED  BY <3>1
  <2> QED  BY <2>1, <2>2, <2>3, Zenon
<1> HIDE DEF u
<1>6. [u EXCEPT ![1] = Name] = <<Name, d, r>>
    BY <1>4
<1> QED
    BY <1>5, <1>6, TextParses DEF d, r

(* What was received, and of what.                                         *)
ReceivedInv ==
    /\ SignedInv
    /\ \/ received = [text |-> <<>>, sigs |-> <<>>]
       \/ IsText(received.text) /\ received.sigs \in Seq(Parts)

LEMMA TextCoveredIf == ReceivedInv => TextCovered
<1> SUFFICES ASSUME ReceivedInv, Found(received, V1),
                    VerifyV1(received.text, Raw(received, V1))
             PROVE  \E s \in signed :
                        /\ s.time = Raw(received, V1).timestamp
                        /\ s.note.text = [received.text EXCEPT ![1] = Name, ![3].strict = TRUE]
    BY DEF TextCovered
<1> DEFINE c == ParseCheckpoint(received.text)
           x == received.sigs[Of(received, V1)]
<1>1. IsText(received.text) /\ received.sigs \in Seq(Parts) /\ SignedInv
  <2>1. CASE received = [text |-> <<>>, sigs |-> <<>>]
    <3>1. received.sigs = <<>> /\ received.sigs \in Seq(Parts)
        BY <2>1
    <3>2. Of(received, V1) \in DOMAIN received.sigs
        BY <3>1, OfFinds
    <3> QED  BY <3>1, <3>2
  <2> QED  BY <2>1 DEF ReceivedInv
<1>2. x \in Parts /\ x.hash = V1 /\ Raw(received, V1) = x.raw
    BY <1>1, OfFinds DEF Raw
<1>3. /\ c # Malformed /\ c.extension = <<>>
      /\ x.raw.signature = Sig(Key, TreeHead(c.n, c.hash, x.raw.timestamp))
    BY <1>2 DEF VerifyV1
<1> HIDE DEF c, x
<1>4. PICK s \in signed : c.n = s.tree.n /\ c.hash = s.tree.hash /\ x.raw.timestamp = s.time
    BY <1>1, <1>2, <1>3, OnlySignedVerifies
<1>5. s.tree \in Trees /\ s.note \in SignTreeHead(Name, Key, WitnessKey, s.tree, s.time)
    BY <1>1 DEF SignedInv, IsSigned
<1>6. s.note.text = TextOf(Name, s.tree)
    BY <1>5, SignTreeHeadText
<1>7. [received.text EXCEPT ![1] = Name, ![3].strict = TRUE] = TextOf(Name, s.tree)
    BY <1>1, <1>3, <1>4, <1>5, AcceptedIsSigned DEF c
<1> QED
    BY <1>2, <1>4, <1>6, <1>7, Zenon

(* A note is received once, and the log signs no more then.                *)
LEMMA ReceivedInvStep == ReceivedInv /\ SignedInv' /\ [NoteNext]_noteVars => ReceivedInv'
<1> SUFFICES ASSUME ReceivedInv, SignedInv', [NoteNext]_noteVars
             PROVE  ReceivedInv'
    OBVIOUS
<1>1. CASE received' = received /\ received = [text |-> <<>>, sigs |-> <<>>]
    BY <1>1 DEF ReceivedInv
<1>2. ASSUME NEW text \in Texts, NEW sigs \in SeqOf(Parts, 2),
             Receive([text |-> text, sigs |-> sigs])
      PROVE  ReceivedInv'
  <2>1. received'.text = text /\ received'.sigs = sigs /\ signed' = signed
      BY <1>2 DEF Receive
  <2>2. IsText(text)
      BY TextsAreTexts DEF ReceivedInv
  <2>3. sigs \in Seq(Parts)
    <3>1. PICK m \in 0 .. 2 : sigs \in [1 .. m -> Parts]
        BY DEF SeqOf
    <3> QED  BY <3>1
  <2>4. Parts' = Parts
      BY <2>1 DEF Parts
  <2> QED  BY <2>1, <2>2, <2>3, <2>4 DEF ReceivedInv
<1>3. CASE UNCHANGED noteVars
  <2>1. received' = received /\ signed' = signed
      BY <1>3 DEF noteVars
  <2>2. Parts' = Parts
      BY <2>1 DEF Parts
  <2> QED  BY <2>1, <2>2 DEF ReceivedInv
<1>4. CASE NoteNext
  <2>1. received.text = <<>>
      BY <1>4 DEF NoteNext
  <2>2. received = [text |-> <<>>, sigs |-> <<>>]
    <3>1. Len(<<>>) = 0
        OBVIOUS
    <3>2. ~ IsText(received.text)
        BY <2>1, <3>1 DEF IsText
    <3> QED  BY <3>2 DEF ReceivedInv
  <2>3. CASE received' = received
      BY <1>1, <2>2, <2>3
  <2> QED  BY <1>2, <1>4, <2>3 DEF NoteNext, Sign, SetClock
<1> QED
    BY <1>3, <1>4

(* A client that only has NewRFC6962Verifier accepts no other text than    *)
(* that of a checkpoint the log signed at that time, up to its origin and  *)
(* the encoding of its hash, whatever the note is put together from.       *)
THEOREM TextsAreCovered == NoteSpec => []TextCovered
<1>1. NoteInit => ReceivedInv
    BY InitSigned DEF NoteInit, ReceivedInv
<1>2. NoteSpec => [](SignedInv /\ OnlySignedOpens)
    BY InitSigned, NextSigned, PTL DEF NoteSpec
<1> QED
    BY <1>1, <1>2, TextCoveredIf, ReceivedInvStep, PTL DEF NoteSpec
=============================================================================
