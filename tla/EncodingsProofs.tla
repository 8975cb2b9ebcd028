-------------------------- MODULE EncodingsProofs ---------------------------
(***************************************************************************)
(* What the run of module Formats checks of leaves, proved for every size  *)
(* of a byte and of a fingerprint, every set of entries, and data tiles of *)
(* any number of leaves.                                                   *)
(***************************************************************************)
EXTENDS Encodings, SequenceTheorems, WellFoundedInduction, TLAPS

-----------------------------------------------------------------------------
(* Numbers.                                                                *)

(* A set of natural numbers that is not empty has a smallest.              *)
LEMMA Smallest ==
    ASSUME NEW I, I \subseteq Nat, I # {}
    PROVE  \E x \in I : \A y \in I : x =< y
<1> DEFINE less == {ss \in Nat \X Nat : ss[1] < ss[2]}
<1>1. IsWellFoundedOn(less, Nat)
    BY NatLessThanWellFounded DEF OpToRel
<1>2. PICK x \in I : \A y \in I : ~ (<<y, x>> \in less)
  <2> HIDE DEF less
  <2> QED  BY <1>1, WFMin
<1>3. ASSUME NEW y \in I
      PROVE  x =< y
  <2>1. x \in Nat /\ y \in Nat /\ <<y, x>> \in Nat \X Nat
      BY <1>2
  <2>2. ~ (y < x)
      BY <1>2, <2>1
  <2> QED  BY <2>1, <2>2
<1> QED
    BY <1>2, <1>3

LEMMA Powers ==
    /\ \A n \in 0 .. 8 : Base^n \in Nat \ {0}
    /\ \A n \in 1 .. 8 : Base^n = Base^(n - 1) * Base
<1>1. ASSUME NEW n \in 1 .. 8
      PROVE  Base^n = Base * Base^(n - 1) /\ Base^(n - 1) \in Nat \ {0}
  <2>1. n - 1 \in 0 .. 7 /\ (n - 1) + 1 = n
      OBVIOUS
  <2> QED  BY <2>1, EncodingsAssumption
<1>2. ASSUME NEW n \in 1 .. 8
      PROVE  Base^n \in Nat \ {0} /\ Base^n = Base^(n - 1) * Base
  <2> DEFINE p == Base^(n - 1)
  <2>1. p \in Nat \ {0} /\ Base \in Nat \ {0} /\ Base^n = Base * p
      BY <1>1, EncodingsAssumption
  <2> HIDE DEF p
  <2>2. Base * p \in Nat \ {0} /\ Base * p = p * Base
      BY <2>1
  <2> QED  BY <2>1, <2>2 DEF p
<1>3. Base^0 \in Nat \ {0}
    BY EncodingsAssumption
<1>4. ASSUME NEW n \in 0 .. 8
      PROVE  n = 0 \/ n \in 1 .. 8
    OBVIOUS
<1> QED
    BY <1>2, <1>3, <1>4

LEMMA DivOfDiv ==
    ASSUME NEW a \in Nat, NEW b \in Nat \ {0}, NEW c \in Nat \ {0}
    PROVE  a \div (b * c) = (a \div b) \div c
    OBVIOUS

LEMMA DivMod ==
    ASSUME NEW a \in Nat, NEW b \in Nat \ {0}
    PROVE  /\ a \div b \in Nat /\ a % b \in 0 .. b - 1
           /\ a = (a \div b) * b + (a % b)
           /\ a < b => a \div b = 0
    OBVIOUS

(* The bytes of a number.                                                  *)
LEMMA UintType ==
    ASSUME NEW v \in Nat, NEW n \in 0 .. 8
    PROVE  /\ Uint(v, n) \in Seq(Octet) /\ Len(Uint(v, n)) = n
           /\ \A i \in 1 .. n : Uint(v, n)[i] = (v \div Base^(n - i)) % Base
<1>1. ASSUME NEW i \in 1 .. n
      PROVE  (v \div Base^(n - i)) % Base \in Octet
  <2>1. n - i \in 0 .. 8
      OBVIOUS
  <2> DEFINE p == Base^(n - i)
  <2>2. p \in Nat \ {0} /\ Base \in Nat \ {0}
      BY <2>1, Powers, EncodingsAssumption
  <2> HIDE DEF p
  <2>3. v \div p \in Nat
      BY <2>2, DivMod
  <2>4. (v \div p) % Base \in 0 .. Base - 1
      BY <2>2, <2>3, DivMod
  <2> QED  BY <2>4 DEF p, Octet
<1> DEFINE u == Uint(v, n)
<1>2. u \in [1 .. n -> Octet] /\ \A i \in 1 .. n : u[i] = (v \div Base^(n - i)) % Base
    BY <1>1 DEF Uint
<1> HIDE DEF u
<1>3. u \in Seq(Octet) /\ Len(u) = n
    BY <1>2
<1> QED
    BY <1>2, <1>3 DEF u

(* What FromUint computes is the last of any sequence of partial results   *)
(* that goes by its rule, as there is only one.                            *)
LEMMA FromUintIs ==
    ASSUME NEW s \in Seq(Octet), NEW F,
           F = [i \in 0 .. Len(s) |-> IF i = 0 THEN 0 ELSE F[i - 1] * Base + s[i]]
    PROVE  FromUint(s) = F[Len(s)]
<1> DEFINE V == CHOOSE g : g = [i \in 0 .. Len(s) |-> IF i = 0 THEN 0 ELSE g[i - 1] * Base + s[i]]
<1>1. FromUint(s) = V[Len(s)]
    BY Zenon DEF FromUint
<1>2. V = [i \in 0 .. Len(s) |-> IF i = 0 THEN 0 ELSE V[i - 1] * Base + s[i]]
    BY Zenon
<1> HIDE DEF V
<1> DEFINE I == {i \in 0 .. Len(s) : V[i] # F[i]}
<1>3. I = {}
  <2> SUFFICES ASSUME I # {}
               PROVE  FALSE
      OBVIOUS
  <2>1. Len(s) \in Nat /\ I \subseteq Nat
      OBVIOUS
  <2>2. PICK i \in I : \A y \in I : i =< y
    <3> HIDE DEF I
    <3> QED  BY <2>1, Smallest
  <2>3. V[0] = 0 /\ F[0] = 0
      BY <1>2, <2>1
  <2>4. i \in 0 .. Len(s) /\ i # 0 /\ i - 1 \in 0 .. Len(s)
      BY <2>1, <2>2, <2>3
  <2>5. V[i - 1] = F[i - 1]
      BY <2>1, <2>2, <2>4
  <2>6. V[i] = V[i - 1] * Base + s[i] /\ F[i] = F[i - 1] * Base + s[i]
      BY <1>2, <2>4
  <2> QED  BY <2>2, <2>5, <2>6
<1>4. Len(s) \in 0 .. Len(s)
    OBVIOUS
<1> QED
    BY <1>1, <1>3, <1>4

(* addUint40 and readUint40, and cryptobyte's others: a number that fits   *)
(* is read back.                                                           *)
LEMMA UintReadBack ==
    ASSUME NEW n \in 0 .. 8, NEW v \in Nat, v < Base^n
    PROVE  FromUint(Uint(v, n)) = v
<1> DEFINE s == Uint(v, n)
           F == [i \in 0 .. n |-> v \div Base^(n - i)]
<1>1. s \in Seq(Octet) /\ Len(s) = n /\ \A i \in 1 .. n : s[i] = (v \div Base^(n - i)) % Base
    BY UintType
<1>2. F[0] = 0
  <2>1. Base^n \in Nat \ {0} /\ n - 0 = n /\ 0 \in 0 .. n
      BY Powers
  <2>2. v \div Base^n = 0
      BY <2>1, DivMod
  <2> QED  BY <2>1, <2>2
<1>3. F[n] = v
  <2>1. Base^(n - n) = 1 /\ n \in 0 .. n
    <3>1. n - n = 0
        OBVIOUS
    <3> QED  BY <3>1, EncodingsAssumption
  <2>2. v \div 1 = v
      OBVIOUS
  <2> QED  BY <2>1, <2>2
<1>4. ASSUME NEW i \in 1 .. n
      PROVE  F[i] = F[i - 1] * Base + s[i]
  <2> DEFINE p == Base^(n - i)
             q == v \div p
  <2>1. n - i \in 0 .. 8 /\ n - (i - 1) \in 1 .. 8 /\ (n - (i - 1)) - 1 = n - i
        /\ i \in 0 .. n /\ i - 1 \in 0 .. n
      OBVIOUS
  <2>2. p \in Nat \ {0} /\ Base \in Nat \ {0} /\ Base^(n - (i - 1)) = p * Base
      BY <2>1, Powers, EncodingsAssumption
  <2>3. F[i] = q /\ F[i - 1] = v \div Base^(n - (i - 1)) /\ s[i] = q % Base
      BY <1>1, <2>1
  <2> HIDE DEF p, F, s
  <2>4. F[i - 1] = q \div Base /\ q \in Nat
    <3>1. v \div (p * Base) = (v \div p) \div Base /\ v \div p \in Nat
        BY <2>2, DivOfDiv, DivMod
    <3> QED  BY <2>2, <2>3, <3>1
  <2> HIDE DEF q
  <2>5. q = (q \div Base) * Base + (q % Base)
      BY <2>2, <2>4, DivMod
  <2> QED  BY <2>3, <2>4, <2>5
<1>5. F = [i \in 0 .. n |-> IF i = 0 THEN 0 ELSE F[i - 1] * Base + s[i]]
  <2>1. ASSUME NEW i \in 0 .. n
        PROVE  F[i] = IF i = 0 THEN 0 ELSE F[i - 1] * Base + s[i]
    <3>1. i = 0 \/ i \in 1 .. n
        OBVIOUS
    <3> HIDE DEF F, s
    <3> QED  BY <1>2, <1>4, <3>1
  <2>2. F = [i \in 0 .. n |-> F[i]]
      OBVIOUS
  <2> HIDE DEF F, s
  <2> QED  BY <2>1, <2>2
<1> HIDE DEF F, s
<1>6. FromUint(s) = F[n]
    BY <1>1, <1>5, FromUintIs
<1> QED
    BY <1>3, <1>6 DEF s

-----------------------------------------------------------------------------
(* Readers.                                                                *)

(* What comes first in a string, and what is left.                         *)
LEMMA TakeDrop ==
    ASSUME NEW S, NEW s \in Seq(S), NEW t \in Seq(S)
    PROVE  /\ SubSeq(s \o t, 1, Len(s)) = s
           /\ SubSeq(s \o t, Len(s) + 1, Len(s \o t)) = t
           /\ s \o t \in Seq(S) /\ Len(s \o t) = Len(s) + Len(t)
<1> DEFINE c == s \o t
           a == SubSeq(c, 1, Len(s))
           b == SubSeq(c, Len(s) + 1, Len(c))
<1>1. /\ c \in Seq(S) /\ Len(c) = Len(s) + Len(t)
      /\ \A i \in 1 .. Len(s) + Len(t) : c[i] = IF i <= Len(s) THEN s[i] ELSE t[i - Len(s)]
    BY ConcatProperties, Zenon
<1>2. Len(s) \in Nat /\ Len(t) \in Nat
    OBVIOUS
<1> HIDE DEF c
<1>3. \A i \in 1 .. Len(c) : c[i] \in S
    BY <1>1
<1>4. a = s
  <2>1. \A i \in 1 .. Len(s) : c[i] \in S
      BY <1>1, <1>2, <1>3
  <2>2. /\ a \in Seq(S) /\ Len(a) = IF 1 <= Len(s) THEN Len(s) - 1 + 1 ELSE 0
        /\ \A i \in 1 .. Len(s) - 1 + 1 : a[i] = c[1 + i - 1]
      BY <1>2, <2>1, SubSeqProperties
  <2> HIDE DEF a
  <2>3. Len(a) = Len(s)
      BY <1>2, <2>2
  <2>4. ASSUME NEW i \in 1 .. Len(a)
        PROVE  a[i] = s[i]
    <3>1. i \in 1 .. Len(s) - 1 + 1 /\ 1 + i - 1 = i /\ i \in 1 .. Len(s) + Len(t) /\ i <= Len(s)
        BY <1>2, <2>3
    <3> QED  BY <1>1, <2>2, <3>1
  <2> QED  BY <2>2, <2>3, <2>4, SeqEqual
<1>5. b = t
  <2>1. \A i \in Len(s) + 1 .. Len(c) : c[i] \in S
      BY <1>1, <1>2, <1>3
  <2>2. Len(s) + 1 \in Int /\ Len(c) \in Int
      BY <1>1, <1>2
  <2>3. /\ b \in Seq(S)
        /\ Len(b) = IF Len(s) + 1 <= Len(c) THEN Len(c) - (Len(s) + 1) + 1 ELSE 0
        /\ \A i \in 1 .. Len(c) - (Len(s) + 1) + 1 : b[i] = c[Len(s) + 1 + i - 1]
      BY <2>1, <2>2, SubSeqProperties
  <2> HIDE DEF b
  <2>4. Len(b) = Len(t)
      BY <1>1, <1>2, <2>3
  <2>5. ASSUME NEW i \in 1 .. Len(b)
        PROVE  b[i] = t[i]
    <3>1. /\ i \in 1 .. Len(c) - (Len(s) + 1) + 1 /\ Len(s) + 1 + i - 1 = Len(s) + i
          /\ Len(s) + i \in 1 .. Len(s) + Len(t) /\ ~(Len(s) + i <= Len(s))
          /\ Len(s) + i - Len(s) = i
        BY <1>1, <1>2, <2>4
    <3>2. b[i] = c[Len(s) + i]
        BY <2>3, <3>1
    <3> QED  BY <1>1, <3>1, <3>2
  <2> QED  BY <2>3, <2>4, <2>5, SeqEqual
<1> QED
    BY <1>1, <1>4, <1>5 DEF c

LEMMA SameRest ==
    ASSUME NEW S, NEW s \in Seq(S), NEW t \in Seq(S), NEW u \in Seq(S), s \o t = s \o u
    PROVE  t = u
<1>1. t = SubSeq(s \o t, Len(s) + 1, Len(s \o t)) /\ u = SubSeq(s \o u, Len(s) + 1, Len(s \o u))
    BY TakeDrop
<1> QED
    BY <1>1

\* Strings of bytes; what is needed of Seq is in the lemmas that follow.
Bytes == Seq(Octet)
s ++ t == s \o t

\* Two ways to cut the same string, the first of them before the second.
Overlap(s, t, d, c) == s ++ t = d ++ c /\ Len(s) <= Len(d)

(* What is between the two cuts.                                           *)
LEMMA CommonPrefix ==
    ASSUME NEW s \in Bytes, NEW t \in Bytes, NEW d \in Bytes, NEW c \in Bytes,
           Overlap(s, t, d, c)
    PROVE  LET u == SubSeq(d, Len(s) + 1, Len(d))
           IN  u \in Bytes /\ d = s ++ u /\ t = u ++ c
<1> USE DEF Bytes, Overlap, ++
<1> DEFINE u == SubSeq(d, Len(s) + 1, Len(d))
           w == s \o t
<1>1. Len(s) \in Nat /\ Len(t) \in Nat /\ Len(d) \in Nat /\ Len(c) \in Nat
    OBVIOUS
<1>2. /\ w \in Seq(Octet) /\ Len(w) = Len(s) + Len(t)
      /\ \A i \in 1 .. Len(s) + Len(t) : w[i] = IF i <= Len(s) THEN s[i] ELSE t[i - Len(s)]
    BY ConcatProperties, Zenon
<1>3. /\ Len(w) = Len(d) + Len(c)
      /\ \A i \in 1 .. Len(d) + Len(c) : w[i] = IF i <= Len(d) THEN d[i] ELSE c[i - Len(d)]
  <2>1. /\ Len(d \o c) = Len(d) + Len(c)
        /\ \A i \in 1 .. Len(d) + Len(c) :
              (d \o c)[i] = IF i <= Len(d) THEN d[i] ELSE c[i - Len(d)]
      BY ConcatProperties, Zenon
  <2>2. w = d \o c
      OBVIOUS
  <2> QED  BY <2>1, <2>2, Zenon
<1> HIDE DEF w
<1>4. SubSeq(d, 1, Len(s)) = s
  <2> DEFINE a == SubSeq(d, 1, Len(s))
  <2>1. \A i \in 1 .. Len(s) : d[i] \in Octet
      BY <1>1
  <2>2. /\ a \in Seq(Octet) /\ Len(a) = IF 1 <= Len(s) THEN Len(s) - 1 + 1 ELSE 0
        /\ \A i \in 1 .. Len(s) - 1 + 1 : a[i] = d[1 + i - 1]
      BY <1>1, <2>1, SubSeqProperties
  <2> HIDE DEF a
  <2>3. Len(a) = Len(s)
      BY <1>1, <2>2
  <2>4. ASSUME NEW i \in 1 .. Len(a)
        PROVE  a[i] = s[i]
    <3>1. /\ i \in 1 .. Len(s) - 1 + 1 /\ 1 + i - 1 = i /\ i <= Len(s) /\ i <= Len(d)
          /\ i \in 1 .. Len(s) + Len(t) /\ i \in 1 .. Len(d) + Len(c)
        BY <1>1, <2>3
    <3>2. a[i] = d[i]
        BY <2>2, <3>1
    <3>3. w[i] = s[i] /\ w[i] = d[i]
        BY <1>2, <1>3, <3>1
    <3> QED  BY <3>2, <3>3
  <2>5. a = s
      BY <2>2, <2>3, <2>4, SeqEqual
  <2> QED  BY <2>5 DEF a
<1>5. d = s \o u /\ u \in Seq(Octet)
  <2>1. SubSeq(d, 1, Len(s)) \o u = SubSeq(d, 1, Len(d))
    <3>1. 1 \in 1 .. Len(d) + 1 /\ Len(s) \in 1 - 1 .. Len(d) /\ Len(d) \in Len(s) .. Len(d)
        BY <1>1
    <3> QED  BY <3>1, ConcatAdjacentSubSeq
  <2>2. SubSeq(d, 1, Len(d)) = d
      BY SubSeqFull
  <2>3. u \in Seq(Octet)
    <3>1. \A i \in Len(s) + 1 .. Len(d) : d[i] \in Octet
        BY <1>1
    <3>2. Len(s) + 1 \in Int /\ Len(d) \in Int
        BY <1>1
    <3> QED  BY <3>1, <3>2, SubSeqProperties
  <2> QED  BY <1>4, <2>1, <2>2, <2>3
<1> HIDE DEF u
<1>6. t = u \o c
  <2>1. s \o t = s \o (u \o c)
    <3>1. (s \o u) \o c = s \o (u \o c)
        BY <1>5, ConcatAssociative
    <3> QED  BY <1>5, <3>1
  <2>2. u \o c \in Seq(Octet)
      BY <1>5, ConcatProperties
  <2> QED  BY <2>1, <2>2, SameRest
<1> QED
    BY <1>5, <1>6 DEF u

LEMMA Concatenation ==
    ASSUME NEW s \in Bytes, NEW t \in Bytes
    PROVE  /\ s ++ t \in Bytes /\ Len(s ++ t) = Len(s) + Len(t)
           /\ s ++ <<>> = s /\ <<>> ++ s = s
           /\ Len(s) \in Nat /\ Len(t) \in Nat
    BY ConcatProperties, ConcatEmptySeq DEF Bytes, ++

LEMMA EmptyBytes == <<>> \in Bytes /\ Len(<<>>) = 0 /\ \A s \in Bytes : Len(s) = 0 => s = <<>>
    BY EmptySeq DEF Bytes

LEMMA LenBytes == \A s \in Bytes : Len(s) \in Nat
    BY DEF Bytes

LEMMA Associative ==
    ASSUME NEW s \in Bytes, NEW t \in Bytes, NEW u \in Bytes
    PROVE  (s ++ t) ++ u = s ++ (t ++ u)
    BY ConcatAssociative DEF Bytes, ++

LEMMA BytesTakeDrop ==
    ASSUME NEW s \in Bytes, NEW t \in Bytes
    PROVE  /\ SubSeq(s ++ t, 1, Len(s)) = s
           /\ SubSeq(s ++ t, Len(s) + 1, Len(s ++ t)) = t
    BY TakeDrop DEF Bytes, ++

LEMMA BytesSameRest ==
    ASSUME NEW s \in Bytes, NEW t \in Bytes, NEW u \in Bytes, s ++ t = s ++ u
    PROVE  t = u
    BY SameRest DEF Bytes, ++

LEMMA BytesUint ==
    ASSUME NEW v \in Nat, NEW n \in 0 .. 8
    PROVE  Uint(v, n) \in Bytes /\ Len(Uint(v, n)) = n
    BY UintType DEF Bytes

\* A reader that has just read s.
Reader(s, rest) == [ok |-> TRUE, got |-> s, rest |-> rest]

\* The bytes of c are missing at the end of what there is to read.  A reader
\* that has read s, after which t should come, failed, if not even t is
\* all of c's; or it has all of s, and t lacks c.
After(r, s, t, c) ==
    \/ r = Failed /\ Len(t) < Len(c)
    \/ \E d \in Bytes : t = d ++ c /\ r = Reader(s, d)

LEMMA ReaderFields ==
    ASSUME NEW s, NEW d
    PROVE  Reader(s, d).ok /\ Reader(s, d).got = s /\ Reader(s, d).rest = d
    BY DEF Reader

LEMMA FailedFields == ~Failed.ok /\ Failed.got = <<>> /\ Failed.rest = <<>>
    BY DEF Failed

(* A reader that failed goes on to fail.                                   *)
LEMMA StaysFailed ==
    /\ \A n : Read(Failed, n) = Failed
    /\ \A n : ReadLengthPrefixed(Failed, n) = Failed
<1>1. \A n : Read(Failed, n) = Failed
    BY FailedFields, Zenon DEF Read
<1> QED
    BY <1>1, Zenon DEF ReadLengthPrefixed

(* cryptobyte.String.ReadBytes.                                            *)
LEMMA ReadAfter ==
    ASSUME NEW r, NEW g, NEW s \in Bytes, NEW t \in Bytes, NEW c \in Bytes,
           After(r, g, s ++ t, c)
    PROVE  After(Read(r, Len(s)), s, t, c)
<1>1. CASE r = Failed /\ Len(s ++ t) < Len(c)
  <2>1. Len(t) < Len(c)
    <3>1. Len(s ++ t) = Len(s) + Len(t) /\ Len(s) \in Nat /\ Len(t) \in Nat
        BY Concatenation
    <3>2. Len(c) \in Nat
        BY Concatenation
    <3> QED  BY <1>1, <3>1, <3>2
  <2> QED  BY <1>1, <2>1, StaysFailed DEF After
<1>2. ASSUME NEW d \in Bytes, s ++ t = d ++ c, r = Reader(g, d)
      PROVE  After(Read(r, Len(s)), s, t, c)
  <2>1. r.ok /\ r.rest = d /\ Len(s) \in Nat /\ Len(d) \in Nat
    <3>1. Len(s) \in Nat /\ Len(d) \in Nat
        BY Concatenation
    <3> QED  BY <1>2, <3>1, ReaderFields, Zenon
  <2>2. CASE Len(s) <= Len(d)
    <3> DEFINE u == SubSeq(d, Len(s) + 1, Len(d))
    <3>1. u \in Bytes /\ d = s ++ u /\ t = u ++ c
      <4>1. Overlap(s, t, d, c)
          BY <1>2, <2>2 DEF Overlap
      <4> QED  BY <4>1, CommonPrefix
    <3> HIDE DEF u
    <3>2. SubSeq(d, 1, Len(s)) = s /\ SubSeq(d, Len(s) + 1, Len(d)) = u
        BY <3>1, BytesTakeDrop
    <3>3. Len(r.rest) >= Len(s)
        BY <2>1, <2>2
    <3>4. Read(r, Len(s)) = [ok |-> TRUE, got |-> SubSeq(r.rest, 1, Len(s)),
                             rest |-> SubSeq(r.rest, Len(s) + 1, Len(r.rest))]
        BY <2>1, <3>3, Zenon DEF Read
    <3>5. Read(r, Len(s)) = Reader(s, u)
        BY <2>1, <3>2, <3>4, Zenon DEF Reader
    <3> QED  BY <3>1, <3>5 DEF After
  <2>3. CASE ~(Len(s) <= Len(d))
    <3>1. ~(Len(r.rest) >= Len(s))
        BY <2>1, <2>3
    <3>2. Read(r, Len(s)) = Failed
        BY <3>1, Zenon DEF Read
    <3>3. Len(t) < Len(c)
      <4>1. Len(s ++ t) = Len(s) + Len(t) /\ Len(t) \in Nat
          BY Concatenation
      <4>2. Len(d ++ c) = Len(d) + Len(c) /\ Len(c) \in Nat
          BY Concatenation
      <4>3. Len(s ++ t) = Len(d ++ c)
          BY <1>2
      <4> QED  BY <2>1, <2>3, <4>1, <4>2, <4>3
    <3> QED  BY <3>2, <3>3 DEF After
  <2> QED  BY <2>2, <2>3
<1> QED
    BY <1>1, <1>2 DEF After

(* A string and its length, of n bytes.                                    *)
LEMMA PrefixedType ==
    ASSUME NEW n \in 0 .. 8, NEW s \in Bytes
    PROVE  /\ LengthPrefixed(n, s) \in Bytes /\ Len(LengthPrefixed(n, s)) = n + Len(s)
           /\ Uint(Len(s), n) \in Bytes /\ Len(Uint(Len(s), n)) = n
<1>1. Len(s) \in Nat
    BY Concatenation
<1>2. Uint(Len(s), n) \in Bytes /\ Len(Uint(Len(s), n)) = n
    BY <1>1, BytesUint
<1> QED
    BY <1>2, Concatenation DEF LengthPrefixed, ++

LEMMA ReadPrefixedAfter ==
    ASSUME NEW n \in 0 .. 8, NEW r, NEW g, NEW s \in Bytes, NEW t \in Bytes,
           NEW c \in Bytes, Len(s) < Base^n, After(r, g, LengthPrefixed(n, s) ++ t, c)
    PROVE  After(ReadLengthPrefixed(r, n), s, t, c)
<1> DEFINE u == Uint(Len(s), n)
           len == Read(r, n)
<1>1. u \in Bytes /\ Len(u) = n /\ Len(s) \in Nat
  <2>1. Len(s) \in Nat
      BY Concatenation
  <2> QED  BY <2>1, BytesUint
<1>2. FromUint(u) = Len(s)
    BY <1>1, UintReadBack
<1>3. LengthPrefixed(n, s) ++ t = u ++ (s ++ t) /\ s ++ t \in Bytes
  <2>1. LengthPrefixed(n, s) = u ++ s
      BY DEF LengthPrefixed, ++
  <2> HIDE DEF u
  <2>3. (u ++ s) ++ t = u ++ (s ++ t)
      BY <1>1, Associative
  <2>2. (u ++ s) ++ t = u ++ (s ++ t) /\ s ++ t \in Bytes
      BY <2>3, Concatenation
  <2> QED  BY <2>1, <2>2
<1> HIDE DEF u
<1>4. After(len, u, s ++ t, c)
    BY <1>1, <1>3, ReadAfter
<1>5. FromUint(len.got) = Len(s) \/ len = Failed
    BY <1>2, <1>4, ReaderFields DEF After
<1>6. ReadLengthPrefixed(r, n) = Read(len, Len(s))
  <2>1. ReadLengthPrefixed(r, n) = Read(len, FromUint(len.got))
      BY Zenon DEF ReadLengthPrefixed
  <2> HIDE DEF len
  <2> QED  BY <1>5, <2>1, StaysFailed, Zenon
<1> HIDE DEF len
<1>7. After(Read(len, Len(s)), s, t, c)
    BY <1>4, ReadAfter
<1> QED
    BY <1>6, <1>7

(* All that there is, or less.                                             *)
LEMMA StringAfter ==
    ASSUME NEW d \in Bytes, NEW c
    PROVE  After(String(d), <<>>, d ++ c, c)
    BY DEF After, String, Reader

-----------------------------------------------------------------------------
(* Fingerprints, one after the other.                                      *)

(* What FlattenSeq computes is the last of any sequence of partial results *)
(* that goes by its rule.                                                  *)
LEMMA FlattenIs ==
    ASSUME NEW q, Len(q) \in Nat \ {0}, NEW F,
           F = [i \in 1 .. Len(q) |-> IF i = 1 THEN q[i] ELSE F[i - 1] \o q[i]]
    PROVE  FlattenSeq(q) = F[Len(q)]
<1> DEFINE V == CHOOSE g : g = [i \in 1 .. Len(q) |-> IF i = 1 THEN q[i] ELSE g[i - 1] \o q[i]]
<1>1. FlattenSeq(q) = V[Len(q)]
  <2>1. Len(q) # 0
      OBVIOUS
  <2> QED  BY <2>1, Zenon DEF FlattenSeq
<1>2. V = [i \in 1 .. Len(q) |-> IF i = 1 THEN q[i] ELSE V[i - 1] \o q[i]]
    BY Zenon
<1> HIDE DEF V
<1> DEFINE I == {i \in 1 .. Len(q) : V[i] # F[i]}
<1>3. I = {}
  <2> SUFFICES ASSUME I # {}
               PROVE  FALSE
      OBVIOUS
  <2>1. I \subseteq Nat
      OBVIOUS
  <2>2. PICK i \in I : \A y \in I : i =< y
    <3> HIDE DEF I
    <3> QED  BY <2>1, Smallest
  <2>3. V[1] = q[1] /\ F[1] = q[1]
    <3>1. 1 \in 1 .. Len(q)
        OBVIOUS
    <3> QED  BY <1>2, <3>1, Zenon
  <2>4. i \in 1 .. Len(q) /\ i # 1 /\ i - 1 \in 1 .. Len(q)
      BY <2>2, <2>3
  <2>5. V[i - 1] = F[i - 1]
      BY <2>2, <2>4
  <2>6. V[i] = V[i - 1] \o q[i] /\ F[i] = F[i - 1] \o q[i]
      BY <1>2, <2>4, Zenon
  <2>7. V[i] = F[i]
      BY <2>5, <2>6, Zenon
  <2> QED  BY <2>2, <2>7
<1>4. Len(q) \in 1 .. Len(q)
    OBVIOUS
<1> QED
    BY <1>1, <1>3, <1>4

LEMMA PlaceOf ==
    ASSUME NEW N \in Nat \ {0}, NEW a \in Nat, NEW j \in 1 .. N
    PROVE  /\ ((a * N + j) - 1) \div N = a /\ (((a * N + j) - 1) % N) + 1 = j
           /\ a * N + j \in Nat \ {0}
    OBVIOUS

LEMMA PlaceIs ==
    ASSUME NEW N \in Nat \ {0}, NEW m \in Nat, NEW k \in 1 .. m * N
    PROVE  \E a \in 0 .. m - 1, j \in 1 .. N : k = a * N + j
<1> DEFINE a == (k - 1) \div N
           j == ((k - 1) % N) + 1
<1>1. k - 1 \in Nat
    OBVIOUS
<1>2. a \in Nat /\ j \in 1 .. N /\ k = a * N + j
    BY <1>1, DivMod
<1> HIDE DEF a, j
<1>3. a < m
    BY <1>2
<1>4. a \in 0 .. m - 1
    BY <1>2, <1>3
<1> QED
    BY <1>2, <1>4, Zenon

(* The chain of a leaf is read back as the fingerprints it was written of. *)
LEMMA FingerprintsReadBack ==
    ASSUME NEW q \in Seq(Fingerprint)
    PROVE  /\ FlattenSeq(q) \in Bytes /\ Len(FlattenSeq(q)) = Len(q) * FingerprintSize
           /\ Fingerprints(FlattenSeq(q)) = q
           /\ Len(FlattenSeq(q)) % FingerprintSize = 0
<1> DEFINE N == FingerprintSize
           m == Len(q)
           f == FlattenSeq(q)
           F == [i \in 1 .. m |->
                    [k \in 1 .. i * N |-> q[((k - 1) \div N) + 1][((k - 1) % N) + 1]]]
<1>1. N \in Nat \ {0} /\ m \in Nat /\ q \in [1 .. m -> Fingerprint]
    BY EncodingsAssumption
<1>2. ASSUME NEW i \in 1 .. m, NEW j \in 1 .. N
      PROVE  q[i] \in Seq(Octet) /\ Len(q[i]) = N /\ q[i][j] \in Octet
    BY <1>1 DEF Fingerprint
<1> HIDE DEF N, m
<1>3. ASSUME NEW i \in 1 .. m, NEW a \in 0 .. i - 1, NEW j \in 1 .. N
      PROVE  a * N + j \in 1 .. i * N /\ F[i][a * N + j] = q[a + 1][j]
  <2>1. a \in Nat /\ i \in Nat /\ i - 1 \in Nat /\ i - 1 - a \in Nat /\ j \in Nat
      BY <1>1
  <2>2. a * N + j \in 1 .. i * N
    <3>1. i * N = a * N + (i - 1 - a) * N + N /\ (i - 1 - a) * N \in Nat
        BY <1>1, <2>1
    <3> DEFINE p == a * N
               w == (i - 1 - a) * N
               z == i * N
    <3>2. p \in Nat /\ w \in Nat /\ z = p + w + N
        BY <1>1, <2>1, <3>1
    <3> HIDE DEF p, w, z
    <3>3. p + j \in 1 .. z
        BY <1>1, <3>2
    <3> QED  BY <3>3 DEF p, z
  <2>3. ((a * N + j) - 1) \div N = a /\ (((a * N + j) - 1) % N) + 1 = j
      BY <1>1, <2>1, PlaceOf
  <2> DEFINE k == a * N + j
  <2>4. F[i] = [x \in 1 .. i * N |-> q[((x - 1) \div N) + 1][((x - 1) % N) + 1]]
      BY Zenon
  <2> HIDE DEF F
  <2>5. F[i][k] = q[((k - 1) \div N) + 1][((k - 1) % N) + 1]
    <3>1. k \in 1 .. i * N
        BY <2>2
    <3> HIDE DEF k
    <3> QED  BY <2>4, <3>1, Zenon
  <2>6. F[i][k] = q[a + 1][j]
    <3>1. (k - 1) \div N = a /\ ((k - 1) % N) + 1 = j
        BY <2>3
    <3> HIDE DEF k
    <3> QED  BY <2>5, <3>1, Zenon
  <2> QED  BY <2>2, <2>6
<1>12. F = [i \in 1 .. m |-> F[i]] /\ \A i \in 1 .. m : F[i] = [k \in 1 .. i * N |-> F[i][k]]
  <2>1. ASSUME NEW i \in 1 .. m
        PROVE  F[i] = [k \in 1 .. i * N |-> F[i][k]]
    <3>1. F[i] = [x \in 1 .. i * N |-> q[((x - 1) \div N) + 1][((x - 1) % N) + 1]]
        BY Zenon
    <3> HIDE DEF F
    <3> QED  BY <3>1, Zenon
  <2> QED  BY <2>1, Zenon
<1> HIDE DEF F
<1>4. ASSUME NEW i \in 1 .. m
      PROVE  F[i] \in Seq(Octet) /\ Len(F[i]) = i * N
  <2>1. i \in Nat /\ i * N \in Nat /\ F[i] = [k \in 1 .. i * N |-> F[i][k]]
    <3>1. i \in Nat /\ i * N \in Nat
        BY <1>1
    <3> QED  BY <1>12, <3>1, Zenon
  <2>2. ASSUME NEW k \in 1 .. i * N
        PROVE  F[i][k] \in Octet
    <3>1. PICK a \in 0 .. i - 1, j \in 1 .. N : k = a * N + j
        BY <1>1, <2>1, PlaceIs
    <3>2. F[i][a * N + j] = q[a + 1][j] /\ a + 1 \in 1 .. m
        BY <1>1, <1>3
    <3> QED  BY <1>2, <3>1, <3>2
  <2> DEFINE z == i * N
  <2>3. z \in Nat /\ F[i] = [k \in 1 .. z |-> F[i][k]] /\ \A k \in 1 .. z : F[i][k] \in Octet
      BY <2>1, <2>2
  <2> HIDE DEF z
  <2>4. F[i] \in Seq(Octet) /\ Len(F[i]) = z
      BY <2>3
  <2> QED  BY <2>4 DEF z
<1>5. ASSUME 1 \in 1 .. m
      PROVE  F[1] = q[1]
  <2>1. F[1] \in Seq(Octet) /\ Len(F[1]) = 1 * N /\ 1 * N = N
      BY <1>1, <1>4, <1>5
  <2>2. q[1] \in Seq(Octet) /\ Len(q[1]) = N
    <3>1. 1 \in 1 .. N
        BY <1>1
    <3> QED  BY <1>2, <1>5, <3>1
  <2>3. ASSUME NEW j \in 1 .. N
        PROVE  F[1][j] = q[1][j]
    <3>1. 0 \in 0 .. 1 - 1 /\ 0 * N + j = j /\ 0 + 1 = 1
        BY <1>1
    <3>2. F[1][0 * N + j] = q[0 + 1][j]
        BY <1>3, <1>5, <3>1
    <3> QED  BY <3>1, <3>2
  <2> QED  BY <2>1, <2>2, <2>3, SeqEqual
<1>6. ASSUME NEW i \in 2 .. m
      PROVE  F[i] = F[i - 1] \o q[i]
  <2> DEFINE c == F[i - 1] \o q[i]
             z == (i - 1) * N
  <2>1. i \in 1 .. m /\ i - 1 \in 1 .. m /\ i \in Nat /\ i - 1 \in Nat
      BY <1>1
  <2>2. F[i] \in Seq(Octet) /\ Len(F[i]) = i * N /\ F[i - 1] \in Seq(Octet) /\ Len(F[i - 1]) = z
      BY <1>4, <2>1
  <2>3. q[i] \in Seq(Octet) /\ Len(q[i]) = N
    <3>1. 1 \in 1 .. N
        BY <1>1
    <3> QED  BY <1>2, <2>1, <3>1
  <2>4. i * N = z + N /\ z \in Nat
      BY <1>1, <2>1
  <2>5. /\ c \in Seq(Octet) /\ Len(c) = z + N
        /\ \A k \in 1 .. z + N : c[k] = IF k <= z THEN F[i - 1][k] ELSE q[i][k - z]
    <3> DEFINE x == F[i - 1]
               y == q[i]
    <3>1. x \in Seq(Octet) /\ Len(x) = z /\ y \in Seq(Octet) /\ Len(y) = N
        BY <2>2, <2>3
    <3> HIDE DEF x, y, z
    <3>2. /\ x \o y \in Seq(Octet) /\ Len(x \o y) = Len(x) + Len(y)
          /\ \A k \in 1 .. Len(x) + Len(y) :
                (x \o y)[k] = IF k <= Len(x) THEN x[k] ELSE y[k - Len(x)]
        BY <3>1, ConcatProperties, Zenon
    <3> QED  BY <3>1, <3>2, Zenon DEF x, y
  <2> HIDE DEF c
  <2>6. ASSUME NEW k \in 1 .. z + N
        PROVE  F[i][k] = c[k]
    <3>5. k \in 1 .. i * N
        BY <2>4
    <3>1. PICK a \in 0 .. i - 1, j \in 1 .. N : k = a * N + j
        BY <1>1, <2>1, <3>5, PlaceIs
    <3>2. F[i][k] = q[a + 1][j]
        BY <1>3, <2>1, <3>1
    <3>3. CASE a = i - 1
      <4>1. k = z + j /\ a + 1 = i
          BY <2>1, <3>1, <3>3
      <4> HIDE DEF z
      <4>2. ~(k <= z) /\ k - z = j
          BY <1>1, <2>4, <4>1
      <4>3. c[k] = q[i][j]
          BY <2>5, <4>2, Zenon
      <4> QED  BY <3>2, <4>1, <4>3
    <3>4. CASE a # i - 1
      <4>1. a \in 0 .. (i - 1) - 1
          BY <2>1, <3>4
      <4>2. k \in 1 .. z /\ F[i - 1][k] = q[a + 1][j]
          BY <1>3, <2>1, <3>1, <4>1
      <4> HIDE DEF z
      <4>3. k <= z
          BY <2>4, <4>2
      <4>4. c[k] = F[i - 1][k]
          BY <2>5, <4>3, Zenon
      <4> QED  BY <3>2, <4>2, <4>4
    <3> QED  BY <3>3, <3>4
  <2> HIDE DEF z
  <2>7. F[i] = c
      BY <2>2, <2>4, <2>5, <2>6, SeqEqual
  <2> QED  BY <2>7 DEF c
<1>7. /\ f \in Seq(Octet) /\ Len(f) = m * N
      /\ \A a \in 0 .. m - 1, j \in 1 .. N : f[a * N + j] = q[a + 1][j]
  <2>1. CASE m = 0
    <3>1. q = <<>> /\ f = <<>>
      <4>1. Len(q) = 0
          BY <2>1 DEF m
      <4>2. f = q
          BY <4>1, Zenon DEF FlattenSeq
      <4> QED  BY <4>1, <4>2, EmptySeq
    <3>2. m * N = 0 /\ 0 .. m - 1 = {}
        BY <1>1, <2>1
    <3>3. <<>> \in Seq(Octet) /\ Len(<<>>) = 0
        BY EmptySeq
    <3> HIDE DEF f
    <3> QED  BY <3>1, <3>2, <3>3, Zenon
  <2>2. CASE m # 0
    <3>1. F = [i \in 1 .. m |-> IF i = 1 THEN q[i] ELSE F[i - 1] \o q[i]]
      <4>1. F = [i \in 1 .. m |-> F[i]]
          BY <1>12
      <4>2. ASSUME NEW i \in 1 .. m
            PROVE  F[i] = IF i = 1 THEN q[i] ELSE F[i - 1] \o q[i]
        <5>1. i = 1 \/ i \in 2 .. m
            BY <1>1
        <5> QED  BY <1>5, <1>6, <5>1, Zenon
      <4> QED  BY <4>1, <4>2, Zenon
    <3>2. f = F[m]
      <4>1. Len(q) \in Nat \ {0}
          BY <1>1, <2>2 DEF m
      <4> QED  BY <3>1, <4>1, FlattenIs DEF m
    <3>3. m \in 1 .. m
        BY <1>1, <2>2
    <3>4. F[m] \in Seq(Octet) /\ Len(F[m]) = m * N
        BY <1>4, <3>3
    <3>5. \A a \in 0 .. m - 1, j \in 1 .. N : F[m][a * N + j] = q[a + 1][j]
        BY <1>3, <3>3, Zenon
    <3> HIDE DEF f
    <3> QED  BY <3>2, <3>4, <3>5, Zenon
  <2> QED  BY <2>1, <2>2
<1> HIDE DEF f
<1>8. Len(f) \div N = m /\ Len(f) % N = 0
    BY <1>1, <1>7
<1>9. ASSUME NEW i \in 1 .. m
      PROVE  SubSeq(f, (i - 1) * N + 1, i * N) = q[i]
  <2> DEFINE z == (i - 1) * N
             s == SubSeq(f, z + 1, z + N)
  <2>1. i * N = z + N /\ z \in Nat /\ z + N \in 0 .. m * N
    <3>1. i * N = z + N /\ z \in Nat
        BY <1>1
    <3>2. m * N = i * N + (m - i) * N /\ (m - i) * N \in Nat
        BY <1>1
    <3> DEFINE w == (m - i) * N
               x == m * N
               y == i * N
    <3>3. w \in Nat /\ x = y + w /\ y = z + N
        BY <3>1, <3>2
    <3> HIDE DEF w, x, y, z
    <3>4. z + N \in 0 .. x
        BY <1>1, <3>1, <3>3
    <3> QED  BY <3>1, <3>4 DEF x
  <2>2. q[i] \in Seq(Octet) /\ Len(q[i]) = N
    <3>1. 1 \in 1 .. N
        BY <1>1
    <3> QED  BY <1>2, <3>1
  <2>3. \A j \in 1 .. N : f[z + j] = q[i][j]
    <3>1. i - 1 \in 0 .. m - 1 /\ (i - 1) + 1 = i
        BY <1>1
    <3> QED  BY <1>7, <3>1
  <2> HIDE DEF z
  <2>4. s \in Seq(Octet) /\ Len(s) = N /\ \A j \in 1 .. N : s[j] = f[z + j]
    <3> DEFINE x == z + 1
               y == z + N
    <3>1. \A k \in x .. y : f[k] \in Octet
      <4> DEFINE w == m * N
      <4>1. w = Len(f) /\ y <= w /\ y \in Nat
          BY <1>7, <2>1
      <4> HIDE DEF w
      <4>2. \A k \in 1 .. Len(f) : f[k] \in Octet
          BY <1>7
      <4> QED  BY <1>1, <2>1, <4>1, <4>2
    <3>2. x \in Int /\ y \in Int /\ y - x + 1 = N /\ x <= y
        BY <1>1, <2>1
    <3>4. \A k \in 1 .. N : x + k - 1 = z + k
        BY <1>1, <2>1
    <3> HIDE DEF x, y
    <3> DEFINE v == SubSeq(f, x, y)
    <3>3. /\ v \in Seq(Octet)
          /\ Len(v) = IF x <= y THEN y - x + 1 ELSE 0
          /\ \A k \in 1 .. y - x + 1 : v[k] = f[x + k - 1]
        BY <3>1, <3>2, SubSeqProperties
    <3>5. s = v
        BY DEF x, y
    <3> HIDE DEF v, s
    <3> QED  BY <3>2, <3>3, <3>4, <3>5
  <2> HIDE DEF s
  <2>5. s = q[i]
      BY <2>2, <2>3, <2>4, SeqEqual
  <2> QED  BY <2>1, <2>5 DEF s, z
<1>10. Fingerprints(f) = [i \in 1 .. m |-> SubSeq(f, (i - 1) * N + 1, i * N)]
  <2>1. Fingerprints(f) = [i \in 1 .. (Len(f) \div N) |-> SubSeq(f, (i - 1) * N + 1, i * N)]
      BY Zenon DEF Fingerprints, N
  <2> QED  BY <1>8, <2>1, Zenon
<1>11. Fingerprints(f) = q
  <2>1. q = [i \in 1 .. m |-> q[i]]
      BY <1>1
  <2> QED  BY <1>9, <1>10, <2>1, Zenon
<1> QED
    BY <1>7, <1>8, <1>11 DEF f, m, N, Bytes

-----------------------------------------------------------------------------
(* Leaves.                                                                 *)

LEMMA Associative4 ==
    ASSUME NEW s \in Bytes, NEW t \in Bytes, NEW u \in Bytes, NEW v \in Bytes
    PROVE  ((s ++ t) ++ u) ++ v = s ++ (t ++ (u ++ v)) /\ u ++ v \in Bytes /\ t ++ (u ++ v) \in Bytes
           /\ (s ++ t) ++ u \in Bytes
<1>1. s ++ t \in Bytes /\ u ++ v \in Bytes
    BY Concatenation
<1>2. ((s ++ t) ++ u) ++ v = (s ++ t) ++ (u ++ v) /\ (s ++ t) ++ (u ++ v) = s ++ (t ++ (u ++ v))
    BY <1>1, Associative
<1>3. t ++ (u ++ v) \in Bytes /\ (s ++ t) ++ u \in Bytes
    BY <1>1, Concatenation
<1> QED
    BY <1>1, <1>2, <1>3

(* What EntriesAssumption says of the fields of an entry.                  *)
LEMMA EntryFits ==
    ASSUME NEW e \in Entries
    PROVE  /\ e.certificate \in Bytes /\ Len(e.certificate) < Base^3
           /\ e.preCertificate \in Bytes /\ Len(e.preCertificate) < Base^3
           /\ e.issuerKeyHash \in Bytes /\ Len(e.issuerKeyHash) = FingerprintSize
           /\ e.isPrecert \in BOOLEAN
           /\ FlattenSeq(e.fingerprints) \in Bytes /\ Len(FlattenSeq(e.fingerprints)) < Base^2
           /\ Fingerprints(FlattenSeq(e.fingerprints)) = e.fingerprints
           /\ Len(FlattenSeq(e.fingerprints)) % FingerprintSize = 0
           /\ e.timestamp \in Nat /\ e.timestamp <= MaxInt64 /\ e.timestamp < Base^8
           /\ e = [certificate |-> e.certificate, isPrecert |-> e.isPrecert,
                   issuerKeyHash |-> IF e.isPrecert THEN e.issuerKeyHash ELSE ZeroFingerprint,
                   preCertificate |-> IF e.isPrecert THEN e.preCertificate ELSE <<>>,
                   fingerprints |-> e.fingerprints,
                   leafIndex |-> e.leafIndex, timestamp |-> e.timestamp]
<1>1. /\ e \in [certificate : Seq(Octet), isPrecert : BOOLEAN, issuerKeyHash : Fingerprint,
                preCertificate : Seq(Octet), fingerprints : Seq(Fingerprint),
                leafIndex : Int, timestamp : 0 .. MaxInt64]
      /\ Len(e.certificate) < Base^3 /\ Len(e.preCertificate) < Base^3
      /\ Len(e.fingerprints) * FingerprintSize < Base^2
      /\ e.isPrecert \/ (e.issuerKeyHash = ZeroFingerprint /\ e.preCertificate = <<>>)
    BY EntriesAssumption, Zenon
<1>2. /\ e.certificate \in Seq(Octet) /\ e.preCertificate \in Seq(Octet) /\ e.isPrecert \in BOOLEAN
      /\ e.issuerKeyHash \in Fingerprint /\ e.fingerprints \in Seq(Fingerprint)
      /\ e.timestamp \in 0 .. MaxInt64
    BY <1>1, Zenon
<1>3. e.issuerKeyHash \in Bytes /\ Len(e.issuerKeyHash) = FingerprintSize
    BY <1>2, EncodingsAssumption DEF Fingerprint, Bytes
<1>4. e.timestamp \in Nat /\ e.timestamp <= MaxInt64 /\ e.timestamp < Base^8
  <2> DEFINE p == Base^8
  <2>1. p \in Nat \ {0} /\ MaxInt64 = (p \div 2) - 1
    <3>1. 8 \in 0 .. 8
        OBVIOUS
    <3> QED  BY <3>1, Powers DEF MaxInt64
  <2> HIDE DEF p
  <2>2. e.timestamp \in Nat /\ e.timestamp <= MaxInt64 /\ e.timestamp < p
      BY <1>2, <2>1
  <2> QED  BY <2>2 DEF p
<1>5. e = [certificate |-> e.certificate, isPrecert |-> e.isPrecert,
           issuerKeyHash |-> e.issuerKeyHash, preCertificate |-> e.preCertificate,
           fingerprints |-> e.fingerprints,
           leafIndex |-> e.leafIndex, timestamp |-> e.timestamp]
    BY <1>1, Zenon
<1>6. /\ e.issuerKeyHash = IF e.isPrecert THEN e.issuerKeyHash ELSE ZeroFingerprint
      /\ e.preCertificate = IF e.isPrecert THEN e.preCertificate ELSE <<>>
    BY <1>1, Zenon
<1>7. /\ FlattenSeq(e.fingerprints) \in Bytes /\ Len(FlattenSeq(e.fingerprints)) < Base^2
      /\ Fingerprints(FlattenSeq(e.fingerprints)) = e.fingerprints
      /\ Len(FlattenSeq(e.fingerprints)) % FingerprintSize = 0
  <2> DEFINE q == e.fingerprints
  <2>1. q \in Seq(Fingerprint) /\ Len(q) * FingerprintSize < Base^2
      BY <1>1, <1>2, Zenon
  <2> HIDE DEF q
  <2>2. /\ FlattenSeq(q) \in Bytes /\ Len(FlattenSeq(q)) = Len(q) * FingerprintSize
        /\ Fingerprints(FlattenSeq(q)) = q /\ Len(FlattenSeq(q)) % FingerprintSize = 0
      BY <2>1, FingerprintsReadBack
  <2> QED  BY <2>1, <2>2, Zenon DEF q
<1> QED
    BY <1>1, <1>2, <1>3, <1>4, <1>5, <1>6, <1>7, Zenon DEF Bytes

(* MarshalExtensions: the type, the length and the index.                  *)
LEMMA ExtensionsShape ==
    ASSUME NEW x, InRange(x)
    PROVE  /\ x \in Nat /\ x < Base^5
           /\ Uint(0, 1) \in Bytes /\ Len(Uint(0, 1)) = 1 /\ FromUint(Uint(0, 1)) = 0
           /\ Uint(x, 5) \in Bytes /\ Len(Uint(x, 5)) = 5 /\ FromUint(Uint(x, 5)) = x
           /\ Len(Uint(x, 5)) < Base^2
           /\ LengthPrefixed(2, Uint(x, 5)) \in Bytes
           /\ MarshalExtensions(x) = Uint(0, 1) ++ LengthPrefixed(2, Uint(x, 5))
           /\ MarshalExtensions(x) \in Bytes /\ Len(MarshalExtensions(x)) = 8
           /\ Len(MarshalExtensions(x)) < Base^2
<1>1. x \in Nat /\ x < Base^5
  <2> DEFINE p == Base^5
  <2>1. p \in Nat \ {0} /\ x \in 0 .. p - 1
    <3>1. 5 \in 0 .. 8
        OBVIOUS
    <3> QED  BY <3>1, Powers DEF InRange, MaxUint40
  <2> HIDE DEF p
  <2>2. x \in Nat /\ x < p
      BY <2>1
  <2> QED  BY <2>2 DEF p
<1>2. Base^2 = Base * Base /\ Base \in Nat /\ Base > 3
  <2>1. 0 \in 0 .. 7 /\ 1 \in 0 .. 7 /\ 0 + 1 = 1 /\ 1 + 1 = 2
      OBVIOUS
  <2>2. Base^1 = Base * 1 /\ Base^2 = Base * Base^1
      BY <2>1, EncodingsAssumption
  <2>3. Base \in Nat /\ Base > 3
      BY EncodingsAssumption
  <2>4. Base * 1 = Base
      BY <2>3
  <2> QED  BY <2>2, <2>3, <2>4
<1>3. 8 < Base^2 /\ 5 < Base^2
  <2>1. Base * Base > 8
      BY <1>2
  <2> QED  BY <1>2, <2>1
<1>4. Uint(0, 1) \in Bytes /\ Len(Uint(0, 1)) = 1 /\ Uint(x, 5) \in Bytes /\ Len(Uint(x, 5)) = 5
    BY <1>1, BytesUint
<1>5. FromUint(Uint(0, 1)) = 0 /\ FromUint(Uint(x, 5)) = x
  <2>1. 0 < Base^1
    <3>1. 1 \in 0 .. 8
        OBVIOUS
    <3> QED  BY <3>1, Powers
  <2>2. 1 \in 0 .. 8 /\ 5 \in 0 .. 8 /\ 0 \in Nat
      OBVIOUS
  <2> QED  BY <1>1, <2>1, <2>2, UintReadBack
<1>6. LengthPrefixed(2, Uint(x, 5)) \in Bytes /\ Len(LengthPrefixed(2, Uint(x, 5))) = 7
  <2> DEFINE u == Uint(x, 5)
  <2>1. u \in Bytes /\ Len(u) = 5
      BY <1>4
  <2> HIDE DEF u
  <2>2. 2 \in 0 .. 8
      OBVIOUS
  <2>3. LengthPrefixed(2, u) \in Bytes /\ Len(LengthPrefixed(2, u)) = 2 + Len(u)
      BY <2>1, <2>2, PrefixedType
  <2>4. LengthPrefixed(2, u) \in Bytes /\ Len(LengthPrefixed(2, u)) = 7
      BY <2>1, <2>3
  <2> QED  BY <2>4, Zenon DEF u
<1>7. MarshalExtensions(x) = Uint(0, 1) ++ LengthPrefixed(2, Uint(x, 5))
    BY Zenon DEF MarshalExtensions, LeafIndexType, ++
<1>8. MarshalExtensions(x) \in Bytes /\ Len(MarshalExtensions(x)) = 8
  <2> DEFINE u == Uint(0, 1)
             w == LengthPrefixed(2, Uint(x, 5))
  <2>1. u \in Bytes /\ Len(u) = 1 /\ w \in Bytes /\ Len(w) = 7 /\ MarshalExtensions(x) = u ++ w
      BY <1>4, <1>6, <1>7
  <2> HIDE DEF u, w
  <2>2. u ++ w \in Bytes /\ Len(u ++ w) = Len(u) + Len(w)
      BY <2>1, Concatenation
  <2> QED  BY <2>1, <2>2
<1> QED
    BY <1>1, <1>3, <1>4, <1>5, <1>6, <1>7, <1>8

(* The type of an entry, in two bytes.                                     *)
LEMMA TypeBytes ==
    \A b \in 0 .. 1 : Uint(b, 2) \in Bytes /\ Len(Uint(b, 2)) = 2 /\ FromUint(Uint(b, 2)) = b
<1> SUFFICES ASSUME NEW b \in 0 .. 1
             PROVE  Uint(b, 2) \in Bytes /\ Len(Uint(b, 2)) = 2 /\ FromUint(Uint(b, 2)) = b
    OBVIOUS
<1>1. b \in Nat /\ 2 \in 0 .. 8
    OBVIOUS
<1>2. b < Base^2
  <2>1. 0 \in 0 .. 7 /\ 1 \in 0 .. 7 /\ 0 + 1 = 1 /\ 1 + 1 = 2
      OBVIOUS
  <2>2. Base^1 = Base * 1 /\ Base^2 = Base * Base^1 /\ Base \in Nat /\ Base > 3
      BY <2>1, EncodingsAssumption
  <2>3. Base * 1 = Base /\ Base * Base > 1
      BY <2>2
  <2> QED  BY <2>2, <2>3
<1> QED
    BY <1>1, <1>2, BytesUint, UintReadBack

\* What is signed of an entry, and what follows.
AfterType(e, t) ==
    IF e.isPrecert THEN e.issuerKeyHash ++ (LengthPrefixed(3, e.certificate) ++ t)
    ELSE LengthPrefixed(3, e.certificate) ++ t
TypeOf(e) == IF e.isPrecert THEN 1 ELSE 0

LEMMA SignedShape ==
    ASSUME NEW e \in Entries, NEW t \in Bytes
    PROVE  /\ SignedEntry(e) \in Bytes /\ AfterType(e, t) \in Bytes
           /\ LengthPrefixed(3, e.certificate) \in Bytes
           /\ LengthPrefixed(3, e.certificate) ++ t \in Bytes
           /\ TypeOf(e) \in 0 .. 1
           /\ SignedEntry(e) ++ t = Uint(TypeOf(e), 2) ++ AfterType(e, t)
           /\ CacheInput(e) = SignedEntry(e)
<1> DEFINE k == e.issuerKeyHash
           l == LengthPrefixed(3, e.certificate)
<1>1. k \in Bytes /\ l \in Bytes
  <2>3. e.certificate \in Bytes /\ e.issuerKeyHash \in Bytes
      BY EntryFits, Zenon
  <2>1. 3 \in 0 .. 8 /\ e.certificate \in Bytes /\ e.issuerKeyHash \in Bytes
      BY <2>3
  <2> QED  BY <2>1, PrefixedType
<1>2. Uint(0, 2) \in Bytes /\ Uint(1, 2) \in Bytes
    BY TypeBytes
<1>3. /\ SignedEntry(e) = IF e.isPrecert THEN (Uint(1, 2) ++ k) ++ l ELSE Uint(0, 2) ++ l
      /\ CacheInput(e) = SignedEntry(e)
    BY Zenon DEF SignedEntry, CacheInput, ++
<1>4. AfterType(e, t) = IF e.isPrecert THEN k ++ (l ++ t) ELSE l ++ t
    BY Zenon DEF AfterType
<1> HIDE DEF k, l
<1>5. l ++ t \in Bytes /\ k ++ (l ++ t) \in Bytes
  <2>1. l ++ t \in Bytes
      BY <1>1, Concatenation
  <2> QED  BY <1>1, <2>1, Concatenation
<1>6. CASE e.isPrecert
  <2>1. /\ SignedEntry(e) = (Uint(1, 2) ++ k) ++ l /\ AfterType(e, t) = k ++ (l ++ t)
        /\ TypeOf(e) = 1
      BY <1>3, <1>4, <1>6, Zenon DEF TypeOf
  <2>2. ((Uint(1, 2) ++ k) ++ l) ++ t = Uint(1, 2) ++ (k ++ (l ++ t)) /\ (Uint(1, 2) ++ k) ++ l \in Bytes
      BY <1>1, <1>2, Associative4
  <2> QED  BY <1>1, <1>3, <1>5, <2>1, <2>2 DEF l
<1>7. CASE ~e.isPrecert
  <2>1. SignedEntry(e) = Uint(0, 2) ++ l /\ AfterType(e, t) = l ++ t /\ TypeOf(e) = 0
      BY <1>3, <1>4, <1>7, Zenon DEF TypeOf
  <2>2. (Uint(0, 2) ++ l) ++ t = Uint(0, 2) ++ (l ++ t) /\ Uint(0, 2) ++ l \in Bytes
      BY <1>1, <1>2, Associative, Concatenation
  <2> QED  BY <1>1, <1>3, <1>5, <2>1, <2>2 DEF l
<1> QED
    BY <1>6, <1>7

\* What comes after what is signed and the extensions of a leaf in a tile.
Chain(e, t) == LengthPrefixed(2, FlattenSeq(e.fingerprints)) ++ t
AfterExtensions(e, t) ==
    IF e.isPrecert THEN LengthPrefixed(3, e.preCertificate) ++ Chain(e, t) ELSE Chain(e, t)

LEMMA TileLeafShape ==
    ASSUME NEW e \in Entries, InRange(e.leafIndex), NEW t \in Bytes
    PROVE  /\ TileLeaf(e) \in Bytes /\ Chain(e, t) \in Bytes /\ AfterExtensions(e, t) \in Bytes
           /\ AddExtensions(e) \in Bytes
           /\ AddExtensions(e) ++ AfterExtensions(e, t) \in Bytes
           /\ SignedEntry(e) ++ (AddExtensions(e) ++ AfterExtensions(e, t)) \in Bytes
           /\ Uint(e.timestamp, 8) \in Bytes
           /\ TileLeaf(e) ++ t = Uint(e.timestamp, 8) ++
                  (SignedEntry(e) ++ (AddExtensions(e) ++ AfterExtensions(e, t)))
<1> DEFINE u == Uint(e.timestamp, 8)
           s == SignedEntry(e)
           x == AddExtensions(e)
           p == IF e.isPrecert THEN LengthPrefixed(3, e.preCertificate) ELSE <<>>
           l == LengthPrefixed(2, FlattenSeq(e.fingerprints))
<1>1. u \in Bytes /\ s \in Bytes
  <2>3. e.timestamp \in Nat
      BY EntryFits, Zenon
  <2>1. 8 \in 0 .. 8 /\ e.timestamp \in Nat
      BY <2>3
  <2> QED  BY <2>1, BytesUint, SignedShape
<1>2. x \in Bytes
  <2>1. 2 \in 0 .. 8 /\ MarshalExtensions(e.leafIndex) \in Bytes
      BY ExtensionsShape
  <2> QED  BY <2>1, PrefixedType DEF AddExtensions
<1>3. l \in Bytes
  <2>3. FlattenSeq(e.fingerprints) \in Bytes
      BY EntryFits, Zenon
  <2>1. 2 \in 0 .. 8 /\ FlattenSeq(e.fingerprints) \in Bytes
      BY <2>3
  <2> QED  BY <2>1, PrefixedType
<1>4. p \in Bytes
  <2>3. e.preCertificate \in Bytes
      BY EntryFits, Zenon
  <2>1. 3 \in 0 .. 8 /\ e.preCertificate \in Bytes
      BY <2>3
  <2>2. LengthPrefixed(3, e.preCertificate) \in Bytes /\ <<>> \in Bytes
      BY <2>1, PrefixedType, EmptyBytes
  <2> QED  BY <2>2, Zenon
<1>5. TileLeaf(e) = (((u ++ s) ++ x) ++ p) ++ l
    BY Zenon DEF TileLeaf, ++
<1>6. Chain(e, t) = l ++ t
    BY Zenon DEF Chain
<1>7. AfterExtensions(e, t) = p ++ (l ++ t)
  <2>1. CASE e.isPrecert
      BY <1>6, <2>1, Zenon DEF AfterExtensions
  <2>2. CASE ~e.isPrecert
    <3>1. p = <<>> /\ AfterExtensions(e, t) = l ++ t
        BY <1>6, <2>2, Zenon DEF AfterExtensions
    <3> HIDE DEF l, p
    <3>2. l ++ t \in Bytes
        BY <1>3, Concatenation
    <3>3. <<>> ++ (l ++ t) = l ++ t
        BY <3>2, Concatenation
    <3> QED  BY <3>1, <3>3
  <2> QED  BY <2>1, <2>2
<1> HIDE DEF u, s, x, p, l
<1> DEFINE us == (u ++ s) ++ x
           lt == l ++ t
           pt == p ++ lt
<1>8. /\ us \in Bytes /\ lt \in Bytes /\ pt \in Bytes /\ us ++ p \in Bytes
      /\ (us ++ p) ++ l \in Bytes /\ x ++ pt \in Bytes /\ s ++ (x ++ pt) \in Bytes
  <2>1. u ++ s \in Bytes /\ lt \in Bytes
      BY <1>1, <1>3, Concatenation
  <2>2. us \in Bytes /\ pt \in Bytes
      BY <1>2, <1>4, <2>1, Concatenation
  <2> HIDE DEF us, pt
  <2>3. us ++ p \in Bytes /\ x ++ pt \in Bytes
      BY <1>2, <1>4, <2>2, Concatenation
  <2> QED  BY <1>1, <1>3, <2>1, <2>2, <2>3, Concatenation
<1>9. ((us ++ p) ++ l) ++ t = us ++ (p ++ (l ++ t))
  <2> HIDE DEF us
  <2> QED  BY <1>3, <1>4, <1>8, Associative4
<1>10. us ++ pt = u ++ (s ++ (x ++ pt))
  <2> HIDE DEF pt
  <2> QED  BY <1>1, <1>2, <1>8, Associative4
<1>11. TileLeaf(e) = (us ++ p) ++ l /\ Chain(e, t) = lt /\ AfterExtensions(e, t) = pt
    BY <1>5, <1>6, <1>7
<1> QED
    BY <1>1, <1>2, <1>8, <1>9, <1>10, <1>11 DEF u, s, x

(* What is known of a reader that did not fail, and of one that did.       *)
LEMMA AfterCases ==
    ASSUME NEW r, NEW s, NEW t, NEW c, After(r, s, t, c)
    PROVE  /\ r # Failed => /\ r.ok /\ r = Reader(s, r.rest) /\ r.got = s
                            /\ r.rest \in Bytes /\ t = r.rest ++ c
           /\ r = Failed => Len(t) < Len(c)
<1>1. ASSUME NEW d \in Bytes, t = d ++ c, r = Reader(s, d)
      PROVE  /\ r # Failed /\ r.ok /\ r = Reader(s, r.rest) /\ r.got = s
             /\ r.rest \in Bytes /\ t = r.rest ++ c
  <2>1. r.ok /\ r.got = s /\ r.rest = d
      BY <1>1, ReaderFields, Zenon
  <2>2. r # Failed
      BY <2>1, FailedFields, Zenon
  <2> QED  BY <1>1, <2>1, <2>2, Zenon
<1> QED
    BY <1>1, Zenon DEF After

LEMMA FromNone == FromUint(<<>>) = 0
<1> DEFINE F == [i \in 0 .. Len(<<>>) |-> 0]
<1>1. <<>> \in Seq(Octet) /\ Len(<<>>) = 0
    BY EmptySeq
<1>2. F = [i \in 0 .. Len(<<>>) |-> IF i = 0 THEN 0 ELSE F[i - 1] * Base + <<>>[i]]
    BY <1>1
<1>3. F[Len(<<>>)] = 0
    BY <1>1
<1> HIDE DEF F
<1>4. FromUint(<<>>) = F[Len(<<>>)]
    BY <1>1, <1>2, FromUintIs
<1> QED
    BY <1>3, <1>4

(* The entry of a leaf, as ReadTileLeaf reads it.                          *)
LEMMA SignedRead ==
    ASSUME NEW e \in Entries, NEW r, NEW g, NEW t \in Bytes, NEW c \in Bytes,
           After(r, g, SignedEntry(e) ++ t, c)
    PROVE  LET type == Read(r, 2)
               pre  == FromUint(type.got) = 1
               key  == IF pre THEN Read(type, FingerprintSize) ELSE type
               cert == ReadLengthPrefixed(key, 3)
           IN  /\ After(cert, e.certificate, t, c)
               /\ type = Failed => cert = Failed
               /\ r = Failed => cert = Failed
               /\ cert # Failed => /\ FromUint(type.got) = TypeOf(e)
                                   /\ pre <=> e.isPrecert
                                   /\ e.isPrecert => key.got = e.issuerKeyHash
<1> DEFINE type == Read(r, 2)
           pre  == FromUint(type.got) = 1
           key  == IF pre THEN Read(type, FingerprintSize) ELSE type
           cert == ReadLengthPrefixed(key, 3)
           b    == Uint(TypeOf(e), 2)
           a    == AfterType(e, t)
           l    == LengthPrefixed(3, e.certificate)
<1>1. /\ b \in Bytes /\ Len(b) = 2 /\ FromUint(b) = TypeOf(e) /\ a \in Bytes
      /\ SignedEntry(e) ++ t = b ++ a /\ l \in Bytes /\ l ++ t \in Bytes
    BY SignedShape, TypeBytes
<1>2. e.isPrecert \in BOOLEAN /\ e.issuerKeyHash \in Bytes /\ Len(e.issuerKeyHash) = FingerprintSize
      /\ e.certificate \in Bytes /\ Len(e.certificate) < Base^3
    BY EntryFits, Zenon
<1>3. TypeOf(e) = 1 <=> e.isPrecert
    BY <1>2 DEF TypeOf
<1> HIDE DEF b
<1>4. After(type, b, a, c)
  <2>1. After(Read(r, Len(b)), b, a, c)
    <3> HIDE DEF a
    <3> QED  BY <1>1, ReadAfter
  <2> QED  BY <1>1, <2>1
<1> HIDE DEF type
<1>5. /\ type # Failed => FromUint(type.got) = TypeOf(e)
      /\ type = Failed => FromUint(type.got) = 0
    BY <1>1, <1>4, AfterCases, FailedFields, FromNone, Zenon
<1>6. type # Failed => (pre <=> e.isPrecert)
    BY <1>3, <1>5
<1>7. key = IF e.isPrecert THEN Read(type, FingerprintSize) ELSE type
    BY <1>6, StaysFailed, Zenon
<1>8. type = Failed => cert = Failed
    BY StaysFailed, Zenon
<1>9. r = Failed => cert = Failed
    BY <1>8, StaysFailed, Zenon DEF type
<1> HIDE DEF pre, key
<1>10. \E h : After(key, h, l ++ t, c) /\ (e.isPrecert => h = e.issuerKeyHash)
  <2>1. CASE e.isPrecert
    <3>1. a = e.issuerKeyHash ++ (l ++ t)
        BY <2>1, Zenon DEF AfterType
    <3> DEFINE k == e.issuerKeyHash
    <3>2. k \in Bytes /\ Len(k) = FingerprintSize /\ After(type, b, k ++ (l ++ t), c)
        BY <1>2, <1>4, <3>1, Zenon
    <3>3. After(Read(type, Len(k)), k, l ++ t, c)
      <4> HIDE DEF k, l
      <4> QED  BY <1>1, <3>2, ReadAfter
    <3>4. key = Read(type, Len(k))
        BY <1>7, <2>1, <3>2, Zenon
    <3> QED  BY <3>3, <3>4, Zenon
  <2>2. CASE ~e.isPrecert
    <3>1. a = l ++ t
        BY <2>2, Zenon DEF AfterType
    <3>2. key = type
        BY <1>7, <2>2, Zenon
    <3> QED  BY <1>4, <2>2, <3>1, <3>2, Zenon
  <2> QED  BY <2>1, <2>2
<1>11. PICK h : After(key, h, l ++ t, c) /\ (e.isPrecert => h = e.issuerKeyHash)
    BY <1>10
<1>12. After(cert, e.certificate, t, c)
  <2>1. 3 \in 0 .. 8
      OBVIOUS
  <2> QED  BY <1>2, <1>11, <2>1, ReadPrefixedAfter
<1>13. cert # Failed => type # Failed /\ (e.isPrecert => key.got = e.issuerKeyHash)
  <2>1. key = Failed => cert = Failed
      BY StaysFailed, Zenon
  <2>2. key # Failed => key.got = h
      BY <1>11, AfterCases, Zenon
  <2> QED  BY <1>8, <1>11, <2>1, <2>2, Zenon
<1> HIDE DEF cert
<1> QED
    BY <1>5, <1>6, <1>8, <1>9, <1>12, <1>13, Zenon DEF type, pre, key, cert

(* The extensions of a leaf, as ReadTileLeaf reads them: one of them only. *)
LEMMA IndexRead ==
    ASSUME NEW x, InRange(x)
    PROVE  LET xtype == Read(String(MarshalExtensions(x)), 1)
               xdata == ReadLengthPrefixed(xtype, 2)
           IN  /\ xdata.ok /\ FromUint(xtype.got) = LeafIndexType
               /\ Len(xdata.got) = 5 /\ xdata.rest = <<>> /\ FromUint(xdata.got) = x
<1> DEFINE m == MarshalExtensions(x)
           u == Uint(0, 1)
           v == Uint(x, 5)
           l == LengthPrefixed(2, v)
           xtype == Read(String(m), 1)
           xdata == ReadLengthPrefixed(xtype, 2)
<1>1. /\ u \in Bytes /\ Len(u) = 1 /\ FromUint(u) = 0
      /\ v \in Bytes /\ Len(v) = 5 /\ FromUint(v) = x /\ Len(v) < Base^2
      /\ l \in Bytes /\ m \in Bytes /\ m = u ++ l
    BY ExtensionsShape
<1>2. <<>> \in Bytes /\ Len(<<>>) = 0 /\ 2 \in 0 .. 8
    BY EmptyBytes
<1> HIDE DEF m, u, v
<1>3. After(String(m), <<>>, u ++ l, <<>>)
  <2>1. m ++ <<>> = m
      BY <1>1, Concatenation
  <2>2. After(String(m), <<>>, m ++ <<>>, <<>>)
      BY <1>1, StringAfter
  <2> HIDE DEF l
  <2> QED  BY <1>1, <2>1, <2>2
<1>4. After(xtype, u, l, <<>>)
  <2>1. After(Read(String(m), Len(u)), u, l, <<>>)
    <3> HIDE DEF l
    <3> QED  BY <1>1, <1>2, <1>3, ReadAfter
  <2> QED  BY <1>1, <2>1
<1> HIDE DEF xtype
<1>5. After(xdata, v, <<>>, <<>>)
  <2>1. l ++ <<>> = l
    <3> HIDE DEF l
    <3> QED  BY <1>1, Concatenation
  <2>2. After(xtype, u, LengthPrefixed(2, v) ++ <<>>, <<>>)
      BY <1>4, <2>1
  <2> QED  BY <1>1, <1>2, <2>2, ReadPrefixedAfter
<1> HIDE DEF xdata, l
<1>6. xtype # Failed /\ xdata # Failed
  <2>1. xtype # Failed
    <3>1. xtype = Failed => Len(l) < Len(<<>>)
        BY <1>4, AfterCases
    <3>2. Len(l) \in Nat
        BY <1>1, Concatenation
    <3> QED  BY <1>2, <3>1, <3>2
  <2>2. xdata = Failed => Len(<<>>) < Len(<<>>)
      BY <1>5, AfterCases
  <2> QED  BY <1>2, <2>1, <2>2
<1>7. xtype.got = u
    BY <1>4, <1>6, AfterCases, Zenon
<1>8. xdata.ok /\ xdata.got = v /\ xdata.rest \in Bytes /\ <<>> = xdata.rest ++ <<>>
    BY <1>5, <1>6, AfterCases, Zenon
<1>9. xdata.rest = <<>>
  <2>1. xdata.rest ++ <<>> = xdata.rest
      BY <1>8, Concatenation
  <2> QED  BY <1>8, <2>1
<1>10. FromUint(xtype.got) = LeafIndexType /\ Len(xdata.got) = 5 /\ FromUint(xdata.got) = x
    BY <1>1, <1>7, <1>8, Zenon DEF LeafIndexType
<1> QED
    BY <1>8, <1>9, <1>10, Zenon DEF xtype, xdata, m

\* A leaf of entry e is read, with t after it that lacks c at its end.
LeafRead(leaf, e, t, c) ==
    \/ ~leaf.ok /\ Len(t) < Len(c)
    \/ \E u \in Bytes : t = u ++ c /\ leaf = [ok |-> TRUE, rest |-> u, e |-> e]

(* ReadTileLeaf reads a leaf back that is there in full, and fails on one  *)
(* that is not.                                                            *)
LEMMA TileLeafRead ==
    ASSUME NEW e \in Entries, InRange(e.leafIndex), NEW t \in Bytes, NEW d \in Bytes, NEW c \in Bytes,
           TileLeaf(e) ++ t = d ++ c
    PROVE  LeafRead(ReadTileLeaf(d), e, t, c)
<1> DEFINE time  == Read(String(d), 8)
           type  == Read(time, 2)
           pre   == FromUint(type.got) = 1
           key   == IF pre THEN Read(type, FingerprintSize) ELSE type
           cert  == ReadLengthPrefixed(key, 3)
           ext   == ReadLengthPrefixed(cert, 2)
           pcert == IF pre THEN ReadLengthPrefixed(ext, 3) ELSE ext
           chain == ReadLengthPrefixed(pcert, 2)
           xtype == Read(String(ext.got), 1)
           xdata == ReadLengthPrefixed(xtype, 2)
           ok    == /\ chain.ok /\ FromUint(type.got) \in {0, 1}
                    /\ FromUint(time.got) <= MaxInt64
                    /\ xdata.ok /\ FromUint(xtype.got) = LeafIndexType
                    /\ Len(xdata.got) = 5 /\ xdata.rest = <<>>
                    /\ Len(chain.got) % FingerprintSize = 0
           u     == Uint(e.timestamp, 8)
           m     == MarshalExtensions(e.leafIndex)
           q     == FlattenSeq(e.fingerprints)
           w     == AfterExtensions(e, t)
           x     == AddExtensions(e)
           f     == SignedEntry(e)
<1>1. ReadTileLeaf(d) =
        [ok |-> ok, rest |-> chain.rest,
         e  |-> [certificate |-> cert.got, isPrecert |-> pre,
                 issuerKeyHash |-> IF pre THEN key.got ELSE ZeroFingerprint,
                 preCertificate |-> IF pre THEN pcert.got ELSE <<>>,
                 fingerprints |-> Fingerprints(chain.got),
                 leafIndex |-> FromUint(xdata.got), timestamp |-> FromUint(time.got)]]
    BY Zenon DEF ReadTileLeaf
<1>2. /\ u \in Bytes /\ w \in Bytes /\ x \in Bytes /\ x ++ w \in Bytes /\ f ++ (x ++ w) \in Bytes
      /\ Chain(e, t) \in Bytes /\ TileLeaf(e) ++ t = u ++ (f ++ (x ++ w))
    BY TileLeafShape, Zenon
<1>3. /\ e.timestamp \in Nat /\ e.timestamp < Base^8 /\ e.timestamp <= MaxInt64
      /\ e.isPrecert \in BOOLEAN /\ e.preCertificate \in Bytes /\ Len(e.preCertificate) < Base^3
      /\ q \in Bytes /\ Len(q) < Base^2 /\ Fingerprints(q) = e.fingerprints
      /\ Len(q) % FingerprintSize = 0
    BY EntryFits, Zenon
<1>4. Len(u) = 8 /\ FromUint(u) = e.timestamp
  <2>1. 8 \in 0 .. 8
      OBVIOUS
  <2> QED  BY <1>3, <2>1, BytesUint, UintReadBack
<1>5. m \in Bytes /\ Len(m) < Base^2 /\ x = LengthPrefixed(2, m)
    BY ExtensionsShape, Zenon DEF AddExtensions
<1>6. 2 \in 0 .. 8 /\ 3 \in 0 .. 8
    OBVIOUS
<1> HIDE DEF u, m, q, w, x, f
<1>7. After(time, u, f ++ (x ++ w), c)
  <2> DEFINE y == f ++ (x ++ w)
  <2>1. y \in Bytes /\ u ++ y = d ++ c
      BY <1>2
  <2> HIDE DEF y
  <2>2. After(String(d), <<>>, u ++ y, c)
      BY <2>1, StringAfter
  <2>3. After(Read(String(d), Len(u)), u, y, c)
      BY <1>2, <2>1, <2>2, ReadAfter
  <2>4. After(time, u, y, c)
      BY <1>4, <2>3
  <2> HIDE DEF time
  <2> QED  BY <2>4 DEF y
<1> HIDE DEF time
<1>8. /\ After(cert, e.certificate, x ++ w, c)
      /\ type = Failed => cert = Failed
      /\ time = Failed => cert = Failed
      /\ cert # Failed => /\ FromUint(type.got) = TypeOf(e)
                          /\ pre <=> e.isPrecert
                          /\ e.isPrecert => key.got = e.issuerKeyHash
  <2> DEFINE y == x ++ w
  <2>1. y \in Bytes /\ After(time, u, SignedEntry(e) ++ y, c)
      BY <1>2, <1>7 DEF f
  <2> HIDE DEF y
  <2>2. /\ After(cert, e.certificate, y, c)
        /\ type = Failed => cert = Failed
        /\ time = Failed => cert = Failed
        /\ cert # Failed => /\ FromUint(type.got) = TypeOf(e)
                            /\ pre <=> e.isPrecert
                            /\ e.isPrecert => key.got = e.issuerKeyHash
      BY <2>1, SignedRead
  <2> QED  BY <2>2 DEF y
<1> HIDE DEF cert
<1>9. After(ext, m, w, c) /\ (cert = Failed => ext = Failed)
  <2>1. After(cert, e.certificate, LengthPrefixed(2, m) ++ w, c)
      BY <1>5, <1>8
  <2>2. After(ext, m, w, c)
      BY <1>2, <1>5, <1>6, <2>1, ReadPrefixedAfter
  <2> QED  BY <2>2, StaysFailed, Zenon
<1> HIDE DEF ext, type, key
<1>10. pcert = IF e.isPrecert THEN ReadLengthPrefixed(ext, 3) ELSE ext
  <2>1. CASE ext = Failed
    <3>1. ReadLengthPrefixed(ext, 3) = ext
        BY <2>1, StaysFailed, Zenon
    <3> QED  BY <3>1, Zenon
  <2>2. CASE ext # Failed
    <3>1. pre <=> e.isPrecert
        BY <1>8, <1>9, <2>2
    <3> HIDE DEF pre
    <3> QED  BY <3>1, Zenon
  <2> QED  BY <2>1, <2>2
<1>11. ext = Failed => pcert = Failed
  <2> HIDE DEF pre
  <2> QED  BY StaysFailed, Zenon
<1> HIDE DEF pre, pcert
<1>12. PICK h : After(pcert, h, Chain(e, t), c) /\ (e.isPrecert => h = e.preCertificate)
  <2>1. CASE e.isPrecert
    <3>1. w = LengthPrefixed(3, e.preCertificate) ++ Chain(e, t)
        BY <2>1, Zenon DEF AfterExtensions, w
    <3>2. After(ext, m, LengthPrefixed(3, e.preCertificate) ++ Chain(e, t), c)
        BY <1>9, <3>1
    <3>3. After(ReadLengthPrefixed(ext, 3), e.preCertificate, Chain(e, t), c)
        BY <1>2, <1>3, <1>6, <3>2, ReadPrefixedAfter
    <3>4. pcert = ReadLengthPrefixed(ext, 3)
        BY <1>10, <2>1, Zenon
    <3> QED  BY <3>3, <3>4, Zenon
  <2>2. CASE ~e.isPrecert
    <3>1. w = Chain(e, t) /\ pcert = ext
        BY <1>10, <2>2, Zenon DEF AfterExtensions, w
    <3> QED  BY <1>9, <2>2, <3>1, Zenon
  <2> QED  BY <2>1, <2>2, Zenon
<1>13. After(chain, q, t, c) /\ (pcert = Failed => chain = Failed)
  <2>1. After(pcert, h, LengthPrefixed(2, q) ++ t, c)
      BY <1>12, Zenon DEF Chain, q
  <2>2. After(chain, q, t, c)
      BY <1>3, <1>6, <2>1, ReadPrefixedAfter
  <2> QED  BY <2>2, StaysFailed, Zenon
<1> HIDE DEF chain
<1>14. CASE chain = Failed
  <2>1. ~ok /\ Len(t) < Len(c)
    <3>1. ~chain.ok
        BY <1>14, FailedFields, Zenon
    <3>2. Len(t) < Len(c)
        BY <1>13, <1>14, AfterCases
    <3> QED  BY <3>1, <3>2, Zenon
  <2> HIDE DEF ok
  <2>2. ~ReadTileLeaf(d).ok
    <3>1. ok = FALSE
      <4>1. ok \in BOOLEAN
          BY Zenon DEF ok
      <4> QED  BY <2>1, <4>1, Zenon
    <3>2. \A y, z : ~[ok |-> FALSE, rest |-> y, e |-> z].ok
        BY Zenon
    <3> QED  BY <1>1, <3>1, <3>2, Zenon
  <2> QED  BY <2>1, <2>2, Zenon DEF LeafRead
<1>15. CASE chain # Failed
  <2>1. pcert # Failed /\ ext # Failed /\ cert # Failed /\ type # Failed /\ time # Failed
      BY <1>8, <1>9, <1>11, <1>13, <1>15, Zenon
  <2>2. time.got = u /\ cert.got = e.certificate /\ ext.got = m /\ pcert.got = h
      BY <1>7, <1>8, <1>9, <1>12, <2>1, AfterCases, Zenon
  <2>3. chain.ok /\ chain.got = q /\ chain.rest \in Bytes /\ t = chain.rest ++ c
      BY <1>13, <1>15, AfterCases, Zenon
  <2>4. /\ xdata.ok /\ FromUint(xtype.got) = LeafIndexType
        /\ Len(xdata.got) = 5 /\ xdata.rest = <<>> /\ FromUint(xdata.got) = e.leafIndex
      BY <2>2, IndexRead, Zenon DEF m
  <2> HIDE DEF xtype, xdata
  <2>5. FromUint(type.got) \in {0, 1} /\ FromUint(time.got) = e.timestamp
    <3>1. TypeOf(e) \in {0, 1}
        BY <1>3, Zenon DEF TypeOf
    <3> QED  BY <1>4, <1>8, <2>1, <2>2, <3>1, Zenon
  <2>6. ok = TRUE
    <3>1. ok
        BY <1>3, <2>3, <2>4, <2>5, Zenon
    <3> HIDE DEF ok
    <3>2. ok \in BOOLEAN
        BY Zenon DEF ok
    <3> QED  BY <3>1, <3>2, Zenon
  <2> HIDE DEF ok
  <2>7. pre = e.isPrecert
    <3>1. pre \in BOOLEAN
        BY Zenon DEF pre
    <3> QED  BY <1>3, <1>8, <2>1, <3>1, Zenon
  <2>8. e = [certificate |-> cert.got, isPrecert |-> pre,
             issuerKeyHash |-> IF pre THEN key.got ELSE ZeroFingerprint,
             preCertificate |-> IF pre THEN pcert.got ELSE <<>>,
             fingerprints |-> Fingerprints(chain.got),
             leafIndex |-> FromUint(xdata.got), timestamp |-> FromUint(time.got)]
    <3>1. e = [certificate |-> e.certificate, isPrecert |-> e.isPrecert,
               issuerKeyHash |-> IF e.isPrecert THEN e.issuerKeyHash ELSE ZeroFingerprint,
               preCertificate |-> IF e.isPrecert THEN e.preCertificate ELSE <<>>,
               fingerprints |-> e.fingerprints,
               leafIndex |-> e.leafIndex, timestamp |-> e.timestamp]
        BY EntryFits, Zenon
    <3>2. /\ (IF pre THEN key.got ELSE ZeroFingerprint)
                = (IF e.isPrecert THEN e.issuerKeyHash ELSE ZeroFingerprint)
          /\ (IF pre THEN pcert.got ELSE <<>>) = (IF e.isPrecert THEN e.preCertificate ELSE <<>>)
      <4>1. CASE e.isPrecert
          BY <1>8, <1>12, <2>1, <2>2, <2>7, <4>1, Zenon
      <4>2. CASE ~e.isPrecert
          BY <2>7, <4>2, Zenon
      <4> QED  BY <4>1, <4>2
    <3>3. /\ cert.got = e.certificate /\ Fingerprints(chain.got) = e.fingerprints
          /\ FromUint(xdata.got) = e.leafIndex /\ FromUint(time.got) = e.timestamp
        BY <1>3, <2>2, <2>3, <2>4, <2>5, Zenon
    <3> QED  BY <2>7, <3>1, <3>2, <3>3, Zenon
  <2>9. ReadTileLeaf(d) = [ok |-> TRUE, rest |-> chain.rest, e |-> e]
      BY <1>1, <2>6, <2>8, Zenon
  <2> QED  BY <2>3, <2>9, Zenon DEF LeafRead
<1> QED
    BY <1>14, <1>15

-----------------------------------------------------------------------------
(* Data tiles.                                                             *)

\* What the loop of ReadTile goes on with.
ReadNext(last) ==
    LET leaf == ReadTileLeaf(last.rest)
    IN  IF last.ok /\ leaf.ok
        THEN [ok |-> TRUE, leaves |-> Append(last.leaves, leaf.e), rest |-> leaf.rest]
        ELSE [ok |-> FALSE, leaves |-> last.leaves, rest |-> last.rest]

TileReader(ok, leaves, rest) == [ok |-> ok, leaves |-> leaves, rest |-> rest]

LeafIs(leaf, e, u) == leaf = [ok |-> TRUE, rest |-> u, e |-> e]

LEMMA ReadNextIs ==
    ASSUME NEW l, NEW d
    PROVE  /\ ReadNext(TileReader(FALSE, l, d)) = TileReader(FALSE, l, d)
           /\ ~ReadTileLeaf(d).ok => ReadNext(TileReader(TRUE, l, d)) = TileReader(FALSE, l, d)
<1>1. /\ \A b : TileReader(b, l, d).leaves = l /\ TileReader(b, l, d).rest = d
      /\ ~TileReader(FALSE, l, d).ok /\ TileReader(TRUE, l, d).ok
    BY Zenon DEF TileReader
<1>2. ReadNext(TileReader(FALSE, l, d)) = TileReader(FALSE, l, d)
  <2>1. ReadNext(TileReader(FALSE, l, d)) =
          [ok |-> FALSE, leaves |-> TileReader(FALSE, l, d).leaves, rest |-> TileReader(FALSE, l, d).rest]
      BY <1>1, Zenon DEF ReadNext
  <2> QED  BY <1>1, <2>1, Zenon DEF TileReader
<1>3. ASSUME ~ReadTileLeaf(d).ok
      PROVE  ReadNext(TileReader(TRUE, l, d)) = TileReader(FALSE, l, d)
  <2>1. ReadNext(TileReader(TRUE, l, d)) =
          [ok |-> FALSE, leaves |-> TileReader(TRUE, l, d).leaves, rest |-> TileReader(TRUE, l, d).rest]
      BY <1>1, <1>3, Zenon DEF ReadNext
  <2> QED  BY <1>1, <2>1, Zenon DEF TileReader
<1> QED
    BY <1>2, <1>3

LEMMA ReadNextLeaf ==
    ASSUME NEW l, NEW d, NEW u, NEW e, LeafIs(ReadTileLeaf(d), e, u)
    PROVE  ReadNext(TileReader(TRUE, l, d)) = TileReader(TRUE, Append(l, e), u)
<1>1. TileReader(TRUE, l, d).leaves = l /\ TileReader(TRUE, l, d).rest = d /\ TileReader(TRUE, l, d).ok
    BY Zenon DEF TileReader
<1> DEFINE x == [ok |-> TRUE, rest |-> u, e |-> e]
<1>2. x.ok /\ x.rest = u /\ x.e = e
    BY Zenon
<1> HIDE DEF x
<1>3. ReadTileLeaf(d) = x
    BY Zenon DEF x, LeafIs
<1>4. ReadTileLeaf(d).ok /\ ReadTileLeaf(d).rest = u /\ ReadTileLeaf(d).e = e
    BY <1>2, <1>3, Zenon
<1>5. ReadNext(TileReader(TRUE, l, d)) =
          [ok |-> TRUE, leaves |-> Append(TileReader(TRUE, l, d).leaves, ReadTileLeaf(d).e),
           rest |-> ReadTileLeaf(d).rest]
    BY <1>1, <1>4, Zenon DEF ReadNext
<1> QED
    BY <1>1, <1>4, <1>5, Zenon DEF TileReader

ReadTurns(F, data, w) ==
    F = [i \in 0 .. w |-> IF i = 0 THEN TileReader(TRUE, <<>>, data) ELSE ReadNext(F[i - 1])]

LEMMA ReadTileIs ==
    ASSUME NEW data, NEW w \in Nat, NEW F, ReadTurns(F, data, w)
    PROVE  ReadTile(data, w) = F[w]
<1>0. F = [i \in 0 .. w |-> IF i = 0 THEN TileReader(TRUE, <<>>, data) ELSE ReadNext(F[i - 1])]
    BY Zenon DEF ReadTurns
<1> DEFINE V == CHOOSE g : g = [i \in 0 .. w |->
                    IF i = 0 THEN TileReader(TRUE, <<>>, data) ELSE ReadNext(g[i - 1])]
<1>1. ReadTile(data, w) = V[w]
    BY Zenon DEF ReadTile, ReadNext, TileReader
<1>2. V = [i \in 0 .. w |-> IF i = 0 THEN TileReader(TRUE, <<>>, data) ELSE ReadNext(V[i - 1])]
    BY <1>0, Zenon
<1> HIDE DEF V
<1> DEFINE I == {i \in 0 .. w : V[i] # F[i]}
<1>3. I = {}
  <2> SUFFICES ASSUME I # {}
               PROVE  FALSE
      OBVIOUS
  <2>1. I \subseteq Nat
      OBVIOUS
  <2>2. PICK i \in I : \A y \in I : i =< y
    <3> HIDE DEF I
    <3> QED  BY <2>1, Smallest
  <2>3. V[0] = F[0]
    <3>1. 0 \in 0 .. w
        OBVIOUS
    <3> QED  BY <1>0, <1>2, <3>1, Zenon
  <2>4. i \in 0 .. w /\ i # 0 /\ i - 1 \in 0 .. w
      BY <2>2, <2>3
  <2>5. V[i - 1] = F[i - 1]
    <3>1. i - 1 \notin I
      <4>1. ~(i =< i - 1)
          BY <2>4
      <4> HIDE DEF I
      <4> QED  BY <2>2, <4>1, Zenon
    <3> QED  BY <2>4, <3>1, Zenon
  <2>6. V[i] = ReadNext(V[i - 1]) /\ F[i] = ReadNext(F[i - 1])
      BY <1>0, <1>2, <2>4, Zenon
  <2>7. V[i] = F[i]
      BY <2>5, <2>6, Zenon
  <2> QED  BY <2>2, <2>7
<1>4. w \in 0 .. w
    OBVIOUS
<1> QED
    BY <1>1, <1>3, <1>4

\* What is after the first a of the first b bytes.
Part(s, a, b) == SubSeq(s, a + 1, b)

LEMMA Cut ==
    ASSUME NEW s \in Bytes, NEW a \in Nat, NEW b \in Nat, NEW z \in Nat, a <= b, b <= z, z <= Len(s)
    PROVE  /\ Part(s, a, b) \in Bytes /\ Len(Part(s, a, b)) = b - a
           /\ Part(s, a, b) ++ Part(s, b, z) = Part(s, a, z)
<1>1. Len(s) \in Nat /\ s \in Seq(Octet)
    BY DEF Bytes
<1>2. /\ SubSeq(s, a + 1, b) \in Seq(Octet)
      /\ Len(SubSeq(s, a + 1, b)) = IF a + 1 <= b THEN b - (a + 1) + 1 ELSE 0
  <2> DEFINE p == a + 1
  <2>1. p \in Int /\ b \in Int /\ \A i \in p .. b : s[i] \in Octet
      BY <1>1
  <2> HIDE DEF p
  <2>2. /\ SubSeq(s, p, b) \in Seq(Octet)
        /\ Len(SubSeq(s, p, b)) = IF p <= b THEN b - p + 1 ELSE 0
      BY <2>1, SubSeqProperties
  <2> QED  BY <2>2 DEF p
<1>3. (IF a + 1 <= b THEN b - (a + 1) + 1 ELSE 0) = b - a
    OBVIOUS
<1>4. SubSeq(s, a + 1, b) \o SubSeq(s, b + 1, z) = SubSeq(s, a + 1, z)
  <2>1. a + 1 \in 1 .. Len(s) + 1 /\ b \in (a + 1) - 1 .. Len(s) /\ z \in b .. Len(s)
      BY <1>1
  <2> QED  BY <1>1, <2>1, ConcatAdjacentSubSeq
<1> QED
    BY <1>2, <1>3, <1>4 DEF Bytes, Part, ++

LEMMA PartType ==
    ASSUME NEW s \in Bytes, NEW a \in Nat, NEW b \in Nat, a <= b, b <= Len(s)
    PROVE  Part(s, a, b) \in Bytes /\ Len(Part(s, a, b)) = b - a
<1>1. b <= b
    OBVIOUS
<1> QED
    BY <1>1, Cut

LEMMA SameStart ==
    ASSUME NEW s \in Bytes, NEW t \in Bytes, NEW c \in Bytes, s ++ c = t ++ c
    PROVE  s = t
<1>1. Len(s) = Len(t)
  <2>1. Len(s ++ c) = Len(s) + Len(c) /\ Len(s) \in Nat /\ Len(c) \in Nat
      BY Concatenation
  <2>2. Len(t ++ c) = Len(t) + Len(c) /\ Len(t) \in Nat
      BY Concatenation
  <2> QED  BY <2>1, <2>2
<1>2. SubSeq(s ++ c, 1, Len(s)) = s /\ SubSeq(t ++ c, 1, Len(t)) = t
    BY BytesTakeDrop
<1> QED
    BY <1>1, <1>2

\* Where the leaves end, one after the other, that a tile was written of.
Offsets(s, es, off) ==
    /\ off \in [0 .. Len(es) -> 0 .. Len(s)]
    /\ off[0] = 0 /\ off[Len(es)] = Len(s)
    /\ \A i \in 1 .. Len(es) :
          off[i - 1] <= off[i] /\ Part(s, off[i - 1], off[i]) = TileLeaf(es[i])

\* How many leaves end within the first n bytes.
Whole(es, off, n, k) ==
    /\ k \in 0 .. Len(es) /\ \A i \in 0 .. k : off[i] <= n
    /\ k < Len(es) => off[k + 1] > n

LEMMA WholeExists ==
    ASSUME NEW s \in Bytes, NEW es \in Seq(Entries), NEW off, Offsets(s, es, off), NEW n \in 0 .. Len(s)
    PROVE  \E k : Whole(es, off, n, k)
<1> DEFINE w == Len(es)
           J == {i \in 0 .. w : off[i] > n}
<1>1. w \in Nat /\ off \in [0 .. w -> 0 .. Len(s)] /\ off[0] = 0 /\ n \in Nat /\ Len(s) \in Nat
    BY LenBytes DEF Offsets
<1> HIDE DEF w
<1>2. CASE J = {}
  <2>1. w \in 0 .. w /\ \A i \in 0 .. w : off[i] <= n
      BY <1>1, <1>2
  <2> QED  BY <1>1, <2>1 DEF Whole, w
<1>3. CASE J # {}
  <2>1. J \subseteq Nat
      BY <1>1
  <2>2. PICK j \in J : \A y \in J : j =< y
    <3> HIDE DEF J
    <3> QED  BY <1>3, <2>1, Smallest
  <2>3. j \in 0 .. w /\ off[j] > n /\ j # 0
      BY <1>1, <2>2
  <2>4. \A i \in 0 .. j - 1 : off[i] <= n
    <3> SUFFICES ASSUME NEW i \in 0 .. j - 1
                 PROVE  off[i] <= n
        OBVIOUS
    <3>1. i \in 0 .. w /\ ~(j =< i)
        BY <1>1, <2>3
    <3>2. i \notin J
      <4> HIDE DEF J
      <4> QED  BY <2>2, <3>1, Zenon
    <3>3. off[i] \in Int
        BY <1>1, <3>1
    <3> QED  BY <1>1, <3>1, <3>2, <3>3
  <2>5. j - 1 \in 0 .. w /\ (j - 1) + 1 = j
      BY <1>1, <2>3
  <2>6. Whole(es, off, n, j - 1)
      BY <2>3, <2>4, <2>5 DEF Whole, w
  <2> QED  BY <2>6
<1> QED
    BY <1>2, <1>3

(* A tile, or the first n bytes of it, reads as the leaves that are whole. *)
LEMMA TileRead ==
    ASSUME NEW s \in Bytes, NEW es \in Seq(Entries), \A i \in 1 .. Len(es) : InRange(es[i].leafIndex),
           NEW off, Offsets(s, es, off), NEW n \in 0 .. Len(s), NEW k, Whole(es, off, n, k)
    PROVE  ReadTile(SubSeq(s, 1, n), Len(es)) =
               TileReader(k = Len(es), SubSeq(es, 1, k), Part(s, off[k], n))
<1> DEFINE w == Len(es)
           d == SubSeq(s, 1, n)
           c == Part(s, n, Len(s))
           G(i) == Part(s, off[i], n)
           R(i) == Part(s, off[i], Len(s))
           F == [i \in 0 .. w |-> IF i <= k THEN TileReader(TRUE, SubSeq(es, 1, i), G(i))
                                  ELSE TileReader(FALSE, SubSeq(es, 1, k), G(k))]
<1>1. /\ w \in Nat /\ Len(s) \in Nat /\ n \in Nat /\ n <= Len(s)
      /\ off \in [0 .. w -> 0 .. Len(s)] /\ off[0] = 0
      /\ k \in 0 .. w /\ (\A i \in 0 .. k : off[i] <= n) /\ (k < w => off[k + 1] > n)
    BY LenBytes DEF Offsets, Whole
<1>2. ASSUME NEW i \in 1 .. w
      PROVE  /\ es[i] \in Entries /\ InRange(es[i].leafIndex) /\ off[i - 1] <= off[i]
             /\ Part(s, off[i - 1], off[i]) = TileLeaf(es[i])
    BY <1>2 DEF Offsets
<1> HIDE DEF w
<1>3. c \in Bytes /\ Len(c) = Len(s) - n
  <2>1. Len(s) <= Len(s)
      BY <1>1
  <2> QED  BY <1>1, <2>1, PartType
<1>4. ASSUME NEW i \in 0 .. k
      PROVE  G(i) \in Bytes /\ R(i) = G(i) ++ c
  <2> DEFINE a == off[i]
  <2>1. a \in Nat /\ a <= n /\ Len(s) <= Len(s)
    <3>1. i \in 0 .. w
        BY <1>1
    <3> QED  BY <1>1, <3>1
  <2> HIDE DEF a
  <2>2. Part(s, a, n) \in Bytes
      BY <1>1, <2>1, PartType
  <2>3. Part(s, a, n) ++ Part(s, n, Len(s)) = Part(s, a, Len(s))
      BY <1>1, <2>1, Cut
  <2> QED  BY <2>2, <2>3 DEF a
<1>5. ASSUME NEW i \in 0 .. w
      PROVE  R(i) \in Bytes /\ Len(R(i)) = Len(s) - off[i] /\ off[i] \in Nat /\ off[i] <= Len(s)
  <2>1. off[i] \in Nat /\ off[i] <= Len(s) /\ Len(s) <= Len(s)
      BY <1>1
  <2> QED  BY <1>1, <2>1, PartType
<1>6. ASSUME NEW i \in 1 .. w
      PROVE  R(i - 1) = TileLeaf(es[i]) ++ R(i)
  <2>1. i \in 0 .. w /\ i - 1 \in 0 .. w
      BY <1>1
  <2> DEFINE a == off[i - 1]
             b == off[i]
  <2>2. a \in Nat /\ b \in Nat /\ a <= b /\ b <= Len(s) /\ Len(s) <= Len(s)
        /\ Part(s, a, b) = TileLeaf(es[i])
    <3>1. a \in Nat /\ b \in Nat /\ b <= Len(s) /\ Len(s) <= Len(s)
        BY <1>1, <2>1
    <3>2. a <= b /\ Part(s, a, b) = TileLeaf(es[i])
        BY <1>2
    <3> QED  BY <3>1, <3>2
  <2> HIDE DEF a, b
  <2>3. Part(s, a, b) ++ Part(s, b, Len(s)) = Part(s, a, Len(s))
      BY <1>1, <2>2, Cut
  <2> QED  BY <2>2, <2>3 DEF a, b
<1>7. ASSUME NEW i \in 1 .. w, i <= k + 1
      PROVE  LeafRead(ReadTileLeaf(G(i - 1)), es[i], R(i), c)
  <2>1. i - 1 \in 0 .. k /\ i \in 0 .. w
      BY <1>1, <1>7
  <2> DEFINE g == G(i - 1)
             r == R(i)
             e == es[i]
  <2>2. g \in Bytes /\ r \in Bytes /\ e \in Entries /\ InRange(e.leafIndex)
      BY <1>2, <1>4, <1>5, <2>1
  <2>3. TileLeaf(e) ++ r = g ++ c
      BY <1>4, <1>6, <2>1
  <2> HIDE DEF g, r, e, c
  <2>4. LeafRead(ReadTileLeaf(g), e, r, c)
      BY <1>3, <2>2, <2>3, TileLeafRead
  <2> QED  BY <2>4 DEF g, r, e
<1> HIDE DEF G, R, c, d
<1>8. ASSUME NEW i \in 1 .. k
      PROVE  ReadTileLeaf(G(i - 1)) = [ok |-> TRUE, rest |-> G(i), e |-> es[i]]
  <2>1. i \in 1 .. w /\ i <= k + 1 /\ i \in 0 .. k /\ i \in 0 .. w
      BY <1>1
  <2>2. ~(Len(R(i)) < Len(c))
    <3>1. Len(R(i)) = Len(s) - off[i] /\ off[i] \in Nat /\ off[i] <= n
        BY <1>1, <1>5, <2>1
    <3> QED  BY <1>1, <1>3, <3>1
  <2>3. PICK u \in Bytes : /\ R(i) = u ++ c
                           /\ ReadTileLeaf(G(i - 1)) = [ok |-> TRUE, rest |-> u, e |-> es[i]]
      BY <1>7, <2>1, <2>2, Zenon DEF LeafRead
  <2>4. G(i) \in Bytes /\ u ++ c = G(i) ++ c
      BY <1>4, <2>1, <2>3
  <2>5. u = G(i)
      BY <1>3, <2>4, SameStart
  <2> QED  BY <2>3, <2>5, Zenon
<1>9. ASSUME k < w
      PROVE  ~ReadTileLeaf(G(k)).ok
  <2>1. k + 1 \in 1 .. w /\ k + 1 <= k + 1 /\ (k + 1) - 1 = k /\ k + 1 \in 0 .. w
      BY <1>1, <1>9
  <2>2. Len(R(k + 1)) < Len(c)
    <3>1. Len(R(k + 1)) = Len(s) - off[k + 1] /\ off[k + 1] \in Nat
        BY <1>5, <2>1
    <3>2. off[k + 1] > n
        BY <1>1, <1>9
    <3> QED  BY <1>1, <1>3, <3>1, <3>2
  <2>3. LeafRead(ReadTileLeaf(G(k)), es[k + 1], R(k + 1), c)
    <3>1. LeafRead(ReadTileLeaf(G((k + 1) - 1)), es[k + 1], R(k + 1), c)
        BY <1>7, <2>1
    <3> QED  BY <2>1, <3>1, Zenon
  <2>4. ASSUME NEW u \in Bytes
        PROVE  R(k + 1) # u ++ c
    <3>1. Len(u ++ c) = Len(u) + Len(c) /\ Len(u) \in Nat /\ Len(c) \in Nat
        BY <1>3, Concatenation
    <3>2. ~(Len(u ++ c) < Len(c))
        BY <3>1
    <3> QED  BY <2>2, <3>2, Zenon
  <2> QED  BY <2>3, <2>4, Zenon DEF LeafRead
<1>10. ASSUME NEW i \in 1 .. k
       PROVE  Append(SubSeq(es, 1, i - 1), es[i]) = SubSeq(es, 1, i)
  <2>1. 1 \in 1 .. Len(es) + 1 /\ i \in 1 .. Len(es)
      BY <1>1 DEF w
  <2> QED  BY <2>1
<1>11. F = [i \in 0 .. w |-> IF i = 0 THEN TileReader(TRUE, <<>>, d) ELSE ReadNext(F[i - 1])]
  <2>1. F[0] = TileReader(TRUE, <<>>, d)
    <3>1. 0 \in 0 .. w /\ 0 <= k
        BY <1>1
    <3>2. SubSeq(es, 1, 0) = <<>>
        OBVIOUS
    <3>3. G(0) = d
        BY <1>1 DEF G, d, Part
    <3> QED  BY <3>1, <3>2, <3>3, Zenon
  <2>2. ASSUME NEW i \in 1 .. w
        PROVE  F[i] = ReadNext(F[i - 1])
    <3>0. i \in 0 .. w /\ i - 1 \in 0 .. w
        BY <1>1
    <3>1. CASE i <= k
      <4>1. i - 1 <= k /\ i \in 1 .. k
          BY <1>1, <3>1
      <4>2. F[i] = TileReader(TRUE, SubSeq(es, 1, i), G(i))
            /\ F[i - 1] = TileReader(TRUE, SubSeq(es, 1, i - 1), G(i - 1))
          BY <3>0, <3>1, <4>1, Zenon
      <4>3. ReadNext(F[i - 1]) = TileReader(TRUE, Append(SubSeq(es, 1, i - 1), es[i]), G(i))
        <5>1. ReadTileLeaf(G(i - 1)) = [ok |-> TRUE, rest |-> G(i), e |-> es[i]]
            BY <1>8, <4>1
        <5> DEFINE l == SubSeq(es, 1, i - 1)
        <5> HIDE DEF F, l
        <5>2. LeafIs(ReadTileLeaf(G(i - 1)), es[i], G(i))
            BY <5>1, Zenon DEF LeafIs
        <5>3. ReadNext(TileReader(TRUE, l, G(i - 1))) = TileReader(TRUE, Append(l, es[i]), G(i))
            BY <5>2, ReadNextLeaf
        <5> QED  BY <4>2, <5>3, Zenon DEF l
      <4> HIDE DEF F
      <4> QED  BY <1>10, <4>1, <4>2, <4>3, Zenon
    <3>2. CASE i = k + 1
      <4>1. i - 1 = k /\ ~(i <= k) /\ k <= k /\ k < w
          BY <1>1, <3>2
      <4>2. F[i] = TileReader(FALSE, SubSeq(es, 1, k), G(k))
            /\ F[i - 1] = TileReader(TRUE, SubSeq(es, 1, k), G(k))
          BY <3>0, <4>1, Zenon
      <4> HIDE DEF F
      <4> QED  BY <1>9, <4>1, <4>2, ReadNextIs, Zenon
    <3>3. CASE i > k + 1
      <4>1. ~(i <= k) /\ ~(i - 1 <= k)
          BY <1>1, <3>3
      <4>2. F[i] = TileReader(FALSE, SubSeq(es, 1, k), G(k))
            /\ F[i - 1] = TileReader(FALSE, SubSeq(es, 1, k), G(k))
          BY <3>0, <4>1, Zenon
      <4> HIDE DEF F
      <4> QED  BY <4>2, ReadNextIs, Zenon
    <3>4. i <= k \/ i = k + 1 \/ i > k + 1
        BY <1>1
    <3> QED  BY <3>1, <3>2, <3>3, <3>4
  <2>3. F = [i \in 0 .. w |-> F[i]]
      BY Zenon
  <2> HIDE DEF F
  <2>4. ASSUME NEW i \in 0 .. w
        PROVE  F[i] = IF i = 0 THEN TileReader(TRUE, <<>>, d) ELSE ReadNext(F[i - 1])
    <3>1. i = 0 \/ i \in 1 .. w
        BY <1>1
    <3>2. \A j \in 1 .. w : j # 0
        BY <1>1
    <3> QED  BY <2>1, <2>2, <3>1, <3>2, Zenon
  <2> QED  BY <2>3, <2>4, Zenon
<1>12. F[w] = TileReader(k = w, SubSeq(es, 1, k), G(k))
  <2>1. w \in 0 .. w
      BY <1>1
  <2>2. CASE k = w
    <3>1. w <= k /\ (k = w) = TRUE
        BY <1>1, <2>2
    <3> QED  BY <2>1, <2>2, <3>1, Zenon
  <2>3. CASE k # w
    <3>1. ~(w <= k)
        BY <1>1, <2>3
    <3>2. (k = w) = FALSE
        BY <2>3
    <3> QED  BY <2>1, <3>1, <3>2, Zenon
  <2> QED  BY <2>2, <2>3
<1> HIDE DEF F
<1>13. ReadTile(d, w) = F[w]
  <2>1. w \in Nat
      BY <1>1
  <2>2. ReadTurns(F, d, w)
      BY <1>11, Zenon DEF ReadTurns
  <2> QED  BY <2>1, <2>2, ReadTileIs
<1> QED
    BY <1>12, <1>13, Zenon DEF w, G, d

LEMMA NoneLeft ==
    ASSUME NEW s \in Bytes
    PROVE  Part(s, Len(s), Len(s)) = <<>>
<1>1. Len(s) \in Nat /\ Len(s) <= Len(s)
    BY LenBytes
<1>2. Part(s, Len(s), Len(s)) \in Bytes /\ Len(Part(s, Len(s), Len(s))) = Len(s) - Len(s)
    BY <1>1, PartType
<1>3. Len(s) - Len(s) = 0
    BY <1>1
<1> QED
    BY <1>2, <1>3, EmptyBytes

(* The first conjuncts of LeavesReadBack, of a tile and its leaves.        *)
LEMMA TileReadBack ==
    ASSUME NEW s \in Bytes, NEW es \in Seq(Entries), \A i \in 1 .. Len(es) : InRange(es[i].leafIndex),
           NEW off, Offsets(s, es, off), NEW n \in 0 .. Len(s)
    PROVE  /\ n = Len(s) => ReadTile(SubSeq(s, 1, n), Len(es)) = [ok |-> TRUE, leaves |-> es, rest |-> <<>>]
           /\ n < Len(s) => /\ ~ReadTile(SubSeq(s, 1, n), Len(es)).ok
                            /\ IsStrictPrefix(ReadTile(SubSeq(s, 1, n), Len(es)).leaves, es)
<1> DEFINE r == ReadTile(SubSeq(s, 1, n), Len(es))
           w == Len(es)
<1>1. PICK k : Whole(es, off, n, k)
    BY WholeExists
<1>2. r = TileReader(k = w, SubSeq(es, 1, k), Part(s, off[k], n))
    BY <1>1, TileRead
<1>3. /\ w \in Nat /\ Len(s) \in Nat /\ k \in 0 .. w /\ (\A i \in 0 .. k : off[i] <= n)
      /\ k < w => off[k + 1] > n
      /\ off \in [0 .. w -> 0 .. Len(s)] /\ off[w] = Len(s)
    BY <1>1, LenBytes DEF Whole, Offsets
<1> HIDE DEF r
<1>4. ASSUME n = Len(s)
      PROVE  r = [ok |-> TRUE, leaves |-> es, rest |-> <<>>]
  <2>1. k = w
    <3> SUFFICES ASSUME k # w
                 PROVE  FALSE
        OBVIOUS
    <3>1. k < w /\ k + 1 \in 0 .. w
        BY <1>3
    <3>2. off[k + 1] \in 0 .. Len(s) /\ off[k + 1] > Len(s)
        BY <1>3, <1>4, <3>1
    <3> QED  BY <1>3, <3>2
  <2>2. SubSeq(es, 1, k) = es
      BY <2>1, SubSeqFull
  <2>3. Part(s, off[k], n) = <<>>
      BY <1>3, <1>4, <2>1, NoneLeft
  <2>4. (k = w) = TRUE
      BY <2>1
  <2>5. r = TileReader(TRUE, es, <<>>)
      BY <1>2, <2>2, <2>3, <2>4, Zenon
  <2> QED  BY <2>5, Zenon DEF TileReader
<1>5. ASSUME n < Len(s)
      PROVE  ~r.ok /\ IsStrictPrefix(r.leaves, es)
  <2>1. k < w
    <3> SUFFICES ASSUME k = w
                 PROVE  FALSE
        BY <1>3
    <3>1. w \in 0 .. k
        BY <1>3
    <3>2. off[w] <= n
        BY <1>3, <3>1
    <3> QED  BY <1>3, <1>5, <3>2
  <2>2. (k = w) = FALSE
      BY <1>3, <2>1
  <2>3. ~r.ok /\ r.leaves = SubSeq(es, 1, k)
    <3> DEFINE l == SubSeq(es, 1, k)
               d == Part(s, off[k], n)
    <3> HIDE DEF l, d
    <3>1. ~TileReader(FALSE, l, d).ok /\ TileReader(FALSE, l, d).leaves = l
        BY Zenon DEF TileReader
    <3>2. r = TileReader(FALSE, l, d)
        BY <1>2, <2>2, Zenon DEF l, d
    <3> QED  BY <3>1, <3>2, Zenon DEF l
  <2>4. IsStrictPrefix(SubSeq(es, 1, k), es)
    <3> DEFINE l == SubSeq(es, 1, k)
    <3>1. /\ l \in Seq(Entries) /\ Len(l) = k /\ \A i \in 1 .. k : l[i] = es[i]
      <4>1. \A i \in 1 .. k : es[i] \in Entries
          BY <1>3, <2>1
      <4>2. k \in Nat /\ 1 \in Int
          BY <1>3
      <4> QED  BY <1>3, <4>1, <4>2
    <3>2. SubSeq(l, 1, Len(l)) = l
      <4> HIDE DEF l
      <4> QED  BY <3>1, SubSeqFull
    <3>3. l # es
      <4> HIDE DEF l
      <4> QED  BY <1>3, <2>1, <3>1
    <3>4. SubSeq(es, 1, Len(l)) = l /\ Len(l) <= Len(es)
        BY <1>3, <2>1, <3>1
    <3> HIDE DEF l
    <3>5. IsStrictPrefix(l, es)
        BY <3>2, <3>3, <3>4, Zenon DEF IsStrictPrefix, IsPrefix
    <3> QED  BY <3>5 DEF l
  <2> QED  BY <2>3, <2>4, Zenon
<1> QED
    BY <1>4, <1>5 DEF r

-----------------------------------------------------------------------------
(* Extensions of an SCT.                                                   *)

\* What the loop of ParseExtensions goes on with.
ExtensionRead(type, data) == [type |-> type, data |-> data]
Turn(last) ==
    IF last.type = LeafIndexType \/ ~last.data.ok THEN last ELSE ReadExtension(last.data)

LEMMA ParseExtensionsIs ==
    ASSUME NEW s \in Bytes, NEW F,
           F = [i \in 0 .. Len(s) |-> IF i = 0 THEN ExtensionRead(-1, String(s)) ELSE Turn(F[i - 1])]
    PROVE  LET found == F[Len(s)]
           IN  ParseExtensions(s) =
                 IF found.type = LeafIndexType /\ found.data.ok /\ Len(found.data.got) = 5
                 THEN FromUint(found.data.got) ELSE Invalid
<1> DEFINE w == Len(s)
           V == CHOOSE g : g = [i \in 0 .. Len(s) |->
                    IF i = 0 THEN ExtensionRead(-1, String(s)) ELSE Turn(g[i - 1])]
<1>1. ParseExtensions(s) =
         IF V[Len(s)].type = LeafIndexType /\ V[Len(s)].data.ok /\ Len(V[Len(s)].data.got) = 5
         THEN FromUint(V[Len(s)].data.got) ELSE Invalid
    BY Zenon DEF ParseExtensions, Turn, ExtensionRead
<1>2. V = [i \in 0 .. w |-> IF i = 0 THEN ExtensionRead(-1, String(s)) ELSE Turn(V[i - 1])]
    BY Zenon
<1>3. w \in Nat
    BY LenBytes
<1>4. F = [i \in 0 .. w |-> IF i = 0 THEN ExtensionRead(-1, String(s)) ELSE Turn(F[i - 1])]
    BY Zenon
<1> HIDE DEF V, w
<1> DEFINE I == {i \in 0 .. w : V[i] # F[i]}
<1>5. I = {}
  <2> SUFFICES ASSUME I # {}
               PROVE  FALSE
      OBVIOUS
  <2>1. I \subseteq Nat
      BY <1>3
  <2>2. PICK i \in I : \A y \in I : i =< y
    <3> HIDE DEF I
    <3> QED  BY <2>1, Smallest
  <2>3. V[0] = F[0]
    <3>1. 0 \in 0 .. w
        BY <1>3
    <3> QED  BY <1>2, <1>4, <3>1, Zenon
  <2>4. i \in 0 .. w /\ i # 0 /\ i - 1 \in 0 .. w
      BY <1>3, <2>2, <2>3
  <2>5. V[i - 1] = F[i - 1]
    <3>1. i - 1 \notin I
      <4>1. ~(i =< i - 1)
          BY <1>3, <2>4
      <4> HIDE DEF I
      <4> QED  BY <2>2, <4>1, Zenon
    <3> QED  BY <2>4, <3>1, Zenon
  <2>6. V[i] = Turn(V[i - 1]) /\ F[i] = Turn(F[i - 1])
      BY <1>2, <1>4, <2>4, Zenon
  <2>7. V[i] = F[i]
      BY <2>5, <2>6, Zenon
  <2> QED  BY <2>2, <2>7
<1>6. w \in 0 .. w
    BY <1>3
<1>7. V[w] = F[w]
    BY <1>5, <1>6, Zenon
<1> QED
    BY <1>1, <1>7, Zenon DEF w

\* An extension with type y and data v.
Extension(y, v) == Uint(y, 1) ++ LengthPrefixed(2, v)

LEMMA ReadExtensionIs ==
    ASSUME NEW y \in Octet, NEW v \in Bytes, Len(v) < Base^2, NEW t \in Bytes, NEW g
    PROVE  /\ ReadExtension(Reader(g, Extension(y, v) ++ t)) = ExtensionRead(y, Reader(v, t))
           /\ Extension(y, v) \in Bytes
<1> DEFINE b == Uint(y, 1)
           l == LengthPrefixed(2, v)
           x == Extension(y, v)
           d == x ++ t
           r == Reader(g, d)
           type == Read(r, 1)
           data == ReadLengthPrefixed(type, 2)
<1>1. b \in Bytes /\ Len(b) = 1 /\ FromUint(b) = y
  <2>1. y \in Nat /\ y < Base /\ Base \in Nat
      BY EncodingsAssumption DEF Octet
  <2>2. Base^1 = Base
    <3>1. 0 \in 0 .. 7 /\ 0 + 1 = 1
        OBVIOUS
    <3>2. Base^1 = Base * 1
        BY <3>1, EncodingsAssumption
    <3> QED  BY <2>1, <3>2
  <2>3. 1 \in 0 .. 8 /\ y < Base^1
      BY <2>1, <2>2
  <2> QED  BY <2>1, <2>3, BytesUint, UintReadBack
<1>2. l \in Bytes /\ 2 \in 0 .. 8 /\ <<>> \in Bytes
    BY PrefixedType, EmptyBytes
<1>3. x = b ++ l
    BY DEF Extension
<1> HIDE DEF b, x
<1>4. l ++ t \in Bytes /\ x \in Bytes /\ d \in Bytes /\ d = b ++ (l ++ t)
  <2> HIDE DEF l
  <2>1. l ++ t \in Bytes /\ x \in Bytes
      BY <1>1, <1>2, <1>3, Concatenation
  <2>2. d \in Bytes /\ (b ++ l) ++ t = b ++ (l ++ t)
      BY <1>1, <1>2, <2>1, Associative, Concatenation
  <2> QED  BY <1>3, <2>1, <2>2
<1> HIDE DEF d
<1>5. After(r, g, b ++ (l ++ t), <<>>)
  <2>1. d ++ <<>> = d
      BY <1>4, Concatenation
  <2> HIDE DEF l
  <2> QED  BY <1>4, <2>1, Zenon DEF After
<1> HIDE DEF r
<1>6. After(type, b, l ++ t, <<>>)
  <2>1. After(Read(r, Len(b)), b, l ++ t, <<>>)
    <3> DEFINE z == l ++ t
    <3>1. z \in Bytes /\ After(r, g, b ++ z, <<>>)
        BY <1>4, <1>5
    <3> HIDE DEF z
    <3>2. After(Read(r, Len(b)), b, z, <<>>)
        BY <1>1, <1>2, <3>1, ReadAfter
    <3> QED  BY <3>2 DEF z
  <2> QED  BY <1>1, <2>1
<1> HIDE DEF type
<1>7. After(data, v, t, <<>>)
    BY <1>2, <1>6, ReadPrefixedAfter
<1>8. type # Failed /\ data # Failed
  <2>1. Len(l ++ t) \in Nat /\ Len(t) \in Nat /\ Len(<<>>) = 0
      BY <1>4, LenBytes, EmptyBytes
  <2>2. type = Failed => Len(l ++ t) < Len(<<>>)
      BY <1>6, AfterCases
  <2>3. data = Failed => Len(t) < Len(<<>>)
      BY <1>7, AfterCases
  <2> HIDE DEF data, l
  <2> QED  BY <2>1, <2>2, <2>3
<1>9. type.got = b
    BY <1>6, <1>8, AfterCases, Zenon
<1>10. data = Reader(v, t)
  <2>1. data = Reader(v, data.rest) /\ data.rest \in Bytes /\ t = data.rest ++ <<>>
      BY <1>7, <1>8, AfterCases, Zenon
  <2>2. data.rest ++ <<>> = data.rest
      BY <2>1, Concatenation
  <2> QED  BY <2>1, <2>2, Zenon
<1>11. ReadExtension(r) = ExtensionRead(FromUint(type.got), data)
    BY Zenon DEF ReadExtension, ExtensionRead, type
<1>12. ReadExtension(r) = ExtensionRead(y, Reader(v, t))
    BY <1>1, <1>9, <1>10, <1>11, Zenon
<1> QED
    BY <1>4, <1>12 DEF r, d, x

LEMMA TurnIs ==
    ASSUME NEW y, NEW g, NEW d
    PROVE  /\ y = LeafIndexType => Turn(ExtensionRead(y, Reader(g, d))) = ExtensionRead(y, Reader(g, d))
           /\ y # LeafIndexType => Turn(ExtensionRead(y, Reader(g, d))) = ReadExtension(Reader(g, d))
<1> DEFINE r == Reader(g, d)
<1>1. r.ok
    BY ReaderFields
<1> HIDE DEF r
<1>2. ExtensionRead(y, r).type = y /\ ExtensionRead(y, r).data = r
    BY Zenon DEF ExtensionRead
<1>3. /\ y = LeafIndexType => Turn(ExtensionRead(y, r)) = ExtensionRead(y, r)
      /\ y # LeafIndexType => Turn(ExtensionRead(y, r)) = ReadExtension(r)
    BY <1>1, <1>2, Zenon DEF Turn
<1> QED
    BY <1>3 DEF r

\* The extensions of an SCT: m of unknown types, and that of index x.
Extensions(s, x, m, types, rests) ==
    /\ m \in 0 .. 2 /\ types \in [1 .. m -> Unknown] /\ rests \in [0 .. m -> Bytes]
    /\ rests[0] = s /\ rests[m] = MarshalExtensions(x)
    /\ \A i \in 1 .. m : rests[i - 1] = Extension(types[i], Uint(0, i)) ++ rests[i]
    /\ s \in Bytes /\ Len(s) > m

(* A client finds the index, after the types that it does not know.        *)
LEMMA IndexFound ==
    ASSUME NEW s, NEW x, InRange(x), NEW m, NEW types, NEW rests, Extensions(s, x, m, types, rests)
    PROVE  ParseExtensions(s) = x
<1> DEFINE w == Len(s)
           v == Uint(x, 5)
           T(i) == IF i = 0 THEN -1 ELSE types[i]
           H(i) == IF i = 0 THEN <<>> ELSE Uint(0, i)
           last == ExtensionRead(LeafIndexType, Reader(v, <<>>))
           F == [i \in 0 .. w |-> IF i <= m THEN ExtensionRead(T(i), Reader(H(i), rests[i])) ELSE last]
<1>1. /\ s \in Bytes /\ w \in Nat /\ m \in 0 .. 2 /\ m < w
      /\ types \in [1 .. m -> Unknown] /\ rests \in [0 .. m -> Bytes]
      /\ rests[0] = s /\ rests[m] = MarshalExtensions(x)
    BY LenBytes DEF Extensions
<1>2. \A i \in 1 .. m : rests[i - 1] = Extension(types[i], Uint(0, i)) ++ rests[i]
    BY DEF Extensions
<1>3. \A i \in 1 .. m : types[i] \in Octet /\ types[i] # LeafIndexType
    BY <1>1, EntriesAssumption
<1>4. \A i \in 0 .. m : T(i) # LeafIndexType
    BY <1>1, <1>3 DEF LeafIndexType
<1>5. /\ v \in Bytes /\ Len(v) = 5 /\ Len(v) < Base^2 /\ FromUint(v) = x
      /\ MarshalExtensions(x) = Extension(LeafIndexType, v) ++ <<>>
  <2>1. /\ v \in Bytes /\ Len(v) = 5 /\ Len(v) < Base^2 /\ FromUint(v) = x
        /\ MarshalExtensions(x) = Uint(0, 1) ++ LengthPrefixed(2, v) /\ MarshalExtensions(x) \in Bytes
      BY ExtensionsShape
  <2>2. MarshalExtensions(x) ++ <<>> = MarshalExtensions(x)
      BY <2>1, Concatenation
  <2>3. MarshalExtensions(x) = Extension(LeafIndexType, v)
      BY <2>1, Zenon DEF Extension, LeafIndexType
  <2> QED  BY <2>1, <2>2, <2>3
<1> HIDE DEF v, w
<1>6. ASSUME NEW i \in 1 .. m
      PROVE  ReadExtension(Reader(H(i - 1), rests[i - 1])) = ExtensionRead(T(i), Reader(H(i), rests[i]))
  <2> DEFINE y == types[i]
             u == Uint(0, i)
             t == rests[i]
             g == H(i - 1)
  <2>1. y \in Octet /\ t \in Bytes /\ rests[i - 1] = Extension(y, u) ++ t
      BY <1>1, <1>2, <1>3
  <2>2. u \in Bytes /\ Len(u) < Base^2
    <3>1. i \in 0 .. 8 /\ i <= 2
        BY <1>1
    <3>2. u \in Bytes /\ Len(u) = i
        BY <3>1, BytesUint
    <3>3. 5 < Base^2
        BY <1>5
    <3>4. Base^2 \in Nat
      <4>1. 2 \in 0 .. 8
          OBVIOUS
      <4> QED  BY <4>1, Powers
    <3> QED  BY <3>1, <3>2, <3>3, <3>4
  <2>3. T(i) = y /\ H(i) = u
    <3>1. i # 0
        BY <1>1
    <3> QED  BY <3>1, Zenon
  <2> HIDE DEF y, u, t, g
  <2>4. ReadExtension(Reader(g, Extension(y, u) ++ t)) = ExtensionRead(y, Reader(u, t))
      BY <2>1, <2>2, ReadExtensionIs
  <2> HIDE DEF T, H
  <2> QED  BY <2>1, <2>3, <2>4, Zenon DEF t, g
<1>7. ReadExtension(Reader(H(m), rests[m])) = last
  <2> DEFINE g == H(m)
  <2>1. LeafIndexType \in Octet /\ <<>> \in Bytes
      BY EmptyBytes, EncodingsAssumption DEF LeafIndexType, Octet
  <2> HIDE DEF g
  <2>2. ReadExtension(Reader(g, Extension(LeafIndexType, v) ++ <<>>)) = last
      BY <1>5, <2>1, ReadExtensionIs
  <2>3. rests[m] = Extension(LeafIndexType, v) ++ <<>>
      BY <1>1, <1>5
  <2> QED  BY <2>2, <2>3, Zenon DEF g
<1>8. F = [i \in 0 .. w |-> IF i = 0 THEN ExtensionRead(-1, String(s)) ELSE Turn(F[i - 1])]
  <2>1. F[0] = ExtensionRead(-1, String(s))
    <3>1. 0 \in 0 .. w /\ 0 <= m
        BY <1>1
    <3>2. String(s) = Reader(<<>>, s)
        BY Zenon DEF String, Reader
    <3> QED  BY <1>1, <3>1, <3>2, Zenon
  <2>2. ASSUME NEW i \in 1 .. w
        PROVE  F[i] = Turn(F[i - 1])
    <3>0. i \in 0 .. w /\ i - 1 \in 0 .. w
        BY <1>1
    <3>1. CASE i <= m
      <4>1. i - 1 <= m /\ i \in 1 .. m /\ i - 1 \in 0 .. m
          BY <1>1, <3>1
      <4>2. F[i] = ExtensionRead(T(i), Reader(H(i), rests[i]))
          BY <3>0, <3>1, Zenon
      <4>3. F[i - 1] = ExtensionRead(T(i - 1), Reader(H(i - 1), rests[i - 1]))
          BY <3>0, <4>1, Zenon
      <4> HIDE DEF F, T, H
      <4>4. T(i - 1) # LeafIndexType
          BY <1>4, <4>1, Zenon
      <4>5. Turn(F[i - 1]) = ReadExtension(Reader(H(i - 1), rests[i - 1]))
          BY <4>3, <4>4, TurnIs, Zenon
      <4> QED  BY <1>6, <4>1, <4>2, <4>5, Zenon
    <3>2. CASE i = m + 1
      <4>1. i - 1 = m /\ ~(i <= m) /\ m <= m /\ m \in 0 .. m
          BY <1>1, <3>2
      <4>2. F[i] = last
          BY <3>0, <4>1, Zenon
      <4>3. F[i - 1] = ExtensionRead(T(m), Reader(H(m), rests[m]))
          BY <3>0, <4>1, Zenon
      <4> HIDE DEF F, T, H
      <4>4. T(m) # LeafIndexType
          BY <1>4, <4>1, Zenon
      <4>5. Turn(F[i - 1]) = ReadExtension(Reader(H(m), rests[m]))
          BY <4>3, <4>4, TurnIs, Zenon
      <4> QED  BY <1>7, <4>2, <4>5, Zenon
    <3>3. CASE i > m + 1
      <4>1. ~(i <= m) /\ ~(i - 1 <= m)
          BY <1>1, <3>3
      <4>2. F[i] = last /\ F[i - 1] = last
          BY <3>0, <4>1, Zenon
      <4> HIDE DEF F
      <4> QED  BY <4>2, TurnIs, Zenon
    <3>4. i <= m \/ i = m + 1 \/ i > m + 1
        BY <1>1
    <3> QED  BY <3>1, <3>2, <3>3, <3>4
  <2>3. F = [i \in 0 .. w |-> F[i]]
      BY Zenon
  <2> HIDE DEF F
  <2>4. ASSUME NEW i \in 0 .. w
        PROVE  F[i] = IF i = 0 THEN ExtensionRead(-1, String(s)) ELSE Turn(F[i - 1])
    <3>1. i = 0 \/ i \in 1 .. w
        BY <1>1
    <3>2. \A j \in 1 .. w : j # 0
        BY <1>1
    <3> QED  BY <2>1, <2>2, <3>1, <3>2, Zenon
  <2> QED  BY <2>3, <2>4, Zenon
<1>9. F[w] = last
  <2>1. w \in 0 .. w /\ ~(w <= m)
      BY <1>1
  <2> QED  BY <2>1, Zenon
<1> HIDE DEF F
<1>10. last.type = LeafIndexType /\ last.data.ok /\ last.data.got = v
  <2> DEFINE r == Reader(v, <<>>)
  <2>1. r.ok /\ r.got = v
      BY ReaderFields, Zenon
  <2> HIDE DEF r
  <2>2. ExtensionRead(LeafIndexType, r).type = LeafIndexType /\ ExtensionRead(LeafIndexType, r).data = r
      BY Zenon DEF ExtensionRead
  <2> QED  BY <2>1, <2>2, Zenon DEF r
<1> HIDE DEF last
<1>11. ParseExtensions(s) =
         IF F[w].type = LeafIndexType /\ F[w].data.ok /\ Len(F[w].data.got) = 5
         THEN FromUint(F[w].data.got) ELSE Invalid
    BY <1>1, <1>8, ParseExtensionsIs DEF w
<1> QED
    BY <1>5, <1>9, <1>10, <1>11, Zenon

\* What MakeSCT puts into an SCT.
SCTOf(s, x, types) ==
    s = FlattenSeq([i \in DOMAIN types |-> Uint(types[i], 1) \o LengthPrefixed(2, Uint(0, i))])
        \o MarshalExtensions(x)

LEMMA SCTExtensions ==
    ASSUME NEW x, InRange(x), NEW types \in SeqOf(Unknown, 2), NEW s, SCTOf(s, x, types)
    PROVE  \E m, ts, rests : Extensions(s, x, m, ts, rests)
<1> DEFINE M == MarshalExtensions(x)
           q == [i \in DOMAIN types |-> Uint(types[i], 1) \o LengthPrefixed(2, Uint(0, i))]
<1>1. PICK m \in 0 .. 2 : types \in [1 .. m -> Unknown]
    BY DEF SeqOf
<1>2. M \in Bytes /\ Len(M) = 8
    BY ExtensionsShape
<1>3. s = FlattenSeq(q) ++ M
    BY Zenon DEF SCTOf, ++
<1>4. q = [i \in 1 .. m |-> Extension(types[i], Uint(0, i))]
  <2>1. DOMAIN types = 1 .. m
      BY <1>1
  <2>2. q = [i \in 1 .. m |-> Uint(types[i], 1) \o LengthPrefixed(2, Uint(0, i))]
      BY <2>1, Zenon
  <2> HIDE DEF q
  <2> QED  BY <2>2, Zenon DEF Extension, ++
<1>5. Len(q) = m /\ m \in Nat
  <2> HIDE DEF q
  <2> QED  BY <1>1, <1>4
<1> HIDE DEF q, M
<1>6. \A i \in 1 .. m : q[i] \in Bytes /\ Len(q[i]) \in Nat
  <2> SUFFICES ASSUME NEW i \in 1 .. m
               PROVE  q[i] \in Bytes /\ Len(q[i]) \in Nat
      OBVIOUS
  <2>1. types[i] \in Octet
      BY <1>1, EntriesAssumption
  <2> DEFINE u == Uint(0, i)
             y == types[i]
  <2>2. u \in Bytes /\ Len(u) = i /\ i <= 2 /\ i \in Nat
    <3>1. i \in 0 .. 8 /\ i <= 2 /\ i \in Nat
        BY <1>1
    <3> QED  BY <3>1, BytesUint
  <2>3. 2 < Base^2
    <3>1. 8 < Base^2
        BY <1>2, ExtensionsShape DEF M
    <3>2. Base^2 \in Nat
      <4>1. 2 \in 0 .. 8
          OBVIOUS
      <4> QED  BY <4>1, Powers
    <3> QED  BY <3>1, <3>2
  <2>4. Len(u) < Base^2
    <3>1. Base^2 \in Nat
      <4>1. 2 \in 0 .. 8
          OBVIOUS
      <4> QED  BY <4>1, Powers
    <3> HIDE DEF u
    <3> QED  BY <2>2, <2>3, <3>1
  <2>5. q[i] = Extension(y, u)
      BY <1>4, Zenon
  <2> HIDE DEF u, y
  <2>6. Extension(y, u) \in Bytes
      BY <2>1, <2>2, <2>4, ReadExtensionIs, EmptyBytes DEF y
  <2> QED  BY <2>5, <2>6, LenBytes
<1>7. \A i \in 1 .. m : q[i] = Extension(types[i], Uint(0, i))
    BY <1>4, Zenon
<1>8. CASE m = 0
  <2>1. FlattenSeq(q) = <<>>
    <3>1. Len(q) = 0 /\ q = [i \in 1 .. 0 |-> Extension(types[i], Uint(0, i))]
        BY <1>4, <1>5, <1>8, Zenon
    <3>2. q = <<>>
        BY <3>1
    <3>3. FlattenSeq(q) = q
        BY <3>1, Zenon DEF FlattenSeq
    <3> QED  BY <3>2, <3>3, Zenon
  <2>2. s = M
      BY <1>2, <1>3, <2>1, Concatenation
  <2> DEFINE R == [i \in 0 .. 0 |-> M]
  <2>3. Extensions(s, x, 0, types, R)
    <3>1. R \in [0 .. 0 -> Bytes] /\ R[0] = M
        BY <1>2
    <3>2. types \in [1 .. 0 -> Unknown] /\ 0 \in 0 .. 2 /\ 1 .. 0 = {}
        BY <1>1, <1>8
    <3>3. Len(s) > 0
        BY <1>2, <2>2
    <3> HIDE DEF R
    <3> QED  BY <1>2, <2>2, <3>1, <3>2, <3>3, Zenon DEF Extensions, M
  <2> QED  BY <2>3
<1>9. CASE m = 1
  <2> DEFINE a == q[1]
  <2>1. a \in Bytes /\ Len(a) \in Nat /\ a = Extension(types[1], Uint(0, 1))
    <3>1. 1 \in 1 .. m
        BY <1>9
    <3> QED  BY <1>6, <1>7, <3>1
  <2>2. FlattenSeq(q) = a
    <3> DEFINE F == [i \in 1 .. 1 |-> q[1]]
    <3>1. F = [i \in 1 .. 1 |-> IF i = 1 THEN q[i] ELSE F[i - 1] \o q[i]]
        OBVIOUS
    <3>2. F[1] = q[1]
        OBVIOUS
    <3> HIDE DEF F
    <3>3. Len(q) = 1 /\ 1 \in Nat \ {0}
        BY <1>5, <1>9
    <3>4. FlattenSeq(q) = F[Len(q)]
        BY <3>1, <3>3, FlattenIs
    <3> QED  BY <3>2, <3>3, <3>4, Zenon
  <2> HIDE DEF a
  <2>3. s = a ++ M /\ s \in Bytes /\ Len(s) > 1
    <3>1. s = a ++ M
        BY <1>3, <2>2, Zenon
    <3>2. a ++ M \in Bytes /\ Len(a ++ M) = Len(a) + Len(M)
        BY <1>2, <2>1, Concatenation
    <3> QED  BY <1>2, <2>1, <3>1, <3>2
  <2> DEFINE R == [i \in 0 .. 1 |-> IF i = 0 THEN s ELSE M]
  <2>4. Extensions(s, x, 1, types, R)
    <3>1. R \in [0 .. 1 -> Bytes] /\ R[0] = s /\ R[1] = M
        BY <1>2, <2>3
    <3>2. types \in [1 .. 1 -> Unknown] /\ 1 \in 0 .. 2
        BY <1>1, <1>9
    <3> HIDE DEF R
    <3>3. \A i \in 1 .. 1 : R[i - 1] = Extension(types[i], Uint(0, i)) ++ R[i]
      <4>1. R[0] = Extension(types[1], Uint(0, 1)) ++ R[1]
          BY <2>1, <2>3, <3>1, Zenon
      <4>2. \A i \in 1 .. 1 : i = 1 /\ i - 1 = 0
          OBVIOUS
      <4> QED  BY <4>1, <4>2, Zenon
    <3> QED  BY <2>3, <3>1, <3>2, <3>3, Zenon DEF Extensions, M
  <2> QED  BY <2>4
<1>10. CASE m = 2
  <2> DEFINE a == q[1]
             b == q[2]
  <2>1. /\ a \in Bytes /\ Len(a) \in Nat /\ a = Extension(types[1], Uint(0, 1))
        /\ b \in Bytes /\ Len(b) \in Nat /\ b = Extension(types[2], Uint(0, 2))
    <3>1. 1 \in 1 .. m /\ 2 \in 1 .. m
        BY <1>10
    <3> QED  BY <1>6, <1>7, <3>1
  <2>2. FlattenSeq(q) = a ++ b
    <3> DEFINE F == [i \in 1 .. 2 |-> IF i = 1 THEN q[1] ELSE q[1] \o q[2]]
    <3>1. F[1] = q[1] /\ F[2] = q[1] \o q[2]
      <4>1. 1 \in 1 .. 2 /\ 2 \in 1 .. 2 /\ 2 # 1
          OBVIOUS
      <4> QED  BY <4>1, Zenon
    <3>2. F = [i \in 1 .. 2 |-> F[i]]
        BY Zenon
    <3> HIDE DEF F
    <3>3. ASSUME NEW i \in 1 .. 2
          PROVE  F[i] = IF i = 1 THEN q[i] ELSE F[i - 1] \o q[i]
      <4>1. i = 1 \/ (i = 2 /\ i # 1 /\ i - 1 = 1)
          OBVIOUS
      <4> QED  BY <3>1, <4>1, Zenon
    <3>4. F = [i \in 1 .. 2 |-> IF i = 1 THEN q[i] ELSE F[i - 1] \o q[i]]
        BY <3>2, <3>3, Zenon
    <3>5. Len(q) = 2 /\ 2 \in Nat \ {0}
        BY <1>5, <1>10
    <3>6. FlattenSeq(q) = F[Len(q)]
        BY <3>4, <3>5, FlattenIs
    <3> QED  BY <3>1, <3>5, <3>6, Zenon DEF ++
  <2> HIDE DEF a, b
  <2> DEFINE bM == b ++ M
  <2>3. bM \in Bytes /\ Len(bM) = Len(b) + 8
    <3>1. b ++ M \in Bytes /\ Len(b ++ M) = Len(b) + Len(M)
        BY <1>2, <2>1, Concatenation
    <3> QED  BY <1>2, <3>1
  <2>4. s = a ++ bM /\ s \in Bytes /\ Len(s) > 2
    <3>1. s = (a ++ b) ++ M
        BY <1>3, <2>2, Zenon
    <3>2. (a ++ b) ++ M = a ++ bM
        BY <1>2, <2>1, Associative
    <3> HIDE DEF bM
    <3>3. a ++ bM \in Bytes /\ Len(a ++ bM) = Len(a) + Len(bM)
        BY <2>1, <2>3, Concatenation
    <3> QED  BY <2>1, <2>3, <3>1, <3>2, <3>3
  <2> DEFINE R == [i \in 0 .. 2 |-> IF i = 0 THEN s ELSE IF i = 1 THEN bM ELSE M]
  <2>5. Extensions(s, x, 2, types, R)
    <3>1. R \in [0 .. 2 -> Bytes] /\ R[0] = s /\ R[1] = bM /\ R[2] = M
      <4> HIDE DEF bM
      <4> QED  BY <1>2, <2>3, <2>4
    <3>2. types \in [1 .. 2 -> Unknown] /\ 2 \in 0 .. 2
        BY <1>1, <1>10
    <3> HIDE DEF R
    <3>3. \A i \in 1 .. 2 : R[i - 1] = Extension(types[i], Uint(0, i)) ++ R[i]
      <4>1. R[0] = Extension(types[1], Uint(0, 1)) ++ R[1]
          BY <2>1, <2>4, <3>1, Zenon
      <4>2. R[1] = Extension(types[2], Uint(0, 2)) ++ R[2]
          BY <2>1, <3>1, Zenon
      <4>3. \A i \in 1 .. 2 : (i = 1 /\ i - 1 = 0) \/ (i = 2 /\ i - 1 = 1)
          OBVIOUS
      <4> QED  BY <4>1, <4>2, <4>3, Zenon
    <3> QED  BY <2>4, <3>1, <3>2, <3>3, Zenon DEF Extensions, M
  <2> QED  BY <2>5
<1> QED
    BY <1>1, <1>8, <1>9, <1>10

(* The empty tile, one leaf, and one leaf more.                            *)
LEMMA OffsetsFirst ==
    ASSUME NEW e \in Entries, TileLeaf(e) \in Bytes
    PROVE  \E off : Offsets(TileLeaf(e), <<e>>, off)
<1> DEFINE s == TileLeaf(e)
           off == [i \in 0 .. 1 |-> IF i = 0 THEN 0 ELSE Len(s)]
<1>1. Len(s) \in Nat /\ s \in Bytes
    BY LenBytes
<1> HIDE DEF s
<1>2. off \in [0 .. 1 -> 0 .. Len(s)] /\ off[0] = 0 /\ off[1] = Len(s)
    BY <1>1
<1> HIDE DEF off
<1>3. Part(s, 0, Len(s)) = s
  <2>1. SubSeq(s, 1, Len(s)) = s
      BY <1>1, SubSeqFull DEF Bytes
  <2> QED  BY <2>1 DEF Part
<1>4. Len(<<e>>) = 1 /\ <<e>>[1] = e
    OBVIOUS
<1>5. \A i \in 1 .. 1 : off[i - 1] <= off[i] /\ Part(s, off[i - 1], off[i]) = TileLeaf(<<e>>[i])
  <2>1. \A i \in 1 .. 1 : i = 1 /\ i - 1 = 0
      OBVIOUS
  <2>2. 0 <= Len(s)
      BY <1>1
  <2> QED  BY <1>2, <1>3, <1>4, <2>1, <2>2, Zenon DEF s
<1>6. Offsets(s, <<e>>, off)
    BY <1>2, <1>4, <1>5, Zenon DEF Offsets
<1> QED
    BY <1>6 DEF s

LEMMA PartOfMore ==
    ASSUME NEW s \in Bytes, NEW t \in Bytes, NEW a \in Nat, NEW b \in Nat, a <= b, b <= Len(s)
    PROVE  Part(s ++ t, a, b) = Part(s, a, b)
<1> DEFINE w == s ++ t
           p == Part(s, a, b)
           q == Part(w, a, b)
<1>1. w \in Bytes /\ Len(w) = Len(s) + Len(t) /\ Len(s) \in Nat /\ Len(t) \in Nat
    BY Concatenation
<1>2. \A i \in 1 .. Len(s) : w[i] = s[i]
  <2>1. \A i \in 1 .. Len(s) + Len(t) : (s \o t)[i] = IF i <= Len(s) THEN s[i] ELSE t[i - Len(s)]
      BY ConcatProperties, Zenon DEF Bytes
  <2>2. \A i \in 1 .. Len(s) : i \in 1 .. Len(s) + Len(t) /\ i <= Len(s)
      BY <1>1
  <2> QED  BY <2>1, <2>2, Zenon DEF ++
<1> HIDE DEF w
<1>3. b <= Len(w)
    BY <1>1
<1>4. p \in Bytes /\ Len(p) = b - a /\ q \in Bytes /\ Len(q) = b - a
    BY <1>1, <1>3, PartType
<1>5. \A i \in 1 .. b - a : p[i] = s[a + i] /\ q[i] = w[a + i]
  <2> DEFINE x == a + 1
  <2>1. x \in Int /\ b \in Int /\ (\A i \in x .. b : s[i] \in Octet) /\ (\A i \in x .. b : w[i] \in Octet)
      BY <1>1, <1>3 DEF Bytes
  <2>2. \A i \in 1 .. b - a : i \in 1 .. b - x + 1 /\ x + i - 1 = a + i
      OBVIOUS
  <2> HIDE DEF x
  <2>3. \A i \in 1 .. b - x + 1 : SubSeq(s, x, b)[i] = s[x + i - 1]
      BY <2>1, SubSeqProperties
  <2>4. \A i \in 1 .. b - x + 1 : SubSeq(w, x, b)[i] = w[x + i - 1]
      BY <2>1, SubSeqProperties
  <2>5. p = SubSeq(s, x, b) /\ q = SubSeq(w, x, b)
      BY Zenon DEF Part, x
  <2> HIDE DEF p, q
  <2> QED  BY <2>2, <2>3, <2>4, <2>5, Zenon
<1> HIDE DEF p, q
<1>6. \A i \in 1 .. Len(p) : p[i] = q[i]
  <2>1. \A i \in 1 .. b - a : a + i \in 1 .. Len(s)
      BY <1>1
  <2> QED  BY <1>2, <1>4, <1>5, <2>1, Zenon
<1>7. p = q
    BY <1>4, <1>6, SeqEqual DEF Bytes
<1> QED
    BY <1>7 DEF p, q, w

LEMMA OffsetsMore ==
    ASSUME NEW s \in Bytes, NEW es \in Seq(Entries), NEW off, Offsets(s, es, off),
           NEW e \in Entries, TileLeaf(e) \in Bytes
    PROVE  \E more : Offsets(s ++ TileLeaf(e), Append(es, e), more)
<1> DEFINE l == TileLeaf(e)
           t == s ++ l
           w == Len(es)
           fs == Append(es, e)
           more == [i \in 0 .. w + 1 |-> IF i <= w THEN off[i] ELSE Len(t)]
<1>1. /\ w \in Nat /\ off \in [0 .. w -> 0 .. Len(s)] /\ off[0] = 0 /\ off[w] = Len(s)
      /\ \A i \in 1 .. w : off[i - 1] <= off[i] /\ Part(s, off[i - 1], off[i]) = TileLeaf(es[i])
    BY DEF Offsets
<1>2. Len(fs) = w + 1 /\ (\A i \in 1 .. w : fs[i] = es[i]) /\ fs[w + 1] = e
    BY AppendProperties
<1>3. t \in Bytes /\ Len(t) = Len(s) + Len(l) /\ Len(s) \in Nat /\ Len(l) \in Nat /\ l \in Bytes
    BY Concatenation
<1>4. Part(t, Len(s), Len(t)) = l
  <2>1. SubSeq(s ++ l, Len(s) + 1, Len(s ++ l)) = l
      BY BytesTakeDrop
  <2> QED  BY <2>1, Zenon DEF Part
<1>5. ASSUME NEW a \in Nat, NEW b \in Nat, a <= b, b <= Len(s)
      PROVE  Part(t, a, b) = Part(s, a, b)
    BY <1>3, <1>5, PartOfMore
<1> HIDE DEF l, t, w, fs
<1>6. more \in [0 .. w + 1 -> 0 .. Len(t)]
  <2>1. ASSUME NEW i \in 0 .. w + 1
        PROVE  (IF i <= w THEN off[i] ELSE Len(t)) \in 0 .. Len(t)
    <3>1. CASE i <= w
      <4>1. i \in 0 .. w
          BY <1>1, <3>1
      <4>2. off[i] \in 0 .. Len(s)
          BY <1>1, <4>1
      <4> QED  BY <1>3, <3>1, <4>2
    <3>2. CASE ~(i <= w)
        BY <1>3, <3>2
    <3> QED  BY <3>1, <3>2
  <2> QED  BY <2>1
<1>7. (\A i \in 0 .. w : more[i] = off[i]) /\ more[w + 1] = Len(t)
  <2>1. \A i \in 0 .. w : i \in 0 .. w + 1 /\ i <= w
      BY <1>1
  <2>2. w + 1 \in 0 .. w + 1 /\ ~(w + 1 <= w)
      BY <1>1
  <2> QED  BY <2>1, <2>2, Zenon
<1> HIDE DEF more
<1>8. ASSUME NEW i \in 1 .. w + 1
      PROVE  more[i - 1] <= more[i] /\ Part(t, more[i - 1], more[i]) = TileLeaf(fs[i])
  <2>1. CASE i \in 1 .. w
    <3>1. i - 1 \in 0 .. w /\ i \in 0 .. w
        BY <1>1, <2>1
    <3> DEFINE a == off[i - 1]
               b == off[i]
    <3>2. a \in Nat /\ b \in Nat /\ b <= Len(s)
        BY <1>1, <1>3, <3>1
    <3>3. a <= b /\ Part(s, a, b) = TileLeaf(es[i]) /\ fs[i] = es[i]
        BY <1>1, <1>2, <2>1
    <3>4. more[i - 1] = a /\ more[i] = b
        BY <1>7, <3>1
    <3> HIDE DEF a, b
    <3>5. Part(t, a, b) = Part(s, a, b)
        BY <1>5, <3>2, <3>3
    <3> QED  BY <3>3, <3>4, <3>5, Zenon
  <2>2. CASE i = w + 1
    <3>1. i - 1 = w /\ w \in 0 .. w
        BY <1>1, <2>2
    <3>2. more[i - 1] = Len(s) /\ more[i] = Len(t) /\ fs[i] = e
        BY <1>1, <1>2, <1>7, <2>2, <3>1, Zenon
    <3>3. Len(s) <= Len(t)
        BY <1>3
    <3> QED  BY <1>4, <3>2, <3>3, Zenon DEF l
  <2> QED  BY <1>1, <2>1, <2>2
<1>9. Offsets(t, fs, more)
  <2>1. more[0] = 0
    <3>1. 0 \in 0 .. w
        BY <1>1
    <3> QED  BY <1>1, <1>7, <3>1
  <2> QED  BY <1>2, <1>6, <1>7, <1>8, <2>1, Zenon DEF Offsets
<1> QED
    BY <1>9 DEF t, l, fs

-----------------------------------------------------------------------------
(* What is hashed.                                                         *)

\* The same signed entry, as in HashedDistinctly.
Same(e, f) == /\ e.isPrecert = f.isPrecert /\ e.certificate = f.certificate
              /\ e.isPrecert => e.issuerKeyHash = f.issuerKeyHash

LEMMA SameSigned ==
    ASSUME NEW e \in Entries, NEW f \in Entries, Same(e, f)
    PROVE  SignedEntry(e) = SignedEntry(f)
<1>1. CASE e.isPrecert
    BY <1>1, Zenon DEF Same, SignedEntry
<1>2. CASE ~e.isPrecert
    BY <1>2, Zenon DEF Same, SignedEntry
<1> QED
    BY <1>1, <1>2

\* Two entries, each with a string after it, are the same bytes.
Alike(e, t, f, u) == SignedEntry(e) ++ t = SignedEntry(f) ++ u

LEMMA SignedSame ==
    ASSUME NEW e \in Entries, NEW f \in Entries, NEW t \in Bytes, NEW u \in Bytes, Alike(e, t, f, u)
    PROVE  Same(e, f) /\ t = u
<1> DEFINE d    == SignedEntry(e) ++ t
           r    == String(d)
           type == Read(r, 2)
           pre  == FromUint(type.got) = 1
           key  == IF pre THEN Read(type, FingerprintSize) ELSE type
           cert == ReadLengthPrefixed(key, 3)
<1>1. d \in Bytes /\ d = SignedEntry(f) ++ u /\ <<>> \in Bytes /\ Len(<<>>) = 0
  <2>1. SignedEntry(e) \in Bytes
      BY SignedShape
  <2>2. SignedEntry(e) ++ t \in Bytes
      BY <2>1, Concatenation
  <2> QED  BY <2>2, EmptyBytes DEF Alike
<1>2. After(r, <<>>, SignedEntry(e) ++ t, <<>>) /\ After(r, <<>>, SignedEntry(f) ++ u, <<>>)
  <2> DEFINE x == d
  <2>1. x \in Bytes /\ x = SignedEntry(e) ++ t /\ x = SignedEntry(f) ++ u
      BY <1>1
  <2> HIDE DEF x
  <2>2. x ++ <<>> = x
      BY <2>1, Concatenation
  <2>3. After(String(x), <<>>, x ++ <<>>, <<>>)
      BY <2>1, StringAfter
  <2> QED  BY <2>1, <2>2, <2>3, Zenon
<1> HIDE DEF r
<1>3. ASSUME NEW g \in Entries, NEW v \in Bytes, After(r, <<>>, SignedEntry(g) ++ v, <<>>)
      PROVE  /\ cert.got = g.certificate /\ (pre <=> g.isPrecert) /\ g.isPrecert \in BOOLEAN
             /\ g.isPrecert => key.got = g.issuerKeyHash
             /\ v = cert.rest
  <2>1. /\ After(cert, g.certificate, v, <<>>)
        /\ cert # Failed => /\ pre <=> g.isPrecert
                            /\ g.isPrecert => key.got = g.issuerKeyHash
      BY <1>1, <1>3, SignedRead
  <2> HIDE DEF cert
  <2>2. cert # Failed
    <3>1. cert = Failed => Len(v) < Len(<<>>)
        BY <2>1, AfterCases
    <3>2. Len(v) \in Nat
        BY LenBytes
    <3> QED  BY <1>1, <3>1, <3>2
  <2>3. cert.got = g.certificate /\ cert.rest \in Bytes /\ v = cert.rest ++ <<>>
      BY <2>1, <2>2, AfterCases, Zenon
  <2>4. cert.rest ++ <<>> = cert.rest
      BY <2>3, Concatenation
  <2>5. g.isPrecert \in BOOLEAN
      BY EntryFits, Zenon
  <2> HIDE DEF pre, key
  <2> QED  BY <2>1, <2>2, <2>3, <2>4, <2>5, Zenon
<1> HIDE DEF type, pre, key, cert, d
<1>4. /\ cert.got = e.certificate /\ (pre <=> e.isPrecert) /\ e.isPrecert \in BOOLEAN
      /\ e.isPrecert => key.got = e.issuerKeyHash
      /\ t = cert.rest
    BY <1>2, <1>3, Zenon
<1>5. /\ cert.got = f.certificate /\ (pre <=> f.isPrecert) /\ f.isPrecert \in BOOLEAN
      /\ f.isPrecert => key.got = f.issuerKeyHash
      /\ u = cert.rest
    BY <1>2, <1>3, Zenon
<1>6. e.isPrecert = f.isPrecert
    BY <1>4, <1>5, Zenon
<1> QED
    BY <1>4, <1>5, <1>6, Zenon DEF Same

LEMMA AddedExtensions ==
    ASSUME NEW e \in Entries, InRange(e.leafIndex)
    PROVE  /\ AddExtensions(e) \in Bytes
           /\ AddExtensions(e) = Uint(8, 2) ++ MarshalExtensions(e.leafIndex)
           /\ Uint(8, 2) \in Bytes /\ MarshalExtensions(e.leafIndex) \in Bytes
<1> DEFINE m == MarshalExtensions(e.leafIndex)
<1>1. m \in Bytes /\ Len(m) = 8
    BY ExtensionsShape
<1>2. AddExtensions(e) = Uint(Len(m), 2) ++ m
    BY Zenon DEF AddExtensions, LengthPrefixed, ++
<1>3. Uint(8, 2) \in Bytes
    BY BytesUint
<1> HIDE DEF m
<1>4. Uint(8, 2) ++ m \in Bytes
    BY <1>1, <1>3, Concatenation
<1> QED
    BY <1>1, <1>2, <1>3, <1>4, Zenon DEF m

LEMMA IndexSame ==
    ASSUME NEW x, NEW y, InRange(x), InRange(y), MarshalExtensions(x) = MarshalExtensions(y)
    PROVE  x = y
<1> DEFINE I(m) == FromUint(ReadLengthPrefixed(Read(String(m), 1), 2).got)
<1>1. I(MarshalExtensions(x)) = x
    BY IndexRead, Zenon
<1>2. I(MarshalExtensions(y)) = y
    BY IndexRead, Zenon
<1> HIDE DEF I
<1> QED
    BY <1>1, <1>2, Zenon

LEMMA ExtensionsSame ==
    ASSUME NEW e \in Entries, NEW f \in Entries, InRange(e.leafIndex), InRange(f.leafIndex),
           AddExtensions(e) = AddExtensions(f)
    PROVE  e.leafIndex = f.leafIndex
<1> DEFINE b == Uint(8, 2)
           m == MarshalExtensions(e.leafIndex)
           n == MarshalExtensions(f.leafIndex)
<1>1. b \in Bytes /\ m \in Bytes /\ n \in Bytes /\ AddExtensions(e) = b ++ m /\ AddExtensions(f) = b ++ n
    BY AddedExtensions, Zenon
<1> HIDE DEF b, m, n
<1>2. b ++ m = b ++ n
    BY <1>1
<1>3. m = n
    BY <1>1, <1>2, BytesSameRest
<1> QED
    BY <1>3, IndexSame, Zenon DEF m, n

(* The leaf of an entry, as it is hashed.                                  *)
LEMMA LeafShape ==
    ASSUME NEW e \in Entries, InRange(e.leafIndex)
    PROVE  LET p == Uint(0, 1) ++ Uint(0, 1)
               x == SignedEntry(e) ++ AddExtensions(e)
               u == Uint(e.timestamp, 8)
           IN  /\ p \in Bytes /\ x \in Bytes /\ u \in Bytes /\ Len(u) = 8 /\ u ++ x \in Bytes
               /\ FromUint(u) = e.timestamp
               /\ MerkleTreeLeaf(e) = p ++ (u ++ x)
<1> DEFINE z == Uint(0, 1)
           p == z ++ z
           s == SignedEntry(e)
           a == AddExtensions(e)
           u == Uint(e.timestamp, 8)
<1>1. e.timestamp \in Nat /\ e.timestamp < Base^8
    BY EntryFits, Zenon
<1>2. u \in Bytes /\ Len(u) = 8 /\ FromUint(u) = e.timestamp
  <2>1. 8 \in 0 .. 8
      OBVIOUS
  <2> QED  BY <1>1, <2>1, BytesUint, UintReadBack
<1>3. s \in Bytes /\ a \in Bytes /\ z \in Bytes
  <2>1. s \in Bytes /\ a \in Bytes
      BY SignedShape, AddedExtensions, EmptyBytes
  <2>2. z \in Bytes
      BY BytesUint
  <2> QED  BY <2>1, <2>2
<1>4. MerkleTreeLeaf(e) = ((p ++ u) ++ s) ++ a
    BY Zenon DEF MerkleTreeLeaf, ++
<1> HIDE DEF z, s, a, u
<1>5. p \in Bytes /\ s ++ a \in Bytes
    BY <1>3, Concatenation
<1>6. u ++ (s ++ a) \in Bytes
    BY <1>2, <1>5, Concatenation
<1> HIDE DEF p
<1>7. ((p ++ u) ++ s) ++ a = p ++ (u ++ (s ++ a))
    BY <1>2, <1>3, <1>5, Associative4
<1> QED
    BY <1>2, <1>4, <1>5, <1>6, <1>7 DEF p, s, a, u, z

(* Both directions of HashedDistinctly, for two entries.                   *)
LEMMA Distinct ==
    ASSUME NEW e \in Entries, NEW f \in Entries, InRange(e.leafIndex), InRange(f.leafIndex)
    PROVE  /\ (CacheInput(e) = CacheInput(f)) <=> Same(e, f)
           /\ (MerkleTreeLeaf(e) = MerkleTreeLeaf(f)) <=>
                  (Same(e, f) /\ e.timestamp = f.timestamp /\ e.leafIndex = f.leafIndex)
<1>1. /\ CacheInput(e) = SignedEntry(e) /\ CacheInput(f) = SignedEntry(f)
      /\ SignedEntry(e) \in Bytes /\ SignedEntry(f) \in Bytes
    BY SignedShape, EmptyBytes
<1>2. ASSUME SignedEntry(e) = SignedEntry(f)
      PROVE  Same(e, f)
  <2>1. Alike(e, <<>>, f, <<>>)
      BY <1>2, Zenon DEF Alike
  <2> QED  BY <2>1, EmptyBytes, SignedSame
<1>3. Same(e, f) => SignedEntry(e) = SignedEntry(f)
    BY SameSigned
<1> DEFINE p == Uint(0, 1) ++ Uint(0, 1)
           x == SignedEntry(e) ++ AddExtensions(e)
           y == SignedEntry(f) ++ AddExtensions(f)
           u == Uint(e.timestamp, 8)
           v == Uint(f.timestamp, 8)
<1>4. /\ p \in Bytes /\ x \in Bytes /\ u \in Bytes /\ Len(u) = 8 /\ u ++ x \in Bytes
      /\ FromUint(u) = e.timestamp /\ MerkleTreeLeaf(e) = p ++ (u ++ x)
    BY LeafShape
<1>5. /\ y \in Bytes /\ v \in Bytes /\ Len(v) = 8 /\ v ++ y \in Bytes
      /\ FromUint(v) = f.timestamp /\ MerkleTreeLeaf(f) = p ++ (v ++ y)
    BY LeafShape
<1>6. ASSUME MerkleTreeLeaf(e) = MerkleTreeLeaf(f)
      PROVE  Same(e, f) /\ e.timestamp = f.timestamp /\ e.leafIndex = f.leafIndex
  <2>1. u = v /\ x = y
    <3> HIDE DEF p, x, y, u, v
    <3> DEFINE g == u ++ x
               h == v ++ y
    <3>1. g \in Bytes /\ h \in Bytes /\ p ++ g = p ++ h
        BY <1>4, <1>5, <1>6
    <3>2. SubSeq(g, 1, 8) = u /\ SubSeq(h, 1, 8) = v
      <4>1. SubSeq(u ++ x, 1, Len(u)) = u /\ SubSeq(v ++ y, 1, Len(v)) = v
          BY <1>4, <1>5, BytesTakeDrop
      <4> QED  BY <1>4, <1>5, <4>1, Zenon
    <3> HIDE DEF g, h
    <3>3. g = h
        BY <1>4, <3>1, BytesSameRest
    <3>4. u = v
        BY <3>2, <3>3, Zenon
    <3>5. u ++ x = u ++ y
        BY <3>3, <3>4, Zenon DEF g, h
    <3>6. x = y
        BY <1>4, <1>5, <3>5, BytesSameRest
    <3> QED  BY <3>4, <3>6
  <2>2. e.timestamp = f.timestamp
    <3> HIDE DEF p, x, y, u, v
    <3> QED  BY <1>4, <1>5, <2>1, Zenon
  <2>3. AddExtensions(e) \in Bytes /\ AddExtensions(f) \in Bytes
      BY AddedExtensions
  <2>4. Alike(e, AddExtensions(e), f, AddExtensions(f))
      BY <2>1, Zenon DEF Alike
  <2>5. Same(e, f) /\ AddExtensions(e) = AddExtensions(f)
      BY <2>3, <2>4, SignedSame
  <2>6. e.leafIndex = f.leafIndex
      BY <2>5, ExtensionsSame
  <2> QED  BY <2>2, <2>5, <2>6
<1>7. ASSUME Same(e, f), e.timestamp = f.timestamp, e.leafIndex = f.leafIndex
      PROVE  MerkleTreeLeaf(e) = MerkleTreeLeaf(f)
  <2>1. SignedEntry(e) = SignedEntry(f)
      BY <1>7, <1>3
  <2>2. AddExtensions(e) = AddExtensions(f)
      BY <1>7, Zenon DEF AddExtensions
  <2> QED  BY <1>7, <2>1, <2>2, Zenon DEF MerkleTreeLeaf
<1> HIDE DEF p, x, y, u, v
<1>8. (CacheInput(e) = CacheInput(f)) <=> Same(e, f)
    BY <1>1, <1>2, <1>3
<1> QED
    BY <1>6, <1>7, <1>8

-----------------------------------------------------------------------------
(* The run.                                                                *)

LeavesInRange(es) == \A i \in 1 .. Len(es) : InRange(es[i].leafIndex)

\* The leaves of a tile are those that were written, end to end.
TileInv ==
    /\ tile \in Bytes /\ written \in Seq(Entries) /\ LeavesInRange(written)
    /\ \E off : Offsets(tile, written, off)
    /\ sct # <<>> => /\ written # <<>>
                     /\ \E m, types, rests : Extensions(sct, written[1].leafIndex, m, types, rests)

LEMMA TileInvInit == TileInit => TileInv
<1> SUFFICES ASSUME TileInit
             PROVE  TileInv
    OBVIOUS
<1>1. tile = <<>> /\ written = <<>> /\ sct = <<>>
    BY DEF TileInit
<1>2. <<>> \in Bytes /\ Len(<<>>) = 0 /\ <<>> \in Seq(Entries) /\ 1 .. 0 = {}
    BY EmptyBytes, EmptySeq
<1> DEFINE off == [i \in 0 .. 0 |-> 0]
<1>3. off \in [0 .. 0 -> 0 .. 0] /\ off[0] = 0
    OBVIOUS
<1> HIDE DEF off
<1>4. Offsets(<<>>, <<>>, off)
    BY <1>2, <1>3, Zenon DEF Offsets
<1> QED
    BY <1>1, <1>2, <1>4, Zenon DEF TileInv, LeavesInRange

LEMMA TileInvAppend ==
    ASSUME TileInv, NEW e \in Entries, AppendTileLeaf(e)
    PROVE  TileInv'
<1> DEFINE l == TileLeaf(e)
<1>1. InRange(e.leafIndex) /\ tile' = tile ++ l /\ written' = Append(written, e) /\ sct' = sct
    BY Zenon DEF AppendTileLeaf, ++
<1>2. /\ tile \in Bytes /\ written \in Seq(Entries) /\ LeavesInRange(written)
      /\ \E off : Offsets(tile, written, off)
    BY Zenon DEF TileInv
<1>3. l \in Bytes
    BY <1>1, TileLeafShape, EmptyBytes
<1>4. tile' \in Bytes
  <2> HIDE DEF l
  <2> QED  BY <1>1, <1>2, <1>3, Concatenation
<1>5. /\ written' \in Seq(Entries) /\ Len(written') = Len(written) + 1 /\ Len(written) \in Nat
      /\ (\A i \in 1 .. Len(written) : written'[i] = written[i]) /\ written'[Len(written) + 1] = e
    BY <1>1, <1>2, AppendProperties
<1>6. LeavesInRange(written')
  <2> SUFFICES ASSUME NEW i \in 1 .. Len(written')
               PROVE  InRange(written'[i].leafIndex)
      BY DEF LeavesInRange
  <2>1. i \in 1 .. Len(written) \/ i = Len(written) + 1
      BY <1>5
  <2>2. ASSUME NEW k \in 1 .. Len(written)
        PROVE  InRange(written[k].leafIndex)
      BY <1>2, Zenon DEF LeavesInRange
  <2> QED  BY <1>1, <1>5, <2>1, <2>2, Zenon
<1>7. \E off : Offsets(tile', written', off)
  <2>1. PICK off : Offsets(tile, written, off)
      BY <1>2
  <2>2. \E more : Offsets(tile ++ TileLeaf(e), Append(written, e), more)
      BY <1>2, <1>3, <2>1, OffsetsMore
  <2> QED  BY <1>1, <2>2, Zenon
<1>8. sct' # <<>> => /\ written' # <<>>
                     /\ \E m, types, rests : Extensions(sct', written'[1].leafIndex, m, types, rests)
  <2> SUFFICES ASSUME sct' # <<>>
               PROVE  /\ written' # <<>>
                      /\ \E m, types, rests : Extensions(sct', written'[1].leafIndex, m, types, rests)
      OBVIOUS
  <2>1. written # <<>> /\ \E m, types, rests : Extensions(sct, written[1].leafIndex, m, types, rests)
      BY <1>1, Zenon DEF TileInv
  <2>2. 1 \in 1 .. Len(written)
      BY <1>2, <2>1, EmptySeq
  <2>3. written'[1] = written[1]
      BY <1>5, <2>2, Zenon
  <2>4. written' # <<>>
    <3>1. Len(written') # 0
        BY <1>5
    <3>2. Len(<<>>) = 0
        BY EmptySeq
    <3> QED  BY <3>1, <3>2, Zenon
  <2> QED  BY <1>1, <2>1, <2>3, <2>4, Zenon
<1> QED
    BY <1>4, <1>5, <1>6, <1>7, <1>8, Zenon DEF TileInv

LEMMA TileInvSCT ==
    ASSUME NEW e \in Entries, NEW types \in SeqOf(Unknown, 2), MakeSCT(e, types)
    PROVE  TileInv'
<1>1. /\ InRange(e.leafIndex) /\ written' = <<e>> /\ tile' = TileLeaf(e)
      /\ SCTOf(sct', e.leafIndex, types)
    BY Zenon DEF MakeSCT, SCTOf
<1>2. TileLeaf(e) \in Bytes
    BY <1>1, TileLeafShape, EmptyBytes
<1>3. \E off : Offsets(TileLeaf(e), <<e>>, off)
    BY <1>2, OffsetsFirst
<1>4. <<e>> \in Seq(Entries) /\ Len(<<e>>) = 1 /\ <<e>>[1] = e /\ <<e>> # <<>>
    OBVIOUS
<1>5. LeavesInRange(<<e>>)
  <2>1. \A i \in 1 .. 1 : i = 1
      OBVIOUS
  <2> QED  BY <1>1, <1>4, <2>1, Zenon DEF LeavesInRange
<1>6. \E m, ts, rests : Extensions(sct', e.leafIndex, m, ts, rests)
    BY <1>1, SCTExtensions
<1> QED
    BY <1>1, <1>2, <1>3, <1>4, <1>5, <1>6, Zenon DEF TileInv

LEMMA TileInvStep == TileInv /\ [TileNext]_tileVars => TileInv'
<1> SUFFICES ASSUME TileInv, [TileNext]_tileVars
             PROVE  TileInv'
    OBVIOUS
<1>1. CASE \E e \in Entries : AppendTileLeaf(e)
    BY <1>1, TileInvAppend
<1>2. CASE \E e \in Entries, types \in SeqOf(Unknown, 2) : MakeSCT(e, types)
    BY <1>2, TileInvSCT
<1>3. CASE UNCHANGED tileVars
    BY <1>3, Zenon DEF TileInv, tileVars
<1> QED
    BY <1>1, <1>2, <1>3 DEF TileNext

LEMMA TileInvReadBack == TileInv => LeavesReadBack
<1> SUFFICES ASSUME TileInv
             PROVE  LeavesReadBack
    OBVIOUS
<1>1. PICK off : Offsets(tile, written, off)
    BY Zenon DEF TileInv
<1>2. /\ tile \in Bytes /\ written \in Seq(Entries)
      /\ \A i \in 1 .. Len(written) : InRange(written[i].leafIndex)
    BY Zenon DEF TileInv, LeavesInRange
<1>3. Len(tile) \in Nat /\ Len(tile) \in 0 .. Len(tile)
    BY <1>2, LenBytes
<1>4. ReadTile(SubSeq(tile, 1, Len(tile)), Len(written)) = [ok |-> TRUE, leaves |-> written, rest |-> <<>>]
    BY <1>1, <1>2, <1>3, TileReadBack
<1>5. ASSUME NEW n \in 0 .. (Len(tile) - 1)
      PROVE  /\ ~ReadTile(SubSeq(tile, 1, n), Len(written)).ok
             /\ IsStrictPrefix(ReadTile(SubSeq(tile, 1, n), Len(written)).leaves, written)
  <2>1. n \in 0 .. Len(tile) /\ n < Len(tile)
      BY <1>3
  <2> QED  BY <1>1, <1>2, <2>1, TileReadBack
<1>6. sct # <<>> => ParseExtensions(sct) = written[1].leafIndex
  <2> SUFFICES ASSUME sct # <<>>
               PROVE  ParseExtensions(sct) = written[1].leafIndex
      OBVIOUS
  <2>1. written # <<>> /\ \E m, types, rests : Extensions(sct, written[1].leafIndex, m, types, rests)
      BY Zenon DEF TileInv
  <2>2. 1 \in 1 .. Len(written)
      BY <1>2, <2>1, EmptySeq
  <2>3. InRange(written[1].leafIndex)
      BY <1>2, <2>2
  <2> QED  BY <2>1, <2>3, IndexFound
<1> QED
    BY <1>4, <1>5, <1>6, Zenon DEF LeavesReadBack

LEMMA TileInvDistinct == TileInv => HashedDistinctly
<1> SUFFICES ASSUME TileInv, NEW i \in DOMAIN written, NEW j \in DOMAIN written
             PROVE  LET e == written[i]
                        f == written[j]
                    IN  /\ (CacheInput(e) = CacheInput(f)) <=> Same(e, f)
                        /\ (MerkleTreeLeaf(e) = MerkleTreeLeaf(f)) <=>
                               (Same(e, f) /\ e.timestamp = f.timestamp /\ e.leafIndex = f.leafIndex)
    BY Zenon DEF HashedDistinctly, Same
<1>1. written \in Seq(Entries) /\ \A k \in 1 .. Len(written) : InRange(written[k].leafIndex)
    BY Zenon DEF TileInv, LeavesInRange
<1>2. DOMAIN written = 1 .. Len(written)
    BY <1>1
<1>3. written[i] \in Entries /\ written[j] \in Entries
    BY <1>1, <1>2
<1>4. InRange(written[i].leafIndex) /\ InRange(written[j].leafIndex)
    BY <1>1, <1>2, Zenon
<1> QED
    BY <1>3, <1>4, Distinct, Zenon

(* Data tiles and SCTs, whatever the entries, the size of a byte and of a  *)
(* fingerprint, and however many leaves there are: a tile that AppendTile- *)
(* Leaf was called for reads back with ReadTileLeaf as the leaves it was   *)
(* called with; one that lacks bytes at its end reads as the first of its  *)
(* leaves, and then fails; and ParseExtensions finds the leaf index in the *)
(* extensions of an SCT.                                                   *)
THEOREM TilesReadBack == TileSpec => []LeavesReadBack
<1>1. TileInit => TileInv
    BY TileInvInit
<1>2. TileInv /\ [TileNext]_tileVars => TileInv'
    BY TileInvStep
<1>3. TileInv => LeavesReadBack
    BY TileInvReadBack
<1> QED
    BY <1>1, <1>2, <1>3, PTL DEF TileSpec

(* The input of computeCacheHash is the same for two entries exactly if    *)
(* they would be signed alike, and that of the record hash exactly if      *)
(* their timestamp and index are the same too.                             *)
THEOREM HashesTellApart == TileSpec => []HashedDistinctly
<1>1. TileInit => TileInv
    BY TileInvInit
<1>2. TileInv /\ [TileNext]_tileVars => TileInv'
    BY TileInvStep
<1>3. TileInv => HashedDistinctly
    BY TileInvDistinct
<1> QED
    BY <1>1, <1>2, <1>3, PTL DEF TileSpec
=============================================================================
