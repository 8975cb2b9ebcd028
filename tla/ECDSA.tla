------------------------------- MODULE ECDSA --------------------------------
(***************************************************************************)
(* Package rfc6979: the nonce by rejection sampling, the signature, and    *)
(* its ASN.1.  The arithmetic is that of the code; the curves are small    *)
(* ones of prime order, over which every key, digest and nonce can be      *)
(* tried.  A byte has ByteBits bits.  One curve has an order of a whole    *)
(* number of bytes, as P-256 and P-384, the other has not, as P-521.       *)
(*                                                                         *)
(* The HMAC construction of rfc6979DRBG is taken to give any candidate;    *)
(* that it depends on nothing but the key and the digest, which makes the  *)
(* signature deterministic, is plain from its arguments.                   *)
(***************************************************************************)
EXTENDS Integers, FiniteSets, SequencesExt

ByteBits == 2
ByteBase == 2^ByteBits

\* y^2 = x^3 + ax + b over the integers modulo p, with a generator of order N.
\* The order of the second is less than p and no whole number of bytes: it has
\* points of which x, modulo N, is 0, and of which it is not x.
CurveA == [p |-> 11, a |-> 1, b |-> 6, G |-> <<2, 7>>, N |-> 13, bitLen |-> 4]
CurveB == [p |-> 11, a |-> 2, b |-> 7, G |-> <<6, 2>>, N |-> 7, bitLen |-> 3]
Curves == {CurveA, CurveB}

\* c.N.Size(), and the bits of that many bytes that c.N does not use.
Size(c) == (c.bitLen + ByteBits - 1) \div ByteBits
Excess(c) == Size(c) * ByteBits - c.bitLen

Bytes(v, n) == [i \in 1 .. n |-> (v \div ByteBase^(n - i)) % ByteBase]
Value(s) == FoldLeft(LAMBDA x, y : x * ByteBase + y, 0, s)
ByteStrings(n) == [1 .. n -> 0 .. ByteBase - 1]

-----------------------------------------------------------------------------
(* Package nistec.                                                         *)

Infinity == <<>>
InverseMod(x, m) == CHOOSE y \in 1 .. m - 1 : (x * y) % m = 1

AddPoints(c, P, Q) ==
    LET slope == IF P = Q
                 THEN ((3 * P[1] * P[1] + c.a) * InverseMod((2 * P[2]) % c.p, c.p)) % c.p
                 ELSE ((Q[2] - P[2]) * InverseMod((Q[1] - P[1]) % c.p, c.p)) % c.p
        x == (slope * slope - P[1] - Q[1]) % c.p
        y == (slope * (P[1] - x) - P[2]) % c.p
    IN  CASE P = Infinity -> Q
          [] Q = Infinity -> P
          [] P[1] = Q[1] /\ (P[2] + Q[2]) % c.p = 0 -> Infinity
          [] OTHER -> <<x, y>>

ScalarMult(c, P, n) ==
    LET mult[i \in 0 .. n] == IF i = 0 THEN Infinity ELSE AddPoints(c, mult[i - 1], P)
    IN  mult[n]

-----------------------------------------------------------------------------
(* The nonce and the digest.                                               *)

RightShift(s, shift) ==
    [i \in DOMAIN s |->
        s[i] \div 2^shift + IF i > 1 THEN (s[i - 1] * 2^(ByteBits - shift)) % ByteBase ELSE 0]

\* (Mutant: a candidate that is too large is reduced instead of rejected.)
NonceReduced(c, buf) == Value(RightShift(buf, Excess(c))) % c.N

\* One turn of randomPoint's loop: the nonce, or 0 if the candidate is
\* rejected and another one is drawn.
Nonce(c, buf) ==
    LET k == Value(RightShift(buf, Excess(c))) IN IF k < c.N THEN k ELSE 0

HashToNat(c, digest) ==
    IF Len(digest) >= Size(c)
    THEN Value(RightShift(SubSeq(digest, 1, Size(c)), Excess(c))) % c.N
    ELSE Value(digest) % c.N

-----------------------------------------------------------------------------
(* ASN.1.                                                                  *)

INTEGER == 2
SEQUENCE == 48

\* (Mutant: no zero is put before a value with its highest bit set.)
AddASN1IntRaw(s) ==
    LET first == SelectInSeq(s, LAMBDA x : x # 0)
        value == SubSeq(s, first, Len(s))
    IN  <<INTEGER, Len(value)>> \o value

AddASN1IntBytes(s) ==
    LET first == SelectInSeq(s, LAMBDA x : x # 0)
        value == SubSeq(s, first, Len(s))
        padded == IF value[1] >= ByteBase \div 2 THEN <<0>> \o value ELSE value
    IN  <<INTEGER, Len(padded)>> \o padded

EncodeSignature(r, s) ==
    LET body == AddASN1IntBytes(r) \o AddASN1IntBytes(s) IN <<SEQUENCE, Len(body)>> \o body

-----------------------------------------------------------------------------
(* signNISTEC, from the nonce on.                                          *)

Unsigned == <<>>
Error == <<"error">>

SignNISTEC(c, d, digest, k) ==
    LET e == HashToNat(c, digest)
        kInv == FoldLeft(LAMBDA x, y : (x * y) % c.N, 1, [i \in 1 .. c.N - 2 |-> k])
        r == ScalarMult(c, c.G, k)[1] % c.N
        s == ((d * r + e) * kInv) % c.N
    IN  IF r = 0 \/ s = 0 THEN Error ELSE EncodeSignature(Bytes(r, Size(c)), Bytes(s, Size(c)))

VARIABLES curve, key, digest, nonce, sig

sigVars == <<curve, key, digest, nonce, sig>>

SigInit ==
    /\ curve \in Curves
    /\ key \in 1 .. curve.N - 1
    /\ digest \in ByteStrings(3) \cup ByteStrings(1)
    /\ nonce = 0
    /\ sig = Unsigned

\* Nothing is to be signed.
SigIdle ==
    curve = CurveA /\ key = 0 /\ digest = <<>> /\ nonce = 0 /\ sig = Unsigned

RandomPoint ==
    /\ nonce = 0
    /\ \E buf \in ByteStrings(Size(curve)) : nonce' = Nonce(curve, buf)
    /\ UNCHANGED <<curve, key, digest, sig>>

SignDigest ==
    /\ nonce # 0 /\ sig = Unsigned
    /\ sig' = SignNISTEC(curve, key, digest, nonce)
    /\ UNCHANGED <<curve, key, digest, nonce>>

SigNext == RandomPoint \/ SignDigest

-----------------------------------------------------------------------------
(* A verifier, by SEC 1: it reads strict DER and takes the leftmost bits   *)
(* of the digest.                                                          *)

\* The value of the INTEGER at i, which is positive and as short as can be.
DERInteger(der, i) == SubSeq(der, i + 2, i + 1 + der[i + 1])
DERPositive(s) ==
    /\ s # <<>> /\ s[1] < ByteBase \div 2
    /\ s[1] = 0 => Len(s) > 1 /\ s[2] >= ByteBase \div 2

LeftmostBits(c, s) ==
    IF Len(s) * ByteBits > c.bitLen THEN Value(s) \div 2^(Len(s) * ByteBits - c.bitLen)
                                    ELSE Value(s)

VerifyASN1(c, Q, s, der) ==
    LET second == 5 + der[4]
        r == DERInteger(der, 3)
        t == DERInteger(der, second)
        w == InverseMod(Value(t), c.N)
        R == AddPoints(c, ScalarMult(c, c.G, (LeftmostBits(c, s) * w) % c.N),
                          ScalarMult(c, Q, (Value(r) * w) % c.N))
    IN  /\ der[1] = SEQUENCE /\ der[2] = Len(der) - 2
        /\ der[3] = INTEGER /\ der[second] = INTEGER
        /\ second + 1 + der[second + 1] = Len(der)
        /\ DERPositive(r) /\ DERPositive(t)
        /\ R # Infinity /\ R[1] % c.N = Value(r)

(* Every signature that is made verifies, as strict DER, with the key's    *)
(* point and the digest: for digests longer and shorter than the order and *)
(* orders of any number of bits.                                           *)
SignaturesVerify ==
    sig \notin {Unsigned, Error} =>
        VerifyASN1(curve, ScalarMult(curve, curve.G, key), digest, sig)

(* "A single bit of bias in the selection of nonces would likely lead to   *)
(* key recovery": every nonce of 1 .. N-1 comes from as many candidate     *)
(* buffers as every other.  (They depend on the curve alone, so one key of *)
(* each is looked at.)                                                     *)
NonceUnbiased ==
    LET from(k) == Cardinality({buf \in ByteStrings(Size(curve)) : Nonce(curve, buf) = k})
    IN  (nonce = 0 /\ key = 1) => \A k \in 1 .. curve.N - 1 : from(k) = from(1) /\ from(k) > 0
=============================================================================
