--------------------------- MODULE Bn256Cloudflare ---------------------------
(***************************************************************************)
(* crypto/bn256/cloudflare.  An element of the base field is a Montgomery  *)
(* residue: x stands for x * RInv modulo P (what gfpMul does to the words  *)
(* of a residue is in FieldWords).  The tower, the curves and the pairing  *)
(* are computed by the formulas of Bn256 over that base field, as the two  *)
(* packages share them; scalar multiplication in G1 is not: it splits the  *)
(* scalar along a lattice and adds two halves at once.                     *)
(***************************************************************************)
EXTENDS Integers, Sequences, SequencesExt, StrictFold

CONSTANTS P, XiReal, u, Order, sixuPlus2NAF, curveB, curveGen, twistB, twistGen, numBytes, Byte,
          R,             \* the radix: 2^256 in the source
          RInv           \* its inverse modulo P

-----------------------------------------------------------------------------
(* gfp.go and constants.go                                                 *)

gfpMul(a, b) == (((a * b) % P) * RInv) % P

r1 == R % P
r2 == (r1 * r1) % P
r3 == (r2 * r1) % P
rN1 == RInv

montEncode(a) == gfpMul(a, r2)

montDecode(a) == gfpMul(a, 1)

(* f^(P-2), square and multiply from the lowest bit; the factors rN1 and   *)
(* r3 make up for the radix.                                               *)
gfpInvert(f) ==
    LET bits == [i \in 1..8 |-> ((P - 2) \div 2^(i - 1)) % 2]
        step(s, bit) == [sum |-> IF bit = 1 THEN gfpMul(s.sum, s.power) ELSE s.sum,
                         power |-> gfpMul(s.power, s.power)]
    IN  gfpMul(Iterate(step, [sum |-> rN1, power |-> f], bits).sum, r3)

M == INSTANCE Bn256 WITH one <- r1, decode <- montDecode, encode <- montEncode

-----------------------------------------------------------------------------
(* gfp2.go, gfp6.go, gfp12.go                                              *)

gfP2Mul(a, b) == M!gfP2Mul(a, b)
gfP2Square(a) == M!gfP2Square(a)
gfP2Invert(a) == M!gfP2Invert(a)
gfP2MulXi(a) == M!gfP2MulXi(a)
gfP2Conjugate(a) == M!gfP2Conjugate(a)
gfP2Add(a, b) == M!gfP2Add(a, b)
gfP2Sub(a, b) == M!gfP2Sub(a, b)
gfP2Neg(a) == M!gfP2Neg(a)
gfP2MulScalar(a, b) == M!gfP2MulScalar(a, b)

gfP6Mul(a, b) == M!gfP6Mul(a, b)
gfP6Square(a) == M!gfP6Square(a)
gfP6Invert(a) == M!gfP6Invert(a)
gfP6MulTau(a) == M!gfP6MulTau(a)
gfP6Frobenius(a) == M!gfP6Frobenius(a)
gfP6FrobeniusP2(a) == M!gfP6FrobeniusP2(a)
gfP6FrobeniusP4(a) == <<gfP2MulScalar(a[1], M!xiToPSquaredMinus1Over3),
                        gfP2MulScalar(a[2], M!xiTo2PSquaredMinus2Over3), a[3]>>
gfP6Add(a, b) == M!gfP6Add(a, b)
gfP6Sub(a, b) == M!gfP6Sub(a, b)
gfP6Neg(a) == M!gfP6Neg(a)
gfP6MulScalar(a, b) == M!gfP6MulScalar(a, b)
gfP6MulGFP(a, b) == M!gfP6MulGFP(a, b)

gfP12Mul(a, b) == M!gfP12Mul(a, b)
gfP12Square(a) == M!gfP12Square(a)
gfP12Invert(a) == M!gfP12Invert(a)
gfP12Exp(a, power) == M!gfP12Exp(a, power)
gfP12Conjugate(a) == M!gfP12Conjugate(a)
gfP12Frobenius(a) == M!gfP12Frobenius(a)
gfP12FrobeniusP2(a) == M!gfP12FrobeniusP2(a)
gfP12FrobeniusP4(a) == <<gfP6MulGFP(gfP6FrobeniusP4(a[1]), M!xiToPSquaredMinus1Over3), gfP6FrobeniusP4(a[2])>>

-----------------------------------------------------------------------------
(* lattice.go: k is split as k1 + lambda * k2, both short and not          *)
(* negative.  The lattice is that of the curve with parameter u.           *)

half == Order \div 2

vectors == << <<6*u*u + 2*u, 6*u*u + 4*u + 1>>, <<6*u*u + 6*u + 2, -(6*u*u - 1)>> >>
inverse == <<6*u*u - 1, 6*u*u + 4*u + 1>>
det == 2 * Order

round(num, denom) == IF num % denom > half THEN num \div denom + 1 ELSE num \div denom

decompose(k) ==
    LET c == <<round(k * inverse[1], det), round(k * inverse[2], det)>>
        out(i) == 2 * vectors[1][i] - (c[1] * vectors[1][i] + c[2] * vectors[2][i])
    IN  <<out(1) + k, out(2)>>

(* For each bit from the highest: 1 for the first half, 2 for the second.  *)
Multi(scalar) ==
    LET d == decompose(scalar)
        maxLen == IF M!BitLen(d[1]) > M!BitLen(d[2]) THEN M!BitLen(d[1]) ELSE M!BitLen(d[2])
        bit(x, i) == (x \div 2^(maxLen - i)) % 2
    IN  [i \in 1..maxLen |-> bit(d[1], i) + 2 * bit(d[2], i)]
-----------------------------------------------------------------------------
(* curve.go and twist.go                                                   *)

curveAdd(a, b) == M!C!Add(a, b)
curveDouble(a) == M!C!Double(a)
curveNeg(a) == M!C!Negative(a)
curveMakeAffine(a) == M!C!MakeAffine(a)
curveIsOnCurve(a) == LET p == curveMakeAffine(a) IN M!C!IsInfinity(p) \/ M!C!IsOnCurve(p, curveB)

(* precomp[2] is lambda * a: the endomorphism multiplies x by a cube root. *)
curveMul(a, scalar) ==
    LET phi == [a EXCEPT ![1] = gfpMul(a[1], M!xiTo2PSquaredMinus2Over3)]
        precomp == <<a, phi, curveAdd(a, phi)>>
        step(sum, m) == IF m = 0 THEN curveDouble(sum) ELSE curveAdd(curveDouble(sum), precomp[m])
    IN  Iterate(step, M!C!Infinity, Multi(scalar))

twistAdd(a, b) == M!T!Add(a, b)
twistDouble(a) == M!T!Double(a)
twistMul(a, scalar) == M!twistMul(a, scalar)
twistNeg(a) == M!T!Negative(a)
twistMakeAffine(a) == M!T!MakeAffine(a)
twistIsOnCurve(a) ==
    LET p == twistMakeAffine(a)
    IN  M!T!IsInfinity(p) \/ (M!T!IsOnCurve(p, twistB) /\ M!T!IsInfinity(twistMul(p, Order)))

-----------------------------------------------------------------------------
(* optate.go and bn256.go                                                  *)

lineFunctionAdd(r, p, q, s2) == M!lineFunctionAdd(r, p, q, s2)
lineFunctionDouble(r, q) == M!lineFunctionDouble(r, q)
mulLine(ret, line) == M!mulLine(ret, line)
miller(q, p) == M!miller(q, p)
finalExponentiation(in) == M!finalExponentiation(in)

G1ScalarBaseMult(k) == curveMul(curveGen, k)
G1ScalarMult(a, k) == curveMul(a, k)
G1Add(a, b) == curveAdd(a, b)
G1Neg(a) == curveNeg(a)
G2ScalarBaseMult(k) == twistMul(twistGen, k)
G2ScalarMult(a, k) == twistMul(a, k)
G2Add(a, b) == twistAdd(a, b)
G2Neg(a) == twistNeg(a)
GTScalarMult(a, k) == gfP12Exp(a, k)
GTAdd(a, b) == gfP12Mul(a, b)

(* The inverse of an element of the group; not of any other element. *)
GTNeg(a) == gfP12Conjugate(a)

(* Pair, PairingCheck, Miller and Finalize. *)
absorbPair(acc, g1, g2) == M!absorbPair(acc, g1, g2)
finishPairs(acc) == finalExponentiation(acc)

(* The bytes of a coordinate are those of its decoded words, highest first;  *)
(* reading them refuses the modulus and what is above it.  Bytes beyond the  *)
(* point are left to the caller.                                             *)
gfPMarshal(x) == M!putBytes(x)
gfPUnmarshalFails(m, i) == M!getInt(m, i) >= P

G1Marshal(a) == LET p == curveMakeAffine(a)
                IN  IF M!C!IsInfinity(p) THEN [i \in 1..(2 * numBytes) |-> 0]
                    ELSE gfPMarshal(p[1]) \o gfPMarshal(p[2])

G1Unmarshal(m) ==
    LET p == <<M!coordinate(m, 0), M!coordinate(m, 1), r1, r1>>
    IN  IF Len(m) < 2 * numBytes \/ (\E i \in 0..1 : gfPUnmarshalFails(m, i)) THEN M!malformed
        ELSE IF p[1] = 0 /\ p[2] = 0 THEN [ok |-> TRUE, p |-> M!C!Infinity]
        ELSE IF curveIsOnCurve(p) THEN [ok |-> TRUE, p |-> p] ELSE M!malformed

G2Marshal(a) == LET p == twistMakeAffine(a)
                IN  IF M!T!IsInfinity(p) THEN [i \in 1..(4 * numBytes) |-> 0]
                    ELSE gfPMarshal(p[1][1]) \o gfPMarshal(p[1][2]) \o gfPMarshal(p[2][1]) \o gfPMarshal(p[2][2])

G2Unmarshal(m) ==
    LET c(i) == M!coordinate(m, i)
        p == <<<<c(0), c(1)>>, <<c(2), c(3)>>, M!gfP2One, M!gfP2One>>
    IN  IF Len(m) < 4 * numBytes \/ (\E i \in 0..3 : gfPUnmarshalFails(m, i)) THEN M!malformed
        ELSE IF p[1] = M!gfP2Zero /\ p[2] = M!gfP2Zero THEN [ok |-> TRUE, p |-> M!T!Infinity]
        ELSE IF twistIsOnCurve(p) THEN [ok |-> TRUE, p |-> p] ELSE M!malformed

GTMarshal(a) == M!putAll(FlattenSeq(FlattenSeq(a)))

GTUnmarshal(m) ==
    IF Len(m) < 12 * numBytes \/ (\E i \in 0..11 : gfPUnmarshalFails(m, i)) THEN M!malformed
    ELSE M!GTUnmarshal(SubSeq(m, 1, 12 * numBytes))
=============================================================================
