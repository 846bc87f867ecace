------------------------------ MODULE Bls12381 ------------------------------
(***************************************************************************)
(* The tower of crypto/bls12381: fp2.go, fp6.go and fp12.go.  An element   *)
(* of Fp2 is <<c0, c1>> = c0 + c1*u, of Fp6 <<c0, c1, c2>> in powers of v, *)
(* of Fp12 <<c0, c1>> = c0 + c1*w, with u^2 = -1, v^3 = xi and w^2 = v.    *)
(*                                                                         *)
(* The base field is the integers modulo P: the Montgomery words that      *)
(* carry them in the code are module FieldWords.  The source has xi = 1+u, *)
(* which is not a valid choice for a small P, so xi = XiReal + u.          *)
(***************************************************************************)
EXTENDS Integers, Sequences, SequencesExt, StrictFold

CONSTANTS P, XiReal

-----------------------------------------------------------------------------
(* fp.go: what the words compute.  inverse(0) is 0.                        *)

fpAdd(a, b) == (a + b) % P

fpSub(a, b) == (a - b + P) % P

fpNeg(a) == (P - a) % P

fpMul(a, b) == (a * b) % P

fpSquare(a) == (a * a) % P

BitLen(k) == CHOOSE n \in 0..31 : (IF n = 31 THEN TRUE ELSE k < 2^n) /\ (n = 0 \/ k >= 2^(n - 1))

bitsOf(k) == [i \in 1..BitLen(k) |-> (k \div 2^(BitLen(k) - i)) % 2]

(* Square and multiply, the power beside the base. *)
fpExpStep(s, bit) == <<IF bit = 1 THEN fpMul(fpSquare(s[1]), s[2]) ELSE fpSquare(s[1]), s[2]>>
fpExp(a, e) == Iterate(fpExpStep, <<1, a>>, bitsOf(e))[1]

fpInverse(a) == fpExp(a, P - 2)

(* The candidate root, and whether it is one. *)
fpSqrt(a) == LET c == fpExp(a, (P + 1) \div 4) IN [root |-> c, ok |-> fpSquare(c) = a]

(* Zero counts as a non-residue. *)
fpIsQuadraticNonResidue(a) == fpExp(a, (P - 1) \div 2) # 1

fpSign(a) == a % 2 = 0

-----------------------------------------------------------------------------
(* fp2.go                                                                  *)

fp2Zero == <<0, 0>>

fp2One == <<1, 0>>

fp2Add(a, b) == <<fpAdd(a[1], b[1]), fpAdd(a[2], b[2])>>

fp2Double(a) == fp2Add(a, a)

fp2Sub(a, b) == <<fpSub(a[1], b[1]), fpSub(a[2], b[2])>>

fp2Neg(a) == <<fpNeg(a[1]), fpNeg(a[2])>>

(* Karatsuba. *)
fp2Mul(a, b) ==
    LET t1 == fpMul(a[1], b[1])
        t2 == fpMul(a[2], b[2])
    IN  <<fpSub(t1, t2), fpSub(fpMul(fpAdd(a[1], a[2]), fpAdd(b[1], b[2])), fpAdd(t1, t2))>>

(* The sum and the double are not reduced before they are multiplied. *)
fp2Square(a) == <<((a[1] + a[2]) * fpSub(a[1], a[2])) % P, (2 * a[1] * a[2]) % P>>

fp2MulByNonResidue(a) == <<(XiReal * a[1] - a[2] + P) % P, (a[1] + XiReal * a[2]) % P>>

fp2Inverse(a) ==
    LET t == fpInverse(fpAdd(fpSquare(a[1]), fpSquare(a[2])))
    IN  <<fpMul(a[1], t), fpNeg(fpMul(t, a[2]))>>

fp2MulByFq(a, b) == <<fpMul(a[1], b), fpMul(a[2], b)>>

fp2ExpStep(s, bit) == <<IF bit = 1 THEN fp2Mul(fp2Square(s[1]), s[2]) ELSE fp2Square(s[1]), s[2]>>
fp2Exp(a, s) == Iterate(fp2ExpStep, <<fp2One, a>>, bitsOf(s))[1]

fp2FrobeniusMap(a, power) == IF power % 2 = 1 THEN <<a[1], fpNeg(a[2])>> ELSE a

fp2Sqrt(a) ==
    LET a1    == fp2Exp(a, (P - 3) \div 4)
        alpha == fp2Mul(fp2Square(a1), a)
        x0    == fp2Mul(a1, a)
        c     == fp2Mul(fp2Exp(fp2Add(alpha, fp2One), (P - 1) \div 2), x0)
    IN  IF alpha = <<P - 1, 0>> THEN [root |-> <<fpNeg(x0[2]), x0[1]>>, ok |-> TRUE]
        ELSE [root |-> c, ok |-> fp2Square(c) = a]

(* a is a square of Fp2 exactly when its norm is a square of Fp. *)
fp2IsQuadraticNonResidue(a) == fpIsQuadraticNonResidue(fpAdd(fpSquare(a[2]), fpSquare(a[1])))

fp2Sign(a) == IF a[1] # 0 THEN fpSign(a[1]) ELSE fpSign(a[2])

-----------------------------------------------------------------------------
(* fp6.go                                                                  *)

fp6Zero == <<fp2Zero, fp2Zero, fp2Zero>>

fp6One == <<fp2One, fp2Zero, fp2Zero>>

fp6Add(a, b) == <<fp2Add(a[1], b[1]), fp2Add(a[2], b[2]), fp2Add(a[3], b[3])>>

fp6Double(a) == fp6Add(a, a)

fp6Sub(a, b) == <<fp2Sub(a[1], b[1]), fp2Sub(a[2], b[2]), fp2Sub(a[3], b[3])>>

fp6Neg(a) == <<fp2Neg(a[1]), fp2Neg(a[2]), fp2Neg(a[3])>>

fp6Mul(a, b) ==
    LET t0 == fp2Mul(a[1], b[1])
        t1 == fp2Mul(a[2], b[2])
        t2 == fp2Mul(a[3], b[3])
        cross(i, j, s, t) == fp2Sub(fp2Mul(fp2Add(a[i], a[j]), fp2Add(b[i], b[j])), fp2Add(s, t))
    IN  <<fp2Add(t0, fp2MulByNonResidue(cross(2, 3, t1, t2))),
          fp2Add(cross(1, 2, t0, t1), fp2MulByNonResidue(t2)),
          fp2Add(t1, cross(1, 3, t0, t2))>>

fp6Square(a) ==
    LET t0 == fp2Square(a[1])
        t1 == fp2Double(fp2Mul(a[1], a[2]))
        t2 == fp2Square(fp2Add(fp2Sub(a[1], a[2]), a[3]))
        t3 == fp2Double(fp2Mul(a[2], a[3]))
        t4 == fp2Square(a[3])
    IN  <<fp2Add(t0, fp2MulByNonResidue(t3)),
          fp2Add(t1, fp2MulByNonResidue(t4)),
          fp2Sub(fp2Add(fp2Add(t1, t2), t3), fp2Add(t0, t4))>>

(* The products by b0 + b1*v and by b1*v that a line of the Miller loop needs. *)
fp6MulBy01(a, b0, b1) ==
    LET t0 == fp2Mul(a[1], b0)
        t1 == fp2Mul(a[2], b1)
        t2 == fp2MulByNonResidue(fp2Sub(fp2Mul(fp2Add(a[2], a[3]), b1), t1))
        t3 == fp2Sub(fp2Mul(fp2Add(a[1], a[3]), b0), t0)
        t4 == fp2Sub(fp2Mul(fp2Add(b0, b1), fp2Add(a[1], a[2])), t0)
    IN  <<fp2Add(t2, t0), fp2Sub(t4, t1), fp2Add(t3, t1)>>

fp6MulBy1(a, b1) == <<fp2MulByNonResidue(fp2Mul(a[3], b1)), fp2Mul(a[1], b1), fp2Mul(a[2], b1)>>

fp6MulByNonResidue(a) == <<fp2MulByNonResidue(a[3]), a[1], a[2]>>

fp6MulByBaseField(a, b) == <<fp2Mul(a[1], b), fp2Mul(a[2], b), fp2Mul(a[3], b)>>

fp6Inverse(a) ==
    LET t0 == fp2Sub(fp2Square(a[1]), fp2MulByNonResidue(fp2Mul(a[2], a[3])))
        t1 == fp2Sub(fp2Square(a[2]), fp2Mul(a[1], a[3]))
        t2 == fp2Sub(fp2MulByNonResidue(fp2Square(a[3])), fp2Mul(a[1], a[2]))
        norm(t) == fp2Add(fp2MulByNonResidue(fp2Add(fp2Mul(a[3], t[2]), fp2Mul(a[2], t[3]))), fp2Mul(a[1], t[1]))
        inverse(t) == Call2(fp6MulByBaseField, t, fp2Inverse(norm(t)))
    IN  Call(inverse, <<t0, t2, t1>>)

(* xi^((P^power - 1)/n): the tables frobeniusCoeffs61, 62 and 12. *)
nonResidue2 == <<XiReal, 1>>
frobeniusCoeff(n, power) ==
    LET c1 == fp2Exp(nonResidue2, (P - 1) \div n)
        step(c, i) == fp2Mul(fp2FrobeniusMap(c, 1), c1)
    IN  Iterate(step, fp2One, [i \in 1..power |-> i])

(* For power 3 the source multiplies by the coefficients in place, as they  *)
(* are u and -1 when xi = 1 + u.                                            *)
fp6FrobeniusMap(a, power) ==
    LET map(c61) == <<fp2FrobeniusMap(a[1], power),
                      fp2Mul(fp2FrobeniusMap(a[2], power), c61),
                      fp2Mul(fp2FrobeniusMap(a[3], power), fp2Square(c61))>>
    IN  Call(map, frobeniusCoeff(3, power % 6))

-----------------------------------------------------------------------------
(* fp12.go                                                                 *)

fp12One == <<fp6One, fp6Zero>>

fp12Add(a, b) == <<fp6Add(a[1], b[1]), fp6Add(a[2], b[2])>>

fp12Sub(a, b) == <<fp6Sub(a[1], b[1]), fp6Sub(a[2], b[2])>>

fp12Double(a) == <<fp6Double(a[1]), fp6Double(a[2])>>

fp12Neg(a) == <<fp6Neg(a[1]), fp6Neg(a[2])>>

fp12Conjugate(a) == <<a[1], fp6Neg(a[2])>>

fp12Square(e) ==
    LET t2(a) == fp6Mul(a[1], a[2])
        t0(a) == fp6Mul(fp6Add(a[1], a[2]), fp6Add(fp6MulByNonResidue(a[2]), a[1]))
        square(a) == <<fp6Sub(fp6Sub(t0(a), t2(a)), fp6MulByNonResidue(t2(a))), fp6Double(t2(a))>>
    IN  Call(square, e)

fp4Square(a0, a1) ==
    LET t0 == fp2Square(a0)
        t1 == fp2Square(a1)
    IN  <<fp2Add(fp2MulByNonResidue(t1), t0), fp2Sub(fp2Sub(fp2Square(fp2Add(a0, a1)), t0), t1)>>

(* Granger and Scott's squaring, right only in the cyclotomic subgroup. *)
fp12CyclotomicSquare(e) ==
    LET less(t, a) == fp2Add(fp2Double(fp2Sub(t, a)), t)    \* 3t - 2a
        plus(t, a) == fp2Add(fp2Double(fp2Add(t, a)), t)    \* 3t + 2a
        squares(a) == [k \in 1..3 |-> fp4Square(<<a[1][1], a[2][1], a[1][2]>>[k], <<a[2][2], a[1][3], a[2][3]>>[k])]
        combine(a, s) == <<[k \in 1..3 |-> less(s[k][1], a[1][k])],
                           [k \in 1..3 |-> plus(IF k = 1 THEN fp2MulByNonResidue(s[3][2]) ELSE s[k - 1][2], a[2][k])]>>
        square(a) == Call2(combine, a, squares(a))
    IN  Call(square, e)

fp12Mul(e, f) ==
    LET product(a, b) ==
            LET t1 == fp6Mul(a[1], b[1])
                t2 == fp6Mul(a[2], b[2])
                t3 == fp6Mul(fp6Add(a[1], a[2]), fp6Add(b[1], b[2]))
            IN  <<fp6Add(t1, fp6MulByNonResidue(t2)), fp6Sub(t3, fp6Add(t1, t2))>>
    IN  Call2(product, e, f)

fp12Inverse(e) ==
    LET inverse(a) ==
            LET t0 == fp6Inverse(fp6Sub(fp6Square(a[1]), fp6MulByNonResidue(fp6Square(a[2]))))
            IN  <<fp6Mul(a[1], t0), fp6Neg(fp6Mul(t0, a[2]))>>
    IN  Call(inverse, e)

(* The product by the line c0 + c1*v + c4*v*w. *)
fp12MulBy014(e, c0, c1, c4) ==
    LET product(a, c) ==
            LET t0 == fp6MulBy01(a[1], c[1], c[2])
                t1 == fp6MulBy1(a[2], c[3])
                t2 == fp6MulBy01(fp6Add(a[2], a[1]), c[1], fp2Add(c[2], c[3]))
            IN  <<fp6Add(fp6MulByNonResidue(t1), t0), fp6Sub(fp6Sub(t2, t0), t1)>>
    IN  Call2(product, e, <<c0, c1, c4>>)

fp12ExpStep(s, bit) == <<IF bit = 1 THEN fp12Mul(fp12Square(s[1]), s[2]) ELSE fp12Square(s[1]), s[2]>>
fp12Exp(a, s) == Iterate(fp12ExpStep, <<fp12One, a>>, bitsOf(s))[1]

fp12CyclotomicExpStep(s, bit) == <<IF bit = 1 THEN fp12Mul(fp12CyclotomicSquare(s[1]), s[2]) ELSE fp12CyclotomicSquare(s[1]), s[2]>>
fp12CyclotomicExp(a, s) == Iterate(fp12CyclotomicExpStep, <<fp12One, a>>, bitsOf(s))[1]

fp12FrobeniusMap(e, power) ==
    LET twist(f2) == IF power = 0 THEN f2
                     ELSE IF power = 6 THEN fp6Neg(f2)
                     ELSE fp6MulByBaseField(f2, frobeniusCoeff(6, power))
        frobenius(a) == <<fp6FrobeniusMap(a[1], power), Call(twist, fp6FrobeniusMap(a[2], power))>>
    IN  Call(frobenius, e)

-----------------------------------------------------------------------------
(***************************************************************************)
(* crypto/bls12381: the groups G1 and G2, their byte forms, the map to the *)
(* curve, and the pairing engine.  A byte is a digit in base Byte and a    *)
(* field element takes feBytes of them (48 in the source); the encoding of *)
(* the precompiles puts pad zero bytes before each (16 in the source).     *)
(***************************************************************************)

CONSTANTS q,              \* the order of the groups
          x,              \* the curve parameter, whose sign is negative
          curveB, g1One, g2One,
          cofactorEFFG1, cofactorEFFG2,
          feBytes, pad, Byte,
          swuA, swuB, swuZ,          \* swuParamsForG1
          swuA2, swuB2, swuZ2,       \* swuParamsForG2
          isogenyConstantsG1         \* four polynomials, lowest coefficient first

fp2MulByB(a) == fp2MulByNonResidue(fp2MulByFq(a, curveB))

G1 == INSTANCE BlsGroup WITH zero <- 0, one <- 1, b <- curveB, fAdd <- fpAdd, fSub <- fpSub,
                             fMul <- fpMul, fSquare <- fpSquare, fInverse <- fpInverse,
                             cofactorEFF <- cofactorEFFG1, bitLen <- BitLen

G2 == INSTANCE BlsGroup WITH zero <- fp2Zero, one <- fp2One, b <- fp2MulByB(fp2One),
                             fAdd <- fp2Add, fSub <- fp2Sub, fMul <- fp2Mul,
                             fSquare <- fp2Square, fInverse <- fp2Inverse,
                             cofactorEFF <- cofactorEFFG2, bitLen <- BitLen

(* g2.go has the code of g1.go over again, on Fp2. *)
G2IsOnCurve(p) == G2!IsOnCurve(p)
G2Affine(p) == G2!Affine(p)
G2Double(p) == G2!Double(p)
G2Add(p1, p2) == G2!Add(p1, p2)
G2Neg(p) == G2!Neg(p)
G2Sub(p1, p2) == G2!Sub(p1, p2)
G2MulScalar(p, e) == G2!MulScalar(p, e)
G2MultiExp(points, powers) == G2!MultiExp(points, powers)

-----------------------------------------------------------------------------
(* Byte forms.  A decoder returns [err, v]; an error leaves v at the zero  *)
(* value it is given.                                                      *)

toBytes(a) == [i \in 1..feBytes |-> (a \div Byte^(feBytes - i)) % Byte]

valueOf(in) == FoldLeft(LAMBDA n, d : n * Byte + d, 0, in)

feInvalid(in) == Len(in) # feBytes \/ valueOf(in) >= P

(* The k-th piece of n bytes. *)
piece(in, k, n) == SubSeq(in, (k - 1) * n + 1, k * n)

fp2ToBytes(a) == toBytes(a[2]) \o toBytes(a[1])

fp2Of(in) == <<valueOf(piece(in, 2, feBytes)), valueOf(piece(in, 1, feBytes))>>

fp2Invalid(in) == Len(in) # 2 * feBytes \/ \E k \in 1..2 : feInvalid(piece(in, k, feBytes))

G1ToBytes(p) == LET a == G1!Affine(p)
                IN  IF G1!IsZero(p) THEN [i \in 1..2 * feBytes |-> 0]
                    ELSE toBytes(a[1]) \o toBytes(a[2])

G1FromBytes(in) ==
    LET p == <<valueOf(piece(in, 1, feBytes)), valueOf(piece(in, 2, feBytes)), 1>>
    IN  IF Len(in) # 2 * feBytes \/ \E k \in 1..2 : feInvalid(piece(in, k, feBytes))
        THEN [err |-> TRUE, v |-> G1!Zero]
        ELSE IF p[1] = 0 /\ p[2] = 0 THEN [err |-> FALSE, v |-> G1!Zero]
        ELSE IF ~G1!IsOnCurve(p) THEN [err |-> TRUE, v |-> G1!Zero]
        ELSE [err |-> FALSE, v |-> p]

G2ToBytes(p) == LET a == G2Affine(p)
                IN  IF G2!IsZero(p) THEN [i \in 1..4 * feBytes |-> 0]
                    ELSE fp2ToBytes(a[1]) \o fp2ToBytes(a[2])

G2FromBytes(in) ==
    LET p == <<fp2Of(piece(in, 1, 2 * feBytes)), fp2Of(piece(in, 2, 2 * feBytes)), fp2One>>
    IN  IF Len(in) # 4 * feBytes \/ \E k \in 1..2 : fp2Invalid(piece(in, k, 2 * feBytes))
        THEN [err |-> TRUE, v |-> G2!Zero]
        ELSE IF p[1] = fp2Zero /\ p[2] = fp2Zero THEN [err |-> FALSE, v |-> G2!Zero]
        ELSE IF ~G2IsOnCurve(p) THEN [err |-> TRUE, v |-> G2!Zero]
        ELSE [err |-> FALSE, v |-> p]

(* The padded form of the precompiles: one field element after the other,  *)
(* the coefficients of an Fp2 element in the opposite order of fp2ToBytes. *)
padded(bytes) == [i \in 1..pad |-> 0] \o bytes

decodeFieldElement(in) ==
    [err |-> Len(in) # pad + feBytes \/ \E i \in 1..pad : in[i] # 0,
     v   |-> SubSeq(in, pad + 1, Len(in))]

G1EncodePoint(p) == LET raw == G1ToBytes(p)
                    IN  padded(piece(raw, 1, feBytes)) \o padded(piece(raw, 2, feBytes))

G1DecodePoint(in) ==
    LET part(k) == decodeFieldElement(piece(in, k, pad + feBytes))
    IN  IF Len(in) # 2 * (pad + feBytes) \/ \E k \in 1..2 : part(k).err
        THEN [err |-> TRUE, v |-> G1!Zero]
        ELSE G1FromBytes(part(1).v \o part(2).v)

G2EncodePoint(p) == LET raw == G2ToBytes(p)
                        part(k) == padded(piece(raw, k, feBytes))
                    IN  part(2) \o part(1) \o part(4) \o part(3)

G2DecodePoint(in) ==
    LET part(k) == decodeFieldElement(piece(in, k, pad + feBytes))
    IN  IF Len(in) # 4 * (pad + feBytes) \/ \E k \in 1..4 : part(k).err
        THEN [err |-> TRUE, v |-> G2!Zero]
        ELSE G2FromBytes(part(2).v \o part(1).v \o part(4).v \o part(3).v)

(* fp12.go and gt.go: the highest coefficient first, and only elements of  *)
(* the order q are taken back.                                             *)
coeffs(e) == <<e[2][3], e[2][2], e[2][1], e[1][3], e[1][2], e[1][1]>>

GTToBytes(e) == LET c == coeffs(e)
                IN  fp2ToBytes(c[1]) \o fp2ToBytes(c[2]) \o fp2ToBytes(c[3])
                    \o fp2ToBytes(c[4]) \o fp2ToBytes(c[5]) \o fp2ToBytes(c[6])

GTIsValid(e) == fp12Exp(e, q) = fp12One

GTFromBytes(in) ==
    LET c(k) == fp2Of(piece(in, k, 2 * feBytes))
        e    == <<<<c(6), c(5), c(4)>>, <<c(3), c(2), c(1)>>>>
    IN  IF Len(in) # 12 * feBytes \/ \E k \in 1..6 : fp2Invalid(piece(in, k, 2 * feBytes))
        THEN [err |-> TRUE, v |-> fp12One]
        ELSE [err |-> ~GTIsValid(e), v |-> e]

-----------------------------------------------------------------------------
(* swu.go, isogeny.go: the simplified SWU map to y^2 = x^3 + A*x + B, and  *)
(* the isogeny from that curve to G1's.                                    *)

swuX1(t, z, minusBOverA, fAdd(_, _), fMul(_, _), fInverse(_), zero, one) ==
    LET d == fInverse(fAdd(t, fMul(t, t)))
    IN  fMul(IF d = zero THEN fInverse(z) ELSE fAdd(d, one), minusBOverA)

swuMapG1(u) ==
    LET t   == fpMul(fpSquare(u), swuZ)
        x1  == swuX1(t, swuZ, fpNeg(fpMul(swuB, fpInverse(swuA))), fpAdd, fpMul, fpInverse, 0, 1)
        gx1 == fpAdd(fpMul(fpAdd(fpSquare(x1), swuA), x1), swuB)
        gx2 == fpMul(gx1, fpMul(t, fpSquare(t)))
        e2  == ~fpIsQuadraticNonResidue(gx1)
        y   == fpSqrt(IF e2 THEN gx1 ELSE gx2).root
    IN  <<IF e2 THEN x1 ELSE fpMul(t, x1), IF fpSign(y) # fpSign(u) THEN fpNeg(y) ELSE y>>

swuMapG2(u) ==
    LET t   == fp2Mul(fp2Square(u), swuZ2)
        x1  == swuX1(t, swuZ2, fp2Neg(fp2Mul(swuB2, fp2Inverse(swuA2))), fp2Add, fp2Mul, fp2Inverse,
                     fp2Zero, fp2One)
        gx1 == fp2Add(fp2Mul(fp2Add(fp2Square(x1), swuA2), x1), swuB2)
        gx2 == fp2Mul(gx1, fp2Mul(t, fp2Square(t)))
        e2  == ~fp2IsQuadraticNonResidue(gx1)
        y   == fp2Sqrt(IF e2 THEN gx1 ELSE gx2).root
    IN  <<IF e2 THEN x1 ELSE fp2Mul(t, x1), IF fp2Sign(y) # fp2Sign(u) THEN fp2Neg(y) ELSE y>>

isogenyMapG1(p) ==
    LET at(poly) == FoldRight(LAMBDA c, v : fpAdd(fpMul(v, p[1]), c), poly, 0)
        value(k) == at(isogenyConstantsG1[k])
    IN  <<fpMul(value(1), fpInverse(value(2))), fpMul(fpMul(value(3), fpInverse(value(4))), p[2])>>

G1MapToCurve(in) ==
    LET p == isogenyMapG1(swuMapG1(valueOf(in)))
    IN  IF feInvalid(in) THEN [err |-> TRUE, v |-> G1!Zero]
        ELSE [err |-> FALSE, v |-> G1!Affine(G1!ClearCofactor(<<p[1], p[2], 1>>))]

-----------------------------------------------------------------------------
(* pairing.go.  The steps return the line's coefficients and the new point *)
(* in homogeneous coordinates.                                             *)

twoInv == (P + 1) \div 2

doublingStep(r) ==
    LET t0 == fp2MulByFq(fp2Mul(r[1], r[2]), twoInv)
        t1 == fp2Square(r[2])
        t2 == fp2Square(r[3])
        t3 == fp2MulByB(fp2Add(fp2Double(t2), t2))
        t4 == fp2Add(fp2Double(t3), t3)
        t5 == fp2MulByFq(fp2Add(t1, t4), twoInv)
        t6 == fp2Sub(fp2Square(fp2Add(r[2], r[3])), fp2Add(t2, t1))
        t7 == fp2Square(r[1])
        s  == fp2Square(t3)
    IN  [coeff |-> <<fp2Sub(t3, t1), fp2Add(fp2Double(t7), t7), fp2Neg(t6)>>,
         r     |-> <<fp2Mul(fp2Sub(t1, t4), t0),
                     fp2Sub(fp2Square(t5), fp2Add(fp2Double(s), s)),
                     fp2Mul(t1, t6)>>]

additionStep(r, p) ==
    LET t0 == fp2Sub(r[2], fp2Mul(p[2], r[3]))
        t1 == fp2Sub(r[1], fp2Mul(p[1], r[3]))
        d  == fp2Square(t1)
        t4 == fp2Mul(t1, d)
        t2 == fp2Mul(r[3], fp2Square(t0))
        t3 == fp2Mul(r[1], d)
        t5 == fp2Add(fp2Sub(t4, fp2Double(t3)), t2)
    IN  [coeff |-> <<fp2Sub(fp2Mul(t0, p[1]), fp2Mul(t1, p[2])), fp2Neg(t0), t1>>,
         r     |-> <<fp2Mul(t1, t5),
                     fp2Sub(fp2Mul(fp2Sub(t3, t5), t0), fp2Mul(r[2], t4)),
                     fp2Mul(r[3], t4)>>]

(* Both loops go over the bits of x below the highest: a doubling for each *)
(* bit (TRUE), and an addition after it for a bit that is set (FALSE).     *)
schedule == FlattenSeq([i \in 1..BitLen(x) - 1 |->
                            IF bitsOf(x)[i + 1] # 0 THEN <<TRUE, FALSE>> ELSE <<TRUE>>])

preComputeStep(s, doubling) ==
    LET next(d) == [s EXCEPT !.ell = Append(s.ell, d.coeff), !.r = d.r]
    IN  Call(next, IF doubling THEN doublingStep(s.r) ELSE additionStep(s.r, s.p))

preCompute(p) == Iterate(preComputeStep, [ell |-> <<>>, r |-> p, p |-> p], schedule).ell

(* The line of pair i: j counts the lines of the schedule. *)
mulLine(s, i) ==
    LET c == s.ell[i][s.j]
        p == s.pairs[i][1]
    IN  [s EXCEPT !.f = fp12MulBy014(s.f, c[1], fp2MulByFq(c[2], p[1]), fp2MulByFq(c[3], p[2]))]

millerStep(s, doubling) ==
    Iterate(mulLine, [s EXCEPT !.j = s.j + 1, !.f = IF doubling /\ s.j > 0 THEN fp12Square(s.f) ELSE s.f],
            [i \in 1..Len(s.pairs) |-> i])

millerLoop(pairs) ==
    LET start == [j |-> 0, f |-> fp12One, pairs |-> pairs, ell |-> [i \in 1..Len(pairs) |-> preCompute(pairs[i][2])]]
    IN  fp12Conjugate(Iterate(millerStep, start, schedule).f)

(* x is negative: its power is conjugated. *)
engineExp(a) == fp12Conjugate(fp12CyclotomicExp(a, x))

(* finalExp is straight-line code over the temporaries t[0..6] and f, here *)
(* register 7: <<operation, destination, operands>>, the operands of a     *)
(* Frobenius map being a register and the power.                           *)
finalExpCode ==
    << <<"frobenius", 0, 7, 6>>, <<"inverse", 1, 7>>, <<"mul", 2, 0, 1>>, <<"set", 1, 2>>,
       <<"frobenius", 2, 2, 2>>, <<"mul", 2, 2, 1>>, <<"square", 1, 2>>, <<"conjugate", 1, 1>>,
       <<"exp", 3, 2>>, <<"square", 4, 3>>, <<"mul", 5, 1, 3>>,
       <<"exp", 1, 5>>, <<"exp", 0, 1>>, <<"exp", 6, 0>>, <<"mul", 6, 6, 4>>, <<"exp", 4, 6>>,
       <<"conjugate", 5, 5>>, <<"mul", 4, 4, 5>>, <<"mul", 4, 4, 2>>, <<"conjugate", 5, 2>>,
       <<"mul", 1, 1, 2>>, <<"frobenius", 1, 1, 3>>, <<"mul", 6, 6, 5>>, <<"frobenius", 6, 6, 1>>,
       <<"mul", 3, 3, 0>>, <<"frobenius", 3, 3, 2>>, <<"mul", 3, 3, 1>>, <<"mul", 3, 3, 6>>,
       <<"mul", 7, 3, 4>> >>

finalExpStep(t, c) ==
    [t EXCEPT ![c[2]] =
        CASE c[1] = "mul"       -> fp12Mul(t[c[3]], t[c[4]])
          [] c[1] = "frobenius" -> fp12FrobeniusMap(t[c[3]], c[4])
          [] c[1] = "exp"       -> engineExp(t[c[3]])
          [] c[1] = "square"    -> fp12CyclotomicSquare(t[c[3]])
          [] c[1] = "conjugate" -> fp12Conjugate(t[c[3]])
          [] c[1] = "inverse"   -> fp12Inverse(t[c[3]])
          [] c[1] = "set"       -> t[c[3]]]

finalExp(f) == Iterate(finalExpStep, [r \in 0..7 |-> f], finalExpCode)[7]

(* AddPair and AddPairInv: a pair with a zero point is left out. *)
AddPair(pairs, g1, g2) == IF G1!IsZero(g1) \/ G2!IsZero(g2) THEN pairs
                          ELSE Append(pairs, <<G1!Affine(g1), G2Affine(g2)>>)

AddPairInv(pairs, g1, g2) == AddPair(pairs, G1!Neg(g1), g2)

(* calculate, for Check and Result: no pair gives one. *)
finishPairs(pairs) == IF pairs = <<>> THEN fp12One ELSE Call(finalExp, Call(millerLoop, pairs))
=============================================================================
