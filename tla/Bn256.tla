------------------------------- MODULE Bn256 --------------------------------
(***************************************************************************)
(* The tower GF(p^2), GF(p^6), GF(p^12) of crypto/bn256/google: gfp2.go,   *)
(* gfp6.go and gfp12.go.  An element of GF(p^2) is <<x, y>> = x*i + y, of  *)
(* GF(p^6) <<x, y, z>> = x*tau^2 + y*tau + z, of GF(p^12) <<x, y>> =       *)
(* x*omega + y, with i^2 = -1, tau^3 = xi, omega^2 = tau and xi = XiReal   *)
(* + i (9 + i in the source).                                              *)
(*                                                                         *)
(* The base field is a parameter: integers modulo P in crypto/bn256/google *)
(* and Montgomery residues in crypto/bn256/cloudflare, where gfpMul and    *)
(* one are those of that form.  The integers the source leaves unreduced   *)
(* until the next Mod or Minimal are represented by their residue.         *)
(***************************************************************************)
EXTENDS Integers, Sequences, SequencesExt, StrictFold

CONSTANTS P,              \* the prime
          XiReal,         \* xi = XiReal + i
          one,            \* the unit of the base field
          gfpMul(_, _),   \* multiplication of the base field
          gfpInvert(_)    \* its inverse

-----------------------------------------------------------------------------
(* The base field, and the bits of an exponent from the highest.           *)

gfpAdd(a, b) == (a + b) % P

gfpSub(a, b) == (a - b + P) % P

gfpNeg(a) == (P - a) % P

BitLen(k) == CHOOSE n \in 0..31 : (IF n = 31 THEN TRUE ELSE k < 2^n) /\ (n = 0 \/ k >= 2^(n - 1))

bitsOf(k) == [i \in 1..BitLen(k) |-> (k \div 2^(BitLen(k) - i)) % 2]

-----------------------------------------------------------------------------
(* gfp2.go                                                                 *)

gfP2Zero == <<0, 0>>

gfP2One == <<0, one>>

gfP2Conjugate(a) == <<gfpNeg(a[1]), a[2]>>

gfP2Neg(a) == <<gfpNeg(a[1]), gfpNeg(a[2])>>

gfP2Add(a, b) == <<gfpAdd(a[1], b[1]), gfpAdd(a[2], b[2])>>

gfP2Sub(a, b) == <<gfpSub(a[1], b[1]), gfpSub(a[2], b[2])>>

gfP2Double(a) == gfP2Add(a, a)

gfP2Mul(a, b) == <<gfpAdd(gfpMul(a[1], b[2]), gfpMul(b[1], a[2])),
                   gfpSub(gfpMul(a[2], b[2]), gfpMul(a[1], b[1]))>>

gfP2MulScalar(a, b) == <<gfpMul(a[1], b), gfpMul(a[2], b)>>

gfP2MulXi(a) == <<(XiReal * a[1] + a[2]) % P, (XiReal * a[2] - a[1] + P) % P>>

gfP2Square(a) == LET xy == gfpMul(a[1], a[2])
                 IN  <<gfpAdd(xy, xy), gfpMul(gfpSub(a[2], a[1]), gfpAdd(a[1], a[2]))>>

gfP2Invert(a) == LET inv == gfpInvert(gfpAdd(gfpMul(a[2], a[2]), gfpMul(a[1], a[1])))
                 IN  <<gfpMul(gfpNeg(a[1]), inv), gfpMul(a[2], inv)>>

gfP2ExpStep(s, bit) == <<IF bit = 1 THEN gfP2Mul(gfP2Square(s[1]), s[2]) ELSE gfP2Square(s[1]), s[2]>>
gfP2Exp(a, power) == Iterate(gfP2ExpStep, <<gfP2One, a>>, bitsOf(power))[1]

-----------------------------------------------------------------------------
(* gfp6.go                                                                 *)

gfP6Zero == <<gfP2Zero, gfP2Zero, gfP2Zero>>

gfP6One == <<gfP2Zero, gfP2Zero, gfP2One>>

gfP6Neg(a) == <<gfP2Neg(a[1]), gfP2Neg(a[2]), gfP2Neg(a[3])>>

gfP6Add(a, b) == <<gfP2Add(a[1], b[1]), gfP2Add(a[2], b[2]), gfP2Add(a[3], b[3])>>

gfP6Sub(a, b) == <<gfP2Sub(a[1], b[1]), gfP2Sub(a[2], b[2]), gfP2Sub(a[3], b[3])>>

gfP6Double(a) == <<gfP2Double(a[1]), gfP2Double(a[2]), gfP2Double(a[3])>>

(* Karatsuba: three products of coefficients and three of sums, and how   *)
(* they combine.                                                          *)
karatsuba6(a) == <<a[3], a[2], a[1], gfP2Add(a[1], a[3]), gfP2Add(a[2], a[3]), gfP2Add(a[1], a[2])>>

combine6(v) ==
    LET cross(k, i, j) == gfP2Sub(gfP2Sub(v[k], v[i]), v[j])
    IN  <<gfP2Add(cross(4, 1, 3), v[2]),
          gfP2Add(cross(5, 1, 2), gfP2MulXi(v[3])),
          gfP2Add(gfP2MulXi(cross(6, 2, 3)), v[1])>>

gfP6Mul(a, b) ==
    LET products(x, y) == [k \in 1..6 |-> gfP2Mul(x[k], y[k])]
    IN  Call(combine6, Call2(products, karatsuba6(a), karatsuba6(b)))

gfP6MulScalar(a, b) == <<gfP2Mul(a[1], b), gfP2Mul(a[2], b), gfP2Mul(a[3], b)>>

gfP6MulGFP(a, b) == <<gfP2MulScalar(a[1], b), gfP2MulScalar(a[2], b), gfP2MulScalar(a[3], b)>>

gfP6MulTau(a) == <<a[2], a[3], gfP2MulXi(a[1])>>

gfP6Square(a) ==
    LET squares(x) == [k \in 1..6 |-> gfP2Square(x[k])]
    IN  Call(combine6, Call(squares, karatsuba6(a)))

gfP6Invert(a) ==
    LET A == gfP2Sub(gfP2Square(a[3]), gfP2MulXi(gfP2Mul(a[1], a[2])))
        B == gfP2Sub(gfP2MulXi(gfP2Square(a[1])), gfP2Mul(a[2], a[3]))
        C == gfP2Sub(gfP2Square(a[2]), gfP2Mul(a[1], a[3]))
        F == gfP2Add(gfP2Add(gfP2MulXi(gfP2Mul(C, a[2])), gfP2Mul(A, a[3])),
                     gfP2MulXi(gfP2Mul(B, a[1])))
        inv == gfP2Invert(F)
    IN  <<gfP2Mul(C, inv), gfP2Mul(B, inv), gfP2Mul(A, inv)>>

(* The constants of constants.go, from the powers of xi they are.           *)
xi == <<one, (XiReal * one) % P>>
xiToPMinus1Over6 == gfP2Exp(xi, (P - 1) \div 6)
xiToPMinus1Over3 == gfP2Square(xiToPMinus1Over6)
xiToPMinus1Over2 == gfP2Mul(xiToPMinus1Over3, xiToPMinus1Over6)
xiTo2PMinus2Over3 == gfP2Square(xiToPMinus1Over3)
xiToPSquaredMinus1Over6 == gfP2Mul(gfP2Conjugate(xiToPMinus1Over6), xiToPMinus1Over6)[2]
xiToPSquaredMinus1Over3 == gfpMul(xiToPSquaredMinus1Over6, xiToPSquaredMinus1Over6)
xiTo2PSquaredMinus2Over3 == gfpMul(xiToPSquaredMinus1Over3, xiToPSquaredMinus1Over3)

gfP6Frobenius(a) == <<gfP2Mul(gfP2Conjugate(a[1]), xiTo2PMinus2Over3),
                      gfP2Mul(gfP2Conjugate(a[2]), xiToPMinus1Over3),
                      gfP2Conjugate(a[3])>>

gfP6FrobeniusP2(a) == <<gfP2MulScalar(a[1], xiTo2PSquaredMinus2Over3),
                        gfP2MulScalar(a[2], xiToPSquaredMinus1Over3),
                        a[3]>>

-----------------------------------------------------------------------------
(* gfp12.go                                                                *)

gfP12One == <<gfP6Zero, gfP6One>>

gfP12Conjugate(a) == <<gfP6Neg(a[1]), a[2]>>

gfP12Neg(a) == <<gfP6Neg(a[1]), gfP6Neg(a[2])>>

gfP12Add(a, b) == <<gfP6Add(a[1], b[1]), gfP6Add(a[2], b[2])>>

gfP12Sub(a, b) == <<gfP6Sub(a[1], b[1]), gfP6Sub(a[2], b[2])>>

gfP12Frobenius(a) == <<gfP6MulScalar(gfP6Frobenius(a[1]), xiToPMinus1Over6), gfP6Frobenius(a[2])>>

gfP12FrobeniusP2(a) == <<gfP6MulGFP(gfP6FrobeniusP2(a[1]), xiToPSquaredMinus1Over6), gfP6FrobeniusP2(a[2])>>

gfP12Mul(a, b) ==
    LET products(e, f) == [k \in 1..4 |-> gfP6Mul(e[(k + 1) \div 2], f[(k % 2) + 1])]
        combine(v) == <<gfP6Add(v[1], v[4]), gfP6Add(v[3], gfP6MulTau(v[2]))>>
    IN  Call(combine, Call2(products, a, b))

gfP12MulScalar(a, b) == <<gfP6Mul(a[1], b), gfP6Mul(a[2], b)>>

(* The complex squaring: (x + y)(y + tau x) less xy and tau xy. *)
gfP12Square(a) ==
    LET products(e, f) == [k \in 1..2 |-> gfP6Mul(e[k], f[k])]
        combine(v) == <<gfP6Double(v[1]), gfP6Sub(gfP6Sub(v[2], v[1]), gfP6MulTau(v[1]))>>
        sums(e) == Call2(products, <<e[1], gfP6Add(e[1], e[2])>>, <<e[2], gfP6Add(e[2], gfP6MulTau(e[1]))>>)
    IN  Call(combine, Call(sums, a))

gfP12ExpStep(s, bit) == <<IF bit = 1 THEN gfP12Mul(gfP12Square(s[1]), s[2]) ELSE gfP12Square(s[1]), s[2]>>
gfP12Exp(a, power) == Iterate(gfP12ExpStep, <<gfP12One, a>>, bitsOf(power))[1]

gfP12Invert(a) ==
    LET t == gfP6Invert(gfP6Sub(gfP6Square(a[2]), gfP6MulTau(gfP6Square(a[1]))))
    IN  gfP12MulScalar(<<gfP6Neg(a[1]), a[2]>>, t)

-----------------------------------------------------------------------------
(***************************************************************************)
(* crypto/bn256/google: the groups G1 (curve.go), G2 (twist.go) and GT, the *)
(* optimal ate pairing (optate.go) and the byte forms of bn256.go.  The    *)
(* curve is any Barreto-Naehrig curve: its parameters are constants.  An   *)
(* operation returns the value of a fresh receiver.                        *)
(***************************************************************************)

CONSTANTS u,              \* the parameter of the curve
          Order,          \* the order of G1, G2 and GT
          sixuPlus2NAF,   \* 6u+2 in signed digits, the lowest first
          curveB, curveGen, twistB, twistGen,
          numBytes,       \* the bytes of a coordinate
          Byte,           \* the number of values of a byte
          decode(_),      \* the integer a base element stands for
          encode(_)       \* and back

C == INSTANCE Jacobian WITH zero <- 0, fAdd <- gfpAdd, fSub <- gfpSub, fMul <- gfpMul, fInvert <- gfpInvert
T == INSTANCE Jacobian WITH zero <- gfP2Zero, one <- gfP2One, fAdd <- gfP2Add, fSub <- gfP2Sub,
                            fMul <- gfP2Mul, fInvert <- gfP2Invert

curveAdd(a, b) == C!Add(a, b)
curveDouble(a) == C!Double(a)
curveMul(a, scalar) == C!Mul(a, bitsOf(scalar))
curveNegative(a) == C!Negative(a)
curveMakeAffine(a) == C!MakeAffine(a)
curveIsOnCurve(a) == C!IsOnCurve(a, curveB)

twistAdd(a, b) == T!Add(a, b)
twistDouble(a) == T!Double(a)
twistMul(a, scalar) == T!Mul(a, bitsOf(scalar))
twistNegative(a) == T!Negative(a)
twistMakeAffine(a) == T!MakeAffine(a)

(* A point of the twist must also be in the subgroup. *)
twistIsOnCurve(a) == T!IsOnCurve(a, twistB) /\ T!IsInfinity(twistMul(a, Order))

-----------------------------------------------------------------------------
(* optate.go.  A line is <<a, b, c>>; the line functions return it with the *)
(* next point of the Miller loop, whose t is z^2.                          *)

dbl(x) == gfP2Add(x, x)

(* r + p for an affine p, r2 = p.y^2, evaluated at q. *)
lineFunctionAdd(r, p, q, r2) ==
    LET B  == gfP2Mul(p[1], r[4])
        D  == gfP2Mul(gfP2Sub(gfP2Sub(gfP2Square(gfP2Add(p[2], r[3])), r2), r[4]), r[4])
        H  == gfP2Sub(B, r[1])
        I  == gfP2Square(H)
        E  == dbl(dbl(I))
        J  == gfP2Mul(H, E)
        L1 == gfP2Sub(gfP2Sub(D, r[2]), r[2])
        V  == gfP2Mul(r[1], E)
        x3 == gfP2Sub(gfP2Sub(gfP2Sub(gfP2Square(L1), J), V), V)
        z3 == gfP2Sub(gfP2Sub(gfP2Square(gfP2Add(r[3], H)), r[4]), I)
        y3 == gfP2Sub(gfP2Mul(gfP2Sub(V, x3), L1), dbl(gfP2Mul(r[2], J)))
        t3 == gfP2Square(z3)
        t  == gfP2Sub(gfP2Sub(gfP2Square(gfP2Add(p[2], z3)), r2), t3)
    IN  [line |-> <<gfP2Sub(dbl(gfP2Mul(L1, p[1])), t),
                    dbl(gfP2MulScalar(gfP2Neg(L1), q[1])),
                    dbl(gfP2MulScalar(z3, q[2]))>>,
         r |-> <<x3, y3, z3, t3>>]

lineFunctionDouble(r, q) ==
    LET A  == gfP2Square(r[1])
        B  == gfP2Square(r[2])
        CC == gfP2Square(B)
        D  == dbl(gfP2Sub(gfP2Sub(gfP2Square(gfP2Add(r[1], B)), A), CC))
        E  == gfP2Add(dbl(A), A)
        G  == gfP2Square(E)
        x3 == gfP2Sub(gfP2Sub(G, D), D)
        z3 == gfP2Sub(gfP2Sub(gfP2Square(gfP2Add(r[2], r[3])), B), r[4])
        y3 == gfP2Sub(gfP2Mul(gfP2Sub(D, x3), E), dbl(dbl(dbl(CC))))
    IN  [line |-> <<gfP2Sub(gfP2Sub(gfP2Sub(gfP2Square(gfP2Add(r[1], E)), A), G), dbl(dbl(B))),
                    gfP2MulScalar(gfP2Neg(dbl(gfP2Mul(E, r[4]))), q[1]),
                    gfP2MulScalar(dbl(gfP2Mul(z3, r[4])), q[2])>>,
         r |-> <<x3, y3, z3, gfP2Square(z3)>>]

(* ret times (a tau + b) omega + c. *)
mulLine(ret, line) ==
    LET a  == line[1]  b == line[2]  c == line[3]
        a2 == gfP6Mul(<<gfP2Zero, a, b>>, ret[1])
        t3 == gfP6MulScalar(ret[2], c)
        x  == gfP6Mul(gfP6Add(ret[1], ret[2]), <<gfP2Zero, a, gfP2Add(b, c)>>)
    IN  <<gfP6Sub(gfP6Sub(x, a2), t3), gfP6Add(t3, gfP6MulTau(a2))>>

(* The loop without the point of the square of the Frobenius. *)
lineScheduleShort ==
    LET digit(d) == CASE d = 1 -> <<"double", "a">> [] d = -1 -> <<"double", "minusA">> [] d = 0 -> <<"double">>
        len == Len(sixuPlus2NAF)
    IN  FlattenSeq([k \in 1..(len - 1) |-> digit(sixuPlus2NAF[len - k])]) \o <<"q1">>

(* The lines of the loop: a doubling for each digit below the highest and   *)
(* an addition after it for a digit that is not zero, then the two points    *)
(* the Frobenius gives.                                                      *)
lineSchedule ==
    LET digit(d) == CASE d = 1 -> <<"double", "a">> [] d = -1 -> <<"double", "minusA">> [] d = 0 -> <<"double">>
        len == Len(sixuPlus2NAF)
    IN  FlattenSeq([k \in 1..(len - 1) |-> digit(sixuPlus2NAF[len - k])]) \o <<"q1", "minusQ2">>

addend(aAffine, name) ==
    CASE name = "a"       -> aAffine
      [] name = "minusA"  -> twistNegative(aAffine)
      [] name = "q1"      -> <<gfP2Mul(gfP2Conjugate(aAffine[1]), xiToPMinus1Over3),
                               gfP2Mul(gfP2Conjugate(aAffine[2]), xiToPMinus1Over2), gfP2One, gfP2One>>
      [] name = "minusQ2" -> <<gfP2MulScalar(aAffine[1], xiToPSquaredMinus1Over3), aAffine[2], gfP2One, gfP2One>>

(* One line: ret is squared before every doubling but the first. *)
nextLine(s, name) ==
    IF name = "double" THEN lineFunctionDouble(s.r, s.bAffine)
    ELSE LET add(point) == lineFunctionAdd(s.r, point, s.bAffine, gfP2Square(point[2]))
         IN  Call(add, addend(s.aAffine, name))

millerStep(s, i) ==
    LET squared == IF lineSchedule[i] = "double" /\ i > 1 THEN gfP12Square(s.ret) ELSE s.ret
        apply(next) == [s EXCEPT !.ret = mulLine(squared, next.line), !.r = next.r]
    IN  Call(apply, nextLine(s, lineSchedule[i]))

miller(q, p) ==
    LET walk(aAffine, bAffine) ==
            Iterate(millerStep, [ret |-> gfP12One, r |-> aAffine, aAffine |-> aAffine, bAffine |-> bAffine],
                    [i \in 1..Len(lineSchedule) |-> i]).ret
    IN  Call2(walk, twistMakeAffine(q), curveMakeAffine(p))

(* To the power (p^12 - 1) / Order: straight-line code over named elements,  *)
(* <<operation, destination, operands>>.                                     *)
finalExponentiationCode ==
    << <<"conjugate", "t1", "in">>, <<"invert", "inv", "in">>, <<"mul", "t1", "t1", "inv">>,
       <<"frobeniusP2", "t2", "t1">>, <<"mul", "t1", "t1", "t2">>,
       <<"frobenius", "fp", "t1">>, <<"frobeniusP2", "fp2", "t1">>, <<"frobenius", "fp3", "fp2">>,
       <<"expU", "fu", "t1">>, <<"expU", "fu2", "fu">>, <<"expU", "fu3", "fu2">>,
       <<"frobenius", "y3", "fu">>, <<"frobenius", "fu2p", "fu2">>, <<"frobenius", "fu3p", "fu3">>,
       <<"frobeniusP2", "y2", "fu2">>,
       <<"mul", "y0", "fp", "fp2">>, <<"mul", "y0", "y0", "fp3">>,
       <<"conjugate", "y1", "t1">>, <<"conjugate", "y5", "fu2">>, <<"conjugate", "y3", "y3">>,
       <<"mul", "y4", "fu", "fu2p">>, <<"conjugate", "y4", "y4">>,
       <<"mul", "y6", "fu3", "fu3p">>, <<"conjugate", "y6", "y6">>,
       <<"square", "t0", "y6">>, <<"mul", "t0", "t0", "y4">>, <<"mul", "t0", "t0", "y5">>,
       <<"mul", "t1", "y3", "y5">>, <<"mul", "t1", "t1", "t0">>, <<"mul", "t0", "t0", "y2">>,
       <<"square", "t1", "t1">>, <<"mul", "t1", "t1", "t0">>, <<"square", "t1", "t1">>,
       <<"mul", "t0", "t1", "y1">>, <<"mul", "t1", "t1", "y0">>, <<"square", "t0", "t0">>,
       <<"mul", "t0", "t0", "t1">> >>

finalExponentiationStep(e, c) ==
    [e EXCEPT ![c[2]] =
        CASE c[1] = "mul"         -> gfP12Mul(e[c[3]], e[c[4]])
          [] c[1] = "square"      -> gfP12Square(e[c[3]])
          [] c[1] = "frobenius"   -> gfP12Frobenius(e[c[3]])
          [] c[1] = "frobeniusP2" -> gfP12FrobeniusP2(e[c[3]])
          [] c[1] = "expU"        -> gfP12Exp(e[c[3]], u)
          [] c[1] = "conjugate"   -> gfP12Conjugate(e[c[3]])
          [] c[1] = "invert"      -> gfP12Invert(e[c[3]])]

finalExponentiation(in) ==
    LET names == {"in"} \cup {finalExponentiationCode[i][2] : i \in 1..Len(finalExponentiationCode)}
    IN  Iterate(finalExponentiationStep, [n \in names |-> in], finalExponentiationCode)["t0"]

-----------------------------------------------------------------------------
(* bn256.go: the operations of the three groups.                           *)

G1ScalarBaseMult(k) == curveMul(curveGen, k)
G1ScalarMult(a, k) == curveMul(a, k)
G1Add(a, b) == curveAdd(a, b)
G1Neg(a) == curveNegative(a)

G2ScalarBaseMult(k) == twistMul(twistGen, k)
G2ScalarMult(a, k) == twistMul(a, k)
G2Add(a, b) == twistAdd(a, b)

GTScalarMult(a, k) == gfP12Exp(a, k)
GTAdd(a, b) == gfP12Mul(a, b)
GTNeg(a) == gfP12Invert(a)

(* Pair and PairingCheck: the Miller values of the pairs are multiplied,   *)
(* one after the other, and the product is raised to the final exponent.   *)
(* A pair with a point at infinity counts as one.                          *)
absorbPair(acc, g1, g2) ==
    IF C!IsInfinity(g1) \/ T!IsInfinity(g2) THEN acc ELSE gfP12Mul(acc, Call2(miller, g2, g1))

finishPairs(acc) == finalExponentiation(acc)

-----------------------------------------------------------------------------
(* The byte forms: coordinates in big-endian order, numBytes each, and all *)
(* zero for infinity.  Unmarshal gives ok = FALSE for its errors.          *)

putBytes(x) == [i \in 1..numBytes |-> (decode(x) \div Byte^(numBytes - i)) % Byte]

putAll(xs) == FlattenSeq([i \in 1..Len(xs) |-> putBytes(xs[i])])

getInt(m, i) == Iterate(LAMBDA acc, d : acc * Byte + d, 0, SubSeq(m, i * numBytes + 1, (i + 1) * numBytes))

(* The first n integers of m, once none exceeds the modulus. *)
tooLarge(m, n) == \E i \in 0..(n - 1) : getInt(m, i) >= P

coordinate(m, i) == encode(getInt(m, i))

malformed == [ok |-> FALSE]

G1Marshal(a) == LET p == curveMakeAffine(a)
                IN  IF C!IsInfinity(a) THEN [i \in 1..(2 * numBytes) |-> 0] ELSE putAll(<<p[1], p[2]>>)

G1Unmarshal(m) ==
    LET p == <<coordinate(m, 0), coordinate(m, 1), one, one>>
    IN  IF Len(m) # 2 * numBytes \/ tooLarge(m, 2) THEN malformed
        ELSE IF p[1] = 0 /\ p[2] = 0 THEN [ok |-> TRUE, p |-> C!Infinity]
        ELSE IF curveIsOnCurve(p) THEN [ok |-> TRUE, p |-> p] ELSE malformed

G2Marshal(a) == LET p == twistMakeAffine(a)
                IN  IF T!IsInfinity(a) THEN [i \in 1..(4 * numBytes) |-> 0]
                    ELSE putAll(<<p[1][1], p[1][2], p[2][1], p[2][2]>>)

G2Unmarshal(m) ==
    LET p == <<<<coordinate(m, 0), coordinate(m, 1)>>, <<coordinate(m, 2), coordinate(m, 3)>>, gfP2One, gfP2One>>
    IN  IF Len(m) # 4 * numBytes \/ tooLarge(m, 4) THEN malformed
        ELSE IF p[1] = gfP2Zero /\ p[2] = gfP2Zero THEN [ok |-> TRUE, p |-> T!Infinity]
        ELSE IF twistIsOnCurve(p) THEN [ok |-> TRUE, p |-> p] ELSE malformed

GTMarshal(a) == putAll(FlattenSeq(FlattenSeq(a)))

(* No test of the size of the integers here: a residue is all they are. *)
GTUnmarshal(m) ==
    LET c(i) == encode(getInt(m, i) % P)
        gfp6(i) == <<<<c(i), c(i + 1)>>, <<c(i + 2), c(i + 3)>>, <<c(i + 4), c(i + 5)>>>>
    IN  IF Len(m) # 12 * numBytes THEN malformed ELSE [ok |-> TRUE, p |-> <<gfp6(0), gfp6(6)>>]
=============================================================================
