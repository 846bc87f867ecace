------------------------------ MODULE BlsGroup ------------------------------
(***************************************************************************)
(* The group y^2 = x^3 + b of crypto/bls12381 in Jacobian coordinates:     *)
(* g1.go (over Fp) and g2.go (over Fp2).  A point is <<x, y, z>> for       *)
(* (x/z^2, y/z^3), zero when z = 0.                                        *)
(***************************************************************************)
EXTENDS Integers, Sequences, SequencesExt, StrictFold

CONSTANTS zero, one, b,
          fAdd(_, _), fSub(_, _), fMul(_, _), fSquare(_), fInverse(_),
          q,              \* the order of the subgroup
          cofactorEFF,    \* what ClearCofactor multiplies by
          bitLen(_)       \* the length of a scalar in bits

Zero == <<zero, one, zero>>

IsZero(p) == p[3] = zero

IsAffine(p) == p[3] = one

Equal(p1, p2) ==
    LET t0 == fSquare(p1[3])
        t1 == fSquare(p2[3])
    IN  IF IsZero(p1) \/ IsZero(p2) THEN IsZero(p1) /\ IsZero(p2)
        ELSE /\ fMul(fMul(t0, p1[3]), p2[2]) = fMul(fMul(t1, p2[3]), p1[2])
             /\ fMul(t0, p2[1]) = fMul(t1, p1[1])

IsOnCurve(p) ==
    LET z2 == fSquare(p[3])
    IN  IsZero(p) \/ fSquare(p[2]) = fAdd(fMul(fSquare(p[1]), p[1]), fMul(b, fMul(z2, fSquare(z2))))

Affine(p) ==
    LET scale(zInv) == <<fMul(p[1], fSquare(zInv)), fMul(p[2], fMul(zInv, fSquare(zInv))), one>>
    IN  IF IsZero(p) \/ IsAffine(p) THEN p ELSE Call(scale, fInverse(p[3]))

fDouble(a) == fAdd(a, a)

(* dbl-2009-l *)
Double(p) ==
    LET A == fSquare(p[1])
        B == fSquare(p[2])
        C == fSquare(B)
        d == fDouble(fSub(fSub(fSquare(fAdd(p[1], B)), A), C))
        e == fAdd(fDouble(A), A)
        x == fSub(fSquare(e), fDouble(d))
    IN  IF IsZero(p) THEN p
        ELSE <<x,
               fSub(fMul(e, fSub(d, x)), fDouble(fDouble(fDouble(C)))),
               fDouble(fMul(p[2], p[3]))>>

(* add-2007-bl *)
Add(p1, p2) ==
    LET t7 == fSquare(p1[3])
        t8 == fSquare(p2[3])
        u1 == fMul(p1[1], t8)
        u2 == fMul(p2[1], t7)
        s1 == fMul(p1[2], fMul(p2[3], t8))
        s2 == fMul(p2[2], fMul(p1[3], t7))
        h  == fSub(u2, u1)
        i  == fSquare(fDouble(h))
        j  == fMul(h, i)
        r  == fDouble(fSub(s2, s1))
        v  == fMul(u1, i)
        x  == fSub(fSub(fSquare(r), j), fDouble(v))
    IN  IF IsZero(p1) THEN p2
        ELSE IF IsZero(p2) THEN p1
        ELSE IF u2 = u1 THEN (IF s2 = s1 THEN Double(p1) ELSE Zero)
        ELSE <<x,
               fSub(fMul(r, fSub(v, x)), fDouble(fMul(s1, j))),
               fMul(fSub(fSub(fSquare(fAdd(p1[3], p2[3])), t7), t8), h)>>

Neg(p) == <<p[1], fSub(zero, p[2]), p[3]>>

Sub(p1, p2) == Add(p1, Neg(p2))

(* Add and double from the lowest bit, the sum starting as the zero value  *)
(* of the Go type.                                                         *)
MulScalar(p, e) ==
    LET step(s, i) == <<IF (e \div 2^(i - 1)) % 2 = 1 THEN Add(s[1], s[2]) ELSE s[1], Double(s[2])>>
    IN  Iterate(step, <<<<zero, zero, zero>>, p>>, [i \in 1..bitLen(e) |-> i])[1]

InCorrectSubgroup(p) == IsZero(MulScalar(p, q))

ClearCofactor(p) == MulScalar(p, cofactorEFF)

-----------------------------------------------------------------------------
(* MultiExp: Pippenger's buckets.  The window of c bits is 3 wide below 32 *)
(* scalars and ceil(log10(n)) above; the windows cover the bits up to the  *)
(* last multiple of c within the length of q.                              *)

windowBits(n) == IF n < 32 THEN 3
                 ELSE CHOOSE c \in 1..9 : 10^c >= n /\ 10^(c - 1) < n

(* bucket[i] collects the points whose digit in the window is i. *)
bucketSum(points, digits, i) ==
    LET step(s, k) == IF digits[k] = i THEN Add(s, points[k]) ELSE s
    IN  Iterate(step, Zero, [k \in 1..Len(points) |-> k])

(* The running sum, taken from the highest bucket, is added to acc in each round. *)
windowSum(points, digits, size) ==
    LET step(s, i) == LET sum == Add(s[1], bucketSum(points, digits, size - i + 1))
                      IN  <<sum, Add(s[2], sum)>>
    IN  Iterate(step, <<Zero, Zero>>, [i \in 1..size |-> i])[2]

MultiExp(points, powers) ==
    LET c     == windowBits(Len(powers))
        count == bitLen(q) \div c + 1
        digitsAt(j) == [k \in 1..Len(powers) |-> (powers[k] \div 2^(c * j)) % 2^c]
        double(s, i) == Double(s)
        step(acc, j) == Add(Iterate(double, acc, [i \in 1..c |-> i]),
                            windowSum(points, digitsAt(count - j), 2^c - 1))
    IN  IF Len(points) # Len(powers) THEN [err |-> TRUE, r |-> Zero]
        ELSE [err |-> FALSE, r |-> Iterate(step, Zero, [j \in 1..count |-> j])]
=============================================================================
