------------------------------ MODULE Jacobian ------------------------------
(***************************************************************************)
(* The group law of y^2 = x^3 + b in Jacobian coordinates, over any field: *)
(* curve.go (over GF(p)) and twist.go (over GF(p^2)) of crypto/bn256.  A   *)
(* point is <<x, y, z, t>> for (x/z^2, y/z^3), infinite when z = 0; t is   *)
(* z^2 where the Miller loop needs it.  Add and Double leave the t of the  *)
(* receiver alone: here a fresh point, whose t is zero.                    *)
(***************************************************************************)
EXTENDS Integers, Sequences, SequencesExt, StrictFold

CONSTANTS zero, one, fAdd(_, _), fSub(_, _), fMul(_, _), fInvert(_)

fSquare(a) == fMul(a, a)

fDouble(a) == fAdd(a, a)

Infinity == <<zero, one, zero, zero>>

IsInfinity(a) == a[3] = zero

IsOnCurve(a, b) == fSub(fSub(fSquare(a[2]), fMul(fSquare(a[1]), a[1])), b) = zero

(* dbl-2009-l; the point at infinity, and a point with y = 0, give z = 0. *)
Double(a) ==
    LET A  == fSquare(a[1])
        B  == fSquare(a[2])
        C  == fSquare(B)
        d  == fDouble(fSub(fSub(fSquare(fAdd(a[1], B)), A), C))
        e  == fAdd(fDouble(A), A)
        x3 == fSub(fSquare(e), fDouble(d))
        y3 == fSub(fMul(e, fSub(d, x3)), fDouble(fDouble(fDouble(C))))
        z3 == fDouble(fMul(a[2], a[3]))
    IN  <<x3, y3, z3, zero>>

(* add-2007-bl; equal points go to Double, opposite ones get z = 0. *)
Add(a, b) ==
    LET z1z1 == fSquare(a[3])
        z2z2 == fSquare(b[3])
        u1 == fMul(a[1], z2z2)
        u2 == fMul(b[1], z1z1)
        s1 == fMul(a[2], fMul(b[3], z2z2))
        s2 == fMul(b[2], fMul(a[3], z1z1))
        h  == fSub(u2, u1)
        i  == fSquare(fDouble(h))
        j  == fMul(h, i)
        s  == fSub(s2, s1)
        r  == fDouble(s)
        v  == fMul(u1, i)
        x3 == fSub(fSub(fSquare(r), j), fDouble(v))
        y3 == fSub(fMul(r, fSub(v, x3)), fDouble(fMul(s1, j)))
        z3 == fMul(fSub(fSub(fSquare(fAdd(a[3], b[3])), z1z1), z2z2), h)
    IN  IF IsInfinity(a) THEN b
        ELSE IF IsInfinity(b) THEN a
        ELSE IF h = zero /\ s = zero THEN Double(a)
        ELSE <<x3, y3, z3, zero>>

(* Double and add, from one bit above the highest. *)
Mul(a, bits) ==
    LET step(sum, bit) == IF bit # 0 THEN Add(Double(sum), a) ELSE Double(sum)
    IN  Iterate(step, <<zero, zero, zero, zero>>, <<0>> \o bits)

MakeAffine(a) ==
    LET zInv  == fInvert(a[3])
        zInv2 == fSquare(zInv)
    IN  IF a[3] = one THEN a
        ELSE IF IsInfinity(a) THEN Infinity
        ELSE <<fMul(a[1], zInv2), fMul(fMul(a[2], zInv), zInv2), one, one>>

Negative(a) == <<a[1], fSub(zero, a[2]), a[3], zero>>
=============================================================================
