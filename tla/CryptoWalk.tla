----------------------------- MODULE CryptoWalk -----------------------------
(***************************************************************************)
(* A caller of a pairing library (crypto/bn256/google,                     *)
(* crypto/bn256/cloudflare, crypto/bls12381): it works on a point of G1    *)
(* and a point of G2, pairs them as Pair or as a check of two pairs, and   *)
(* goes on in GT.  The libraries are parameters; lib is the one in use.    *)
(* k1, k2 and kt are the discrete logarithms that the results must have;   *)
(* groups holds the three groups by definition.                            *)
(***************************************************************************)
EXTENDS Integers, Sequences, StrictFold, FiniteSets, FiniteSetsExt

CONSTANTS Libs, OrderOf(_),
          gen1(_), add1(_, _, _), neg1(_, _), scale1(_, _, _), exchange1(_, _), affine1(_, _),
          gen2(_), add2(_, _, _), neg2(_, _), scale2(_, _, _), exchange2(_, _), affine2(_, _),
          inForm2(_, _),            \* history: t, where a point has one, fits its z
          noPairs(_), absorb(_, _, _, _), finishPairing(_, _),
          gtMul(_, _, _), gtInv(_, _), gtPow(_, _, _), exchangeT(_, _), poly(_, _),
          table1(_), table2(_), tableT(_, _),   \* the groups by definition
          Scalars(_),               \* scalars the caller multiplies by
          MaxOps                    \* operations on the points

VARIABLES lib, p1, k1, p2, k2,
          phase,         \* "base", "points", "pairs", "target"
          queue, acc,    \* the pairs still to absorb, and the engine's state
          gt, kt, ops, groups

walk == <<p1, k1, p2, k2, phase, queue, acc, gt, kt, ops, groups>>

(* The pairing of the generators comes first: it is the base of GT. *)
StartWalk ==
    /\ lib \in Libs
    /\ p1 = gen1(lib) /\ k1 = 1 /\ p2 = gen2(lib) /\ k2 = 1
    /\ phase = "base" /\ queue = << <<p1, p2>> >> /\ acc = noPairs(lib)
    /\ gt = <<>> /\ kt = 1 /\ ops = 0
    /\ groups = [one |-> table1(lib), two |-> table2(lib), target |-> <<>>]

working == phase = "points" /\ ops < MaxOps /\ ops' = ops + 1 /\ UNCHANGED <<phase, queue, acc, gt, kt, groups>>

onG1(p, k) == working /\ p1' = p /\ k1' = k % OrderOf(lib) /\ UNCHANGED <<p2, k2>>

onG2(p, k) == working /\ p2' = p /\ k2' = k % OrderOf(lib) /\ UNCHANGED <<p1, k1>>

AddG1 == onG1(add1(lib, p1, gen1(lib)), k1 + 1)
DoubleG1 == onG1(add1(lib, p1, p1), 2 * k1)
NegG1 == onG1(neg1(lib, p1), OrderOf(lib) - k1)
MulG1 == \E s \in Scalars(lib) : onG1(scale1(lib, p1, s), k1 * s)
ExchangeG1 == onG1(exchange1(lib, p1), k1)

AddG2 == onG2(add2(lib, p2, gen2(lib)), k2 + 1)
DoubleG2 == onG2(add2(lib, p2, p2), 2 * k2)
NegG2 == onG2(neg2(lib, p2), OrderOf(lib) - k2)
MulG2 == \E s \in Scalars(lib) : onG2(scale2(lib, p2, s), k2 * s)
ExchangeG2 == onG2(exchange2(lib, p2), k2)

(* The logarithm of what the Miller loop makes of a point out of form: none  *)
(* is asked for.                                                             *)
NoLog == -1

(* Pair, or the check of (p1, p2) against the pair that must cancel it, or  *)
(* against the pair next to it: rest is the logarithm of the product.       *)
PairUp(rest) ==
    /\ phase = "points"
    /\ phase' = "pairs" /\ acc' = noPairs(lib)
    /\ queue' = IF rest = "pair" THEN << <<p1, p2>> >>
                ELSE << <<p1, p2>>, <<scale1(lib, gen1(lib), ((OrderOf(lib) - ((k1 * k2) % OrderOf(lib))) + (IF rest = "next" THEN 1 ELSE 0))), gen2(lib)>> >>
    /\ kt' = IF ~inForm2(lib, p2) THEN NoLog
             ELSE IF rest = "pair" THEN (k1 * k2) % OrderOf(lib) ELSE IF rest = "next" THEN 1 ELSE 0
    /\ UNCHANGED <<p1, k1, p2, k2, gt, ops, groups>>

Absorb ==
    /\ phase \in {"base", "pairs"} /\ queue # <<>>
    /\ acc' = absorb(lib, acc, Head(queue)[1], Head(queue)[2])
    /\ queue' = Tail(queue)
    /\ UNCHANGED <<p1, k1, p2, k2, phase, gt, kt, ops, groups>>

Finish ==
    /\ phase \in {"base", "pairs"} /\ queue = <<>>
    /\ gt' = finishPairing(lib, acc) /\ acc' = noPairs(lib)
    /\ phase' = IF phase = "base" THEN "points" ELSE "target"
    /\ groups' = IF phase = "base" THEN [groups EXCEPT !.target = Call2(tableT, lib, poly(lib, gt'))] ELSE groups
    /\ ops' = 0
    /\ UNCHANGED <<p1, k1, p2, k2, queue, kt>>

onGT(e, k) ==
    /\ phase = "target" /\ ops < 1 /\ ops' = ops + 1
    /\ gt' = e /\ kt' = IF kt = NoLog THEN NoLog ELSE k % OrderOf(lib)
    /\ UNCHANGED <<p1, k1, p2, k2, phase, queue, acc, groups>>

MulGT == onGT(gtMul(lib, gt, gt), 2 * kt)
InvGT == onGT(gtInv(lib, gt), OrderOf(lib) - kt)
PowGT == \E s \in Scalars(lib) : onGT(gtPow(lib, gt, s), kt * s)
ExchangeGT == onGT(exchangeT(lib, gt), kt)

StepWalk == \/ AddG1 \/ DoubleG1 \/ NegG1 \/ MulG1 \/ ExchangeG1
            \/ AddG2 \/ DoubleG2 \/ NegG2 \/ MulG2 \/ ExchangeG2
            \/ \E rest \in {"pair", "cancel", "next"} : PairUp(rest)
            \/ Absorb \/ Finish
            \/ MulGT \/ InvGT \/ PowGT \/ ExchangeGT

-----------------------------------------------------------------------------
(* Whatever sequence of Add, Neg, ScalarMult and byte exchanges led to it,   *)
(* a point of G1 or G2 is the multiple of the generator that the scalars     *)
(* say: the doubling inside Add, the point at infinity, the lattice          *)
(* decomposition with the endomorphism, and the Montgomery form give what    *)
(* repeated addition of affine points gives.                                 *)
GroupsSound ==
    phase \in {"base", "points", "pairs", "target"} =>
        affine1(lib, p1) = groups.one[k1 + 1] /\ affine2(lib, p2) = groups.two[k2 + 1]

(* The pairing is bilinear and not degenerate: the value for k1*G and k2*H   *)
(* is the (k1*k2)-th power of the pairing of the generators, a check of two  *)
(* pairs accepts the product that is one and refuses the one next to it, and *)
(* GT's operations go on from there.  Points out of form are excepted, which *)
(* the Neg of cloudflare's G2 makes of a point whose z is one: it clears t,  *)
(* MakeAffine returns at once, and the Miller loop takes t as it finds it.   *)
PairingSound ==
    /\ phase \in {"points", "pairs"} => groups.target[2] # groups.target[1] /\ groups.target[OrderOf(lib) + 1] = groups.target[1]
    /\ phase = "target" /\ kt # NoLog => poly(lib, gt) = groups.target[kt + 1]

-----------------------------------------------------------------------------
(***************************************************************************)
(* A computation in the extension of degree 12 of one of the pairing       *)
(* libraries, on any element and not only on those of GT, beside the same  *)
(* computation on polynomials (module Reference): gt is the element and    *)
(* acc the polynomial it must be.                                          *)
(***************************************************************************)

CONSTANTS FieldStarts(_),                    \* elements the computation can use
          fieldSquare(_, _), invert(_, _), conjugate(_, _),
          fieldFrobenius(_, _, _), Powers(_),  \* the maps e -> e^(p^n), n in Powers
          fieldCombine(_, _, _),             \* (-e) - (c + c)
          polyTimes(_, _, _), polyCombine(_, _, _), polyUnit,
          polyFrobenius(_, _),          \* the p-th power of a polynomial
          MaxSteps

StartField ==
    /\ lib \in Libs /\ phase = "field"
    /\ gt \in FieldStarts(lib) /\ acc = poly(lib, gt) /\ ops = 0
    /\ p1 = gen1(lib) /\ k1 = 1 /\ p2 = gen2(lib) /\ k2 = 1 /\ queue = <<>> /\ kt = 0 /\ groups = <<>>

stepField(x, y) ==
    /\ phase = "field" /\ ops < MaxSteps /\ ops' = ops + 1
    /\ gt' = x /\ acc' = y
    /\ UNCHANGED <<p1, k1, p2, k2, phase, queue, kt, groups>>

repeated(p, n) == Iterate(LAMBDA z, i : polyFrobenius(lib, z), p, [i \in 1..n |-> i])

Multiply == phase = "field" /\ \E c \in FieldStarts(lib) : stepField(gtMul(lib, gt, c), polyTimes(lib, acc, poly(lib, c)))
Combine == phase = "field" /\ \E c \in FieldStarts(lib) : stepField(fieldCombine(lib, gt, c), polyCombine(lib, acc, poly(lib, c)))
Square == stepField(fieldSquare(lib, gt), polyTimes(lib, acc, acc))
Conjugate == stepField(conjugate(lib, gt), repeated(acc, 6))
Frobenius == phase = "field" /\ \E n \in Powers(lib) : stepField(fieldFrobenius(lib, gt, n), repeated(acc, n))

StepField == Multiply \/ Combine \/ Square \/ Conjugate \/ Frobenius

(* The tower's formulas (Karatsuba, complex squaring, conjugation in place   *)
(* of the sixth Frobenius, the tables of the Frobenius maps) compute in the  *)
(* field they are meant for, whatever was computed before, and the inverse   *)
(* found through the norms of the subfields is one.                          *)
FieldSound ==
    phase = "field" => /\ poly(lib, gt) = acc
                       /\ polyTimes(lib, poly(lib, invert(lib, gt)), acc) = polyUnit

-----------------------------------------------------------------------------
(***************************************************************************)
(* The word arithmetic of the base fields (module FieldWords)              *)
(* beside arithmetic on the integers the words stand for, and the maps     *)
(* from bytes to points, each on inputs chosen once: p1 and p2 hold them.  *)
(***************************************************************************)

CONSTANTS WordLibs,
          Residues(_),               \* the integers the words stand for
          wordsOf(_, _),             \* the words of an integer
          residueOf(_, _),           \* and back
          wordsModulus(_),
          wordsRadix(_),             \* R modulo the modulus
          wordAdd(_, _, _), wordSub(_, _, _), wordNeg(_, _), wordMul(_, _, _),
          wordInverse(_, _),         \* in Montgomery form
          wordRoundTrip(_, _),       \* into Montgomery form and back
          wordSquare(_), wordSquareDrops(_),
          inverts(_),                \* whether the inverse is computed on the words
          ByteInputs(_, _),          \* byte strings offered to the decoder of G1 (1) or G2 (2)
          decodes(_, _, _),          \* whether it takes one
          decoded(_, _, _), encoded(_, _, _), onCurve(_, _, _),
          MapInputs, mapped(_), opposite(_), negated(_), same(_, _), isInGroup(_), onTwistMap(_)

idle == k1 = 0 /\ k2 = 0 /\ queue = <<>> /\ acc = <<>> /\ gt = <<>> /\ kt = 0 /\ ops = 0 /\ groups = <<>>

StartWords ==
    /\ lib \in WordLibs /\ phase = "words" /\ idle
    /\ p1 \in Residues(lib) /\ p2 \in Residues(lib)

StartBytes ==
    /\ lib \in Libs /\ phase = "bytes" /\ idle
    /\ p1 \in {1, 2} /\ p2 \in ByteInputs(lib, p1)

StartMap == lib = "bls" /\ phase = "map" /\ idle /\ p1 \in MapInputs /\ p2 = 0

(* Words that carry, borrow and wrap one by one give the residue of the      *)
(* integers' sum, difference, opposite and Montgomery product, always        *)
(* reduced, also where the highest word is full and where the result is the  *)
(* modulus itself; a square is the product unless madd2s drops a carry.      *)
WordsSound ==
    phase = "words" =>
        LET m == wordsModulus(lib)
            value(w) == residueOf(lib, w)
            check(a, b) ==
                /\ value(wordAdd(lib, a, b)) = (p1 + p2) % m
                /\ value(wordSub(lib, a, b)) = (p1 - p2 + m) % m
                /\ value(wordNeg(lib, a)) = (m - p1) % m
                /\ wordRoundTrip(lib, a) = a
                /\ lib = "fp" /\ ~wordSquareDrops(a) => wordSquare(a) = wordMul(lib, a, a)
                /\ LET r == value(wordMul(lib, a, b)) IN r < m /\ (r * wordsRadix(lib)) % m = (p1 * p2) % m
                /\ LET i == value(wordInverse(lib, a))
                   IN  inverts(lib) => i < m /\ (p1 # 0 => (i * p1) % m = (wordsRadix(lib) * wordsRadix(lib)) % m)
        IN  Call2(check, wordsOf(lib, p1), wordsOf(lib, p2))

(* A byte string that a decoder takes is the only encoding of its point, and *)
(* the point is one the group operations may be given: no coordinate above   *)
(* the modulus, no point off the curve (in bn256's G2, off the subgroup),    *)
(* no second form of infinity.  And whatever field element is mapped to the  *)
(* curve, the point is in the group, with the element's opposite going to    *)
(* the opposite point.                                                       *)
DecodeSound ==
    /\ phase = "bytes" /\ decodes(lib, p1, p2) =>
           encoded(lib, p1, decoded(lib, p1, p2)) = p2 /\ onCurve(lib, p1, decoded(lib, p1, p2))
    /\ phase = "map" => /\ isInGroup(mapped(p1))
                        /\ p1 # 0 => same(mapped(opposite(p1)), negated(mapped(p1)))
                        /\ onTwistMap(p1)

-----------------------------------------------------------------------------
(* What the libraries compute, by definition and not by their algorithms.    *)
(* The extension of degree 12 over the field of prime elements: polynomials  *)
(* in w of degree below 12, where w^6 = xi + i and i^2 = -1, so that         *)
(* w^12 = 2 xi w^6 - (xi^2 + 1).                                             *)

Degrees == 0..11

polyOne == [k \in Degrees |-> IF k = 0 THEN 1 ELSE 0]

(* The product before reduction has degree 22; terms of degree 18 and more  *)
(* are reduced twice.                                                       *)
polyMul(prime, xi, a, b) ==
    LET raw == [k \in 0..22 |->
                   MapThenSumSet(LAMBDA i : (a[i] * b[k - i]) % prime,
                                               {i \in Degrees : k - i \in Degrees})]
        high == [k \in 12..17 |-> (raw[k] + (IF k + 6 > 22 THEN 0 ELSE 2 * xi * (raw[k + 6] % prime))) % prime]
        low(k)  == IF k + 12 <= 17 THEN high[k + 12] ELSE IF k + 12 <= 22 THEN raw[k + 12] % prime ELSE 0
        mid(k)  == IF k < 6 THEN 0 ELSE high[k + 6]
    IN  [k \in Degrees |-> (raw[k] + 2 * xi * mid(k) + (prime - ((xi * xi + 1) % prime)) * low(k)) % prime]

(* An element given by its coefficients c[k] = <<re, im>> of w^k, k = 1..6. *)
polyOf(prime, xi, c) == [k \in Degrees |-> IF k < 6 THEN (c[k + 1][1] + (prime - xi) * c[k + 1][2]) % prime
                                ELSE c[k - 5][2]]

polyPower(prime, xi, a, n) ==
    LET step(z, i) == LET s == polyMul(prime, xi, z, z)
                      IN  IF (n \div 2^(i - 1)) % 2 = 1 THEN polyMul(prime, xi, s, a) ELSE s
        bits == CHOOSE l \in 1..30 : 2^l > n /\ 2^(l - 1) <= n
    IN  Iterate(step, polyOne, [i \in 1..bits |-> bits - i + 1])

(* The powers 0, ..., n of a. *)
polyPowers(prime, xi, a, n) ==
    LET step(s, i) == Append(s, Call2(LAMBDA x, y : polyMul(prime, xi, x, y), s[i], a))
    IN  Iterate(step, <<polyOne>>, [i \in 1..n |-> i])

-----------------------------------------------------------------------------
(* Affine points by the chord and tangent rule; <<>> is the neutral element, *)
(* and the operations of the field are parameters.                           *)

chord(p, s, zero, fAdd(_, _), fSub(_, _), fMul(_, _), fInvert(_)) ==
    IF p = <<>> THEN s
    ELSE IF s = <<>> THEN p
    ELSE IF p[1] = s[1] /\ fAdd(p[2], s[2]) = zero THEN <<>>
    ELSE LET xx == fMul(p[1], p[1])
             slope == IF p = s THEN fMul(fAdd(fAdd(xx, xx), xx), fInvert(fAdd(p[2], p[2])))
                      ELSE fMul(fSub(s[2], p[2]), fInvert(fSub(s[1], p[1])))
             third(l) == LET x == fSub(fSub(fMul(l, l), p[1]), s[1])
                         IN  <<x, fSub(fMul(l, fSub(p[1], x)), p[2])>>
         IN  Call(third, slope)
=============================================================================
