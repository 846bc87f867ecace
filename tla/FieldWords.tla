----------------------------- MODULE FieldWords -----------------------------
(***************************************************************************)
(* crypto/bn256/cloudflare/gfp_generic.go: arithmetic modulo p on the      *)
(* words of a residue, lowest first, each word wrapping.  A word has four  *)
(* quarters; the source has four words of four 16-bit quarters.            *)
(***************************************************************************)
EXTENDS Integers, Sequences, FiniteSets, FiniteSetsExt, StrictFold, SequencesExt

CONSTANTS GfpLen,          \* words of an element
          Quarter,        \* values of a quarter of a word
          p2,             \* the words of the modulus
          np              \* the words of -1/p modulo the radix

gfpWord == Quarter * Quarter * Quarter * Quarter
Half == Quarter * Quarter
gfpIndex == 1..GfpLen

(* The highest bit of the borrow of pi - ai - c = bi, and of the carry of   *)
(* ai + bi + c = ci, from the highest bits of the three words.              *)
topBit(x) == x >= gfpWord \div 2
borrowBit(pi, ai, bi) == IF (topBit(pi) /\ ~topBit(ai)) \/ ((topBit(pi) \/ ~topBit(ai)) /\ topBit(bi)) THEN 1 ELSE 0
carryBit(ai, bi, ci) == IF (topBit(ai) /\ topBit(bi)) \/ ((topBit(ai) \/ topBit(bi)) /\ ~topBit(ci)) THEN 1 ELSE 0

(* a - b and a + b: the words, and what is left of the borrow or the carry. *)
gfpSubWords(a, b) ==
    LET step(s, i) == LET d == (a[i] - b[i] - s.carry + 2 * gfpWord) % gfpWord
                      IN  [words |-> Append(s.words, d), carry |-> borrowBit(b[i], a[i], d)]
    IN  Iterate(step, [words |-> <<>>, carry |-> 0], [i \in gfpIndex |-> i])

gfpAddWords(a, b) ==
    LET step(s, i) == LET c == (a[i] + b[i] + s.carry) % gfpWord
                      IN  [words |-> Append(s.words, c), carry |-> carryBit(a[i], b[i], c)]
    IN  Iterate(step, [words |-> <<>>, carry |-> 0], [i \in 1..Len(a) |-> i])

(* a less the modulus, unless that is negative and nothing was carried in. *)
gfpCarry(a, head) ==
    LET b == gfpSubWords(a, p2)
    IN  IF b.carry = 1 /\ head = 0 THEN a ELSE b.words

gfpNeg(a) == gfpCarry(gfpSubWords(p2, a).words, 0)

gfpAdd(a, b) == LET s == gfpAddWords(a, b) IN gfpCarry(s.words, s.carry)

gfpSub(a, b) == LET s == gfpAddWords(a, gfpSubWords(p2, b).words) IN gfpCarry(s.words, s.carry)

(* The partial products of word i of a by word j of b: quarters of the one  *)
(* by halves of the other, for the quarters 4(i+j) .. 4(i+j)+5.             *)
partial(ai, bj, o) ==
    LET a0 == ai % Quarter
        a1 == (ai \div Quarter) % Quarter
        a2 == (ai \div Half) % Quarter
        a3 == ai \div (Half * Quarter)
        b0 == bj % Half
        b2 == bj \div Half
    IN  CASE o = 0 -> a0 * b0
          [] o = 1 -> a1 * b0
          [] o = 2 -> a2 * b0 + a0 * b2
          [] o = 3 -> a3 * b0 + a1 * b2
          [] o = 4 -> a2 * b2
          [] o = 5 -> a3 * b2

buffer(a, b, pairs, size) ==
    [k \in 0..(size - 1) |->
        LET at == {ij \in pairs : k - 4 * (ij[1] + ij[2]) \in 0..5}
        IN  MapThenSumSet(LAMBDA ij : partial(a[ij[1] + 1], b[ij[2] + 1], k - 4 * (ij[1] + ij[2])), at) % gfpWord]

(* Quarters 1 to 3 of each block are shifted into it, with the carry from   *)
(* block to block.                                                          *)
addUp(buff, blocks) ==
    LET shift(i) == Quarter^i
        step(s, ij) ==
            LET i == ij[1]
                block == 4 * ij[2]
                head  == IF ij[2] = 0 THEN 0 ELSE s.head
                carry == IF ij[2] = 0 THEN 0 ELSE s.carry
                xi == s.buff[block]
                yi == (s.buff[block + i] * shift(i) + head) % gfpWord
                zi == (xi + yi + carry) % gfpWord
            IN  [buff |-> [s.buff EXCEPT ![block] = zi], carry |-> carryBit(xi, yi, zi),
                 head |-> s.buff[block + i] \div (gfpWord \div shift(i))]
        order == [n \in 1..(3 * blocks) |-> <<1 + (n - 1) \div blocks, (n - 1) % blocks>>]
        done == Iterate(step, [buff |-> buff, carry |-> 0, head |-> 0], order).buff
    IN  [j \in 1..blocks |-> done[4 * (j - 1)]]

allPairs == (0..(GfpLen - 1)) \X (0..(GfpLen - 1))

mulWords(a, b) == addUp(buffer(a, b, allPairs, 8 * GfpLen), 2 * GfpLen)

(* The low half of the product only. *)
halfMul(a, b) == addUp(buffer(a, b, {ij \in allPairs : ij[1] + ij[2] <= GfpLen - 1}, 4 * GfpLen + 2), GfpLen)

gfpMul(a, b) ==
    LET full == mulWords(a, b)
        m == halfMul(SubSeq(full, 1, GfpLen), np)
        s == gfpAddWords(full, mulWords(m, p2))
    IN  gfpCarry(SubSeq(s.words, GfpLen + 1, 2 * GfpLen), s.carry)

-----------------------------------------------------------------------------
(***************************************************************************)
(* crypto/bls12381: arithmetic_fallback.go, field_element.go and fp.go, on *)
(* the words of an element of the base field, lowest first.  The source    *)
(* has six 64-bit words; additions are not reduced by the l- operations    *)
(* and a carry out of the last word is dropped, as there.                  *)
(***************************************************************************)

CONSTANTS Words,          \* words of an element
          WordBits,       \* bits of a word
          modulus,        \* the words of the modulus
          ModulusBits,    \* bits of the modulus
          inp,            \* -1/modulus modulo a word
          r2              \* R^2 modulo the modulus, R = 2^(Words * WordBits)

Word == 2^WordBits
Index == [i \in 1..Words |-> i]
zero == [i \in 1..Words |-> 0]
unit == [i \in 1..Words |-> IF i = 1 THEN 1 ELSE 0]

-----------------------------------------------------------------------------
(* field_element.go                                                        *)

isZero(a) == \A i \in 1..Words : a[i] = 0

isEven(a) == a[1] % 2 = 0

(* By the highest word in which they differ. *)
cmp(a, b) ==
    LET differ == {i \in 1..Words : a[i] # b[i]}
        top    == CHOOSE i \in differ : \A j \in differ : j <= i
    IN  IF differ = {} THEN 0 ELSE IF a[top] > b[top] THEN 1 ELSE -1

isValid(a) == cmp(a, modulus) = -1

div2(a, e) == [i \in 1..Words |-> ((a[i] \div 2) + (IF i = Words THEN e ELSE a[i + 1]) * (Word \div 2)) % Word]

mul2(a) == [i \in 1..Words |-> (2 * a[i] + (IF i = 1 THEN 0 ELSE a[i - 1] \div (Word \div 2))) % Word]
mul2Out(a) == a[Words] \div (Word \div 2)

-----------------------------------------------------------------------------
(* arithmetic_fallback.go: chains of Add64 and Sub64.                      *)

addWords(a, b) ==
    LET step(s, i) == LET t == a[i] + b[i] + s.c IN [w |-> Append(s.w, t % Word), c |-> t \div Word]
    IN  Iterate(step, [w |-> <<>>, c |-> 0], Index)

subWords(a, b) ==
    LET step(s, i) == LET t == a[i] - b[i] - s.c IN [w |-> Append(s.w, t % Word), c |-> IF t < 0 THEN 1 ELSE 0]
    IN  Iterate(step, [w |-> <<>>, c |-> 0], Index)

ladd(a, b) == addWords(a, b).w
ldouble(a) == addWords(a, a).w
lsub(a, b) == subWords(a, b).w

(* The result may be the modulus itself. *)
reduceAbove(z) == IF cmp(z, modulus) # 1 THEN z ELSE lsub(z, modulus)

(* "if z > q --> z -= q" *)
reduce(z) == IF isValid(z) THEN z ELSE lsub(z, modulus)

add(a, b) == Call(reduce, ladd(a, b))
double(a) == Call(reduce, ldouble(a))

sub(a, b) == LET d == subWords(a, b) IN IF d.c # 0 THEN ladd(d.w, modulus) ELSE d.w

neg(a) == IF isZero(a) THEN zero ELSE lsub(modulus, a)

hi(x) == x \div Word
lo(x) == x % Word
madd0(a, b, c) == hi(a * b + c)
madd1(a, b, c) == a * b + c
madd2(a, b, c, d) == a * b + c + d
madd3(a, b, c, d, e) == [hi |-> (hi(a * b + c + d) + e) % Word, lo |-> lo(a * b + c + d)]
madd2s(a, b, c, d, e) == [superhi |-> (2 * a * b) \div (Word * Word),
                          rest |-> (((2 * a * b) % (Word * Word)) + c + e + d * Word) % (Word * Word)]
(* The carries of its last additions into hi are dropped: the sum was larger. *)
madd2sDrops(a, b, c, d, e) == ((2 * a * b) % (Word * Word)) + c + e + d * Word >= Word * Word

(* One round for each word v of x; t is the running result, one word short. *)
mul(x, y) ==
    LET round(t, v) ==
            LET first == madd1(v, y[1], t[1])
                m == (lo(first) * inp) % Word
                step(s, j) ==
                    LET low == madd2(v, y[j], s.c1, t[j])
                        mid == madd2(m, modulus[j], s.c2, lo(low))
                        end == madd3(m, modulus[j], lo(low), s.c2, hi(low))
                    IN  IF j < Words THEN [c1 |-> hi(low), c2 |-> hi(mid), t |-> Append(s.t, lo(mid))]
                        ELSE [c1 |-> 0, c2 |-> 0, t |-> s.t \o <<end.lo, end.hi>>]
            IN  Iterate(step, [c1 |-> hi(first), c2 |-> madd0(m, modulus[1], lo(first)), t |-> <<>>], Tail(Index)).t
    IN  Call(reduce, Iterate(round, zero, x))

(* Round i adds x[i]^2 and twice x[i] x[j] for j > i; p is the running      *)
(* result, and drops whether madd2s has dropped a carry.                     *)
squareRounds(x) ==
    LET round(r, i) ==
            LET p == r.p
                at0 == IF i = 1 THEN madd1(x[1], x[1], p[1]) ELSE p[1]
                m == (lo(at0) * inp) % Word
                step(s, j) ==
                    LET own   == madd1(x[i], x[i], p[j])
                        twice == madd2s(x[i], x[j], p[j], s.t, s.u)
                        n == IF j < i THEN [t |-> 0, u |-> 0, v |-> p[j]]
                             ELSE IF j = i THEN [t |-> 0, u |-> hi(own), v |-> lo(own)]
                             ELSE [t |-> twice.superhi, u |-> hi(twice.rest), v |-> lo(twice.rest)]
                        drops == s.drops \/ (j > i /\ madd2sDrops(x[i], x[j], p[j], s.t, s.u))
                        mid == madd2(m, modulus[j], n.v, s.c)
                        end == madd3(m, modulus[j], n.v, s.c, n.u)
                    IN  IF j < Words
                        THEN [t |-> n.t, u |-> n.u, c |-> hi(mid), p |-> Append(s.p, lo(mid)), drops |-> drops]
                        ELSE [t |-> 0, u |-> 0, c |-> 0, p |-> s.p \o <<end.lo, end.hi>>, drops |-> drops]
            IN  Iterate(step, [t |-> 0, u |-> hi(at0), c |-> madd0(m, modulus[1], lo(at0)), p |-> <<>>, drops |-> r.drops],
                        Tail(Index))
    IN  Iterate(round, [p |-> zero, drops |-> FALSE], Index)

square(x) == Call(reduce, squareRounds(x).p)
squareDrops(x) == squareRounds(x).drops

-----------------------------------------------------------------------------
(* fp.go                                                                   *)

toMont(a) == mul(a, r2)
fromMont(a) == mul(a, unit)

(* One step of the almost inverse: u and v shrink, r and s grow. *)
inverseStep(w) ==
    IF isEven(w.u) THEN [w EXCEPT !.u = div2(w.u, 0), !.s = mul2(w.s), !.k = w.k + 1]
    ELSE IF isEven(w.v) THEN [w EXCEPT !.v = div2(w.v, 0), !.r = mul2(w.r), !.z = w.z + mul2Out(w.r), !.k = w.k + 1]
    ELSE IF cmp(w.u, w.v) = 1
         THEN [w EXCEPT !.u = div2(lsub(w.u, w.v), 0), !.r = ladd(w.r, w.s), !.s = mul2(w.s), !.k = w.k + 1]
    ELSE LET r0 == w.r
         IN  [w EXCEPT !.v = div2(lsub(w.v, w.u), 0), !.s = ladd(w.s, r0), !.r = mul2(r0),
                       !.z = w.z + mul2Out(r0), !.k = w.k + 1]

inverse(e) ==
    LET radix == Words * WordBits
        step(w, i) == IF isZero(w.v) THEN w ELSE inverseStep(w)
        w  == Iterate(step, [u |-> modulus, v |-> e, s |-> unit, r |-> zero, k |-> 0, z |-> 0], [i \in 1..(2 * radix) |-> i])
        r  == IF ~isValid(w.r) \/ w.z > 0 THEN lsub(w.r, modulus) ELSE w.r
        twice(x, i) == double(x)
    IN  IF isZero(e) \/ ~isZero(w.v) \/ w.k < ModulusBits \/ w.k > ModulusBits + radix THEN zero
        ELSE Iterate(twice, lsub(modulus, r), [i \in 1..(2 * radix - w.k) |-> i])
=============================================================================
