------------------------------ MODULE MCAlgorithms ------------------------------
(* The models of the crypto packages and of the trie package for TLC.  A     *)
(* behaviour is a behaviour of one of them, chosen at the start; the tries   *)
(* share x1 .. x13.  First the libraries that CryptoWalk calls.              *)
(*                                                                           *)
(* A small pairing-friendly curve for each of the three libraries.  The      *)
(* curve of the two bn256 packages has u = 1: p = 103 and order 97.  The     *)
(* curve for bls12381 has the base field of 7207 elements and order 601.     *)
EXTENDS CryptoWalk, TrieOps

CONSTANTS BnScalars, BlsScalars

-----------------------------------------------------------------------------
naf == <<1, 0, 0, 1, 0, -1, 0, 1>>
g1Gen == <<2, 42, 1, 1>>
g2Gen == <<<<11, 39>>, <<39, 52>>, <<0, 1>>, <<0, 1>>>>

decode(x) == x
one == 1
gfpMul(a, b) == (a * b) % 103
gfpInvert(a) == IF a = 0 THEN 0 ELSE CHOOSE b \in 1..102 : (a * b) % 103 = 1
G == INSTANCE Bn256 WITH P <- 103, XiReal <- 2, u <- 1, Order <- 97, sixuPlus2NAF <- naf, curveB <- 5,
                         curveGen <- g1Gen, twistB <- <<102, 2>>, twistGen <- g2Gen, numBytes <- 2, Byte <- 16,
                         encode <- decode
k1Gen == <<(2 * 256) % 103, (42 * 256) % 103, 256 % 103, 256 % 103>>
k2Gen == [i \in 1..4 |-> [j \in 1..2 |-> (g2Gen[i][j] * 256) % 103]]
K == INSTANCE Bn256Cloudflare WITH P <- 103, XiReal <- 2, u <- 1, Order <- 97, sixuPlus2NAF <- naf,
                         curveB <- (5 * 256) % 103,
                         curveGen <- k1Gen,
                         twistB <- <<(102 * 256) % 103, (2 * 256) % 103>>,
                         twistGen <- k2Gen,
                         numBytes <- 2, Byte <- 16, R <- 256, RInv <- 68

(* The points by definition: the multiples 0, ..., 97 of the generators. *)
bnChord1(p, s) == chord(p, s, 0, G!gfpAdd, G!gfpSub, gfpMul, gfpInvert)
bnChord2(p, s) == chord(p, s, <<0, 0>>, G!gfP2Add, G!gfP2Sub, G!gfP2Mul, G!gfP2Invert)
bnTable1(z) == Iterate(LAMBDA s, i : Append(s, Call2(bnChord1, s[i], <<2, 42>>)), <<<<>>>>, [i \in 1..97 |-> i])
bnTable2(z) == Iterate(LAMBDA s, i : Append(s, Call2(bnChord2, s[i], <<g2Gen[1], g2Gen[2]>>)), <<<<>>>>, [i \in 1..97 |-> i])
bnTableT(e) == polyPowers(103, 2, e, 97)

(* gfP12 is <<x, y>> = x w + y, gfP6 is <<x, y, z>> = x tau^2 + y tau + z,     *)
(* tau = w^2, and gfP2 is <<x, y>> = x i + y.                                  *)
bnPoly(e) == polyOf(103, 2, [k \in 1..6 |-> LET c == e[2 - ((k - 1) % 2)][3 - ((k - 1) \div 2)] IN <<c[2], c[1]>>])

affineOf(p, inf) == IF inf THEN <<>> ELSE <<p[1], p[2]>>
gAffine1(p) == affineOf(G!curveMakeAffine(p), G!C!IsInfinity(p))
gAffine2(p) == affineOf(G!twistMakeAffine(p), G!T!IsInfinity(p))
gExchange1(p) == Call(G!G1Unmarshal, G!G1Marshal(p)).p
gExchange2(p) == Call(G!G2Unmarshal, G!G2Marshal(p)).p
gExchangeT(e) == Call(G!GTUnmarshal, G!GTMarshal(e)).p
gNeg2(p) == G!G2Add(p, G!G2ScalarMult(p, 95))       \* this package has no G2.Neg

(* The Montgomery residues, decoded. *)
kDecode2(a) == <<K!montDecode(a[1]), K!montDecode(a[2])>>
kAffine1(p) == LET a == K!curveMakeAffine(p) IN affineOf(kDecode2(a), a[3] = 0)
kAffine2(p) == LET a == K!twistMakeAffine(p) IN affineOf(<<kDecode2(a[1]), kDecode2(a[2])>>, a[3] = <<0, 0>>)
kPoly(e) == bnPoly([i \in 1..2 |-> [j \in 1..3 |-> kDecode2(e[i][j])]])
kExchange1(p) == Call(K!G1Unmarshal, K!G1Marshal(p)).p
kExchange2(p) == Call(K!G2Unmarshal, K!G2Marshal(p)).p
kExchangeT(e) == Call(K!GTUnmarshal, K!GTMarshal(e)).p

(* MakeAffine returns at once when z is one; the Miller loop then takes t as *)
(* it finds it, and Neg leaves it at zero.                                   *)
kInForm(p) == p[3] = K!M!gfP2One => p[4] = K!M!gfP2One

-----------------------------------------------------------------------------
b1Gen == <<5174, 975, 1>>
b2Gen == <<<<709, 4315>>, <<5033, 2891>>, <<1, 0>>>>
B == INSTANCE Bls12381 WITH P <- 7207, XiReal <- 3, q <- 601, x <- 5, curveB <- 8, g1One <- b1Gen, g2One <- b2Gen,
    cofactorEFFG1 <- 6, cofactorEFFG2 <- 86437, feBytes <- 2, pad <- 1, Byte <- 128,
    swuA <- 7147, swuB <- 176, swuZ <- 7206, swuA2 <- <<0, 240>>, swuB2 <- <<1012, 1012>>, swuZ2 <- <<7204, 7206>>,
    isogenyConstantsG1 <- <<<<5517, 1839, 1342>>, <<7203, 1, 0>>, <<3607, 7206, 901>>, <<16, 7199, 1>>>>

blsChord1(p, s) == chord(p, s, 0, B!fpAdd, B!fpSub, B!fpMul, B!fpInverse)
blsChord2(p, s) == chord(p, s, <<0, 0>>, B!fp2Add, B!fp2Sub, B!fp2Mul, B!fp2Inverse)
blsTable1(z) == Iterate(LAMBDA s, i : Append(s, Call2(blsChord1, s[i], <<b1Gen[1], b1Gen[2]>>)), <<<<>>>>, [i \in 1..601 |-> i])
blsTable2(z) == Iterate(LAMBDA s, i : Append(s, Call2(blsChord2, s[i], <<b2Gen[1], b2Gen[2]>>)), <<<<>>>>, [i \in 1..601 |-> i])
blsTableT(e) == polyPowers(7207, 3, e, 601)

(* fp12 is <<c0, c1>> = c0 + c1 w, fp6 is in powers of w^2 and fp2 is <<re, im>>. *)
blsPoly(e) == polyOf(7207, 3, [k \in 1..6 |-> e[1 + ((k - 1) % 2)][1 + ((k - 1) \div 2)]])
blsAffine1(p) == affineOf(B!G1!Affine(p), B!G1!IsZero(p))
blsAffine2(p) == affineOf(B!G2Affine(p), B!G2!IsZero(p))

(* Both byte forms, one after the other. *)
blsExchange1(p) == LET again(v) == Call(B!G1DecodePoint, B!G1EncodePoint(v)).v
                   IN  Call(again, Call(B!G1FromBytes, B!G1ToBytes(p)).v)
blsExchange2(p) == LET again(v) == Call(B!G2DecodePoint, B!G2EncodePoint(v)).v
                   IN  Call(again, Call(B!G2FromBytes, B!G2ToBytes(p)).v)
blsExchangeT(e) == Call(B!GTFromBytes, B!GTToBytes(e)).v

(* MultiExp of three points, less the part that is known. *)
blsMul1(p, s) == B!G1!Sub(B!G1!MultiExp(<<p, b1Gen, p>>, <<s, 77, 0>>).r, B!G1!MulScalar(b1Gen, 77))

blsMul2(p, s) == B!G2Sub(B!G2MultiExp(<<b2Gen, p, p>>, <<77, 0, s>>).r, B!G2MulScalar(B!G2Double(b2Gen), 38 + 301))

(* The second pair of a check goes in by AddPairInv. *)
blsAbsorb(pairs, g1, g2) == IF pairs = <<>> THEN B!AddPair(pairs, g1, g2) ELSE B!AddPairInv(pairs, B!G1!Neg(g1), g2)

-----------------------------------------------------------------------------
(* The libraries by name. *)
mcOrder(l) == IF l = "bls" THEN 601 ELSE 97
mcScalars(l) == IF l = "bls" THEN BlsScalars ELSE BnScalars
mcGen1(l) == CASE l = "google" -> g1Gen [] l = "cloudflare" -> k1Gen [] l = "bls" -> b1Gen
mcGen2(l) == CASE l = "google" -> g2Gen [] l = "cloudflare" -> k2Gen [] l = "bls" -> b2Gen
mcAdd1(l, p, s) == CASE l = "google" -> G!G1Add(p, s) [] l = "cloudflare" -> K!G1Add(p, s) [] l = "bls" -> B!G1!Add(p, s)
mcAdd2(l, p, s) == CASE l = "google" -> G!G2Add(p, s) [] l = "cloudflare" -> K!G2Add(p, s) [] l = "bls" -> B!G2Add(p, s)
mcNeg1(l, p) == CASE l = "google" -> G!G1Neg(p) [] l = "cloudflare" -> K!G1Neg(p) [] l = "bls" -> B!G1!Neg(p)
mcNeg2(l, p) == CASE l = "google" -> gNeg2(p) [] l = "cloudflare" -> K!G2Neg(p) [] l = "bls" -> B!G2Neg(p)
mcMul1(l, p, n) == CASE l = "google" -> G!G1ScalarMult(p, n) [] l = "cloudflare" -> K!G1ScalarMult(p, n) [] l = "bls" -> blsMul1(p, n)
mcMul2(l, p, n) == CASE l = "google" -> G!G2ScalarMult(p, n) [] l = "cloudflare" -> K!G2ScalarMult(p, n) [] l = "bls" -> blsMul2(p, n)
mcExchange1(l, p) == CASE l = "google" -> gExchange1(p) [] l = "cloudflare" -> kExchange1(p) [] l = "bls" -> blsExchange1(p)
mcExchange2(l, p) == CASE l = "google" -> gExchange2(p) [] l = "cloudflare" -> kExchange2(p) [] l = "bls" -> blsExchange2(p)
mcExchangeT(l, e) == CASE l = "google" -> gExchangeT(e) [] l = "cloudflare" -> kExchangeT(e) [] l = "bls" -> blsExchangeT(e)
mcAffine1(l, p) == CASE l = "google" -> gAffine1(p) [] l = "cloudflare" -> kAffine1(p) [] l = "bls" -> blsAffine1(p)
mcAffine2(l, p) == CASE l = "google" -> gAffine2(p) [] l = "cloudflare" -> kAffine2(p) [] l = "bls" -> blsAffine2(p)
mcInForm2(l, p) == l = "cloudflare" => kInForm(p)
mcNoPairs(l) == CASE l = "google" -> G!gfP12One [] l = "cloudflare" -> K!M!gfP12One [] l = "bls" -> <<>>
mcAbsorb(l, a, p, s) == CASE l = "google" -> G!absorbPair(a, p, s) [] l = "cloudflare" -> K!absorbPair(a, p, s)
                          [] l = "bls" -> blsAbsorb(a, p, s)
mcFinish(l, a) == CASE l = "google" -> G!finishPairs(a) [] l = "cloudflare" -> K!finishPairs(a) [] l = "bls" -> B!finishPairs(a)
mcGtMul(l, a, b) == CASE l = "google" -> G!GTAdd(a, b) [] l = "cloudflare" -> K!GTAdd(a, b) [] l = "bls" -> B!fp12Mul(a, b)
mcGtInv(l, a) == CASE l = "google" -> G!GTNeg(a) [] l = "cloudflare" -> K!GTNeg(a) [] l = "bls" -> B!fp12Inverse(a)
mcGtPow(l, a, n) == CASE l = "google" -> G!GTScalarMult(a, n) [] l = "cloudflare" -> K!GTScalarMult(a, n) [] l = "bls" -> B!fp12Exp(a, n)
mcPoly(l, e) == CASE l = "google" -> bnPoly(e) [] l = "cloudflare" -> kPoly(e) [] l = "bls" -> blsPoly(e)
mcTable1(l) == IF l = "bls" THEN blsTable1(0) ELSE bnTable1(0)
mcTable2(l) == IF l = "bls" THEN blsTable2(0) ELSE bnTable2(0)
mcTableT(l, e) == IF l = "bls" THEN blsTableT(e) ELSE bnTableT(e)

-----------------------------------------------------------------------------
(* The fields: an element with no zero coefficient, sparse ones, and one     *)
(* with coefficients at the modulus' edge.                                   *)
bnElement(n) == [i \in 1..2 |-> [j \in 1..3 |-> [k \in 1..2 |-> (n * (i + 2 * j + 6 * k)) % 103]]]
blsElement(n) == [i \in 1..2 |-> [j \in 1..3 |-> [k \in 1..2 |-> (n * (i + 2 * j + 6 * k)) % 7207]]]
mcStarts(l) == IF l = "bls"
               THEN {blsElement(701), blsElement(7206), <<<<<<0, 7206>>, <<0, 0>>, <<0, 1>>>>, <<<<0, 0>>, <<5, 0>>, <<0, 0>>>>>>}
               ELSE {bnElement(37), bnElement(102), <<<<<<0, 0>>, <<102, 0>>, <<0, 1>>>>, <<<<0, 0>>, <<0, 5>>, <<0, 0>>>>>>}
mcSquare(l, e) == CASE l = "google" -> G!gfP12Square(e) [] l = "cloudflare" -> K!gfP12Square(e) [] l = "bls" -> B!fp12Square(e)
mcInvert(l, e) == CASE l = "google" -> G!gfP12Invert(e) [] l = "cloudflare" -> K!gfP12Invert(e) [] l = "bls" -> B!fp12Inverse(e)
mcConjugate(l, e) == CASE l = "google" -> G!gfP12Conjugate(e) [] l = "cloudflare" -> K!gfP12Conjugate(e)
                       [] l = "bls" -> B!fp12Conjugate(e)
mcPowers(l) == CASE l = "google" -> {1, 2} [] l = "cloudflare" -> {1, 2, 4} [] l = "bls" -> {1, 2, 3, 6}
mcFrobenius(l, e, n) ==
    CASE l = "google" -> (IF n = 1 THEN G!gfP12Frobenius(e) ELSE G!gfP12FrobeniusP2(e))
      [] l = "cloudflare" -> (IF n = 1 THEN K!gfP12Frobenius(e) ELSE IF n = 2 THEN K!gfP12FrobeniusP2(e) ELSE K!gfP12FrobeniusP4(e))
      [] l = "bls" -> B!fp12FrobeniusMap(e, n)
mcCombine(l, e, c) ==
    CASE l = "google" -> G!gfP12Sub(G!gfP12Neg(e), G!gfP12Add(c, c))
      [] l = "cloudflare" -> K!M!gfP12Sub(K!M!gfP12Neg(e), K!M!gfP12Add(c, c))
      [] l = "bls" -> B!fp12Sub(B!fp12Add(B!fp12Neg(e), B!fp12Neg(c)), B!fp12Sub(B!fp12Double(c), c))
mcPolyCombine(l, a, b) == LET m == IF l = "bls" THEN 7207 ELSE 103 IN [k \in 0..11 |-> (3 * m - a[k] - 2 * b[k]) % m]
mcPolyMul(l, a, b) == IF l = "bls" THEN polyMul(7207, 3, a, b) ELSE polyMul(103, 2, a, b)
mcPolyFrobenius(l, a) == IF l = "bls" THEN polyPower(7207, 3, a, 7207) ELSE polyPower(103, 2, a, 103)
mcPolyOne == polyOne

-----------------------------------------------------------------------------
(* The words: two of eight bits for gfp_generic.go, four of four bits for    *)
(* arithmetic_fallback.go.                                                   *)
FW == INSTANCE FieldWords WITH GfpLen <- 2, Quarter <- 4, p2 <- <<239, 107>>, np <- <<241, 220>>,
                               Words <- 4, WordBits <- 4, modulus <- <<7, 2, 12, 1>>, ModulusBits <- 13,
                               inp <- 9, r2 <- <<15, 12, 7, 1>>
mcWordsModulus(l) == IF l = "gfp" THEN 27631 ELSE 7207
mcWordsRadix(l) == 65536 % mcWordsModulus(l)
mcResidues(l) == IF l = "gfp" THEN {0, 1, 255, 256, 13815, 13816, 27392, 27391, 27629, 27630}
                 ELSE {0, 1, 15, 16, 255, 3603, 3604, 4095, 6046, 7167, 7205, 7206}
mcWordsOf(l, n) == IF l = "gfp" THEN <<n % 256, n \div 256>> ELSE [i \in 1..4 |-> (n \div 16^(i - 1)) % 16]
mcValueOf(l, w) == IF l = "gfp" THEN w[1] + 256 * w[2] ELSE w[1] + 16 * w[2] + 256 * w[3] + 4096 * w[4]
mcWordAdd(l, a, b) == IF l = "gfp" THEN FW!gfpAdd(a, b) ELSE FW!add(a, b)
mcWordSub(l, a, b) == IF l = "gfp" THEN FW!gfpSub(a, b) ELSE FW!sub(a, b)
mcWordNeg(l, a) == IF l = "gfp" THEN FW!gfpNeg(a) ELSE FW!neg(a)
mcWordMul(l, a, b) == IF l = "gfp" THEN FW!gfpMul(a, b) ELSE FW!mul(a, b)
mcWordRoundTrip(l, a) == IF l = "gfp" THEN FW!gfpMul(FW!gfpMul(a, mcWordsOf(l, 4656)), <<1, 0>>) ELSE FW!fromMont(FW!toMont(a))
mcWordSquare(a) == FW!square(a)
mcSquareDrops(a) == FW!squareDrops(a)
mcInverts(l) == l = "fp"
mcWordInverse(l, a) == FW!inverse(a)

-----------------------------------------------------------------------------
(* Bytes: the coordinates of points and of none, reduced and not, of the     *)
(* right length and not.                                                     *)
bnBytes(xs) == [i \in 1..(2 * Len(xs)) |-> IF i % 2 = 1 THEN xs[(i + 1) \div 2] \div 16 ELSE xs[i \div 2] % 16]
blsBytes(xs) == [i \in 1..(2 * Len(xs)) |-> IF i % 2 = 1 THEN xs[(i + 1) \div 2] \div 128 ELSE xs[i \div 2] % 128]
cutShort(S) == S \cup {Tail(m) : m \in S}
pairsFrom(S, T) == {<<s, t>> : s \in S, t \in T}
quads(S, T, V, W) == {<<s, t, v, w>> : s \in S, t \in T, v \in V, w \in W}
mcByteInputs(l, g) ==
    IF l = "bls"
    THEN cutShort(IF g = 1 THEN {blsBytes(m) : m \in pairsFrom({0, 7207, 5174, 12381}, {0, 7207, 975, 6232, 8182})}
               ELSE {blsBytes(m) : m \in quads({4315, 11522, 0}, {709, 0}, {2891, 4316, 0}, {5033, 2174, 0})})
    ELSE cutShort(IF g = 1 THEN {bnBytes(m) : m \in pairsFrom({0, 103, 2, 105}, {0, 103, 42, 61, 145})}
               ELSE {bnBytes(m) : m \in quads({11, 114, 0}, {39, 0, 1}, {39, 64, 0}, {52, 51, 0})})
decodeOf(l, g, m) ==
    CASE l = "google" -> (IF g = 1 THEN G!G1Unmarshal(m) ELSE G!G2Unmarshal(m))
      [] l = "cloudflare" -> (IF g = 1 THEN K!G1Unmarshal(m) ELSE K!G2Unmarshal(m))
      [] l = "bls" -> LET d == IF g = 1 THEN B!G1FromBytes(m) ELSE B!G2FromBytes(m) IN [ok |-> ~d.err, p |-> d.v]
mcDecodes(l, g, m) == decodeOf(l, g, m).ok
mcDecoded(l, g, m) == decodeOf(l, g, m).p
mcEncoded(l, g, p) ==
    CASE l = "google" -> (IF g = 1 THEN G!G1Marshal(p) ELSE G!G2Marshal(p))
      [] l = "cloudflare" -> (IF g = 1 THEN K!G1Marshal(p) ELSE K!G2Marshal(p))
      [] l = "bls" -> (IF g = 1 THEN B!G1ToBytes(p) ELSE B!G2ToBytes(p))
mcOnCurve(l, g, p) ==
    LET a == IF g = 1 THEN mcAffine1(l, p) ELSE mcAffine2(l, p)
        T == IF g = 1 THEN bnTable1(0) ELSE bnTable2(0)
    IN  IF l # "bls" THEN \E i \in 1..97 : T[i] = a
        ELSE a = <<>> \/ (IF g = 1 THEN (a[2] * a[2]) % 7207 = (((a[1] * a[1]) % 7207) * a[1] + 8) % 7207
                          ELSE B!fp2Mul(a[2], a[2]) = B!fp2Add(B!fp2Mul(B!fp2Mul(a[1], a[1]), a[1]), <<24, 8>>))
mcMapped(n) == B!G1MapToCurve(B!toBytes(n)).v
mcOpposite(n) == 7207 - n
mcNegated(p) == B!G1!Neg(p)
mcSame(p, s) == B!G1!Equal(p, s)
mcIsInGroup(p) == B!G1!InCorrectSubgroup(p) /\ B!G1!IsOnCurve(p)
mcOnTwistMap(n) == LET p == B!swuMapG2(<<n, 7206 - n>>)
                   IN  B!fp2Square(p[2]) = B!fp2Add(B!fp2Mul(B!fp2Add(B!fp2Square(p[1]), <<0, 240>>), p[1]), <<1012, 1012>>)

-----------------------------------------------------------------------------
VARIABLES unit, x1, x2, x3, x4, x5, x6, x7, x8, x9, x10, x11, x12, x13

lent == <<x1, x2, x3, x4, x5, x6, x7, x8, x9, x10, x11, x12, x13>>
mcvars == <<unit, lib, walk, lent>>

(* Values that their parent embeds, and values as long as a hash.  Keys that *)
(* share no nibble, one, two, and one key that begins another.               *)
MCValueLen(v) == IF v = "a" THEN 1 ELSE 12

Tries == INSTANCE Trie WITH Keys <- {<<0>>, <<1>>, <<4>>, <<0, 1>>}, Values <- {"a", "b"},
       MaxSteps <- 2, MaxCommits <- 1, MayLose <- TRUE,
       root <- x1, tracer <- x2, committed <- x3, db <- x4, head <- x5, content <- x6,
       paths <- x7, nodes <- x8, lost <- x9, errors <- x10, steps <- x11, commits <- x12,
       OrderedKeys <- <<<<0, 0>>, <<0, 1>>, <<0, 5>>, <<1, 4>>, <<4, 4>>, <<4, 5>>, <<5, 0>>>>,
       StackValues <- {"a", "b"},
       st <- x1, emitted <- x2, next <- x3, inserted <- x4, result <- x5
Iter == INSTANCE TrieIterator WITH IterKeys <- {<<0>>, <<1>>, <<4>>, <<0, 1>>}, PairKeys <- {<<0>>, <<1>>, <<4>>},
       IterValues <- {"a", "b"}, Starts <- {<<>>, <<1>>, <<4>>, <<0, 0>>, <<2>>, <<9>>}, MayMiss <- TRUE,
       mode <- x1, left <- x2, right <- x3, order <- x4, ia <- x5, ib <- x6, eof <- x7, heap <- x8,
       missing <- x9, skipped <- x10, placed <- x11, seen <- x12, over <- x13
Proofs == INSTANCE TrieProof WITH ProofKeys <- {<<0>>, <<1>>, <<4>>, <<6>>},
       EdgeKeys <- {<<0>>, <<1>>, <<2>>, <<4>>, <<5>>, <<9>>}, ProofValues <- {"a", "b"},
       state <- x1, first <- x2, last <- x3, claim <- x4, proof <- x5, outcome <- x6

(* Two states that share an account, and two accounts that share a storage   *)
(* trie and a code.                                                          *)
MCHashes == {"R", "R2", "A", "B", "S", "T", "none"}
MCKids == [n \in MCHashes |-> CASE n = "R" -> {<<<<0>>, "A">>, <<<<1>>, "B">>}
                                [] n = "R2" -> {<<<<0>>, "A">>, <<<<2>>, "T">>}
                                [] OTHER -> {}]
MCAccounts == [n \in MCHashes |-> CASE n \in {"A", "B"} -> {[path |-> <<3>>, root |-> "S", code |-> "c"]}
                                    [] n = "T" -> {[path |-> <<3>>, root |-> "none", code |-> "d"]}
                                    [] OTHER -> {}]
Syncs == INSTANCE TrieSync WITH Roots <- {"R", "R2"}, Kids <- MCKids, Accounts <- MCAccounts,
       EmptyRoot <- "none", EmptyCode <- "nocode", maxFetchesPerDepth <- 1, MaxAsked <- {0, 1}, MaxCrashes <- 1,
       syncRoot <- x1, nodeReqs <- x2, codeReqs <- x3, queue <- x4, fetches <- x5, memNodes <- x6,
       memCodes <- x7, dbNodes <- x8, dbCodes <- x9, asked <- x10, crashes <- x11

rest6 == <<x7, x8, x9, x10, x11, x12, x13>>
idle6 == x7 = 0 /\ x8 = 0 /\ x9 = 0 /\ x10 = 0 /\ x11 = 0 /\ x12 = 0 /\ x13 = 0
MCInit ==
  \/ /\ unit = "crypto" /\ (StartWalk \/ StartField \/ StartWords \/ StartBytes \/ StartMap)
     /\ x1 = 0 /\ x2 = 0 /\ x3 = 0 /\ x4 = 0 /\ x5 = 0 /\ x6 = 0 /\ idle6
  \/ /\ lib = "none" /\ phase = "none" /\ idle /\ p1 = 0 /\ p2 = 0
     /\ \/ unit = "trie" /\ Tries!Init /\ x13 = 0
        \/ unit = "stack" /\ Tries!StackInit /\ x6 = 0 /\ idle6
        \/ unit = "iterator" /\ Iter!IterInit
        \/ unit = "proof" /\ Proofs!ProofInit /\ idle6
        \/ unit = "sync" /\ Syncs!SyncInit /\ x12 = 0 /\ x13 = 0

TrieNext ==
  \/ unit = "trie" /\ Tries!Next /\ UNCHANGED x13
  \/ unit = "stack" /\ Tries!StackNext /\ UNCHANGED <<x6, rest6>>
  \/ unit = "iterator" /\ Iter!IterNext
  \/ unit = "proof" /\ Proofs!ProofNext /\ UNCHANGED rest6
  \/ unit = "sync" /\ Syncs!SyncNext /\ UNCHANGED <<x12, x13>>

MCNext ==
  \/ unit = "crypto" /\ (StepWalk \/ StepField) /\ UNCHANGED <<unit, lib, lent>>
  \/ TrieNext /\ UNCHANGED <<unit, lib, walk>>

(* The fairness of TrieSync. *)
synced(A) == unit = "sync" /\ A /\ UNCHANGED <<unit, lib, walk, x12, x13>>
MCSpec == /\ MCInit /\ [][MCNext]_mcvars
          /\ WF_mcvars(synced(Syncs!AskNext))
          /\ WF_mcvars(synced(Syncs!DeliverNext))
          /\ WF_mcvars(synced(Syncs!CommitSync))

-----------------------------------------------------------------------------
(* Trie: of both tries, the root is that of the content whatever the history, *)
(* reads return the content, and no operation fails unless a node was lost.  *)
TriesSound == /\ unit = "trie" => Tries!TrieSound
              /\ unit = "stack" => Tries!StackSound

(* Trie: a commit writes and deletes exactly what has changed.               *)
NodeSetsExact == /\ [](unit = "trie" => Tries!StoredExactly)
                 /\ [][unit = "trie" => Tries!PreviousKept]_x8

(* CryptoWalk: the groups are the groups, the pairing is bilinear on points  *)
(* in form (all but those that cloudflare's G2.Neg makes of a point in       *)
(* affine form), and the points that decoding or mapping to the curve yields *)
(* are ones of the group.                                                    *)
CurvesSound == GroupsSound /\ PairingSound /\ DecodeSound

(* CryptoWalk: the towers of fields and the words below them calculate.      *)
NumbersSound == FieldSound /\ WordsSound

(* TrieIterator: the leaves from the start on, in order and each once,       *)
(* although nodes are missing for a while; difference and union of tries.    *)
(* TrieProof: what is accepted is true, what is true is accepted.            *)
TrieReadsSound == /\ unit = "iterator" => Iter!IteratorSound
                  /\ unit = "proof" => Proofs!ProofSound

(* TrieSync: a node is stored after all that is below it, and the requests   *)
(* and the fetches in flight are counted exactly; the synchronisation ends   *)
(* with the state in the database.                                           *)
SyncSound == /\ [](unit = "sync" => Syncs!SyncClosed /\ Syncs!FetchesCounted)
             /\ <>[](unit = "sync" => Syncs!finished /\ x1 \in x8)
=============================================================================
