SPECIFICATION MCSpec
CONSTANTS
  Libs = {"google", "cloudflare", "bls"}
  BnScalars = {0, 5, 61, 96}
  BlsScalars = {0, 7, 600}
  MaxOps = 1
  OrderOf <- mcOrder
  Scalars <- mcScalars
  gen1 <- mcGen1
  gen2 <- mcGen2
  add1 <- mcAdd1
  add2 <- mcAdd2
  neg1 <- mcNeg1
  neg2 <- mcNeg2
  scale1 <- mcMul1
  scale2 <- mcMul2
  exchange1 <- mcExchange1
  exchange2 <- mcExchange2
  exchangeT <- mcExchangeT
  affine1 <- mcAffine1
  affine2 <- mcAffine2
  inForm2 <- mcInForm2
  noPairs <- mcNoPairs
  absorb <- mcAbsorb
  finishPairing <- mcFinish
  gtMul <- mcGtMul
  gtInv <- mcGtInv
  gtPow <- mcGtPow
  poly <- mcPoly
  table1 <- mcTable1
  table2 <- mcTable2
  tableT <- mcTableT
  FieldStarts <- mcStarts
  fieldSquare <- mcSquare
  invert <- mcInvert
  conjugate <- mcConjugate
  Powers <- mcPowers
  fieldFrobenius <- mcFrobenius
  fieldCombine <- mcCombine
  polyCombine <- mcPolyCombine
  wordRoundTrip <- mcWordRoundTrip
  wordSquare <- mcWordSquare
  wordSquareDrops <- mcSquareDrops
  same <- mcSame
  polyTimes <- mcPolyMul
  polyFrobenius <- mcPolyFrobenius
  polyUnit <- mcPolyOne
  wordsModulus <- mcWordsModulus
  wordsRadix <- mcWordsRadix
  Residues <- mcResidues
  wordsOf <- mcWordsOf
  residueOf <- mcValueOf
  wordAdd <- mcWordAdd
  wordSub <- mcWordSub
  wordNeg <- mcWordNeg
  wordMul <- mcWordMul
  inverts <- mcInverts
  wordInverse <- mcWordInverse
  ByteInputs <- mcByteInputs
  decodes <- mcDecodes
  decoded <- mcDecoded
  encoded <- mcEncoded
  onCurve <- mcOnCurve
  mapped <- mcMapped
  opposite <- mcOpposite
  negated <- mcNegated
  isInGroup <- mcIsInGroup
  onTwistMap <- mcOnTwistMap
  WordLibs = {"gfp", "fp"}
  MapInputs = {0, 1, 2, 3, 4, 5, 6, 7, 8, 9, 10, 3603, 7206}
  MaxSteps = 1
  Radix = 4
  HashLen = 12
  ValueLen <- MCValueLen
INVARIANTS CurvesSound NumbersSound TriesSound TrieReadsSound
PROPERTIES NodeSetsExact SyncSound
CHECK_DEADLOCK FALSE
