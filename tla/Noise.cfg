\* Two jobs, two iterations; six hash functions.
SPECIFICATION Spec
CONSTANTS
  Paths = {"CppSearch", "TritonNorotl"}
  Rows <- ShapeRows
  Depth <- ShapeDepth
  R = 4
  HashWords = 4
  WordBytes = 1
  JackpotSize = 2
  AccBits = 20
  Lrot = 5
  BlockX = 3
  NoisingTile <- TileOf
  TransposeTile = 4
  Candidates <- CandidatesOf
  MaxIters = 2
  Jobs = {1, 2}
  Salts = {1, 2, 3, 4, 5, 6}
  BitXor <- MCXor
  Digest <- MCDigest
  Blake3 <- MCBlake3
  Root <- MCRoot
CHECK_DEADLOCK FALSE
INVARIANTS
  FactorsDrawn
  OperandsAreTheVerifiers
  JackpotsAreTheVerifiers
