\* 2 x 3 tiles: 1536 candidates of the C++ search, 384 of the Triton search.
SPECIFICATION Spec
CONSTANTS
  Paths = {"CppSearch", "TritonNorotl"}
  NumTileM = 2
  NumTileN = 3
  Sentinel = 100000
  Outcomes <- AnyOutcome
INVARIANTS
  TypeOK
  LeastHitFound
  NoTornHeader
  ReportedCells
  VerifierFindsPattern
