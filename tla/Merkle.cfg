\* Matrices of 1 to 9 chunks, rows shorter, as long and longer than a chunk.
SPECIFICATION Spec
CONSTANTS
  ChunkLen = 2
  Shapes <- AllShapes
  Widths = {2, 3, 4}
INVARIANTS
  DeviceRootIsBlake3
  HostTreeAgrees
  ProofAccepted
  RangesRight
