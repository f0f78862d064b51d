\* shape_49k_m, with one chunk for 16384 rows of 2048.
SPECIFICATION Spec
CONSTANTS
  ChunkLen = 2
  Shapes <- TallShape
  Widths = {2}
INVARIANT ScratchFitsAll
