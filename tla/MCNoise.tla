------------------------------ MODULE MCNoise ------------------------------
(* Two rows of A, two of B.  The C++ search has four tiles of R columns    *)
(* and two words of transcript, so that each word is rotated; the Triton   *)
(* search two.  Hash functions are numbers that depend on every argument.  *)
EXTENDS NoisePipeline, FiniteSetsExt, Bitwise
ShapeRows == [A |-> 2, B |-> 2]
ShapeDepth == [CppSearch |-> 16, TritonNorotl |-> 8]
TileOf == [CppSearch |-> <<2, 8>>, TritonNorotl |-> <<2, 4>>]
CandidatesOf ==
  [CppSearch |-> {<<{0, 1}, {0}>>, <<{0, 1}, {1}>>},
   TritonNorotl |-> {<<{0, 1}, {0, 1}>>}]
Mix(message) == message[1] * 61 + message[2] * 83 + message[3] * 157
MCDigest(s, key, message) ==
  [i \in 1..HashBytes |->
     ((s + 3) * (key * 5 + Mix(message) + i * 97)
        + (Mix(message) + key) * i * (message[2] + 11 * s)) % 256]
MCXor(x, y) == x ^^ y
MCBlake3(s, x, y) == (x * 173 + y * 31 + s + 7) % 65521
MCRoot(s, key, f) ==
  FoldSet(LAMBDA i, acc : (acc + (f[i] + 64) * (i * i + 3 * i + 1)) % 65521, key * 101 + s, DOMAIN f)
=============================================================================
