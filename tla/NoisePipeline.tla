--------------------------- MODULE NoisePipeline ---------------------------
(***************************************************************************)
(* What one iteration computes on the device: A is filled, hashed and      *)
(* committed to, noise is drawn from the commitments, A and B are noised,  *)
(* and every candidate is hashed -- against what the verifier recomputes   *)
(* from the proof (src/deps/zk-pow).  The kernels of a stream run one      *)
(* after the other, the threads or blocks of one kernel in any order, over *)
(* buffers that every iteration and every job uses again.                  *)
(*                                                                         *)
(* A matrix is stored row by row, as in the code; sizes are scaled down,   *)
(* and a hash is HashWords words of WordBytes bytes.                       *)
(***************************************************************************)
EXTENDS Integers, Sequences, FiniteSets, Functions, Powers

CONSTANTS
  Paths,                \* the MiningPaths
  Rows,                 \* m and n: rows of "A" and of "B" (B is kept transposed)
  Depth,                \* k, for each path
  R,                    \* noise rank
  HashWords, WordBytes, \* BLAKE3's 8 and 4
  JackpotSize,          \* words of a transcript: 16
  AccBits, Lrot,        \* width of an accumulator and LROT_PER_TILE: 32 and 13
  BlockX,               \* threads of a block: 128
  NoisingTile,          \* <<rows, columns>> a block of the noising covers
  TransposeTile,        \* width of a block of the transpose: 16
  Candidates,           \* <<rows of A, rows of B>> of each candidate of a path
  MaxIters, Jobs,       \* bounds: iterations, and the jobs there may be
  Salts,                \* one hash function for each of them
  BitXor(_, _),            \* ^ of the code
  Digest(_, _, _),      \* keyed BLAKE3 of one block: salt, key, message
  Blake3(_, _, _),      \* BLAKE3 of two digests
  Root(_, _, _)         \* Merkle root: salt, key, matrix

Side == {"A", "B"}
HashBytes == HashWords * WordBytes
Int8 == (-128)..127

ASSUME NoisePipelineAssumption ==
  /\ Paths \subseteq {"CppSearch", "TritonNorotl"}
  /\ \A s \in Side : Rows[s] \in Nat \ {0}
  /\ {R, HashWords, WordBytes, JackpotSize, TransposeTile, BlockX, MaxIters} \subseteq Nat \ {0}
  /\ R > 1 /\ R % HashBytes = 0
  /\ \A p \in Paths :
       /\ Depth[p] \in Nat /\ Depth[p] % R = 0
       /\ NoisingTile[p] \in (Nat \ {0}) \X (Nat \ {0})
       /\ Candidates[p] \subseteq (SUBSET (0..(Rows["A"] - 1))) \X (SUBSET (0..(Rows["B"] - 1)))
  /\ Lrot \in Nat /\ AccBits \in Nat /\ Lrot <= AccBits
  /\ 0 \notin Jobs
  /\ "CppSearch" \in Paths =>
       LET t == NoisingTile["CppSearch"]
       IN  Depth["CppSearch"] % t[2] = 0 /\ \A s \in Side : Rows[s] % t[1] = 0
  /\ "TritonNorotl" \in Paths => Depth["TritonNorotl"] = R * JackpotSize

(* The rank is a power of two (sanity_checks.rs): a column below it, xored *)
(* with a number below it that is not 0, is another column below it.       *)
ASSUME XorAssumption ==
  \A x \in 0..(R - 1), d \in 1..(R - 1) : BitXor(x, d) \in (0..(R - 1)) \ {x}

VARIABLES
  path, salt,
  job,       \* the job loaded, its key on the device
  iter,      \* iterations enqueued; iter_idx is one less
  stream,    \* kernels enqueued and not ended, in order
  todo,      \* work of the first of them that has not run
  matrix,    \* a_pool[slot] and b
  root,      \* a_tensor_hash_pool[slot] and b_tensor_hash
  commit,    \* commit_a_pool[slot] and commit_b_pool[slot]
  dense,     \* eal and ebr
  fp16,      \* eal_fp16 and ebr_fp16
  sparse,    \* ear_r_major and ebl_r_major
  kmajor,    \* ear_k_major and ebl_k_major
  noised,    \* ap_ea and bp_eb
  transcript,\* Triton: transcripts
  hashed     \* pow_workspace_hash: the key and the block each candidate hashes

vars == <<path, salt, job, iter, stream, todo, matrix, root, commit, dense,
          fp16, sparse, kmajor, noised, transcript, hashed>>

K == Depth[path]
Zeros(n) == [i \in 0..(n - 1) |-> 0]
Ceil(a, b) == (a + b - 1) \div b
Below(n) == 0..(n - 1)
-----------------------------------------------------------------------------
(* The kernels, in the order of ensure_for_job and of random_fill_a and    *)
(* mine_one_post_random.                                                   *)
JobKernels == << <<"fill", "B">>, <<"hash", "B">> >>
NoiseKernels ==
  << <<"fill", "A">>, <<"hash", "A">>, <<"commit", "A">>,
     <<"dense", "A">>, <<"dense", "B">>, <<"fp16", "A">>, <<"fp16", "B">>,
     <<"zero", "A">>, <<"zero", "B">>, <<"sparse", "A">>, <<"sparse", "B">>,
     <<"transpose", "A">>, <<"transpose", "B">>, <<"noising", "A">>, <<"noising", "B">> >>
SearchKernels ==
  IF path = "CppSearch" THEN << <<"search", "A">> >>
  ELSE << <<"blank", "A">>, <<"search", "A">>, <<"compare", "A">> >>
IterKernels == NoiseKernels \o SearchKernels

(* What a launch divides into: threads with a chunk to do, or blocks.      *)
Grid(n) == Ceil(n, BlockX)
Threads(n) == {t \in Below(Grid(n) * BlockX) : t < n}
Chunks(n) == Threads(n \div HashBytes)
Blocks(n, t) == Below(IF path = "CppSearch" THEN n \div t ELSE Ceil(n, t))
Tiles(s) ==
  LET t == NoisingTile[path]
  IN  Blocks(Rows[s], t[1]) \X Blocks(K, t[2])
Work(k) ==
  CASE k[1] = "fill" -> Chunks(Rows[k[2]] * K)
    [] k[1] \in {"dense", "fp16"} -> Chunks(Rows[k[2]] * R)
    [] k[1] = "sparse" -> Threads(Ceil(K, HashWords))
    [] k[1] = "transpose" ->
         Below(Ceil(K, TransposeTile)) \X Below(Ceil(R, TransposeTile))
    [] k[1] = "noising" -> Tiles(k[2])
    [] k[1] \in {"search", "compare"} -> Candidates[path]
    [] OTHER -> {0}

Running(kernel, s) == stream # <<>> /\ Head(stream) = <<kernel, s>>
Do(kernel, s, x) ==
  /\ Running(kernel, s) /\ x \in todo
  /\ todo' = todo \ {x}
  /\ UNCHANGED <<path, salt, job, iter, stream>>

Enqueue(kernels) == stream' = kernels /\ todo' = Work(Head(kernels))
(* A kernel starts when the one before it has ended.                       *)
NextKernel ==
  /\ stream # <<>> /\ todo = {}
  /\ stream' = Tail(stream)
  /\ todo' = IF stream' = <<>> THEN {} ELSE Work(Head(stream'))
  /\ UNCHANGED <<path, salt, job, iter, matrix, root, commit, dense, fp16, sparse,
                 kmajor, noised, transcript, hashed>>

Buffers == <<matrix, root, commit, dense, fp16, sparse, kmajor, noised, transcript, hashed>>
LoadJob ==
  /\ stream = <<>>
  /\ job' \in Jobs \ {job}
  /\ Enqueue(JobKernels)
  /\ UNCHANGED <<path, salt, iter, Buffers>>
Iterate ==
  /\ stream = <<>> /\ job \in Jobs
  /\ iter < MaxIters
  /\ iter' = iter + 1
  /\ Enqueue(IterKernels)
  /\ UNCHANGED <<path, salt, job, Buffers>>
-----------------------------------------------------------------------------
(* The kernels.                                                            *)
Sum(f, n) ==                    \* of f[0] to f[n - 1]
  LET s[i \in 0..n] == IF i = 0 THEN 0 ELSE s[i - 1] + f[i - 1]
  IN  s[n]
XorAll(f) == FoldFunction(BitXor, 0, f)
Overlay(f, g) == [i \in DOMAIN f |-> IF i \in DOMAIN g THEN g[i] ELSE f[i]]
ChunkCells(c) == (c * HashBytes)..(c * HashBytes + HashBytes - 1)

FillByte(b) == (b % 127) - 63
(* random_int8: chunk by chunk from the seed of the job, which is no label *)
(* of the noise, and from the iteration; B's is 0.                         *)
SessionSeed == 10 + job
Unkeyed == 0
FillMessage(s, c) == <<IF s = "A" THEN iter - 1 ELSE 0, c, SessionSeed>>
FillChunk(s, c) ==
  /\ Do("fill", s, c)
  /\ LET bytes == Digest(salt, Unkeyed, FillMessage(s, c))
     IN  matrix' = [matrix EXCEPT ![s] = Overlay(@,
           [i \in ChunkCells(c) |-> FillByte(bytes[i - c * HashBytes + 1])])]
  /\ UNCHANGED <<root, commit, dense, fp16, sparse, kmajor, noised, transcript, hashed>>

HashMatrix(s) ==
  /\ Do("hash", s, 0)
  /\ root' = [root EXCEPT ![s] = Root(salt, job, matrix[s])]
  /\ UNCHANGED <<matrix, commit, dense, fp16, sparse, kmajor, noised, transcript, hashed>>

Commit ==
  /\ Do("commit", "A", 0)
  /\ LET b == Blake3(salt, job, root["B"])
     IN  commit' = [A |-> Blake3(salt, b, root["A"]), B |-> b]
  /\ UNCHANGED <<matrix, root, dense, fp16, sparse, kmajor, noised, transcript, hashed>>

(* A-side noise is keyed with commit_a and labelled "A_tensor", B-side     *)
(* with commit_b and "B_tensor"; slot 0 or 1 of the block holds chunk + 1. *)
Label(s) == IF s = "A" THEN 1 ELSE 2
Signed(b) == IF b < 128 THEN b ELSE b - 256
DenseByte(b) == ((Signed(b) + 128) % 64) - 32
Bytes(s, slot, c) == Digest(salt, commit[s], <<slot, c + 1, Label(s)>>)
DenseCells(s, c) ==
  [i \in ChunkCells(c) |-> DenseByte(Bytes(s, 0, c)[i - c * HashBytes + 1])]
DenseChunk(s, c) ==
  /\ Do("dense", s, c)
  /\ dense' = [dense EXCEPT ![s] = Overlay(@, DenseCells(s, c))]
  /\ UNCHANGED <<matrix, root, commit, fp16, sparse, kmajor, noised, transcript, hashed>>
(* The same in half precision, at scale 1: small integers, exact.          *)
Fp16Chunk(s, c) ==
  /\ Do("fp16", s, c)
  /\ fp16' = [fp16 EXCEPT ![s] = Overlay(@, DenseCells(s, c))]
  /\ UNCHANGED <<matrix, root, commit, dense, sparse, kmajor, noised, transcript, hashed>>

ClearedNot(f) == f              \* mutant: no memset
Cleared(f) == [i \in DOMAIN f |-> 0]
Zero(s) ==
  /\ Do("zero", s, 0)
  /\ sparse' = [sparse EXCEPT ![s] = Cleared(@)]
  /\ UNCHANGED <<matrix, root, commit, dense, fp16, kmajor, noised, transcript, hashed>>

(* One row of the sparse matrix for each word of a hash: +1 in column k0,  *)
(* then -1 in column k1.                                                   *)
WordRange == Pow2[8 * WordBytes]
Word(bytes, j) ==
  Sum([b \in Below(WordBytes) |-> bytes[j * WordBytes + b + 1] * Pow2[8 * b]], WordBytes)
MulHi(a, u) == (a * u) \div WordRange
K0(u) == u % R
K1MaybeSame(u) == BitXor(K0(u), MulHi(R - 1, u)) % R     \* mutant: no 1 +
K1(u) == BitXor(K0(u), 1 + MulHi(R - 1, u)) % R
RowsOfChunk(c) == {l \in (c * HashWords)..(c * HashWords + HashWords - 1) : l < K}
SparseChunk(s, c) ==
  /\ Do("sparse", s, c)
  /\ LET u(l) == Word(Bytes(s, 1, c), l - c * HashWords)
     IN  sparse' = [sparse EXCEPT ![s] =
           [i \in DOMAIN @ |->
              LET l == i \div R
              IN  IF l \notin RowsOfChunk(c) THEN @[i]
                  ELSE IF i % R = K1(u(l)) THEN -1
                  ELSE IF i % R = K0(u(l)) THEN 1
                  ELSE @[i]]]
  /\ UNCHANGED <<matrix, root, commit, dense, fp16, kmajor, noised, transcript, hashed>>

TransposeBlock(s, x) ==
  /\ Do("transpose", s, x)
  /\ kmajor' = [kmajor EXCEPT ![s] =
       [i \in DOMAIN @ |->
          LET r == i \div K   l == i % K
          IN  IF <<l \div TransposeTile, r \div TransposeTile>> = x
              THEN sparse[s][l * R + r] ELSE @[i]]]
  /\ UNCHANGED <<matrix, root, commit, dense, fp16, sparse, noised, transcript, hashed>>

(* Out = wrap_int8(X + Y Z^T), a tile to a block.                          *)
Wrap8(x) == ((x + 128) % 256) - 128
Dot(y, i, z, l) == Sum([r \in Below(R) |-> y[i * R + r] * z[l * R + r]], R)
NoisingBlock(s, x) ==
  /\ Do("noising", s, x)
  /\ LET t == NoisingTile[path]
     IN  noised' = [noised EXCEPT ![s] =
           [c \in DOMAIN @ |->
              LET i == c \div K   l == c % K
              IN  IF <<i \div t[1], l \div t[2]>> = x
                  THEN Wrap8(matrix[s][c] + Dot(dense[s], i, sparse[s], l))
                  ELSE @[c]]]
  /\ UNCHANGED <<matrix, root, commit, dense, fp16, sparse, kmajor, transcript, hashed>>
-----------------------------------------------------------------------------
(* The search.  After every R columns the accumulators of a candidate are  *)
(* xored into the next word of its transcript.  The C++ search rotates     *)
(* what the word held; the Triton search does not.                         *)
AccRange == Pow2[AccBits]
Rotl(x, by) == ((x * Pow2[by]) % AccRange) + x \div Pow2[AccBits - by]
RotatedNot(w) == w              \* mutant: the C++ search does not rotate
Rotated(w) == IF path = "CppSearch" THEN Rotl(w, Lrot) ELSE w
Accumulator(i, j, upTo) ==
  Sum([l \in Below(upTo) |-> noised["A"][i * K + l] * noised["B"][j * K + l]], upTo) % AccRange
XorTile(c, upTo) == XorAll([ij \in c[1] \X c[2] |-> Accumulator(ij[1], ij[2], upTo)])
TileSlots(w) == {t \in 1..(K \div R) : (t - 1) % JackpotSize = w}
(* Tile after tile; a word starts at zero.                                 *)
SearchWord(c, w) ==
  LET f[t \in 0..(K \div R)] ==
        IF t = 0 THEN 0
        ELSE IF t \in TileSlots(w) THEN BitXor(Rotated(f[t - 1]), XorTile(c, t * R))
        ELSE f[t - 1]
  IN  f[K \div R]
SearchTranscript(c) == [w \in Below(JackpotSize) |-> SearchWord(c, w)]
(* The Triton search stores the word of a tile when the tile is done; a    *)
(* word without a tile keeps what the buffer held.                         *)
Stored(c) ==
  [w \in Below(JackpotSize) |->
     IF TileSlots(w) = {} THEN transcript[c][w] ELSE SearchWord(c, w)]

(* pow_key is the commitment to A.                                         *)
PowKey == commit["A"]
SearchCandidate(c) ==
  /\ Do("search", "A", c)
  /\ IF path = "CppSearch"
     THEN /\ hashed' = [hashed EXCEPT ![c] = <<PowKey, SearchTranscript(c)>>]
          /\ UNCHANGED transcript
     ELSE /\ transcript' = [transcript EXCEPT ![c] = Stored(c)]
          /\ UNCHANGED hashed
  /\ UNCHANGED <<matrix, root, commit, dense, fp16, sparse, kmajor, noised>>
NoTranscript == [w \in Below(JackpotSize) |-> 0]
Blank ==
  /\ Do("blank", "A", 0)
  /\ transcript' = [c \in DOMAIN transcript |-> NoTranscript]
  /\ UNCHANGED <<matrix, root, commit, dense, fp16, sparse, kmajor, noised, hashed>>
CompareCandidate(c) ==
  /\ Do("compare", "A", c)
  /\ hashed' = [hashed EXCEPT ![c] = <<PowKey, transcript[c]>>]
  /\ UNCHANGED <<matrix, root, commit, dense, fp16, sparse, kmajor, noised, transcript>>
-----------------------------------------------------------------------------
NoHash == <<0, NoTranscript>>
Init ==
  /\ path \in Paths /\ salt \in Salts
  /\ job = 0 /\ iter = 0
  /\ stream = <<>> /\ todo = {}
  /\ matrix = [s \in Side |-> Zeros(Rows[s] * K)]
  /\ root = [s \in Side |-> 0] /\ commit = root
  /\ dense = [s \in Side |-> Zeros(Rows[s] * R)] /\ fp16 = dense
  /\ sparse = [s \in Side |-> Zeros(K * R)] /\ kmajor = sparse
  /\ noised = matrix
  /\ transcript = [c \in Candidates[path] |-> NoTranscript]
  /\ hashed = [c \in Candidates[path] |-> NoHash]

Next ==
  \/ LoadJob \/ Iterate \/ NextKernel
  \/ \E s \in Side :
       \/ \E x \in todo :
            \/ FillChunk(s, x) \/ DenseChunk(s, x) \/ Fp16Chunk(s, x)
            \/ SparseChunk(s, x) \/ TransposeBlock(s, x) \/ NoisingBlock(s, x)
       \/ HashMatrix(s) \/ Zero(s)
  \/ Commit \/ Blank
  \/ \E c \in todo : SearchCandidate(c) \/ CompareCandidate(c)

Spec == Init /\ [][Next]_vars
-----------------------------------------------------------------------------
(* The verifier, from a proof of this iteration's A and B: pearl_noise.rs  *)
(* and compute_jackpot.                                                    *)
BNoiseSeed == Blake3(salt, job, Root(salt, job, matrix["B"]))
ANoiseSeed == Blake3(salt, BNoiseSeed, Root(salt, job, matrix["A"]))
NoiseSeed(s) == IF s = "A" THEN ANoiseSeed ELSE BNoiseSeed
RandomHash(s, slot, index) == Digest(salt, NoiseSeed(s), <<slot, 1 + index, Label(s)>>)
Uniform(s) ==
  LET hash == [c \in Below((Rows[s] * R) \div HashBytes) |-> RandomHash(s, 0, c)]
  IN  [i \in Below(Rows[s]) |-> [j \in Below(R) |->
         LET idx == i * R + j
         IN  (hash[idx \div HashBytes][(idx % HashBytes) + 1] % 64) - 32]]
Permutation(s) ==
  LET hash == [c \in Below(Ceil(K, HashWords)) |-> RandomHash(s, 1, c)]
  IN  [l \in Below(K) |->
         LET u == Word(hash[l \div HashWords], l % HashWords)
         IN  <<u % R, BitXor(u % R, 1 + MulHi(R - 1, u))>>]
Noise(s) ==
  LET v == Uniform(s)   perm == Permutation(s)
  IN  [i \in Below(Rows[s]) |-> [l \in Below(K) |-> v[i][perm[l][1]] - v[i][perm[l][2]]]]
(* What a proof gives the verifier is taken as it is: i32, never wrapped.  *)
Strip(s) ==
  LET noise == Noise(s)
  IN  [i \in Below(Rows[s]) |-> [l \in Below(K) |-> matrix[s][i * K + l] + noise[i][l]]]
Jackpot(c) ==
  LET a == Strip("A")
      b == Strip("B")
      Cell(ij, upTo) ==
        Sum([l \in Below(upTo) |-> a[ij[1]][l] * b[ij[2]][l]], upTo) % AccRange
      Tile(upTo) == XorAll([ij \in c[1] \X c[2] |-> Cell(ij, upTo)])
      msg[t \in 0..(K \div R)] ==
        IF t = 0 THEN NoTranscript
        ELSE [msg[t - 1] EXCEPT ![(t - 1) % JackpotSize] = BitXor(Rotl(@, Lrot), Tile(t * R))]
  IN  msg[K \div R]
-----------------------------------------------------------------------------
(* Once drawn, every row of a sparse factor has one +1 and one -1, whatever *)
(* the buffer held before and whatever the hash, and the factors in the     *)
(* other layouts (half precision, K-major) are the same ones.               *)
Drawn == stream # <<>> /\ Head(stream)[1] \in {"noising", "blank", "search", "compare"}
FactorsDrawn ==
  Drawn => \A s \in Side :
    /\ fp16[s] = dense[s]
    /\ \A l \in Below(K) :
         /\ \A v \in {1, -1} :
              Cardinality({r \in Below(R) : sparse[s][l * R + r] = v}) = 1
         /\ \A r \in Below(R) : kmajor[s][r * K + l] = sparse[s][l * R + r]

(* The operands of the search are the matrices of this job and iteration   *)
(* plus the verifier's noise: nothing wraps in int8, and no entry is one   *)
(* the verifier's range check refuses.                                     *)
Searching == stream # <<>> /\ Head(stream)[1] \in {"blank", "search", "compare"}
OperandsAreTheVerifiers ==
  Searching /\ todo = Work(Head(stream)) => \A s \in Side :
    LET strip == Strip(s)
    IN  \A i \in Below(Rows[s]), l \in Below(K) :
          /\ noised[s][i * K + l] = strip[i][l]
          /\ matrix[s][i * K + l] \in -64..64

(* What every candidate was hashed from, key and block, is what the        *)
(* verifier hashes for the same rows and columns.                          *)
Ended == stream = << IterKernels[Len(IterKernels)] >> /\ todo = {}
JackpotsAreTheVerifiers ==
  Ended => \A c \in Candidates[path] : hashed[c] = <<ANoiseSeed, Jackpot(c)>>
=============================================================================
