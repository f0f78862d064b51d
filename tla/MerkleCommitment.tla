-------------------------- MODULE MerkleCommitment --------------------------
(***************************************************************************)
(* The Merkle commitment of one matrix, from the kernel that hashes it to  *)
(* the proof of the rows of a hit.                                         *)
(*   - the device: TensorHash::launch (src/kernels/tensor_hash.rs) and     *)
(*     pearl_merkle_layer_kernel (csrc/extern_c_shims.inc), whose threads  *)
(*     run in any order between two launches, over two scratch buffers     *)
(*     used in turn;                                                       *)
(*   - the hit poller: MerkleTree::new, compute_leaf_indices_from_rows,    *)
(*     get_multileaf_proof (deps/pearl-blake3/src/merkle.rs);              *)
(*   - the verifier: MerkleProof::compute_root, extract_bytes and          *)
(*     compute_sibling_ranges of the same file.                            *)
(* A digest is the term of what was hashed, so two are equal only when the *)
(* same bytes were hashed in the same tree.  Indices count from 0, as in   *)
(* the code.                                                               *)
(***************************************************************************)
EXTENDS Naturals, Sequences, FiniteSets, SequencesExt, FiniteSetsExt, Powers

CONSTANTS
  ChunkLen, \* CHUNK_LEN
  Shapes,   \* the shapes of the miner: chunks of A, chunks of B
  Widths    \* common dimensions k

ASSUME MerkleCommitmentAssumption ==
  /\ ChunkLen \in Nat \ {0}
  /\ Shapes \subseteq [a : Nat \ {0}, b : Nat \ {0}]
  /\ Widths \subseteq Nat \ {0}

VARIABLES
  k,        \* the row length
  capacity, \* TensorHash.scratch_u32_capacity, in chunks per buffer
  leaves,   \* num_chunks of the matrix hashed
  pc,       \* which loop is running
  buf,      \* the scratch buffers
  inBuf,    \* the buffer the next launch reads
  size,     \* nodes of the layer in inBuf
  todo,     \* threads of the current launch that have not run
  devRoot,  \* what tensor_hash copies out
  layers,   \* MerkleTree.layers
  rows,     \* row indices of the hit
  index,    \* leaf_indices of the proof
  set,      \* current_set or the keys of current, in the loop that runs
  level, len, \* its level and level_len
  cv,       \* compute_root: the digest of each key of current
  siblings, \* MerkleProof.siblings
  used,     \* siblings consumed so far
  ranges,   \* compute_sibling_ranges: result
  verdict   \* compute_root: None, or the root recomputed

inputs  == <<k, capacity, leaves>>
device  == <<buf, inBuf, size, todo, devRoot>>
loop    == <<set, level, len, cv, used>>
proof   == <<rows, index, siblings>>
results == <<ranges, verdict>>
vars == <<inputs, pc, device, layers, loop, proof, results>>
-----------------------------------------------------------------------------
None == <<"none">>
Chunk(i) == <<"chunk", i>>
RootChunk == <<"root chunk">>
Parent(l, r) == <<"parent", l, r>>
Root(l, r) == <<"root", l, r>>

Half(n) == (n + 1) \div 2
Bytes == leaves * ChunkLen
Node == 0..(leaves - 1)
Ascending(S) ==
  [n \in 1..Cardinality(S) |-> CHOOSE x \in S : Cardinality({y \in S : y < x}) = n - 1]

(* TensorHash is created for n * k bytes, the size of B, and hashes A too. *)
ScratchFor(s) == s.b

Init ==
  /\ \E s \in Shapes : leaves \in {s.a, s.b} /\ capacity = ScratchFor(s)
  /\ k \in {w \in Widths : (leaves * ChunkLen) % w = 0}
  /\ pc = "launch"
  /\ buf = [b \in {"A", "B"} |-> [i \in Node |-> None]]
  /\ inBuf = "A" /\ size = leaves /\ todo = {} /\ devRoot = None
  /\ layers = <<>>
  /\ rows = {} /\ index = {} /\ siblings = <<>>
  /\ set = {} /\ level = 0 /\ len = 0 /\ cv = <<>> /\ used = 0
  /\ ranges = <<>> /\ verdict = None
-----------------------------------------------------------------------------
(* The assert on the scratch: the worker panics.                           *)
ScratchTooSmall ==
  /\ pc = "launch" /\ leaves > capacity
  /\ pc' = "panicked"
  /\ UNCHANGED <<inputs, device, layers, loop, proof, results>>

(* chunk_cv_kernel, with or without the ROOT flag.                         *)
HashChunks ==
  /\ pc = "launch" /\ leaves <= capacity
  /\ IF leaves = 1
     THEN devRoot' = RootChunk /\ pc' = "tree" /\ UNCHANGED buf
     ELSE /\ buf' = [buf EXCEPT !["A"] = [i \in Node |-> Chunk(i)]]
          /\ pc' = "layer"
          /\ UNCHANGED devRoot
  /\ UNCHANGED <<inputs, inBuf, size, todo, layers, loop, proof, results>>

OutBufInPlace == inBuf            \* mutant: the layer is written over its input
OutBuf == IF inBuf = "A" THEN "B" ELSE "A"

(* One launch per layer while size > 2, a thread per pair and one for the  *)
(* orphan.                                                                 *)
LaunchLayer ==
  /\ pc = "layer" /\ size > 2
  /\ todo' = 0..(Half(size) - 1)
  /\ pc' = "threads"
  /\ UNCHANGED <<inputs, buf, inBuf, size, devRoot, layers, loop, proof, results>>

LayerThread(t) ==
  LET in == buf[inBuf] IN
  /\ pc = "threads" /\ t \in todo
  /\ buf' = [buf EXCEPT ![OutBuf][t] =
               IF t < size \div 2 THEN Parent(in[2 * t], in[2 * t + 1])
                                  ELSE in[size - 1]]
  /\ todo' = todo \ {t}
  /\ UNCHANGED <<inputs, pc, inBuf, size, devRoot, layers, loop, proof, results>>

NextSize == (size \div 2) + (size % 2)
SwapBuffers ==
  /\ pc = "threads" /\ todo = {}
  /\ inBuf' = OutBuf
  /\ size' = NextSize
  /\ pc' = "layer"
  /\ UNCHANGED <<inputs, buf, todo, devRoot, layers, loop, proof, results>>

(* size = 2: the last pair gets the ROOT flag; 32 bytes are copied out.    *)
LaunchTop ==
  /\ pc = "layer" /\ size = 2
  /\ devRoot' = Root(buf[inBuf][0], buf[inBuf][1])
  /\ pc' = "tree"
  /\ UNCHANGED <<inputs, buf, inBuf, size, todo, layers, loop, proof, results>>
-----------------------------------------------------------------------------
(* MerkleTree::new over the snapshot: the leaves, then a layer at a time.  *)
CombineDuplicating(l) ==          \* mutant: an odd node is paired with itself
  LET n == Cardinality(DOMAIN l) IN
  [i \in 0..(Half(n) - 1) |->
     Parent(l[2 * i], IF 2 * i + 1 < n THEN l[2 * i + 1] ELSE l[2 * i])]
Combine(l) ==
  LET n == Cardinality(DOMAIN l) IN
  [i \in 0..(Half(n) - 1) |->
     IF 2 * i + 1 < n THEN Parent(l[2 * i], l[2 * i + 1]) ELSE l[2 * i]]

LeafLayer == [i \in Node |-> IF leaves = 1 THEN RootChunk ELSE Chunk(i)]

BuildTree ==
  /\ pc = "tree"
  /\ LET top == Last(layers)
         n == Cardinality(DOMAIN top) IN
     \/ /\ layers = <<>>
        /\ layers' = <<LeafLayer>>
        /\ pc' = "tree"
     \/ /\ layers # <<>> /\ n > 2
        /\ layers' = Append(layers, Combine(top))
        /\ pc' = "tree"
     \/ /\ layers # <<>> /\ n = 2
        /\ layers' = Append(layers, [i \in {0} |-> Root(top[0], top[1])])
        /\ pc' = "tree"
     \/ /\ layers # <<>> /\ n = 1
        /\ pc' = "hit" /\ UNCHANGED layers
  /\ UNCHANGED <<inputs, device, loop, proof, results>>

(* compute_leaf_indices_from_rows.                                         *)
LeavesOfRow(r) == ((r * k) \div ChunkLen) .. (((r + 1) * k - 1) \div ChunkLen)

(* A hit names some rows; the loop of get_multileaf_proof starts.          *)
StartProof(R) ==
  /\ pc = "hit"
  /\ rows' = R
  /\ index' = UNION {LeavesOfRow(r) : r \in R}
  /\ set' = index' /\ level' = 0 /\ len' = leaves
  /\ pc' = "prove"
  /\ UNCHANGED <<inputs, device, layers, cv, used, siblings, results>>

(* The nodes of a level whose sibling is not itself in the level's set, in *)
(* the ascending order of the BTreeSet, and the siblings.                  *)
Sibling(i) == IF i % 2 = 1 THEN i - 1 ELSE i + 1
Lonely(i) == Sibling(i) \notin set /\ Sibling(i) < len
Lone == Ascending({i \in set : Lonely(i)})
ProverOrderReversed == Reverse(Lone)   \* mutant: siblings from the right
ProverOrder == Lone

ProveLevel ==
  /\ pc = "prove"
  /\ IF len > 1
     THEN /\ siblings' = siblings \o
               [n \in DOMAIN ProverOrder |->
                  layers[level + 1][Sibling(ProverOrder[n])]]
          /\ set' = {i \div 2 : i \in set}
          /\ len' = Half(len) /\ level' = level + 1
          /\ UNCHANGED <<pc, cv>>
     ELSE /\ pc' = "verify"
          /\ set' = index /\ len' = leaves /\ level' = 0
          /\ cv' = [i \in index |-> Chunk(i)]
          /\ UNCHANGED siblings
  /\ UNCHANGED <<inputs, device, layers, used, rows, index, results>>
-----------------------------------------------------------------------------
(* compute_root starts from the chunk values of the leaves (chunk_cv never *)
(* sets ROOT).  The digest of a node is that of current or a sibling taken *)
(* from the iterator, in order.                                            *)
Taken(i) == siblings[used + CHOOSE n \in DOMAIN Lone : Sibling(Lone[n]) = i]
Digest(i) == IF i \in set THEN cv[i] ELSE Taken(i)
Enough == used + Len(Lone) <= Len(siblings)

VerifyLevel ==
  /\ pc = "verify" /\ len > 2 /\ Enough
  /\ LET up == {i \div 2 : i \in set} IN
     /\ cv' = [p \in up |-> IF 2 * p + 1 < len
                            THEN Parent(Digest(2 * p), Digest(2 * p + 1))
                            ELSE Digest(2 * p)]
     /\ set' = up
  /\ len' = Half(len)
  /\ used' = used + Len(Lone)
  /\ UNCHANGED <<inputs, pc, device, layers, level, proof, results>>

(* None when a sibling is missing or one is left over.                     *)
VerifyTop ==
  /\ pc = "verify" /\ (len <= 2 \/ ~Enough)
  /\ verdict' = CASE used + Len(Lone) # Len(siblings) -> None
                  [] len = 1 -> cv[0]
                  [] OTHER -> Root(Digest(0), Digest(1))
  /\ set' = index /\ len' = leaves /\ level' = 0 /\ used' = 0
  /\ pc' = "ranges"
  /\ UNCHANGED <<inputs, device, layers, cv, proof, ranges>>

(* compute_sibling_ranges: the bytes below each sibling, a level at a time. *)
RangeEndUncut(i, chunk) == (i + 1) * chunk      \* mutant: not cut at the end
RangeEnd(i, chunk) == Min({(i + 1) * chunk, Bytes})
RangeLevel ==
  LET chunk == ChunkLen * Pow2[level]
      lone == SubSeq(Lone, 1, Min({Len(Lone), Len(siblings) - used})) IN
  /\ pc = "ranges"
  /\ IF len > 1 /\ used < Len(siblings)
     THEN /\ ranges' = ranges \o
               [n \in DOMAIN lone |->
                  [start |-> Sibling(lone[n]) * chunk,
                   end |-> RangeEnd(Sibling(lone[n]), chunk),
                   cv |-> siblings[used + n]]]
          /\ used' = used + Len(lone)
          /\ set' = {i \div 2 : i \in set}
          /\ len' = Half(len) /\ level' = level + 1
          /\ UNCHANGED pc
     ELSE pc' = "done" /\ UNCHANGED <<ranges, set, len, level, used>>
  /\ UNCHANGED <<inputs, device, layers, cv, proof, verdict>>

Finished == pc \in {"done", "panicked"} /\ UNCHANGED vars
-----------------------------------------------------------------------------
Next ==
  \/ ScratchTooSmall \/ HashChunks \/ LaunchLayer
  \/ \E t \in todo : LayerThread(t)
  \/ SwapBuffers \/ LaunchTop \/ BuildTree
  \/ \E R \in SUBSET (0..(Bytes \div k - 1)) : R # {} /\ StartProof(R)
  \/ ProveLevel \/ VerifyLevel \/ VerifyTop \/ RangeLevel
  \/ Finished

Spec == Init /\ [][Next]_vars
-----------------------------------------------------------------------------
(* BLAKE3: the subtree over the n chunks from chunk lo on has on its left the  *)
(* largest power of two below n; the last node of the whole carries ROOT.  *)
LeftSize(n) == CHOOSE p \in {Pow2[e] : e \in 0..n} : p < n /\ n <= 2 * p
Subtree[n \in Nat \ {0}] ==
  [lo \in Nat |->
     IF n = 1 THEN Chunk(lo)
     ELSE Parent(Subtree[LeftSize(n)][lo], Subtree[n - LeftSize(n)][lo + LeftSize(n)])]
Blake3Root ==
  IF leaves = 1 THEN RootChunk
  ELSE Root(Subtree[LeftSize(leaves)][0],
            Subtree[leaves - LeftSize(leaves)][LeftSize(leaves)])

(* Whatever order the threads of a layer run in, tensor_hash leaves the    *)
(* BLAKE3 root of the matrix.                                              *)
DeviceRootIsBlake3 == devRoot # None => devRoot = Blake3Root

(* The tree the host builds over the snapshot has the root the device      *)
(* committed to: the layers with carried orphans are BLAKE3's tree.        *)
HostTreeAgrees == pc \notin {"launch", "layer", "threads", "tree", "panicked"} =>
                    Last(layers)[0] = devRoot

(* The proof of any rows of a matrix of several chunks holds every byte of *)
(* the rows, is accepted with every sibling used, and recomputes the root.  *)
Verified == pc \in {"ranges", "done"}
ProofAccepted ==
  (Verified /\ leaves > 1) =>
    /\ verdict = Blake3Root
    /\ \A r \in rows : \A b \in (r * k)..((r + 1) * k - 1) : b \div ChunkLen \in index

(* Each sibling is labelled with the bytes that were hashed into it, and   *)
(* with the leaves these ranges make up the matrix, each byte once.        *)
Covers(n, c) == ranges[n].start <= c * ChunkLen /\ c * ChunkLen < ranges[n].end
RangesRight ==
  pc = "done" =>
    /\ \A n \in DOMAIN ranges :
         ranges[n].cv = Subtree[(ranges[n].end - ranges[n].start) \div ChunkLen]
                               [ranges[n].start \div ChunkLen]
    /\ \A c \in index, n \in DOMAIN ranges : ~Covers(n, c)
    /\ \A c \in Node \ index :
         \E n \in DOMAIN ranges : \A m \in DOMAIN ranges : Covers(m, c) <=> m = n

(* miner_bufs.rs: "size scratch for largest input (B)": the scratch fits   *)
(* every matrix that is hashed.                                            *)
ScratchFitsAll == pc # "panicked"
=============================================================================
