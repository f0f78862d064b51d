----------------------------- MODULE HitReport -----------------------------
(***************************************************************************)
(* From the hash of a candidate to the indices of a proof: the search (or  *)
(* Triton's transcript postpass), the scan of its hit flags, the emit      *)
(* kernel that writes the pinned status header, and the host that reads    *)
(* the header and extracts the winning rows and columns.  One slot of the  *)
(* ring, iteration after iteration; workspaces keep what the iteration     *)
(* before left in them.  A candidate is a tile and a thread (Triton: a     *)
(* pair of rows) of it.                                                    *)
(***************************************************************************)
EXTENDS MiningPattern

CONSTANTS
  Paths,       \* the MiningPaths
  NumTileM,    \* m / TILE_M
  NumTileN,    \* n / TILE_N
  Sentinel,    \* UINT32_MAX: no hit
  Outcomes     \* the candidates that may meet the target in one iteration

TileSize == 128           \* TILE_M, TILE_N, and Triton's BLOCK_M, BLOCK_N
ThreadsPerTile == 256     \* the C++ search
HashCandidates == 64      \* the Triton search
BlockX == 256             \* threads of a block of the scan and the compare

PerTile(p) == IF p = "CppSearch" THEN ThreadsPerTile ELSE HashCandidates
NumTiles == NumTileM * NumTileN
Total(p) == NumTiles * PerTile(p)
Candidate(p) == (0..(NumTileM - 1)) \X (0..(NumTileN - 1)) \X (0..(PerTile(p) - 1))

ASSUME HitReportAssumption ==
  /\ NumTileM \in Nat \ {0} /\ NumTileN \in Nat \ {0}
  /\ Paths \subseteq {"CppSearch", "TritonNorotl"}
  /\ Sentinel \in Nat /\ \A p \in Paths : Total(p) <= Sentinel
  /\ \A p \in Paths : Outcomes[p] \subseteq SUBSET Candidate(p)

VARIABLES
  path,     \* MinerBufsConfig.path
  stage,    \* where the stream, then the host, is
  met,      \* history: the candidates of this iteration that meet the target
  flags,    \* device: pow_workspace_hit, the indices whose flag is set
  pending,  \* device: the scan threads that see a flag and have not run
  word,     \* device: pow_workspace_scan
  todo,     \* device: header fields the emit kernel has not written
  hdr,      \* pinned: host_signal_header_pool[slot]
  report    \* host: a_rows and b_cols of a hit

vars == <<path, stage, met, flags, pending, word, todo, hdr, report>>
-----------------------------------------------------------------------------
(* The header.  Fields the host does not use are one field, "rest".        *)
Field == {"coord", "regs", "rows", "cols", "tile", "rest"}
Zeroed == [status |-> 0, coord |-> <<0, 0>>, regs |-> 0, rows |-> <<>>,
           cols |-> <<>>, tile |-> <<0, 0>>, rest |-> FALSE]
NoReport == <<>>

Init ==
  /\ path \in Paths
  /\ stage = "read"
  /\ met = {} /\ flags = {} /\ pending = {} /\ todo = {}
  /\ word = 0
  /\ hdr = Zeroed
  /\ report = NoReport

To(from, to) == stage = from /\ stage' = to

(* zero_cpu of the slot's header; then the graph is launched.              *)
ZeroCpu == Zeroed
Launch ==
  /\ To("read", IF path = "CppSearch" THEN "zeroHits" ELSE "resetScan")
  /\ hdr' = ZeroCpu
  /\ report' = NoReport
  /\ UNCHANGED <<path, met, flags, pending, word, todo>>

(* C++ only: every flag is cleared before the search.                      *)
ZeroHits ==
  /\ To("zeroHits", "resetScan")
  /\ flags' = {}
  /\ UNCHANGED <<path, met, pending, word, todo, hdr, report>>

ResetScan ==
  /\ To("resetScan", "search")
  /\ word' = Sentinel
  /\ UNCHANGED <<path, met, flags, pending, todo, hdr, report>>
-----------------------------------------------------------------------------
(* Where the search puts the flag of a candidate: the tile it works on,    *)
(* row of tiles by row of tiles, then the thread.                          *)
IndexTransposed(p, c) ==      \* mutant: tiles numbered column by column
  (c[2] * NumTileM + c[1]) * PerTile(p) + c[3]
Index(p, c) == (c[1] * NumTileN + c[2]) * PerTile(p) + c[3]
Indices(p, C) == {Index(p, c) : c \in C}

(* One block of the grid per tile; every thread writes its flag.           *)
SearchGrid == (0..(NumTileM - 1)) \X (0..(NumTileN - 1))
SearchWrites ==
  {Index("CppSearch", <<b[1], b[2], t>>) : b \in SearchGrid, t \in 0..(ThreadsPerTile - 1)}

BlocksCovering(n) == (n + BlockX - 1) \div BlockX
(* The compare has a thread for every candidate, in whole blocks.          *)
CompareThreads == 0..(BlocksCovering(Total("TritonNorotl")) * BlockX - 1)
CompareWrites == {i \in CompareThreads : i < Total("TritonNorotl")}
Writes == IF path = "CppSearch" THEN SearchWrites ELSE CompareWrites

(* And so has the scan.                                                    *)
ScanThreads(p) == 0..(BlocksCovering(Total(p)) * BlockX - 1)
Scanned(p, i) == i \in ScanThreads(p) /\ i < Total(p)

Search ==
  /\ To("search", "scan")
  /\ \E found \in Outcomes[path] :
       /\ met' = found
       /\ flags' = Indices(path, found) \cup (flags \ Writes)
  /\ pending' = {i \in flags' : Scanned(path, i)}
  /\ UNCHANGED <<path, word, todo, hdr, report>>

(* A scan thread that sees a flag: atomicMin.  Threads run in any order;   *)
(* one that sees no flag does nothing.                                     *)
LowerOfLast(i, w) == i        \* mutant: the last thread to run wins
LowerOf(i, w) == IF i < w THEN i ELSE w
ScanThread(i) ==
  /\ stage = "scan" /\ i \in pending
  /\ word' = LowerOf(i, word)
  /\ pending' = pending \ {i}
  /\ UNCHANGED <<path, stage, met, flags, todo, hdr, report>>

(* The emit kernel starts when the scan has ended; it writes nothing when  *)
(* the word is still the sentinel.                                         *)
EmitNothing ==
  /\ To("scan", "sync") /\ pending = {}
  /\ word = Sentinel
  /\ UNCHANGED <<path, met, flags, pending, word, todo, hdr, report>>
EmitStart ==
  /\ To("scan", "emit") /\ pending = {}
  /\ word # Sentinel
  /\ todo' = Field
  /\ UNCHANGED <<path, met, flags, pending, word, hdr, report>>
-----------------------------------------------------------------------------
(* What the C++ emit says of thread t: 64 cells, four for each of 16       *)
(* column atoms.                                                           *)
Warp(t) == t \div 32
Lane(t) == t % 32
Gid(t) == Lane(t) \div 4
Tig(t) == Lane(t) % 4
U8(x) == x % 256
CppHeaderRows(t) ==
  [i \in 1..64 |-> U8(Warp(t) * 16 + Gid(t) + (IF (i - 1) % 4 < 2 THEN 0 ELSE 8))]
CppHeaderCols(t) ==
  [i \in 1..64 |-> U8(((i - 1) \div 4) * 8 + 2 * Tig(t) + ((i - 1) % 2))]
(* And the Triton emit of candidate t: 256 cells, 128 for each of its rows.*)
TritonHeaderRows(t) == [i \in 1..256 |-> U8(2 * t + (IF i <= 128 THEN 0 ELSE 1))]
TritonHeaderCols(t) == [i \in 1..256 |-> (i - 1) % 128]

CppHeader(w) ==
  LET tile == w \div ThreadsPerTile
      t == w % ThreadsPerTile
  IN  [coord |-> <<tile \div NumTileN, tile % NumTileN>>, regs |-> 64,
       rows |-> CppHeaderRows(t), cols |-> CppHeaderCols(t),
       tile |-> <<TileSize, TileSize>>, rest |-> TRUE]
TritonHeaderShort(w) ==       \* mutant: one register a column
  LET tile == w \div HashCandidates
      t == w % HashCandidates
  IN  [coord |-> <<tile \div NumTileN, tile % NumTileN>>, regs |-> 128,
       rows |-> TritonHeaderRows(t), cols |-> TritonHeaderCols(t),
       tile |-> <<TileSize, TileSize>>, rest |-> TRUE]
TritonHeader(w) ==
  LET tile == w \div HashCandidates
      t == w % HashCandidates
  IN  [coord |-> <<tile \div NumTileN, tile % NumTileN>>, regs |-> 256,
       rows |-> TritonHeaderRows(t), cols |-> TritonHeaderCols(t),
       tile |-> <<TileSize, TileSize>>, rest |-> TRUE]
HeaderOf(w) == IF path = "CppSearch" THEN CppHeader(w) ELSE TritonHeader(w)

(* The stores of the kernel reach host memory in any order ...             *)
EmitField(f) ==
  /\ stage = "emit" /\ f \in todo
  /\ hdr' = [hdr EXCEPT ![f] = HeaderOf(word)[f]]
  /\ todo' = todo \ {f}
  /\ UNCHANGED <<path, stage, met, flags, pending, word, report>>

(* ... except the status, which is behind a system-wide fence.             *)
FencedNot == TRUE             \* mutant: no fence before the status
Fenced == todo = {}
EmitStatus ==
  /\ stage = "emit" /\ hdr.status = 0
  /\ Fenced
  /\ hdr' = [hdr EXCEPT !.status = 1]
  /\ UNCHANGED <<path, stage, met, flags, pending, word, todo, report>>
EmitEnd ==
  /\ To("emit", "sync")
  /\ todo = {} /\ hdr.status = 1
  /\ UNCHANGED <<path, met, flags, pending, word, todo, hdr, report>>
-----------------------------------------------------------------------------
(* ParsedSignalHeader::parse: as many entries as there are registers, 64   *)
(* when that field is 0, at most 256; bytes nobody wrote are zero.         *)
Registers(h) == IF h.regs = 0 THEN 64 ELSE IF h.regs > 256 THEN 256 ELSE h.regs
Entries(h, s) ==
  [i \in 1..Registers(h) |-> IF i \in DOMAIN s THEN s[i] ELSE 0]

(* extract_indices: global indices, sorted, without duplicates.            *)
Global(h, axis, s) ==
  {h.coord[axis] * h.tile[axis] + Entries(h, s)[i] : i \in 1..Registers(h)}
Coordinate == 0..(NumTileM * TileSize + NumTileN * TileSize)
SortedUnique[S \in SUBSET Coordinate] ==
  IF S = {} THEN <<>> ELSE <<Least(S)>> \o SortedUnique[S \ {Least(S)}]
ExtractIndices(h) ==
  [rows |-> SortedUnique[Global(h, 1, h.rows)],
   cols |-> SortedUnique[Global(h, 2, h.cols)]]

(* The host, once the stream is drained.                                   *)
ReadHeader ==
  /\ To("sync", "read")
  /\ report' = IF hdr.status = 1 THEN ExtractIndices(hdr) ELSE NoReport
  /\ UNCHANGED <<path, met, flags, pending, word, todo, hdr>>
-----------------------------------------------------------------------------
Next ==
  \/ Launch \/ ZeroHits \/ ResetScan \/ Search
  \/ \E i \in pending : ScanThread(i)
  \/ EmitNothing \/ EmitStart
  \/ \E f \in todo : EmitField(f)
  \/ EmitStatus \/ EmitEnd \/ ReadHeader

Spec == Init /\ [][Next]_vars
-----------------------------------------------------------------------------
(* The types of the words, the workspaces and the header.                  *)
HeaderType ==
  [status : {0, 1}, coord : Nat \X Nat, regs : {0, 64, 256}, rows : Seq(0..255),
   cols : Seq(0..255), tile : {<<0, 0>>, <<TileSize, TileSize>>}, rest : BOOLEAN]
TypeOK ==
  /\ path \in Paths
  /\ stage \in {"read", "zeroHits", "resetScan", "search", "scan", "emit", "sync"}
  /\ met \subseteq Candidate(path)
  /\ flags \subseteq Nat /\ pending \subseteq flags
  /\ word \in Nat
  /\ todo \subseteq Field
  /\ hdr \in HeaderType

(* Whatever the order of the scan's threads, and whatever the iteration    *)
(* before left in the flags and the word: the emit kernel, and the host    *)
(* after it, see the least index that met the target in this iteration,    *)
(* or the sentinel if none did.                                            *)
IsLeast(w) ==
  /\ w \in Indices(path, met)
  /\ \A i \in Indices(path, met) : w <= i
LeastHitFound ==
  stage \in {"emit", "sync"} =>
    IF met = {} THEN word = Sentinel ELSE IsLeast(word)

(* A host that looks at any moment and sees the status set sees a header   *)
(* that is complete and of a candidate of this iteration.                  *)
NoTornHeader ==
  hdr.status = 1 =>
    /\ met # {} /\ IsLeast(word)
    /\ \A f \in Field : hdr[f] = HeaderOf(word)[f]

(* The cells a thread of the C++ search hashes: its accumulators, four to  *)
(* a column atom, of which j \div 2 picks one of two rows 8 apart and      *)
(* j % 2 one of two columns; 16 rows to a warp.                            *)
CppCells(t) ==
  {<<16 * (t \div 32) + (t % 32) \div 4 + 8 * (j \div 2),
     8 * na + 2 * (t % 4) + (j % 2)>> : na \in 0..15, j \in 0..3}
(* A candidate of the Triton search: two adjacent rows, every column.      *)
TritonCells(t) == {<<2 * t + j, col>> : j \in {0, 1}, col \in 0..127}
CellsHashed(c) ==
  {<<c[1] * TileSize + x[1], c[2] * TileSize + x[2]>> :
     x \in IF path = "CppSearch" THEN CppCells(c[3]) ELSE TritonCells(c[3])}

(* The rows and columns the host extracts span exactly the cells of the    *)
(* candidate that met the target, the least of them if there were several; *)
(* an iteration without one is not reported, whatever the header held.     *)
ElementsOf(s) == {s[i] : i \in DOMAIN s}
Winner == CHOOSE c \in met : \A d \in met : Index(path, c) <= Index(path, d)
ReportedCells ==
  stage = "read" =>
    IF met = {} THEN report = NoReport
    ELSE /\ report # NoReport
         /\ ElementsOf(report.rows) \X ElementsOf(report.cols) = CellsHashed(Winner)

(* What the verifier makes of the reported indices is the pattern the job  *)
(* was built with, hence its key, at an offset it takes, inside A and B.   *)
PatternOfTheJob(indices, ofJob, extent) ==
  /\ Accepted(indices)
  /\ Shape(Normalized(indices)) = Shape(ofJob)
  /\ FromListOk(ofJob)
  /\ indices[1] + ofJob[Len(ofJob)] < extent
VerifierFindsPattern ==
  stage = "read" /\ report # NoReport =>
    /\ PatternOfTheJob(report.rows, JobRows(path), NumTileM * TileSize)
    /\ PatternOfTheJob(report.cols, JobCols(path), NumTileN * TileSize)
=============================================================================
