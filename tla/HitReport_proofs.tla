-------------------------- MODULE HitReport_proofs --------------------------
(***************************************************************************)
(* Proofs about HitReport, for every grid of tiles and every outcome of    *)
(* the search.                                                             *)
(***************************************************************************)
EXTENDS HitReport, SequenceTheorems, NumberLemmas, TLAPS

(* A cell of the header is a byte.                                         *)
LEMMA ByteSequence ==
  ASSUME NEW n \in Nat, NEW s \in [1..n -> 0..255]
  PROVE  s \in Seq(0..255)
  OBVIOUS

(* The header of a word is a header, whatever its status.                  *)
LEMMA HeaderFields ==
  ASSUME HitReportAssumption, NEW w \in Nat
  PROVE  /\ HeaderOf(w).coord \in Nat \X Nat
         /\ HeaderOf(w).regs \in {0, 64, 256}
         /\ HeaderOf(w).rows \in Seq(0..255)
         /\ HeaderOf(w).cols \in Seq(0..255)
         /\ HeaderOf(w).tile \in {<<0, 0>>, <<TileSize, TileSize>>}
         /\ HeaderOf(w).rest \in BOOLEAN
  <1>1. ASSUME NEW t \in Nat
        PROVE  /\ CppHeaderRows(t) \in Seq(0..255) /\ CppHeaderCols(t) \in Seq(0..255)
               /\ TritonHeaderRows(t) \in Seq(0..255) /\ TritonHeaderCols(t) \in Seq(0..255)
    <2>1. ASSUME NEW x \in Int PROVE U8(x) \in 0..255
      BY DEF U8
    <2>2. Warp(t) \in Nat /\ Gid(t) \in Nat /\ Tig(t) \in Nat
      BY DEF Warp, Gid, Tig, Lane
    <2>3. CppHeaderRows(t) \in [1..64 -> 0..255]
      <3> DEFINE V(i) == Warp(t) * 16 + Gid(t) + (IF (i - 1) % 4 < 2 THEN 0 ELSE 8)
      <3>1. ASSUME NEW k \in 1..64 PROVE U8(V(k)) \in 0..255
        BY <2>1, <2>2
      <3> QED BY <3>1, Zenon DEF CppHeaderRows
    <2>4. CppHeaderCols(t) \in [1..64 -> 0..255]
      <3>1. ASSUME NEW i \in 1..64
            PROVE  ((i - 1) \div 4) * 8 + 2 * Tig(t) + ((i - 1) % 2) \in Int
        BY <2>2
      <3> QED BY <3>1, <2>1 DEF CppHeaderCols
    <2>5. TritonHeaderRows(t) \in [1..256 -> 0..255]
      <3>1. ASSUME NEW k \in 1..256
            PROVE  U8(2 * t + (IF k <= 128 THEN 0 ELSE 1)) \in 0..255
        BY <2>1
      <3> QED BY <3>1, Zenon DEF TritonHeaderRows
    <2>6. TritonHeaderCols(t) \in [1..256 -> 0..255]
      BY DEF TritonHeaderCols
    <2>7. CppHeaderRows(t) \in Seq(0..255)
      BY <2>3, ByteSequence
    <2>8. CppHeaderCols(t) \in Seq(0..255)
      BY <2>4, ByteSequence
    <2>9. TritonHeaderRows(t) \in Seq(0..255)
      <3>1. PICK n \in Nat : n = 256 OBVIOUS
      <3>2. TritonHeaderRows(t) \in [1..n -> 0..255] BY <2>5, <3>1
      <3> QED BY <3>2, ByteSequence, Zenon
    <2>10. TritonHeaderCols(t) \in Seq(0..255)
      <3>1. PICK n \in Nat : n = 256 OBVIOUS
      <3>2. TritonHeaderCols(t) \in [1..n -> 0..255] BY <2>6, <3>1
      <3> QED BY <3>2, ByteSequence, Zenon
    <2> QED BY <2>7, <2>8, <2>9, <2>10, Zenon
  <1>2. ASSUME NEW tile \in Nat
        PROVE  <<tile \div NumTileN, tile % NumTileN>> \in Nat \X Nat
    BY DivMod DEF HitReportAssumption
  <1>3. w \div ThreadsPerTile \in Nat /\ w % ThreadsPerTile \in Nat
    BY DEF ThreadsPerTile
  <1>4. w \div HashCandidates \in Nat /\ w % HashCandidates \in Nat
    BY DEF HashCandidates
  <1>5. CASE path = "CppSearch"
    <2>1. HeaderOf(w) = CppHeader(w)
      BY <1>5 DEF HeaderOf
    <2>2. CppHeaderRows(w % ThreadsPerTile) \in Seq(0..255)
          /\ CppHeaderCols(w % ThreadsPerTile) \in Seq(0..255)
      BY <1>1, <1>3
    <2>3. <<(w \div ThreadsPerTile) \div NumTileN, (w \div ThreadsPerTile) % NumTileN>>
            \in Nat \X Nat
      BY <1>2, <1>3
    <2> QED BY <2>1, <2>2, <2>3 DEF CppHeader
  <1>6. CASE path # "CppSearch"
    <2>1. HeaderOf(w) = TritonHeader(w)
      BY <1>6 DEF HeaderOf
    <2>2. TritonHeaderRows(w % HashCandidates) \in Seq(0..255)
          /\ TritonHeaderCols(w % HashCandidates) \in Seq(0..255)
      BY <1>1, <1>4
    <2>3. <<(w \div HashCandidates) \div NumTileN, (w \div HashCandidates) % NumTileN>>
            \in Nat \X Nat
      BY <1>2, <1>4
    <2> QED BY <2>1, <2>2, <2>3 DEF TritonHeader
  <1> QED BY <1>5, <1>6

(* Indices lie below the number of candidates, hence below the sentinel.   *)
LEMMA IndexBound ==
  ASSUME HitReportAssumption, NEW p \in Paths, NEW c \in Candidate(p)
  PROVE  Index(p, c) \in Nat /\ Index(p, c) < Total(p)
  <1> DEFINE M == NumTileM  N == NumTileN  P == PerTile(p)
             tm == c[1]  tn == c[2]  t == c[3]
  <1>1. M \in Nat /\ N \in Nat /\ P \in Nat /\ P > 0
    BY DEF HitReportAssumption, PerTile, ThreadsPerTile, HashCandidates
  <1>2. tm \in 0..(M - 1) /\ tn \in 0..(N - 1) /\ t \in 0..(P - 1)
    BY DEF Candidate
  <1> HIDE DEF M, N, P, tm, tn, t
  <1>3. tm * N + tn \in Nat /\ tm * N + tn <= M * N - 1
    <2>1. (M - 1 - tm) * N >= 0
      BY <1>1, <1>2
    <2>2. (M - 1 - tm) * N = M * N - N - tm * N
      BY <1>1, <1>2
    <2>3. tm * N \in Nat /\ M * N \in Nat
      BY <1>1, <1>2
    <2> QED BY <2>1, <2>2, <2>3, <1>1, <1>2
  <1> DEFINE tile == tm * N + tn  T == M * N
  <1>4. T \in Nat
    BY <1>1
  <1> HIDE DEF tile, T
  <1>5. tile \in Nat /\ tile <= T - 1
    BY <1>3 DEF tile, T
  <1>6. tile * P + t \in Nat /\ tile * P + t < T * P
    <2>1. (T - 1 - tile) * P >= 0
      BY <1>1, <1>4, <1>5
    <2>2. (T - 1 - tile) * P = T * P - P - tile * P
      BY <1>1, <1>4, <1>5
    <2>3. tile * P \in Nat /\ T * P \in Nat
      BY <1>1, <1>4, <1>5
    <2> QED BY <2>1, <2>2, <2>3, <1>1, <1>2
  <1> QED BY <1>6 DEF Index, Total, NumTiles, tile, T, M, N, P, tm, tn, t
-----------------------------------------------------------------------------
(* The inductive invariant.  The scan has been through every flag not      *)
(* pending, and its word is below all of those; the flags are those of     *)
(* this iteration; the header carries the word's candidate, field by       *)
(* field, and its status only when it is complete.                         *)
FlagsOfIteration == flags = Indices(path, met)
Cleared ==
  path = "CppSearch" /\ stage \in {"resetScan", "search"} => flags = {}
Bounded == \A i \in flags : i < Total(path)
Scanning ==
  stage = "scan" =>
    /\ FlagsOfIteration
    /\ word = Sentinel \/ word \in flags
    /\ \A i \in flags \ pending : word <= i
Emitting ==
  stage = "emit" => met # {} /\ \A f \in Field \ todo : hdr[f] = HeaderOf(word)[f]
NotEmitting == (stage # "emit" => todo = {}) /\ (stage # "scan" => pending = {})
StatusLast ==
  hdr.status = 1 => stage \in {"emit", "sync", "read"} /\ todo = {}
FreshWord == stage = "search" => word = Sentinel

Inv ==
  /\ TypeOK /\ LeastHitFound /\ NoTornHeader
  /\ Cleared /\ Bounded /\ Scanning /\ Emitting /\ NotEmitting /\ StatusLast /\ FreshWord

(* A slot starts with its header zeroed and nothing found.                 *)
LEMMA InitInv == Init => Inv
  <1> SUFFICES ASSUME Init PROVE Inv
    OBVIOUS
  <1>1. Zeroed \in HeaderType
    BY DEF Zeroed, HeaderType
  <1>2. TypeOK
    BY <1>1 DEF Init, TypeOK, Candidate
  <1>3. hdr.status = 0
    BY DEF Init, Zeroed
  <1> QED
    BY <1>2, <1>3 DEF Init, Inv, LeastHitFound, NoTornHeader, Cleared, Bounded, Scanning,
       Emitting, NotEmitting, StatusLast, FreshWord

(* The launch zeroes the header, the memsets clear the workspaces: after   *)
(* any of them the status is 0 and the emit kernel is not running.         *)
LEMMA LaunchInv == Inv /\ (Launch \/ ZeroHits \/ ResetScan) => Inv'
  <1> SUFFICES ASSUME Inv, Launch \/ ZeroHits \/ ResetScan PROVE Inv'
    OBVIOUS
  <1> USE DEF Inv
  <1>1. CASE Launch
    <2>1. Zeroed \in HeaderType /\ Zeroed.status = 0
      BY DEF Zeroed, HeaderType
    <2>2. TypeOK' /\ hdr'.status = 0 /\ stage' \in {"zeroHits", "resetScan"}
      BY <1>1, <2>1 DEF Launch, To, TypeOK, ZeroCpu, Candidate
    <2>3. Cleared'
      BY <1>1 DEF Launch, To, Cleared
    <2>4. Bounded' /\ NotEmitting'
      BY <1>1 DEF Launch, To, Bounded, NotEmitting
    <2> QED BY <2>2, <2>3, <2>4 DEF LeastHitFound, NoTornHeader, Scanning,
               Emitting, StatusLast, FreshWord
  <1>2. CASE ZeroHits
    <2>1. pending = {}
      BY <1>2 DEF ZeroHits, To, NotEmitting
    <2>2. TypeOK'
      BY <1>2, <2>1 DEF ZeroHits, To, TypeOK, Candidate
    <2>3. hdr'.status # 1 /\ stage' = "resetScan"
      BY <1>2 DEF ZeroHits, To, StatusLast
    <2>4. Cleared' /\ Bounded' /\ NotEmitting'
      BY <1>2 DEF ZeroHits, To, Cleared, Bounded, NotEmitting
    <2> QED BY <2>2, <2>3, <2>4 DEF LeastHitFound, NoTornHeader, Scanning,
               Emitting, StatusLast, FreshWord
  <1>3. CASE ResetScan
    <2>1. TypeOK'
      BY <1>3, HitReportAssumption DEF ResetScan, To, TypeOK, HitReportAssumption, Candidate
    <2>2. hdr'.status # 1 /\ stage' = "search" /\ word' = Sentinel
      BY <1>3 DEF ResetScan, To, StatusLast
    <2>3. Cleared' /\ Bounded' /\ NotEmitting'
      BY <1>3 DEF ResetScan, To, Cleared, Bounded, NotEmitting
    <2> QED BY <2>1, <2>2, <2>3 DEF LeastHitFound, NoTornHeader, Scanning,
               Emitting, StatusLast, FreshWord
  <1> QED BY <1>1, <1>2, <1>3

(* The search and the compare write the flag of every candidate there is,  *)
(* and the scan has a thread for each.                                     *)
LEMMA EveryThreadScans ==
  ASSUME HitReportAssumption, NEW p \in Paths, NEW i \in Nat, i < Total(p)
  PROVE  Scanned(p, i)
  <1>1. Total(p) \in Nat
    BY DEF HitReportAssumption, Total, NumTiles, PerTile, ThreadsPerTile, HashCandidates
  <1> DEFINE n == Total(p)
  <1> HIDE DEF n
  <1>2. n \in Nat /\ i < n
    BY <1>1 DEF n
  <1>3. i \in 0..(((n + 255) \div 256) * 256 - 1)
    BY <1>2
  <1>4. BlocksCovering(n) * BlockX = ((n + 255) \div 256) * 256
    <2>1. n + 256 - 1 = n + 255
      BY <1>2
    <2> QED BY <2>1 DEF BlocksCovering, BlockX
  <1>5. i \in 0..(BlocksCovering(n) * BlockX - 1)
    BY <1>3, <1>4
  <1> QED BY <1>5, <1>2 DEF Scanned, ScanThreads, n

(* Whatever flag the last iteration left set, this search writes it.       *)
LEMMA AllWritten ==
  ASSUME Inv, stage = "search"
  PROVE  flags \ Writes = {}
  <1> USE DEF Inv
  <1>1. CASE path = "CppSearch"
    BY <1>1 DEF Cleared
  <1>2. CASE path # "CppSearch"
    <2>1. path = "TritonNorotl" /\ path \in Paths
      BY <1>2, HitReportAssumption DEF TypeOK, HitReportAssumption
    <2>2. ASSUME NEW i \in flags PROVE i \in Writes
      <3>1. i \in Nat /\ i < Total(path)
        BY DEF TypeOK, Bounded
      <3>2. Scanned(path, i)
        BY <3>1, <2>1, EveryThreadScans, HitReportAssumption
      <3> QED BY <3>2, <2>1, <1>2 DEF Writes, CompareWrites, CompareThreads, Scanned, ScanThreads
    <2> QED BY <2>2
  <1> QED BY <1>1, <1>2

(* After the search the flags are those of this iteration.                 *)
LEMMA SearchInv == Inv /\ Search => Inv'
  <1> SUFFICES ASSUME Inv, Search PROVE Inv'
    OBVIOUS
  <1> USE DEF Inv
  <1>0. path \in Paths /\ path' = path /\ stage = "search" /\ stage' = "scan"
        /\ hdr' = hdr /\ todo' = todo /\ word' = word /\ word = Sentinel
    BY DEF Search, To, TypeOK, FreshWord
  <1>1. flags \ Writes = {}
    BY <1>0, AllWritten
  <1>2. met' \in Outcomes[path] /\ flags' = Indices(path, met') \cup (flags \ Writes)
    BY DEF Search
  <1>3. met' \subseteq Candidate(path)
    BY <1>0, <1>2, HitReportAssumption DEF HitReportAssumption
  <1>4. flags' = Indices(path, met')
    BY <1>1, <1>2
  <1>5. \A c \in met' : Index(path, c) \in Nat /\ Index(path, c) < Total(path)
    BY <1>0, <1>3, IndexBound, HitReportAssumption
  <1>6. \A i \in flags' : i \in Nat /\ i < Total(path)
    BY <1>4, <1>5 DEF Indices
  <1>7. pending' = flags'
    <2>1. \A i \in flags' : Scanned(path, i)
      BY <1>0, <1>6, EveryThreadScans, HitReportAssumption
    <2> QED BY <2>1 DEF Search
  <1>8. TypeOK'
    BY <1>0, <1>3, <1>6, <1>7 DEF TypeOK
  <1>9. Scanning'
    BY <1>0, <1>4, <1>7 DEF Scanning, FlagsOfIteration
  <1>10. Bounded'
    BY <1>0, <1>6 DEF Bounded
  <1>11. hdr'.status # 1
    BY <1>0 DEF StatusLast
  <1>12. NotEmitting'
    BY <1>0 DEF NotEmitting
  <1> QED BY <1>0, <1>8, <1>9, <1>10, <1>11, <1>12 DEF LeastHitFound, NoTornHeader, Cleared,
             Emitting, StatusLast, FreshWord

(* A scan thread keeps the word below every flag it has been through.      *)
LEMMA ScanInv == Inv /\ (\E i \in pending : ScanThread(i)) => Inv'
  <1> SUFFICES ASSUME Inv, NEW i \in pending, ScanThread(i) PROVE Inv'
    OBVIOUS
  <1> USE DEF Inv
  <1>0. stage = "scan" /\ stage' = "scan" /\ UNCHANGED <<path, met, flags, todo, hdr>>
        /\ word' = LowerOf(i, word) /\ pending' = pending \ {i}
    BY DEF ScanThread
  <1>1. i \in flags /\ i \in Nat /\ word \in Nat /\ flags \subseteq Nat
    BY DEF TypeOK
  <1>2. i < Sentinel
    <2>1. Total(path) \in Nat /\ Total(path) <= Sentinel /\ Sentinel \in Nat
      BY HitReportAssumption DEF HitReportAssumption, TypeOK, Total, NumTiles, PerTile,
         ThreadsPerTile, HashCandidates
    <2>2. i < Total(path)
      BY <1>1 DEF Bounded
    <2> QED BY <2>1, <2>2, <1>1
  <1>3. word' \in {i, word} /\ word' <= i /\ word' <= word /\ word' \in Nat
    BY <1>0, <1>1 DEF LowerOf
  <1>4. TypeOK'
    BY <1>0, <1>3 DEF TypeOK
  <1>5. Scanning'
    <2>1. word' = Sentinel \/ word' \in flags'
      BY <1>0, <1>1, <1>3 DEF Scanning
    <2>2. ASSUME NEW j \in flags' \ pending' PROVE word' <= j
      <3>1. CASE j = i
        BY <3>1, <1>3
      <3>2. CASE j # i
        <4>1. word <= j /\ j \in Nat
          BY <1>0, <1>1, <3>2 DEF Scanning
        <4> QED BY <4>1, <1>3, <1>1
      <3> QED BY <3>1, <3>2
    <2>3. FlagsOfIteration'
      BY <1>0 DEF Scanning, FlagsOfIteration
    <2> QED BY <2>1, <2>2, <2>3 DEF Scanning
  <1>6. Bounded' /\ NotEmitting' /\ StatusLast'
    BY <1>0 DEF Bounded, NotEmitting, StatusLast
  <1>7. hdr'.status # 1
    BY <1>0 DEF StatusLast
  <1> QED BY <1>0, <1>4, <1>5, <1>6, <1>7 DEF LeastHitFound, NoTornHeader, Cleared,
             Emitting, FreshWord

(* Once no scan thread is left the word is the least flag, or the sentinel *)
(* and there is none.                                                      *)
LEMMA ScannedAll ==
  ASSUME Inv, stage = "scan", pending = {}
  PROVE  IF met = {} THEN word = Sentinel ELSE IsLeast(word) /\ word # Sentinel
  <1> USE DEF Inv
  <1>1. flags = Indices(path, met) /\ \A i \in flags : word <= i /\ i \in Nat /\ i < Sentinel
    <2>1. Total(path) \in Nat /\ Total(path) <= Sentinel /\ Sentinel \in Nat
      BY HitReportAssumption DEF HitReportAssumption, TypeOK, Total, NumTiles, PerTile,
         ThreadsPerTile, HashCandidates
    <2> QED BY <2>1 DEF Scanning, FlagsOfIteration, TypeOK, Bounded
  <1>2. met = {} <=> flags = {}
    BY <1>1 DEF Indices
  <1>3. word = Sentinel \/ word \in flags
    BY DEF Scanning
  <1>4. CASE met = {}
    BY <1>4, <1>2, <1>3
  <1>5. CASE met # {}
    <2>1. PICK i \in flags : TRUE
      BY <1>5, <1>2
    <2>2. word # Sentinel
      BY <2>1, <1>1, HitReportAssumption DEF HitReportAssumption
    <2> QED BY <2>2, <1>5, <1>1, <1>3 DEF IsLeast
  <1> QED BY <1>4, <1>5

(* The emit kernel starts behind a scan that is complete.                  *)
LEMMA EmitStartInv == Inv /\ (EmitNothing \/ EmitStart) => Inv'
  <1> SUFFICES ASSUME Inv, EmitNothing \/ EmitStart PROVE Inv'
    OBVIOUS
  <1> USE DEF Inv
  <1>0. stage = "scan" /\ stage' \in {"emit", "sync"} /\ pending = {}
        /\ UNCHANGED <<path, met, flags, pending, word, hdr>>
    BY DEF EmitNothing, EmitStart, To
  <1>1. IF met = {} THEN word = Sentinel ELSE IsLeast(word) /\ word # Sentinel
    BY <1>0, ScannedAll
  <1>2. todo' \subseteq Field /\ (stage' = "sync" => todo' = {})
        /\ (stage' = "emit" => met # {} /\ todo' = Field)
    BY <1>1 DEF EmitNothing, EmitStart, To, NotEmitting, TypeOK
  <1>3. TypeOK'
    BY <1>0, <1>2 DEF TypeOK
  <1>4. LeastHitFound'
    BY <1>0, <1>1 DEF LeastHitFound, IsLeast
  <1>5. hdr'.status # 1
    BY <1>0 DEF StatusLast
  <1>6. Emitting' /\ NotEmitting' /\ Bounded'
    BY <1>0, <1>2 DEF Emitting, NotEmitting, Bounded
  <1> QED BY <1>0, <1>3, <1>4, <1>5, <1>6 DEF NoTornHeader, Cleared, Scanning, StatusLast, FreshWord

(* A header with one field replaced by another of its type.                *)
LEMMA FieldUpdate ==
  ASSUME NEW h \in HeaderType, NEW v
  PROVE  /\ v \in Nat \X Nat => [h EXCEPT !["coord"] = v] \in HeaderType
         /\ v \in {0, 64, 256} => [h EXCEPT !["regs"] = v] \in HeaderType
         /\ v \in Seq(0..255) => [h EXCEPT !["rows"] = v] \in HeaderType
         /\ v \in Seq(0..255) => [h EXCEPT !["cols"] = v] \in HeaderType
         /\ v \in {<<0, 0>>, <<TileSize, TileSize>>} => [h EXCEPT !["tile"] = v] \in HeaderType
         /\ v \in BOOLEAN => [h EXCEPT !["rest"] = v] \in HeaderType
  <1> DEFINE C == Nat \X Nat  R == {0, 64, 256}  S == Seq(0..255)
             T == {<<0, 0>>, <<TileSize, TileSize>>}
             H == [status : {0, 1}, coord : C, regs : R, rows : S, cols : S, tile : T,
                   rest : BOOLEAN]
  <1>1. HeaderType = H
    BY DEF HeaderType
  <1> HIDE DEF C, R, S, T
  <1>2. v \in C => [h EXCEPT !["coord"] = v] \in H
    BY <1>1
  <1>3. v \in R => [h EXCEPT !["regs"] = v] \in H
    BY <1>1
  <1>4. v \in S => [h EXCEPT !["rows"] = v] \in H
    BY <1>1
  <1>5. v \in S => [h EXCEPT !["cols"] = v] \in H
    BY <1>1
  <1>6. v \in T => [h EXCEPT !["tile"] = v] \in H
    BY <1>1
  <1>7. v \in BOOLEAN => [h EXCEPT !["rest"] = v] \in H
    BY <1>1
  <1> HIDE DEF H
  <1> QED BY <1>1, <1>2, <1>3, <1>4, <1>5, <1>6, <1>7 DEF C, R, S, T

(* One field written: its value is that of the word, the others keep.      *)
LEMMA EmitFieldInv == Inv /\ (\E f \in todo : EmitField(f)) => Inv'
  <1> SUFFICES ASSUME Inv, NEW f \in todo, EmitField(f) PROVE Inv'
    OBVIOUS
  <1> USE DEF Inv
  <1>0. stage = "emit" /\ UNCHANGED <<path, stage, met, flags, pending, word>>
        /\ todo' = todo \ {f} /\ hdr' = [hdr EXCEPT ![f] = HeaderOf(word)[f]] /\ f \in Field
    BY DEF EmitField, TypeOK
  <1>1. hdr \in HeaderType /\ word \in Nat
    BY DEF TypeOK
  <1>2. hdr' \in HeaderType
    <2>1. f \in {"coord", "regs", "rows", "cols", "tile", "rest"}
      BY <1>0 DEF Field
    <2>2. hdr' = [hdr EXCEPT ![f] = HeaderOf(word)[f]]
      BY <1>0
    <2>3. CASE f = "coord"
      BY <1>1, <2>2, <2>3, HeaderFields, FieldUpdate, HitReportAssumption
    <2>4. CASE f = "regs"
      BY <1>1, <2>2, <2>4, HeaderFields, FieldUpdate, HitReportAssumption
    <2>5. CASE f = "rows"
      BY <1>1, <2>2, <2>5, HeaderFields, FieldUpdate, HitReportAssumption
    <2>6. CASE f = "cols"
      BY <1>1, <2>2, <2>6, HeaderFields, FieldUpdate, HitReportAssumption
    <2>7. CASE f = "tile"
      BY <1>1, <2>2, <2>7, HeaderFields, FieldUpdate, HitReportAssumption
    <2>8. CASE f = "rest"
      BY <1>1, <2>2, <2>8, HeaderFields, FieldUpdate, HitReportAssumption
    <2> QED BY <2>1, <2>3, <2>4, <2>5, <2>6, <2>7, <2>8
  <1>3. hdr'.status = hdr.status /\ hdr.status # 1
    <2>1. f # "status"
      BY <1>0 DEF Field
    <2>2. todo # {}
      OBVIOUS
    <2> QED BY <2>1, <2>2, <1>0, <1>1 DEF HeaderType, StatusLast
  <1>4. TypeOK'
    BY <1>0, <1>2 DEF TypeOK
  <1>5. Emitting'
    <2>1. ASSUME NEW g \in Field \ todo' PROVE hdr'[g] = HeaderOf(word)[g]
      <3>1. g \in DOMAIN hdr
        BY <1>1 DEF HeaderType, Field
      <3>2. CASE g = f
        BY <1>0, <3>1, <3>2
      <3>3. CASE g # f
        BY <1>0, <3>1, <3>3 DEF Emitting
      <3> QED BY <3>2, <3>3
    <2>2. HeaderOf(word)' = HeaderOf(word)
      BY <1>0 DEF HeaderOf
    <2> QED BY <1>0, <2>1, <2>2 DEF Emitting
  <1>6. LeastHitFound' /\ Bounded' /\ NotEmitting' /\ Scanning' /\ Cleared' /\ FreshWord'
    BY <1>0 DEF LeastHitFound, IsLeast, Bounded, NotEmitting, Scanning, Cleared, FreshWord
  <1> QED BY <1>3, <1>4, <1>5, <1>6 DEF NoTornHeader, StatusLast

(* The status goes last, over a header that is complete.                   *)
LEMMA EmitStatusInv == Inv /\ EmitStatus => Inv'
  <1> SUFFICES ASSUME Inv, EmitStatus PROVE Inv'
    OBVIOUS
  <1> USE DEF Inv
  <1>0. stage = "emit" /\ todo = {} /\ hdr' = [hdr EXCEPT !.status = 1]
        /\ UNCHANGED <<path, stage, met, flags, pending, word, todo>>
    BY DEF EmitStatus, Fenced
  <1>1. hdr \in HeaderType
    BY DEF TypeOK
  <1>2. TypeOK'
    <2>1. hdr' \in HeaderType
      BY <1>0, <1>1 DEF HeaderType
    <2> QED BY <1>0, <2>1 DEF TypeOK
  <1>3. \A f \in Field : hdr'[f] = hdr[f]
    BY <1>0, <1>1 DEF HeaderType, Field
  <1>4. \A f \in Field : hdr'[f] = HeaderOf(word)[f]
    BY <1>0, <1>3 DEF Emitting
  <1>5. HeaderOf(word)' = HeaderOf(word)
    BY <1>0 DEF HeaderOf
  <1>6. met # {} /\ IsLeast(word)
    BY <1>0 DEF Emitting, LeastHitFound
  <1>7. NoTornHeader' /\ Emitting'
    BY <1>0, <1>4, <1>5, <1>6 DEF NoTornHeader, Emitting, IsLeast
  <1>8. LeastHitFound' /\ Bounded' /\ NotEmitting' /\ Scanning' /\ Cleared' /\ FreshWord'
        /\ StatusLast'
    BY <1>0 DEF LeastHitFound, IsLeast, Bounded, NotEmitting, Scanning, Cleared, FreshWord,
       StatusLast
  <1> QED BY <1>2, <1>7, <1>8

(* The host reads the header and changes nothing in it.                    *)
LEMMA ReadInv == Inv /\ (EmitEnd \/ ReadHeader) => Inv'
  <1> SUFFICES ASSUME Inv, EmitEnd \/ ReadHeader PROVE Inv'
    OBVIOUS
  <1> USE DEF Inv
  <1>0. stage \in {"emit", "sync"} /\ stage' \in {"sync", "read"}
        /\ todo = {} /\ UNCHANGED <<path, met, flags, pending, word, todo, hdr>>
    BY DEF EmitEnd, ReadHeader, To, NotEmitting
  <1>1. TypeOK'
    BY <1>0 DEF TypeOK
  <1>2. HeaderOf(word)' = HeaderOf(word)
    BY <1>0 DEF HeaderOf
  <1>3. NoTornHeader'
    BY <1>0, <1>2 DEF NoTornHeader, IsLeast
  <1>4. LeastHitFound' /\ NotEmitting'
    BY <1>0 DEF LeastHitFound, IsLeast, NotEmitting
  <1>5. Bounded' /\ Scanning' /\ Cleared' /\ FreshWord' /\ StatusLast' /\ Emitting'
    BY <1>0 DEF Bounded, Scanning, Cleared, FreshWord, StatusLast, Emitting
  <1> QED BY <1>1, <1>3, <1>4, <1>5

(* Steps of nobody.                                                        *)
LEMMA StutterInv == Inv /\ UNCHANGED vars => Inv'
  <1> SUFFICES ASSUME Inv, UNCHANGED vars PROVE Inv'
    OBVIOUS
  <1> USE DEF Inv, vars
  <1>1. TypeOK'
    BY DEF TypeOK
  <1>2. HeaderOf(word)' = HeaderOf(word)
    BY DEF HeaderOf
  <1>3. NoTornHeader' /\ LeastHitFound'
    BY <1>2 DEF NoTornHeader, LeastHitFound, IsLeast
  <1>4. Emitting'
    BY <1>2 DEF Emitting
  <1>5. Cleared' /\ Bounded' /\ Scanning' /\ NotEmitting' /\ StatusLast' /\ FreshWord'
    BY DEF Cleared, Bounded, Scanning, FlagsOfIteration, NotEmitting, StatusLast, FreshWord
  <1> QED BY <1>1, <1>3, <1>4, <1>5

(* Every step of the slot keeps the invariant.                             *)
LEMMA NextInv == Inv /\ [Next]_vars => Inv'
  <1> SUFFICES ASSUME Inv, [Next]_vars PROVE Inv'
    OBVIOUS
  <1>1. CASE Launch \/ ZeroHits \/ ResetScan
    BY <1>1, LaunchInv
  <1>2. CASE Search
    BY <1>2, SearchInv
  <1>3. CASE \E i \in pending : ScanThread(i)
    BY <1>3, ScanInv
  <1>4. CASE EmitNothing \/ EmitStart
    BY <1>4, EmitStartInv
  <1>5. CASE \E f \in todo : EmitField(f)
    BY <1>5, EmitFieldInv
  <1>6. CASE EmitStatus
    BY <1>6, EmitStatusInv
  <1>7. CASE EmitEnd \/ ReadHeader
    BY <1>7, ReadInv
  <1>8. CASE UNCHANGED vars
    BY <1>8, StutterInv
  <1> QED BY <1>1, <1>2, <1>3, <1>4, <1>5, <1>6, <1>7, <1>8 DEF Next

(* The invariant holds in every reachable state.                           *)
LEMMA InvHolds == Spec => []Inv
  BY InitInv, NextInv, PTL DEF Spec

-----------------------------------------------------------------------------
(* Words, workspaces and headers keep their types.                         *)
THEOREM TypeCorrect == Spec => []TypeOK
  <1>1. Inv => TypeOK
    BY DEF Inv
  <1> QED BY <1>1, InvHolds, PTL

(* What the scan leaves is the least index that met the target in this     *)
(* iteration, whatever the order of its threads.                           *)
THEOREM ScanFindsLeast == Spec => []LeastHitFound
  <1>1. Inv => LeastHitFound
    BY DEF Inv
  <1> QED BY <1>1, InvHolds, PTL

(* A status of 1 is never seen over a header that is incomplete or of      *)
(* another candidate.                                                      *)
THEOREM HeaderNeverTorn == Spec => []NoTornHeader
  <1>1. Inv => NoTornHeader
    BY DEF Inv
  <1> QED BY <1>1, InvHolds, PTL
-----------------------------------------------------------------------------
(* Sorting.                                                                *)

(* The least element of a set of numbers is the one below all of it.       *)
LEMMA LeastIs ==
  ASSUME NEW S \in SUBSET Nat, NEW x \in S, \A y \in S : x <= y
  PROVE  Least(S) = x
  <1>1. \A z \in S : (\A y \in S : z <= y) => z = x OBVIOUS
  <1>2. Least(S) \in S /\ \A y \in S : Least(S) <= y
    BY Zenon DEF Least
  <1> QED BY <1>1, <1>2
-----------------------------------------------------------------------------
(* Ascending lists.                                                        *)
Lists(s, S) ==
  /\ s \in Seq(Nat)
  /\ \A i \in 1..(Len(s) - 1) : s[i] < s[i + 1]
  /\ S = {s[i] : i \in 1..Len(s)}

(* What ascends step by step ascends over any distance.                    *)
LEMMA AscendsFar ==
  ASSUME NEW s, NEW S, Lists(s, S)
  PROVE  \A i, j \in 1..Len(s) : i < j => s[i] < s[j]
  <1>0. Len(s) \in Nat /\ \A i \in 1..Len(s) : s[i] \in Nat BY DEF Lists
  <1> DEFINE T == {d \in Nat : \A i \in 1..Len(s) : i + d + 1 \in 1..Len(s) => s[i] < s[i + d + 1]}
  <1>1. 0 \in T BY DEF Lists
  <1>2. ASSUME NEW d \in T PROVE d + 1 \in T
    <2> SUFFICES ASSUME NEW i \in 1..Len(s), i + d + 2 \in 1..Len(s)
                 PROVE  s[i] < s[i + d + 2]
      OBVIOUS
    <2>1. i + d + 1 \in 1..(Len(s) - 1) /\ i + d + 1 \in 1..Len(s) /\ i + d + 1 + 1 = i + d + 2
      BY <1>0
    <2>2. s[i] < s[i + d + 1] BY <2>1
    <2>3. s[i + d + 1] < s[i + d + 2] BY <2>1 DEF Lists
    <2>4. s[i] \in Nat /\ s[i + d + 1] \in Nat /\ s[i + d + 2] \in Nat BY <1>0, <2>1
    <2> QED BY <2>2, <2>3, <2>4
  <1> HIDE DEF T
  <1>3. T = Nat BY <1>1, <1>2, InductionOn DEF T
  <1>4. ASSUME NEW i \in 1..Len(s), NEW j \in 1..Len(s), i < j PROVE s[i] < s[j]
    <2>1. i \in Nat /\ j \in Nat BY <1>0
    <2>2. PICK d \in Nat : i + d + 1 = j
      <3>1. j - i - 1 \in Nat BY <1>4, <2>1
      <3>2. i + (j - i - 1) + 1 = j BY <2>1
      <3> QED BY <3>1, <3>2
    <2>3. d \in T BY <1>3
    <2> QED BY <2>2, <2>3 DEF T
  <1> QED BY <1>4

(* The head of an ascending list is the least element, and the tail lists  *)
(* the others.                                                             *)
LEMMA HeadIsLeast ==
  ASSUME NEW s, NEW S, Lists(s, S), s # <<>>
  PROVE  /\ S \in SUBSET Nat /\ S # {} /\ Least(S) = s[1]
         /\ Lists(Tail(s), S \ {s[1]})
         /\ s = <<s[1]>> \o Tail(s)
  <1>0. /\ s \in Seq(Nat) /\ Len(s) \in Nat \ {0} /\ \A i \in 1..Len(s) : s[i] \in Nat
        /\ 1 \in 1..Len(s) /\ S = {s[i] : i \in 1..Len(s)}
    BY DEF Lists
  <1>1. \A i \in 1..Len(s) : i # 1 => s[1] < s[i]
    BY <1>0, AscendsFar
  <1>2. S \in SUBSET Nat /\ s[1] \in S BY <1>0
  <1>3. \A y \in S : s[1] <= y
    <2> SUFFICES ASSUME NEW i \in 1..Len(s) PROVE s[1] <= s[i] BY <1>0
    <2> QED BY <1>0, <1>1
  <1>4. Least(S) = s[1] BY <1>2, <1>3, LeastIs
  <1>5. PICK t : t = Tail(s) OBVIOUS
  <1>6. t \in Seq(Nat) /\ Len(t) = Len(s) - 1 /\ \A i \in 1..Len(t) : t[i] = s[i + 1]
    BY <1>0, <1>5, HeadTailProperties
  <1>7. S \ {s[1]} = {t[i] : i \in 1..Len(t)}
    <2>1. ASSUME NEW y \in S \ {s[1]} PROVE y \in {t[i] : i \in 1..Len(t)}
      <3>1. PICK i \in 1..Len(s) : y = s[i] BY <1>0
      <3>2. i # 1 BY <3>1
      <3>3. i - 1 \in 1..Len(t) /\ i - 1 + 1 = i BY <3>2, <1>0, <1>6
      <3>4. t[i - 1] = y BY <3>1, <3>3, <1>6
      <3> QED BY <3>3, <3>4
    <2>2. ASSUME NEW i \in 1..Len(t) PROVE t[i] \in S \ {s[1]}
      <3>1. i + 1 \in 1..Len(s) /\ i + 1 # 1 BY <1>0, <1>6
      <3>2. t[i] = s[i + 1] BY <1>6
      <3>3. s[1] < s[i + 1] BY <3>1, <1>1
      <3> QED BY <3>1, <3>2, <3>3, <1>0
    <2> QED BY <2>1, <2>2
  <1>8. \A i \in 1..(Len(t) - 1) : t[i] < t[i + 1]
    <2> SUFFICES ASSUME NEW i \in 1..(Len(t) - 1) PROVE t[i] < t[i + 1] OBVIOUS
    <2>1. i \in 1..Len(t) /\ i + 1 \in 1..Len(t) /\ i + 1 \in 1..(Len(s) - 1) BY <1>0, <1>6
    <2>2. t[i] = s[i + 1] /\ t[i + 1] = s[i + 1 + 1] BY <2>1, <1>6
    <2> QED BY <2>1, <2>2 DEF Lists
  <1>9. Lists(t, S \ {s[1]}) BY <1>6, <1>7, <1>8 DEF Lists
  <1>10. s = <<s[1]>> \o t
    <2>1. Head(s) = s[1] BY <1>0
    <2> QED BY <1>0, <1>5, <1>6, <2>1
  <1> QED BY <1>2, <1>4, <1>5, <1>9, <1>10

(* A set has one ascending list.                                           *)
LEMMA ListUnique ==
  \A s, t, S : Lists(s, S) /\ Lists(t, S) => s = t
  <1> DEFINE T == {n \in Nat : \A s, t, S : Lists(s, S) /\ Lists(t, S) /\ Len(s) = n => s = t}
  <1>0. ASSUME NEW s, NEW S, Lists(s, S) PROVE s = <<>> <=> S = {}
    <2>1. s \in Seq(Nat) /\ S = {s[i] : i \in 1..Len(s)} BY <1>0 DEF Lists
    <2>2. s # <<>> => 1 \in 1..Len(s) BY <2>1
    <2>3. s = <<>> => 1..Len(s) = {} OBVIOUS
    <2> QED BY <2>1, <2>2, <2>3
  <1>1. 0 \in T
    <2> SUFFICES ASSUME NEW s, NEW t, NEW S, Lists(s, S), Lists(t, S), Len(s) = 0
                 PROVE  s = t
      OBVIOUS
    <2>1. s = <<>> BY DEF Lists
    <2> QED BY <2>1, <1>0
  <1>2. ASSUME NEW n \in T PROVE n + 1 \in T
    <2> SUFFICES ASSUME NEW s, NEW t, NEW S, Lists(s, S), Lists(t, S), Len(s) = n + 1
                 PROVE  s = t
      OBVIOUS
    <2>1. s # <<>> OBVIOUS
    <2>2. t # <<>> BY <2>1, <1>0
    <2>3. s[1] = Least(S) /\ Lists(Tail(s), S \ {s[1]}) /\ s = <<s[1]>> \o Tail(s)
      BY <2>1, HeadIsLeast
    <2>4. t[1] = Least(S) /\ Lists(Tail(t), S \ {t[1]}) /\ t = <<t[1]>> \o Tail(t)
      BY <2>2, HeadIsLeast
    <2>5. Len(Tail(s)) = n BY <2>1, HeadTailProperties DEF Lists
    <2>6. Tail(s) = Tail(t) BY <2>3, <2>4, <2>5
    <2> QED BY <2>3, <2>4, <2>6
  <1> HIDE DEF T
  <1>3. T = Nat BY <1>1, <1>2, InductionOn DEF T
  <1> SUFFICES ASSUME NEW s, NEW t, NEW S, Lists(s, S), Lists(t, S) PROVE s = t
    OBVIOUS
  <1>4. Len(s) \in T BY <1>3 DEF Lists
  <1> QED BY <1>4 DEF T

(* A bounded set of numbers has an ascending list.                         *)
LEMMA ListExists ==
  \A n \in Nat : \A S \in SUBSET (0..(n - 1)) : \E s : Lists(s, S)
  <1> DEFINE T == {n \in Nat : \A S \in SUBSET (0..(n - 1)) : \E s : Lists(s, S)}
  <1>1. 0 \in T
    <2>1. Lists(<<>>, {}) BY DEF Lists
    <2>2. \A S \in SUBSET (0..(0 - 1)) : S = {} OBVIOUS
    <2> QED BY <2>1, <2>2
  <1>2. ASSUME NEW n \in T PROVE n + 1 \in T
    <2> SUFFICES ASSUME NEW S \in SUBSET (0..n) PROVE \E s : Lists(s, S)
      OBVIOUS
    <2>1. S \ {n} \in SUBSET (0..(n - 1)) OBVIOUS
    <2>2. PICK s : Lists(s, S \ {n}) BY <2>1
    <2>3. s \in Seq(Nat) /\ Len(s) \in Nat BY <2>2 DEF Lists
    <2>4. CASE n \notin S
      <3>1. S \ {n} = S BY <2>4
      <3> QED BY <2>2, <3>1
    <2>5. CASE n \in S
      <3>1. PICK t : t = Append(s, n) OBVIOUS
      <3>2. /\ t \in Seq(Nat) /\ Len(t) = Len(s) + 1
            /\ \A i \in 1..Len(s) : t[i] = s[i]
            /\ t[Len(s) + 1] = n
        BY <3>1, <2>3, AppendProperties
      <3>3. \A i \in 1..Len(s) : s[i] \in S \ {n} BY <2>2 DEF Lists
      <3>4. ASSUME NEW i \in 1..(Len(t) - 1) PROVE t[i] < t[i + 1]
        <4>1. i \in 1..Len(s) /\ t[i] = s[i] BY <3>2, <2>3
        <4>2. CASE i = Len(s)
          <5>1. t[i + 1] = n BY <3>2, <4>2
          <5>2. t[i] \in 0..(n - 1) BY <3>3, <4>1, <2>1
          <5> QED BY <5>1, <5>2
        <4>3. CASE i # Len(s)
          <5>1. i \in 1..(Len(s) - 1) /\ i + 1 \in 1..Len(s) BY <4>1, <4>3, <2>3
          <5>2. t[i + 1] = s[i + 1] BY <3>2, <5>1
          <5> QED BY <2>2, <4>1, <5>1, <5>2 DEF Lists
        <4> QED BY <4>2, <4>3
      <3>5. S = {t[i] : i \in 1..Len(t)}
        <4>1. ASSUME NEW y \in S PROVE y \in {t[i] : i \in 1..Len(t)}
          <5>1. CASE y = n
            <6>1. Len(s) + 1 \in 1..Len(t) BY <3>2, <2>3
            <6> QED BY <3>2, <5>1, <6>1
          <5>2. CASE y # n
            <6>1. PICK i \in 1..Len(s) : y = s[i] BY <2>2, <5>2 DEF Lists
            <6>2. i \in 1..Len(t) /\ t[i] = y BY <6>1, <3>2, <2>3
            <6> QED BY <6>2
          <5> QED BY <5>1, <5>2
        <4>2. ASSUME NEW i \in 1..Len(t) PROVE t[i] \in S
          <5>1. i = Len(s) + 1 \/ i \in 1..Len(s) BY <3>2, <2>3
          <5> QED BY <5>1, <3>2, <3>3, <2>5
        <4> QED BY <4>1, <4>2
      <3>6. Lists(t, S) BY <3>2, <3>4, <3>5 DEF Lists
      <3> QED BY <3>6
    <2> QED BY <2>4, <2>5
  <1> HIDE DEF T
  <1>3. T = Nat BY <1>1, <1>2, InductionOn DEF T
  <1> QED BY <1>3 DEF T

(* The recursive definition of the sort has a solution, the ascending      *)
(* lists, and is it.                                                       *)
LEMMA SortedUniqueIs ==
  ASSUME HitReportAssumption, NEW s, NEW S \in SUBSET Coordinate, Lists(s, S)
  PROVE  SortedUnique[S] = s
  <1> DEFINE V(U) == CHOOSE t : Lists(t, U)
             g == [U \in SUBSET Coordinate |-> V(U)]
  <1>1. ASSUME NEW U \in SUBSET Coordinate PROVE Lists(V(U), U)
    <2>1. PICK n \in Nat : Coordinate = 0..(n - 1)
      <3>1. NumTileM * TileSize + NumTileN * TileSize + 1 \in Nat
        BY DEF HitReportAssumption, TileSize
      <3>2. PICK n \in Nat : n = NumTileM * TileSize + NumTileN * TileSize + 1 BY <3>1
      <3>3. n - 1 = NumTileM * TileSize + NumTileN * TileSize
        BY <3>2 DEF HitReportAssumption, TileSize
      <3> QED BY <3>3 DEF Coordinate
    <2>2. \E t : Lists(t, U) BY <2>1, ListExists
    <2> QED BY <2>2, Zenon
  <1> HIDE DEF V
  <1>2. ASSUME NEW U \in SUBSET Coordinate PROVE Lists(g[U], U)
    BY <1>1
  <1>3. g = [U \in SUBSET Coordinate |-> g[U]] OBVIOUS
  <1> HIDE DEF g
  <1>4. ASSUME NEW U \in SUBSET Coordinate
        PROVE g[U] = IF U = {} THEN <<>> ELSE <<Least(U)>> \o g[U \ {Least(U)}]
    <2>1. PICK t : t = g[U] OBVIOUS
    <2>2. Lists(t, U) BY <2>1, <1>2
    <2>3. CASE t = <<>>
      <3>1. U = {} BY <2>2, <2>3 DEF Lists
      <3> QED BY <3>1, <2>1, <2>3
    <2>4. CASE t # <<>>
      <3>1. /\ U # {} /\ Least(U) = t[1] /\ Lists(Tail(t), U \ {t[1]})
            /\ t = <<t[1]>> \o Tail(t)
        BY <2>2, <2>4, HeadIsLeast
      <3>2. U \ {t[1]} \in SUBSET Coordinate OBVIOUS
      <3>3. Lists(g[U \ {t[1]}], U \ {t[1]}) BY <3>2, <1>2
      <3>4. g[U \ {t[1]}] = Tail(t) BY <3>1, <3>3, ListUnique
      <3> QED BY <3>1, <3>4, <2>1
    <2> QED BY <2>3, <2>4
  <1>5. g = [U \in SUBSET Coordinate |->
               IF U = {} THEN <<>> ELSE <<Least(U)>> \o g[U \ {Least(U)}]]
    BY <1>4, <1>3
  <1>6. SortedUnique = [U \in SUBSET Coordinate |->
               IF U = {} THEN <<>> ELSE <<Least(U)>> \o SortedUnique[U \ {Least(U)}]]
    BY <1>5, Zenon DEF SortedUnique
  <1>7. \A U \in SUBSET Coordinate : SortedUnique[U] =
               IF U = {} THEN <<>> ELSE <<Least(U)>> \o SortedUnique[U \ {Least(U)}]
    BY <1>6
  <1> DEFINE T == {n \in Nat : \A t, U : U \in SUBSET Coordinate /\ Lists(t, U) /\ Len(t) = n
                                 => SortedUnique[U] = t}
  <1>8. 0 \in T
    <2> SUFFICES ASSUME NEW t, NEW U \in SUBSET Coordinate, Lists(t, U), Len(t) = 0
                 PROVE  SortedUnique[U] = t
      OBVIOUS
    <2>1. t = <<>> /\ U = {} BY DEF Lists
    <2> QED BY <2>1, <1>7
  <1>9. ASSUME NEW n \in T PROVE n + 1 \in T
    <2> SUFFICES ASSUME NEW t, NEW U \in SUBSET Coordinate, Lists(t, U), Len(t) = n + 1
                 PROVE  SortedUnique[U] = t
      OBVIOUS
    <2>1. t # <<>> OBVIOUS
    <2>2. /\ U # {} /\ Least(U) = t[1] /\ Lists(Tail(t), U \ {t[1]})
          /\ t = <<t[1]>> \o Tail(t)
      BY <2>1, HeadIsLeast
    <2>3. Len(Tail(t)) = n BY <2>1, HeadTailProperties DEF Lists
    <2>4. U \ {t[1]} \in SUBSET Coordinate OBVIOUS
    <2>5. SortedUnique[U \ {t[1]}] = Tail(t) BY <2>2, <2>3, <2>4
    <2>6. SortedUnique[U] = <<Least(U)>> \o SortedUnique[U \ {Least(U)}] BY <1>7, <2>2
    <2> QED BY <2>2, <2>5, <2>6
  <1> HIDE DEF T
  <1>10. T = Nat BY <1>8, <1>9, InductionOn DEF T
  <1>11. Len(s) \in T BY <1>10 DEF Lists
  <1> QED BY <1>11 DEF T

-----------------------------------------------------------------------------
(* One level of the pattern's recursion, over a function of shorter lists. *)
Level(f, p) ==
  IF Len(p) <= 1 THEN <<>>
  ELSE IF Periods(p) = {} THEN << <<1, 0>> >>
  ELSE LET q == Least(Periods(p))
       IN  Append(f[SubSeq(p, 1, q)], <<p[q + 1], Len(p) \div q>>)
Short(n) == {p \in Seq(Nat) : Len(p) <= n}
IsStrides(f, n) == \A p \in Short(n) : f[p] = Level(f, p)

(* The least of a set of numbers is one of them.                           *)
LEMMA LeastIn ==
  ASSUME NEW S \in SUBSET Nat, S # {}
  PROVE  Least(S) \in S /\ \A y \in S : Least(S) <= y
  <1>1. PICK x \in S : \A y \in S : x <= y BY LeastNat
  <1> QED BY <1>1, Zenon DEF Least

(* The period of a list is shorter than the list.                          *)
LEMMA PeriodIsShorter ==
  ASSUME NEW p \in Seq(Nat), Periods(p) # {}
  PROVE  /\ Least(Periods(p)) \in 1..(Len(p) - 1)
         /\ SubSeq(p, 1, Least(Periods(p))) \in Seq(Nat)
         /\ Len(SubSeq(p, 1, Least(Periods(p)))) = Least(Periods(p))
  <1>1. Periods(p) \in SUBSET (1..(Len(p) - 1)) BY DEF Periods
  <1>2. Periods(p) \in SUBSET Nat BY <1>1
  <1>3. PICK q : q = Least(Periods(p)) OBVIOUS
  <1>4. q \in 1..(Len(p) - 1) BY <1>1, <1>2, <1>3, LeastIn
  <1>5. SubSeq(p, 1, q) \in Seq(Nat) /\ Len(SubSeq(p, 1, q)) = q
    BY <1>4
  <1> QED BY <1>3, <1>4, <1>5

(* A level depends on what the function says of shorter lists only.        *)
LEMMA LevelDependsBelow ==
  ASSUME NEW f, NEW g, NEW p \in Seq(Nat), NEW n \in Nat, Len(p) <= n + 1,
         \A r \in Short(n) : f[r] = g[r]
  PROVE  Level(f, p) = Level(g, p)
  <1>1. CASE Len(p) <= 1 \/ Periods(p) = {} BY <1>1 DEF Level
  <1>2. CASE ~(Len(p) <= 1) /\ Periods(p) # {}
    <2>1. PICK q : q = Least(Periods(p)) OBVIOUS
    <2>2. q \in 1..(Len(p) - 1) /\ SubSeq(p, 1, q) \in Seq(Nat) /\ Len(SubSeq(p, 1, q)) = q
      BY <1>2, <2>1, PeriodIsShorter
    <2>3. SubSeq(p, 1, q) \in Short(n) BY <2>2 DEF Short
    <2>4. f[SubSeq(p, 1, q)] = g[SubSeq(p, 1, q)] BY <2>3
    <2> QED BY <1>2, <2>1, <2>4, Zenon DEF Level
  <1> QED BY <1>1, <1>2

(* Two solutions agree where both are defined.                             *)
LEMMA StridesUnique ==
  ASSUME NEW f, NEW g, NEW n \in Nat, NEW m \in Nat, n <= m, IsStrides(f, n), IsStrides(g, m)
  PROVE  \A p \in Short(n) : f[p] = g[p]
  <1> DEFINE T == {x \in Nat : \A p \in Short(x) : p \in Short(n) => f[p] = g[p]}
  <1>0. \A p \in Short(n) : p \in Seq(Nat) /\ p \in Short(m) BY DEF Short
  <1>1. 0 \in T
    <2> SUFFICES ASSUME NEW p \in Short(0), p \in Short(n) PROVE f[p] = g[p] OBVIOUS
    <2>1. f[p] = Level(f, p) /\ g[p] = Level(g, p) BY <1>0 DEF IsStrides
    <2>2. Len(p) <= 1 BY DEF Short
    <2> QED BY <2>1, <2>2 DEF Level
  <1>2. ASSUME NEW x \in T PROVE x + 1 \in T
    <2> SUFFICES ASSUME NEW p \in Short(x + 1), p \in Short(n) PROVE f[p] = g[p] OBVIOUS
    <2>1. f[p] = Level(f, p) /\ g[p] = Level(g, p) BY <1>0 DEF IsStrides
    <2>2. p \in Seq(Nat) /\ Len(p) <= x + 1 /\ Len(p) <= n BY DEF Short
    <2>3. PICK k \in Nat : k + 1 >= Len(p) /\ k <= x /\ k <= n
      <3>1. CASE Len(p) = 0 BY <3>1
      <3>2. CASE Len(p) # 0
        <4>1. Len(p) - 1 \in Nat /\ Len(p) - 1 + 1 >= Len(p) /\ Len(p) - 1 <= x /\ Len(p) - 1 <= n
          BY <3>2, <2>2
        <4> QED BY <4>1
      <3> QED BY <3>1, <3>2
    <2>4. \A r \in Short(k) : r \in Short(x) /\ r \in Short(n) BY <2>3 DEF Short
    <2>5. \A r \in Short(k) : f[r] = g[r] BY <2>4
    <2> QED BY <2>1, <2>2, <2>3, <2>5, LevelDependsBelow
  <1> HIDE DEF T
  <1>3. T = Nat BY <1>1, <1>2, InductionOn DEF T
  <1> QED BY <1>3 DEF T

(* The recursion has a solution up to any length.                          *)
LEMMA StridesUpTo == \A n \in Nat : \E f : IsStrides(f, n)
  <1> DEFINE T == {n \in Nat : \E f : IsStrides(f, n)}
  <1>1. 0 \in T
    <2> DEFINE f == [p \in Short(0) |-> <<>>]
    <2>1. IsStrides(f, 0)
      <3> SUFFICES ASSUME NEW p \in Short(0) PROVE f[p] = Level(f, p) BY Zenon DEF IsStrides
      <3>1. Len(p) <= 1 BY DEF Short
      <3> QED BY <3>1 DEF Level
    <2> QED BY <2>1
  <1>2. ASSUME NEW n \in T PROVE n + 1 \in T
    <2>1. PICK f : IsStrides(f, n) OBVIOUS
    <2> DEFINE g == [p \in Short(n + 1) |-> Level(f, p)]
    <2>2. \A p \in Short(n + 1) : g[p] = Level(f, p) BY Zenon
    <2> HIDE DEF g
    <2>3. ASSUME NEW p \in Short(n) PROVE f[p] = g[p]
      <3>1. p \in Short(n + 1) BY DEF Short
      <3> QED BY <2>1, <2>2, <3>1 DEF IsStrides
    <2>4. ASSUME NEW p \in Short(n + 1) PROVE g[p] = Level(g, p)
      <3>1. p \in Seq(Nat) /\ Len(p) <= n + 1 BY DEF Short
      <3>2. Level(f, p) = Level(g, p) BY <3>1, <2>3, LevelDependsBelow
      <3> QED BY <3>2, <2>2
    <2>5. IsStrides(g, n + 1) BY <2>4, Zenon DEF IsStrides
    <2> QED BY <2>5
  <1> HIDE DEF T
  <1>3. T = Nat BY <1>1, <1>2, InductionOn DEF T
  <1> QED BY <1>3 DEF T

(* Strides is that solution.                                               *)
LEMMA StridesDef == \A p \in Seq(Nat) : Strides[p] = Level(Strides, p)
  <1> DEFINE G(n) == CHOOSE f : IsStrides(f, n)
             P == [p \in Seq(Nat) |-> G(Len(p))[p]]
  <1>1. \A n \in Nat : IsStrides(G(n), n) BY StridesUpTo
  <1> HIDE DEF G
  <1>2. ASSUME NEW p \in Seq(Nat) PROVE P[p] = Level(P, p)
    <2>0. PICK n \in Nat : n = Len(p) OBVIOUS
    <2>1. P[p] = G(n)[p] BY <2>0
    <2>2. G(n)[p] = Level(G(n), p)
      <3>1. p \in Short(n) BY <2>0 DEF Short
      <3> QED BY <3>1, <1>1 DEF IsStrides
    <2>3. ASSUME NEW r \in Short(n) PROVE G(n)[r] = P[r]
      <3>1. r \in Seq(Nat) /\ Len(r) \in Nat /\ Len(r) <= n BY DEF Short
      <3>2. r \in Short(Len(r)) BY <3>1 DEF Short
      <3>3. G(Len(r))[r] = G(n)[r] BY <3>1, <3>2, <1>1, StridesUnique
      <3> QED BY <3>1, <3>3
    <2> HIDE DEF P
    <2>4. Level(G(n), p) = Level(P, p) BY <2>0, <2>3, LevelDependsBelow
    <2> QED BY <2>1, <2>2, <2>4
  <1>3. P = [p \in Seq(Nat) |-> Level(P, p)] BY <1>2
  <1> HIDE DEF P
  <1>4. Strides = [p \in Seq(Nat) |-> Level(Strides, p)]
    BY <1>3, Zenon DEF Strides, Level
  <1> QED BY <1>4

(* A list of one index has no stride.                                      *)
LEMMA NoStride ==
  ASSUME NEW p \in Seq(Nat), Len(p) <= 1
  PROVE  Strides[p] = <<>>
  <1>1. Strides[p] = Level(Strides, p) BY StridesDef
  <1> QED BY <1>1 DEF Level

(* A list is cut at a period below which there is none.                    *)
LEMMA CutAt ==
  ASSUME NEW p \in Seq(Nat), NEW q \in 1..(Len(p) - 1), q \in Periods(p),
         \A r \in 1..(q - 1) : r \notin Periods(p)
  PROVE  Strides[p] = Append(Strides[SubSeq(p, 1, q)], <<p[q + 1], Len(p) \div q>>)
  <1>1. Strides[p] = Level(Strides, p) BY StridesDef
  <1>2. Periods(p) \in SUBSET Nat /\ \A r \in Periods(p) : q <= r
    <2>1. \A r \in Periods(p) : r \in 1..(Len(p) - 1) BY DEF Periods
    <2>2. Len(p) \in Nat OBVIOUS
    <2>3. \A r \in Periods(p) : r \in Nat BY <2>1, <2>2
    <2>4. ASSUME NEW r \in Periods(p) PROVE q <= r
      <3> SUFFICES ASSUME ~(q <= r) PROVE FALSE OBVIOUS
      <3>1. r \in 1..(q - 1) BY <2>1, <2>2
      <3> QED BY <3>1
    <2> QED BY <2>3, <2>4
  <1>3. Least(Periods(p)) = q BY <1>2, LeastIs
  <1>4. ~(Len(p) <= 1) /\ Periods(p) # {} OBVIOUS
  <1> QED BY <1>1, <1>3, <1>4, Zenon DEF Level

(* The prefix a list is cut to.                                            *)
LEMMA Prefix ==
  ASSUME NEW p \in Seq(Nat), NEW q \in 1..Len(p)
  PROVE  /\ SubSeq(p, 1, q) \in Seq(Nat) /\ Len(SubSeq(p, 1, q)) = q
         /\ \A i \in 1..q : SubSeq(p, 1, q)[i] = p[i]
  OBVIOUS

(* A list of one stride: what is cut to its first index.                   *)
LEMMA CutAtOne ==
  ASSUME NEW p \in Seq(Nat), Len(p) > 1,
         \A i \in 1..(Len(p) - 1) : p[i + 1] = p[i] + p[2]
  PROVE  Strides[p] = << <<p[2], Len(p)>> >>
  <1>1. 1 \in 1..(Len(p) - 1) /\ 1 \in 1..Len(p) /\ Len(p) % 1 = 0 /\ Len(p) \div 1 = Len(p)
    OBVIOUS
  <1>2. 1 \in Periods(p)
    <2>1. \A i \in 1..(Len(p) - 1) : p[i + 1] = p[i] + p[1 + 1] OBVIOUS
    <2> QED BY <1>1, <2>1 DEF Periods
  <1>3. \A r \in 1..(1 - 1) : r \notin Periods(p) OBVIOUS
  <1>4. Strides[p] = Append(Strides[SubSeq(p, 1, 1)], <<p[1 + 1], Len(p) \div 1>>)
    BY <1>1, <1>2, <1>3, CutAt
  <1>5. PICK t : t = SubSeq(p, 1, 1) OBVIOUS
  <1>6. t \in Seq(Nat) /\ Len(t) = 1 BY <1>1, <1>5, Prefix
  <1>7. Len(t) <= 1 BY <1>6
  <1>8. Strides[t] = <<>> BY <1>6, <1>7, NoStride
  <1> QED BY <1>1, <1>4, <1>5, <1>8

(* The patterns of the jobs are lists of numbers.                          *)
LEMMA PatternTypes ==
  /\ CppRows \in Seq(Nat) /\ Len(CppRows) = 2
  /\ TritonRows \in Seq(Nat) /\ Len(TritonRows) = 2
  /\ CppCols \in Seq(Nat) /\ Len(CppCols) = 32
  /\ TritonCols \in Seq(Nat) /\ Len(TritonCols) = 128
  <1>1. CppCols \in [1..32 -> Nat] BY DEF CppCols
  <1>2. TritonCols \in [1..128 -> Nat] BY DEF TritonCols
  <1>3. ASSUME NEW n \in Nat, NEW s \in [1..n -> Nat]
        PROVE  s \in Seq(Nat) /\ Len(s) = n
    OBVIOUS
  <1>4. CppCols \in Seq(Nat) /\ Len(CppCols) = 32 BY <1>1, <1>3
  <1>5. TritonCols \in Seq(Nat) /\ Len(TritonCols) = 128 BY <1>2, <1>3
  <1>6. CppRows \in Seq(Nat) /\ Len(CppRows) = 2 BY DEF CppRows
  <1>7. TritonRows \in Seq(Nat) /\ Len(TritonRows) = 2 BY DEF TritonRows
  <1> QED BY <1>4, <1>5, <1>6, <1>7

(* Two indices d apart are one stride.                                     *)
LEMMA TwoStride ==
  ASSUME NEW d \in Nat
  PROVE  Strides[<<0, d>>] = << <<d, 2>> >>
  <1>1. PICK p : p = <<0, d>> OBVIOUS
  <1>2. p \in Seq(Nat) /\ Len(p) = 2 /\ p[1] = 0 /\ p[2] = d BY <1>1
  <1>3. \A i \in 1..(Len(p) - 1) : p[i + 1] = p[i] + p[2]
    <2>1. \A i \in 1..(Len(p) - 1) : i = 1 BY <1>2
    <2>2. p[1 + 1] = p[1] + p[2] BY <1>2
    <2> QED BY <2>1, <2>2
  <1>4. Len(p) > 1 BY <1>2
  <1>5. Strides[p] = << <<p[2], Len(p)>> >> BY <1>2, <1>3, <1>4, CutAtOne
  <1> QED BY <1>1, <1>2, <1>5

(* A run of columns is one stride of 1.                                    *)
LEMMA RunStride == Strides[TritonCols] = << <<1, 128>> >>
  <1>1. PICK p : p = TritonCols OBVIOUS
  <1>2. p \in Seq(Nat) /\ Len(p) = 128 BY <1>1, PatternTypes
  <1>3. \A i \in 1..128 : p[i] = i - 1 BY <1>1 DEF TritonCols
  <1>4. \A i \in 1..(Len(p) - 1) : p[i + 1] = p[i] + p[2]
    <2>1. p[2] = 1 BY <1>3
    <2>2. ASSUME NEW i \in 1..127 PROVE p[i + 1] = p[i] + 1
      <3>1. i \in 1..128 /\ i + 1 \in 1..128 OBVIOUS
      <3>2. p[i] = i - 1 /\ p[i + 1] = i + 1 - 1 BY <3>1, <1>3
      <3> QED BY <3>2
    <2>3. Len(p) - 1 = 127 BY <1>2
    <2> QED BY <2>1, <2>2, <2>3
  <1>5. p[2] = 1 /\ Len(p) > 1 BY <1>2, <1>3
  <1>6. Strides[p] = << <<p[2], Len(p)>> >> BY <1>2, <1>4, <1>5, CutAtOne
  <1> QED BY <1>1, <1>2, <1>5, <1>6

(* Pairs of columns every eighth are two strides.                          *)
LEMMA PairStride == Strides[CppCols] = << <<1, 2>>, <<8, 16>> >>
  <1>1. PICK p : p = CppCols OBVIOUS
  <1>2. p \in Seq(Nat) /\ Len(p) = 32 BY <1>1, PatternTypes
  <1>3. \A i \in 1..32 : p[i] = ((i - 1) \div 2) * 8 + ((i - 1) % 2)
    BY <1>1 DEF CppCols
  <1>4. p[1] = 0 /\ p[2] = 1 /\ p[3] = 8
    <2>1. 1 \in 1..32 /\ 2 \in 1..32 /\ 3 \in 1..32 OBVIOUS
    <2>2. /\ ((1 - 1) \div 2) * 8 + ((1 - 1) % 2) = 0
          /\ ((2 - 1) \div 2) * 8 + ((2 - 1) % 2) = 1
          /\ ((3 - 1) \div 2) * 8 + ((3 - 1) % 2) = 8
      OBVIOUS
    <2> QED BY <2>1, <2>2, <1>3
  <1>5. \A i \in 1..(32 - 2) : p[i + 2] = p[i] + p[2 + 1]
    <2> SUFFICES ASSUME NEW i \in 1..30 PROVE p[i + 2] = p[i] + p[3] OBVIOUS
    <2>1. i \in 1..32 /\ i + 2 \in 1..32 OBVIOUS
    <2>2. p[i + 2] = ((i + 2 - 1) \div 2) * 8 + ((i + 2 - 1) % 2)
      BY <2>1, <1>3
    <2>3. p[i] = ((i - 1) \div 2) * 8 + ((i - 1) % 2)
      BY <2>1, <1>3
    <2>4. (i + 2 - 1) \div 2 = (i - 1) \div 2 + 1 /\ (i + 2 - 1) % 2 = (i - 1) % 2 BY <2>1
    <2> QED BY <2>2, <2>3, <2>4, <1>4
  <1>6. 2 \in 1..(Len(p) - 1) /\ 1 \in 1..(Len(p) - 1) /\ 2 \in 1..Len(p) BY <1>2
  <1>7. 2 \in Periods(p)
    <2>1. Len(p) % 2 = 0 /\ \A i \in 1..(Len(p) - 2) : i \in 1..(32 - 2) BY <1>2
    <2> QED BY <1>5, <1>6, <2>1 DEF Periods
  <1>8. \A r \in 1..(2 - 1) : r \notin Periods(p)
    <2>1. 2 \in 1..(Len(p) - 1) /\ p[2 + 1] # p[2] + p[1 + 1] BY <1>6, <1>4
    <2>2. 1 \notin Periods(p) BY <2>1 DEF Periods
    <2> QED BY <2>2
  <1>9. Strides[p] = Append(Strides[SubSeq(p, 1, 2)], <<p[2 + 1], Len(p) \div 2>>)
    BY <1>2, <1>6, <1>7, <1>8, CutAt
  <1>10. SubSeq(p, 1, 2) = <<0, 1>>
    <2>1. PICK t : t = SubSeq(p, 1, 2) OBVIOUS
    <2>2. t \in Seq(Nat) /\ Len(t) = 2 /\ \A i \in 1..2 : t[i] = p[i]
      BY <2>1, <1>2, <1>6, Prefix
    <2>3. t[1] = 0 /\ t[2] = 1 BY <2>2, <1>4
    <2>4. PICK u : u = <<0, 1>> OBVIOUS
    <2>5. u \in Seq(Nat) /\ Len(u) = 2 /\ u[1] = 0 /\ u[2] = 1 BY <2>4
    <2>6. \A i \in 1..Len(t) : t[i] = u[i]
      <3>1. \A i \in 1..Len(t) : i = 1 \/ i = 2 BY <2>2
      <3> QED BY <2>3, <2>5, <3>1
    <2>7. t = u BY <2>2, <2>5, <2>6
    <2> QED BY <2>1, <2>4, <2>7
  <1>11. Strides[<<0, 1>>] = << <<1, 2>> >> BY TwoStride
  <1>12. Len(p) \div 2 = 16 /\ p[2 + 1] = 8 BY <1>2, <1>4
  <1>13. Strides[p] = Append(<< <<1, 2>> >>, <<8, 16>>) BY <1>9, <1>10, <1>11, <1>12, Zenon
  <1>14. Append(<< <<1, 2>> >>, <<8, 16>>) = << <<1, 2>>, <<8, 16>> >>
    <2> DEFINE D == Nat \X Nat
    <2>1. PICK a : a = <<1, 2>> OBVIOUS
    <2>2. PICK b : b = <<8, 16>> OBVIOUS
    <2>3. a \in D /\ b \in D BY <2>1, <2>2
    <2> HIDE DEF D
    <2>4. PICK t : t = Append(<<a>>, b) OBVIOUS
    <2>5. <<a>> \in Seq(D) /\ Len(<<a>>) = 1 /\ <<a>>[1] = a BY <2>3
    <2>6. t \in Seq(D) /\ Len(t) = 2 /\ t[1] = a /\ t[2] = b BY <2>3, <2>4, <2>5
    <2>7. PICK u : u = <<a, b>> OBVIOUS
    <2>8. u \in Seq(D) /\ Len(u) = 2 /\ u[1] = a /\ u[2] = b BY <2>3, <2>7
    <2>9. \A i \in 1..Len(t) : i = 1 \/ i = 2 BY <2>6
    <2>10. \A i \in 1..Len(t) : t[i] = u[i] BY <2>6, <2>8, <2>9
    <2>11. t = u BY <2>6, <2>8, <2>10
    <2> QED BY <2>1, <2>2, <2>4, <2>7, <2>11
  <1> QED BY <1>1, <1>13, <1>14

(* The shapes of the patterns.                                             *)
LEMMA ShapesAre ==
  /\ Shape(CppRows) = << <<8, 2>>, <<16, 1>>, <<16, 1>> >>
  /\ Shape(CppCols) = << <<1, 2>>, <<8, 16>>, <<128, 1>> >>
  /\ Shape(TritonRows) = << <<1, 2>>, <<2, 1>>, <<2, 1>> >>
  /\ Shape(TritonCols) = << <<1, 128>>, <<128, 1>>, <<128, 1>> >>
  <1>1. ASSUME NEW p, NEW a \in Nat, NEW n \in Nat, NEW m \in Nat, Strides[p] = << <<a, n>> >>,
               m = a * n
        PROVE  Shape(p) = << <<a, n>>, <<m, 1>>, <<m, 1>> >>
    <2>1. PICK s : s = << <<a, n>> >> OBVIOUS
    <2>2. s # <<>> /\ Len(s) = 1 /\ s[1] = <<a, n>> BY <2>1
    <2>3. PeriodOf(s[Len(s)]) = m BY <1>1, <2>2 DEF PeriodOf
    <2>4. Shape(p) = [i \in 1..3 |-> IF i <= Len(s) THEN s[i] ELSE <<m, 1>>]
      BY <1>1, <2>1, <2>2, <2>3 DEF Shape, Dims
    <2>5. [i \in 1..3 |-> IF i <= Len(s) THEN s[i] ELSE <<m, 1>>]
            = << <<a, n>>, <<m, 1>>, <<m, 1>> >>
      BY <2>2
    <2> QED BY <2>4, <2>5
  <1>2. Shape(CppRows) = << <<8, 2>>, <<16, 1>>, <<16, 1>> >>
    BY <1>1, TwoStride DEF CppRows
  <1>3. Shape(TritonRows) = << <<1, 2>>, <<2, 1>>, <<2, 1>> >>
    BY <1>1, TwoStride DEF TritonRows
  <1>4. Shape(TritonCols) = << <<1, 128>>, <<128, 1>>, <<128, 1>> >>
    BY <1>1, RunStride
  <1>5. Shape(CppCols) = << <<1, 2>>, <<8, 16>>, <<128, 1>> >>
    <2>1. PICK s : s = << <<1, 2>>, <<8, 16>> >> OBVIOUS
    <2>2. s # <<>> /\ Len(s) = 2 /\ s[1] = <<1, 2>> /\ s[2] = <<8, 16>> BY <2>1
    <2>3. PeriodOf(s[Len(s)]) = 128 BY <2>2 DEF PeriodOf
    <2>4. Shape(CppCols) = [i \in 1..3 |-> IF i <= Len(s) THEN s[i] ELSE <<128, 1>>]
      BY PairStride, <2>1, <2>2, <2>3 DEF Shape, Dims
    <2>5. [i \in 1..3 |-> IF i <= Len(s) THEN s[i] ELSE <<128, 1>>]
            = << <<1, 2>>, <<8, 16>>, <<128, 1>> >>
      BY <2>2
    <2> QED BY <2>4, <2>5
  <1> QED BY <1>2, <1>3, <1>4, <1>5

(* Three dimensions that fit are a valid shape: what the validity of each  *)
(* asks, spelled out.                                                      *)
LEMMA ShapeValid ==
  /\ IsValid(Shape(CppRows)) /\ IsValid(Shape(CppCols))
  /\ IsValid(Shape(TritonRows)) /\ IsValid(Shape(TritonCols))
  <1>0. 1..Dims = {1, 2, 3} BY DEF Dims
  <1>1. ASSUME NEW h, h \in { << <<8, 2>>, <<16, 1>>, <<16, 1>> >>,
                              << <<1, 2>>, <<8, 16>>, <<128, 1>> >>,
                              << <<1, 2>>, <<2, 1>>, <<2, 1>> >>,
                              << <<1, 128>>, <<128, 1>>, <<128, 1>> >> }
        PROVE  IsValid(h)
    <2>1. \A i \in {1, 2, 3} : h[i][1] \in Nat /\ h[i][2] \in Nat BY <1>1
    <2>2. Below(h, 1) = 1 /\ Below(h, 2) = h[1][1] * h[1][2] /\ Below(h, 3) = h[2][1] * h[2][2]
      BY <2>1 DEF Below, PeriodOf
    <2>3. CASE h = << <<8, 2>>, <<16, 1>>, <<16, 1>> >>
      <3>1. /\ h[1][1] = 8 /\ h[1][2] = 2 /\ h[2][1] = 16 /\ h[2][2] = 1 /\ h[3][1] = 16
            /\ h[3][2] = 1
        BY <2>3
      <3>2. Factor(h, 1) = 8 /\ Factor(h, 2) = 1 /\ Factor(h, 3) = 1 BY <2>2, <3>1 DEF Factor
      <3>3. PeriodOf(h[1]) = 16 /\ PeriodOf(h[2]) = 16 /\ PeriodOf(h[3]) = 16
        BY <3>1 DEF PeriodOf
      <3> QED BY <1>0, <2>2, <3>1, <3>2, <3>3 DEF IsValid, MaxPeriod
    <2>4. CASE h = << <<1, 2>>, <<8, 16>>, <<128, 1>> >>
      <3>1. /\ h[1][1] = 1 /\ h[1][2] = 2 /\ h[2][1] = 8 /\ h[2][2] = 16 /\ h[3][1] = 128
            /\ h[3][2] = 1
        BY <2>4
      <3>2. Factor(h, 1) = 1 /\ Factor(h, 2) = 4 /\ Factor(h, 3) = 1 BY <2>2, <3>1 DEF Factor
      <3>3. PeriodOf(h[1]) = 2 /\ PeriodOf(h[2]) = 128 /\ PeriodOf(h[3]) = 128
        BY <3>1 DEF PeriodOf
      <3> QED BY <1>0, <2>2, <3>1, <3>2, <3>3 DEF IsValid, MaxPeriod
    <2>5. CASE h = << <<1, 2>>, <<2, 1>>, <<2, 1>> >>
      <3>1. /\ h[1][1] = 1 /\ h[1][2] = 2 /\ h[2][1] = 2 /\ h[2][2] = 1 /\ h[3][1] = 2
            /\ h[3][2] = 1
        BY <2>5
      <3>2. Factor(h, 1) = 1 /\ Factor(h, 2) = 1 /\ Factor(h, 3) = 1 BY <2>2, <3>1 DEF Factor
      <3>3. PeriodOf(h[1]) = 2 /\ PeriodOf(h[2]) = 2 /\ PeriodOf(h[3]) = 2
        BY <3>1 DEF PeriodOf
      <3> QED BY <1>0, <2>2, <3>1, <3>2, <3>3 DEF IsValid, MaxPeriod
    <2>6. CASE h = << <<1, 128>>, <<128, 1>>, <<128, 1>> >>
      <3>1. /\ h[1][1] = 1 /\ h[1][2] = 128 /\ h[2][1] = 128 /\ h[2][2] = 1 /\ h[3][1] = 128
            /\ h[3][2] = 1
        BY <2>6
      <3>2. Factor(h, 1) = 1 /\ Factor(h, 2) = 1 /\ Factor(h, 3) = 1 BY <2>2, <3>1 DEF Factor
      <3>3. PeriodOf(h[1]) = 128 /\ PeriodOf(h[2]) = 128 /\ PeriodOf(h[3]) = 128
        BY <3>1 DEF PeriodOf
      <3> QED BY <1>0, <2>2, <3>1, <3>2, <3>3 DEF IsValid, MaxPeriod
    <2> QED BY <1>1, <2>3, <2>4, <2>5, <2>6
  <1> QED BY <1>1, ShapesAre

(* Every job's pattern is one the verifier can read back.                  *)
LEMMA PatternsOk ==
  ASSUME NEW p
  PROVE  FromListOk(JobRows(p)) /\ FromListOk(JobCols(p))
  <1>1. FromListOk(CppRows)
    <2>1. CppRows # <<>> /\ Increasing(CppRows) /\ CppRows[1] = 0
      BY DEF CppRows, Increasing
    <2>2. Len(Strides[CppRows]) <= Dims BY TwoStride DEF CppRows, Dims
    <2> QED BY <2>1, <2>2, ShapeValid DEF FromListOk
  <1>2. FromListOk(TritonRows)
    <2>1. TritonRows # <<>> /\ Increasing(TritonRows) /\ TritonRows[1] = 0
      BY DEF TritonRows, Increasing
    <2>2. Len(Strides[TritonRows]) <= Dims BY TwoStride DEF TritonRows, Dims
    <2> QED BY <2>1, <2>2, ShapeValid DEF FromListOk
  <1>3. FromListOk(CppCols)
    <2>1. CppCols # <<>> /\ CppCols[1] = 0 BY PatternTypes DEF CppCols
    <2>2. Increasing(CppCols)
      <3>1. ASSUME NEW i \in 1..31 PROVE CppCols[i] < CppCols[i + 1]
        <4>1. i + 1 - 1 = i /\ i \in 1..32 /\ i + 1 \in 1..32 OBVIOUS
        <4>2. CppCols[i] = ((i - 1) \div 2) * 8 + ((i - 1) % 2) BY <4>1 DEF CppCols
        <4>3. CppCols[i + 1] = (i \div 2) * 8 + (i % 2) BY <4>1 DEF CppCols
        <4>4. ((i - 1) \div 2) * 8 + ((i - 1) % 2) < (i \div 2) * 8 + (i % 2) OBVIOUS
        <4> QED BY <4>2, <4>3, <4>4
      <3>2. Len(CppCols) - 1 = 31 BY PatternTypes
      <3> QED BY <3>1, <3>2 DEF Increasing
    <2>3. Len(Strides[CppCols]) <= Dims BY PairStride DEF Dims
    <2> QED BY <2>1, <2>2, <2>3, ShapeValid DEF FromListOk
  <1>4. FromListOk(TritonCols)
    <2>1. TritonCols # <<>> /\ TritonCols[1] = 0 BY PatternTypes DEF TritonCols
    <2>2. Increasing(TritonCols)
      <3>1. \A i \in 1..127 : TritonCols[i] < TritonCols[i + 1] BY DEF TritonCols
      <3>2. Len(TritonCols) - 1 = 127 BY PatternTypes
      <3> QED BY <3>1, <3>2 DEF Increasing
    <2>3. Len(Strides[TritonCols]) <= Dims BY RunStride DEF Dims
    <2> QED BY <2>1, <2>2, <2>3, ShapeValid DEF FromListOk
  <1> QED BY <1>1, <1>2, <1>3, <1>4 DEF JobRows, JobCols

(* The offset of a pattern, dimension by dimension from the outermost.     *)
LEMMA OffsetValid ==
  ASSUME NEW h, NEW o,
         LET a == Rest(h, o, 3)
             b == Rest(h, a, 2)
             c == Rest(h, b, 1)
         IN  a < h[3][1] /\ b < h[2][1] /\ c < h[1][1]
  PROVE  OffsetIsValid(h, o)
  <1>1. PICK a : a = Rest(h, o, 3) OBVIOUS
  <1>2. PICK b : b = Rest(h, a, 2) OBVIOUS
  <1>3. PICK c : c = Rest(h, b, 1) OBVIOUS
  <1>4. a < h[3][1] /\ b < h[2][1] /\ c < h[1][1] BY <1>1, <1>2, <1>3
  <1> DEFINE R(i, x) == Rest(h, x, i)
             left == CHOOSE f : f = [i \in 1..Dims |-> R(i, IF i = Dims THEN o ELSE f[i + 1])]
             l == [i \in 1..3 |-> IF i = 3 THEN a ELSE IF i = 2 THEN b ELSE c]
  <1>5. R(3, o) = a /\ R(2, a) = b /\ R(1, b) = c BY <1>1, <1>2, <1>3
  <1> HIDE DEF R
  <1>6. l = [i \in 1..3 |-> R(i, IF i = 3 THEN o ELSE l[i + 1])]
    <2>1. l[3] = a /\ l[2] = b /\ l[1] = c OBVIOUS
    <2>2. \A i \in 1..3 : i \in {1, 2, 3} OBVIOUS
    <2>3. \A i \in 1..3 : l[i] = R(i, IF i = 3 THEN o ELSE l[i + 1]) BY <2>1, <2>2, <1>5
    <2>4. l = [i \in 1..3 |-> l[i]] OBVIOUS
    <2> HIDE DEF l
    <2> QED BY <2>3, <2>4
  <1> HIDE DEF l
  <1>7. left = [i \in 1..3 |-> R(i, IF i = 3 THEN o ELSE left[i + 1])]
    BY <1>6, Zenon DEF Dims
  <1> HIDE DEF left
  <1>8. \A i \in 1..3 : left[i] = R(i, IF i = 3 THEN o ELSE left[i + 1]) BY <1>7
  <1>9. left[3] = a BY <1>8, <1>5
  <1>10. left[2] = b
    <2>1. left[2] = R(2, left[2 + 1]) BY <1>8
    <2>2. 2 + 1 = 3 OBVIOUS
    <2> QED BY <2>1, <2>2, <1>9, <1>5
  <1>11. left[1] = c
    <2>1. left[1] = R(1, left[1 + 1]) BY <1>8
    <2>2. 1 + 1 = 2 OBVIOUS
    <2> QED BY <2>1, <2>2, <1>10, <1>5
  <1>12. \A i \in 1..Dims : left[i] < h[i][1]
    <2>1. \A i \in 1..Dims : i \in {1, 2, 3} BY DEF Dims
    <2> QED BY <2>1, <1>4, <1>9, <1>10, <1>11
  <1> QED BY <1>12, Zenon DEF OffsetIsValid, left, R

(* The index of a candidate gives its tile and its thread back.            *)
LEMMA IndexInverse ==
  ASSUME HitReportAssumption, NEW p \in Paths, NEW c \in Candidate(p)
  PROVE  /\ (Index(p, c) \div PerTile(p)) \div NumTileN = c[1]
         /\ (Index(p, c) \div PerTile(p)) % NumTileN = c[2]
         /\ Index(p, c) % PerTile(p) = c[3]
  <1>1. NumTileN \in Nat \ {0} /\ PerTile(p) \in Nat \ {0}
    BY DEF HitReportAssumption, PerTile, ThreadsPerTile, HashCandidates
  <1>2. /\ c[1] \in Nat /\ c[2] \in 0..(NumTileN - 1) /\ c[3] \in 0..(PerTile(p) - 1)
    BY DEF Candidate, HitReportAssumption
  <1>3. PICK q \in Nat : q = c[1] * NumTileN + c[2] BY <1>1, <1>2
  <1>4. q \div NumTileN = c[1] /\ q % NumTileN = c[2] BY <1>1, <1>2, <1>3, SplitIs
  <1>5. Index(p, c) = q * PerTile(p) + c[3] BY <1>3 DEF Index
  <1>6. Index(p, c) \div PerTile(p) = q /\ Index(p, c) % PerTile(p) = c[3]
    <2>1. PICK s \in Nat \ {0} : s = PerTile(p) BY <1>1
    <2>2. (q * s + c[3]) \div s = q /\ (q * s + c[3]) % s = c[3]
      BY <1>2, <2>1, SplitIs
    <2> QED BY <1>5, <2>1, <2>2
  <1> QED BY <1>4, <1>6

-----------------------------------------------------------------------------
(* The first row and column, within its tile, of a candidate.              *)
RowAt(p, t) == IF p = "CppSearch" THEN 16 * (t \div 32) + (t % 32) \div 4 ELSE 2 * t
ColAt(p, t) == IF p = "CppSearch" THEN 2 * (t % 4) ELSE 0
Reach(b, s, n) == {b + s[i] : i \in 1..n}
Spread(o, pattern) == {o + pattern[k] : k \in 1..Len(pattern)}
HeaderRows(p, t) == IF p = "CppSearch" THEN CppHeaderRows(t) ELSE TritonHeaderRows(t)
HeaderCols(p, t) == IF p = "CppSearch" THEN CppHeaderCols(t) ELSE TritonHeaderCols(t)
Cells(p, t) == IF p = "CppSearch" THEN CppCells(t) ELSE TritonCells(t)

(* A candidate lies inside its tile, at an offset its pattern takes.       *)
LEMMA OffsetsWithin ==
  ASSUME NEW p, NEW t \in 0..(PerTile(p) - 1)
  PROVE  /\ RowAt(p, t) \in Nat /\ ColAt(p, t) \in Nat
         /\ p = "CppSearch" =>
              /\ RowAt(p, t) % 16 < 8 /\ RowAt(p, t) <= 119
              /\ ColAt(p, t) % 2 = 0 /\ ColAt(p, t) <= 6
         /\ p # "CppSearch" =>
              RowAt(p, t) % 2 = 0 /\ RowAt(p, t) <= 126 /\ ColAt(p, t) = 0
  <1>1. CASE p = "CppSearch"
    <2>1. t \in 0..255 BY <1>1 DEF PerTile, ThreadsPerTile
    <2>2. RowAt(p, t) = 16 * (t \div 32) + (t % 32) \div 4 /\ ColAt(p, t) = 2 * (t % 4)
      BY <1>1 DEF RowAt, ColAt
    <2>3. t \div 32 \in 0..7 /\ (t % 32) \div 4 \in 0..7 /\ t % 4 \in 0..3 BY <2>1
    <2> QED BY <1>1, <2>2, <2>3
  <1>2. CASE p # "CppSearch"
    <2>1. t \in 0..63 BY <1>2 DEF PerTile, HashCandidates
    <2>2. RowAt(p, t) = 2 * t /\ ColAt(p, t) = 0 BY <1>2 DEF RowAt, ColAt
    <2> QED BY <1>2, <2>1, <2>2
  <1> QED BY <1>1, <1>2

(* The rows of the header of the C++ search: two, eight apart.             *)
LEMMA CppRowsSpread ==
  ASSUME NEW t \in 0..255, NEW o \in Nat, NEW b \in Nat,
         o = b + (16 * (t \div 32) + (t % 32) \div 4)
  PROVE  Reach(b, CppHeaderRows(t), 64) = Spread(o, CppRows)
  <1>1. t \div 32 \in 0..7 /\ (t % 32) \div 4 \in 0..7 OBVIOUS
  <1>2. PICK r \in 0..119 : r = (t \div 32) * 16 + (t % 32) \div 4 /\ o = b + r BY <1>1
  <1>3. \A i \in 1..64 : CppHeaderRows(t)[i] = IF (i - 1) % 4 < 2 THEN r ELSE r + 8
    <2> SUFFICES ASSUME NEW i \in 1..64
                 PROVE  CppHeaderRows(t)[i] = IF (i - 1) % 4 < 2 THEN r ELSE r + 8
      OBVIOUS
    <2>1. CppHeaderRows(t)[i] = U8(r + (IF (i - 1) % 4 < 2 THEN 0 ELSE 8))
      BY <1>2 DEF CppHeaderRows, Warp, Gid, Lane
    <2> QED BY <2>1 DEF U8
  <1>4. Spread(o, CppRows) = {o, o + 8}
    <2>1. Len(CppRows) = 2 /\ CppRows[1] = 0 /\ CppRows[2] = 8 BY DEF CppRows
    <2>2. \A k \in 1..2 : k = 1 \/ k = 2 OBVIOUS
    <2> QED BY <2>1, <2>2 DEF Spread
  <1>5. b + CppHeaderRows(t)[1] = o /\ b + CppHeaderRows(t)[3] = o + 8
    BY <1>2, <1>3
  <1>6. \A i \in 1..64 : b + CppHeaderRows(t)[i] \in {o, o + 8} BY <1>2, <1>3
  <1> QED BY <1>4, <1>5, <1>6 DEF Reach

(* Its columns: sixteen pairs.                                             *)
LEMMA CppColsSpread ==
  ASSUME NEW t \in 0..255, NEW o \in Nat, NEW b \in Nat, o = b + 2 * (t % 4)
  PROVE  Reach(b, CppHeaderCols(t), 64) = Spread(o, CppCols)
  <1>1. PICK e \in 0..6 : e = 2 * (t % 4) /\ o = b + e OBVIOUS
  <1>2. ASSUME NEW i \in 1..64
        PROVE  CppHeaderCols(t)[i] = ((i - 1) \div 4) * 8 + e + ((i - 1) % 2)
    <2>1. (t % 32) % 4 = t % 4 OBVIOUS
    <2>2. CppHeaderCols(t)[i] = U8(((i - 1) \div 4) * 8 + e + ((i - 1) % 2))
      BY <1>1, <2>1 DEF CppHeaderCols, Tig, Lane
    <2>3. (i - 1) \div 4 \in 0..15 /\ (i - 1) % 2 \in 0..1 OBVIOUS
    <2> QED BY <2>2, <2>3 DEF U8
  <1>3. ASSUME NEW k \in 1..32 PROVE CppCols[k] = ((k - 1) \div 2) * 8 + ((k - 1) % 2)
    BY DEF CppCols
  <1>4. ASSUME NEW i \in 1..64 PROVE \E k \in 1..32 : b + CppHeaderCols(t)[i] = o + CppCols[k]
    <2>1. PICK a \in 0..15 : a = (i - 1) \div 4 OBVIOUS
    <2>2. PICK x \in 0..1 : x = (i - 1) % 2 OBVIOUS
    <2>3. PICK k \in 1..32 : k = 2 * a + x + 1 OBVIOUS
    <2>4. (k - 1) \div 2 = a /\ (k - 1) % 2 = x BY <2>3
    <2>5. CppCols[k] = a * 8 + x BY <1>3, <2>4
    <2>6. CppHeaderCols(t)[i] = a * 8 + e + x BY <1>2, <2>1, <2>2
    <2> QED BY <1>1, <2>5, <2>6
  <1>5. ASSUME NEW k \in 1..32 PROVE \E i \in 1..64 : b + CppHeaderCols(t)[i] = o + CppCols[k]
    <2>1. PICK a \in 0..15 : a = (k - 1) \div 2 OBVIOUS
    <2>2. PICK x \in 0..1 : x = (k - 1) % 2 OBVIOUS
    <2>3. PICK i \in 1..64 : i = 4 * a + x + 1 OBVIOUS
    <2>4. (i - 1) \div 4 = a /\ (i - 1) % 2 = x BY <2>3
    <2>5. CppCols[k] = a * 8 + x BY <1>3, <2>1, <2>2
    <2>6. CppHeaderCols(t)[i] = a * 8 + e + x BY <1>2, <2>4
    <2> QED BY <1>1, <2>5, <2>6
  <1>6. Len(CppCols) = 32 BY PatternTypes
  <1> DEFINE L(i) == b + CppHeaderCols(t)[i]
             R(k) == o + CppCols[k]
  <1>7. Spread(o, CppCols) = {R(k) : k \in 1..32} BY <1>6 DEF Spread
  <1>8. /\ \A i \in 1..64 : \E k \in 1..32 : L(i) = R(k)
        /\ \A k \in 1..32 : \E i \in 1..64 : L(i) = R(k)
    BY <1>4, <1>5
  <1> HIDE DEF L, R
  <1>9. {L(i) : i \in 1..64} = {R(k) : k \in 1..32} BY <1>8
  <1> QED BY <1>7, <1>9 DEF L, Reach

(* The rows of the header of the Triton search: two, adjacent.             *)
LEMMA TritonRowsSpread ==
  ASSUME NEW t \in 0..63, NEW b \in Nat
  PROVE  Reach(b, TritonHeaderRows(t), 256) = Spread(b + 2 * t, TritonRows)
  <1>0. PICK o \in Nat : o = b + 2 * t OBVIOUS
  <1>1. \A i \in 1..256 : TritonHeaderRows(t)[i] = IF i <= 128 THEN 2 * t ELSE 2 * t + 1
    BY DEF TritonHeaderRows, U8
  <1>2. Spread(o, TritonRows) = {o, o + 1}
    <2>1. Len(TritonRows) = 2 /\ TritonRows[1] = 0 /\ TritonRows[2] = 1 BY DEF TritonRows
    <2>2. \A k \in 1..2 : k = 1 \/ k = 2 OBVIOUS
    <2> QED BY <2>1, <2>2 DEF Spread
  <1>3. b + TritonHeaderRows(t)[1] = o /\ b + TritonHeaderRows(t)[129] = o + 1
    BY <1>0, <1>1
  <1>4. \A i \in 1..256 : b + TritonHeaderRows(t)[i] \in {o, o + 1} BY <1>0, <1>1
  <1> QED BY <1>0, <1>2, <1>3, <1>4 DEF Reach

(* Its columns: all of the tile.                                           *)
LEMMA TritonColsSpread ==
  ASSUME NEW t \in 0..63, NEW b \in Nat
  PROVE  Reach(b, TritonHeaderCols(t), 256) = Spread(b, TritonCols)
  <1>1. \A i \in 1..256 : TritonHeaderCols(t)[i] = (i - 1) % 128 BY DEF TritonHeaderCols
  <1>2. \A k \in 1..128 : TritonCols[k] = k - 1 BY DEF TritonCols
  <1>3. ASSUME NEW i \in 1..256 PROVE \E k \in 1..128 : b + TritonHeaderCols(t)[i] = b + TritonCols[k]
    <2>1. PICK k \in 1..128 : k = ((i - 1) % 128) + 1 OBVIOUS
    <2>2. TritonHeaderCols(t)[i] = (i - 1) % 128 BY <1>1
    <2>3. TritonCols[k] = k - 1 BY <1>2
    <2>4. (i - 1) % 128 = k - 1 BY <2>1
    <2> QED BY <2>2, <2>3, <2>4
  <1>4. ASSUME NEW k \in 1..128 PROVE \E i \in 1..256 : b + TritonHeaderCols(t)[i] = b + TritonCols[k]
    <2>1. k \in 1..256 /\ (k - 1) % 128 = k - 1 OBVIOUS
    <2> QED BY <1>1, <1>2, <2>1
  <1>5. Len(TritonCols) = 128 BY PatternTypes
  <1> DEFINE L(i) == b + TritonHeaderCols(t)[i]
             R(k) == b + TritonCols[k]
  <1>6. Spread(b, TritonCols) = {R(k) : k \in 1..128} BY <1>5 DEF Spread
  <1>7. /\ \A i \in 1..256 : \E k \in 1..128 : L(i) = R(k)
        /\ \A k \in 1..128 : \E i \in 1..256 : L(i) = R(k)
    BY <1>3, <1>4
  <1> HIDE DEF L, R
  <1>8. {L(i) : i \in 1..256} = {R(k) : k \in 1..128}
    <2>1. ASSUME NEW x \in {L(i) : i \in 1..256} PROVE x \in {R(k) : k \in 1..128}
      <3>1. PICK i \in 1..256 : x = L(i) OBVIOUS
      <3>2. PICK k \in 1..128 : x = R(k) BY <1>7, <3>1
      <3> QED BY <3>2
    <2>2. ASSUME NEW x \in {R(k) : k \in 1..128} PROVE x \in {L(i) : i \in 1..256}
      <3>1. PICK k \in 1..128 : x = R(k) OBVIOUS
      <3>2. PICK i \in 1..256 : x = L(i) BY <1>7, <3>1
      <3> QED BY <3>2
    <2> QED BY <2>1, <2>2, Zenon
  <1> QED BY <1>6, <1>8 DEF L, Reach

(* The cells a candidate hashes are those rows times those columns.        *)
LEMMA CellsSpread ==
  ASSUME NEW p, NEW t \in 0..(PerTile(p) - 1), NEW a \in Nat, NEW b \in Nat
  PROVE  {<<a + x[1], b + x[2]>> : x \in Cells(p, t)}
           = Spread(a + RowAt(p, t), JobRows(p)) \X Spread(b + ColAt(p, t), JobCols(p))
  <1>0. PICK r \in Nat, e \in Nat : r = RowAt(p, t) /\ e = ColAt(p, t)
    BY OffsetsWithin
  <1>1. CASE p = "CppSearch"
    <2>1. t \in 0..255 BY <1>1 DEF PerTile, ThreadsPerTile
    <2>2. Cells(p, t) = {<<r + 8 * (j \div 2), 8 * n + e + (j % 2)>> : n \in 0..15, j \in 0..3}
      BY <1>1, <1>0 DEF Cells, CppCells, RowAt, ColAt
    <2>3. JobRows(p) = CppRows /\ JobCols(p) = CppCols BY <1>1 DEF JobRows, JobCols
    <2>4. Len(CppRows) = 2 /\ CppRows[1] = 0 /\ CppRows[2] = 8 /\ Len(CppCols) = 32
      BY PatternTypes DEF CppRows
    <2>5. ASSUME NEW k \in 1..32 PROVE CppCols[k] = ((k - 1) \div 2) * 8 + ((k - 1) % 2)
      BY DEF CppCols
    <2>6. ASSUME NEW n \in 0..15, NEW j \in 0..3
          PROVE  <<a + (r + 8 * (j \div 2)), b + (8 * n + e + (j % 2))>>
                   \in Spread(a + r, CppRows) \X Spread(b + e, CppCols)
      <3>1. PICK y \in 0..1 : y = j \div 2 OBVIOUS
      <3>2. PICK x \in 0..1 : x = j % 2 OBVIOUS
      <3>3. PICK k \in 1..2 : k = y + 1 OBVIOUS
      <3>4. CppRows[k] = 8 * y
        <4>1. y = 0 \/ y = 1 OBVIOUS
        <4> QED BY <4>1, <3>3, <2>4
      <3>5. a + (r + 8 * (j \div 2)) = a + r + CppRows[k] BY <3>1, <3>4
      <3>6. PICK l \in 1..32 : l = 2 * n + x + 1 OBVIOUS
      <3>7. (l - 1) \div 2 = n /\ (l - 1) % 2 = x BY <3>6
      <3>8. CppCols[l] = n * 8 + x BY <2>5, <3>7
      <3>9. b + (8 * n + e + (j % 2)) = b + e + CppCols[l] BY <3>2, <3>8
      <3> QED BY <3>5, <3>9, <2>4 DEF Spread
    <2>7. ASSUME NEW k \in 1..2, NEW l \in 1..32
          PROVE  \E n \in 0..15, j \in 0..3 :
                   /\ a + r + CppRows[k] = a + (r + 8 * (j \div 2))
                   /\ b + e + CppCols[l] = b + (8 * n + e + (j % 2))
      <3>1. PICK n \in 0..15 : n = (l - 1) \div 2 OBVIOUS
      <3>2. PICK x \in 0..1 : x = (l - 1) % 2 OBVIOUS
      <3>3. PICK j \in 0..3 : j = 2 * (k - 1) + x OBVIOUS
      <3>4. j \div 2 = k - 1 /\ j % 2 = x BY <3>3
      <3>5. CppRows[k] = 8 * (k - 1)
        <4>1. k = 1 \/ k = 2 OBVIOUS
        <4> QED BY <4>1, <2>4
      <3>6. CppCols[l] = n * 8 + x BY <2>5, <3>1, <3>2
      <3> QED BY <3>4, <3>5, <3>6
    <2> DEFINE V(n, j) == <<a + (r + 8 * (j \div 2)), b + (8 * n + e + (j % 2))>>
    <2>8. {<<a + x[1], b + x[2]>> : x \in Cells(p, t)} = {V(n, j) : n \in 0..15, j \in 0..3}
      <3> DEFINE C(n, j) == <<r + 8 * (j \div 2), 8 * n + e + (j % 2)>>
                 W(x) == <<a + x[1], b + x[2]>>
      <3>1. \A n, j : W(C(n, j)) = V(n, j) OBVIOUS
      <3>2. Cells(p, t) = {C(n, j) : n \in 0..15, j \in 0..3} BY <2>2
      <3> HIDE DEF C, W, V
      <3>3. {W(x) : x \in Cells(p, t)} = {V(n, j) : n \in 0..15, j \in 0..3} BY <3>1, <3>2
      <3> QED BY <3>3 DEF W
    <2>9. ASSUME NEW y \in Spread(a + r, CppRows) \X Spread(b + e, CppCols)
          PROVE  \E n \in 0..15, j \in 0..3 : y = V(n, j)
      <3>1. PICK k \in 1..2 : y[1] = a + r + CppRows[k] BY <2>4 DEF Spread
      <3>2. PICK l \in 1..32 : y[2] = b + e + CppCols[l] BY <2>4 DEF Spread
      <3>3. y = <<y[1], y[2]>> OBVIOUS
      <3>4. PICK n \in 0..15, j \in 0..3 :
              /\ a + r + CppRows[k] = a + (r + 8 * (j \div 2))
              /\ b + e + CppCols[l] = b + (8 * n + e + (j % 2))
        BY <2>7
      <3>5. y[1] = a + (r + 8 * (j \div 2)) /\ y[2] = b + (8 * n + e + (j % 2))
        BY <3>1, <3>2, <3>4, Zenon
      <3>6. y = V(n, j) BY <3>3, <3>5, Zenon
      <3> QED BY <3>6
    <2>10. \A n \in 0..15, j \in 0..3 : V(n, j) \in Spread(a + r, CppRows) \X Spread(b + e, CppCols)
      BY <2>6
    <2> HIDE DEF V
    <2>11. {V(n, j) : n \in 0..15, j \in 0..3} = Spread(a + r, CppRows) \X Spread(b + e, CppCols)
      BY <2>9, <2>10
    <2> QED BY <2>3, <2>8, <2>11, <1>0
  <1>2. CASE p # "CppSearch"
    <2>1. t \in 0..63 BY <1>2 DEF PerTile, HashCandidates
    <2>2. Cells(p, t) = {<<r + j, c>> : j \in {0, 1}, c \in 0..127} /\ e = 0
      BY <1>2, <1>0 DEF Cells, TritonCells, RowAt, ColAt
    <2>3. JobRows(p) = TritonRows /\ JobCols(p) = TritonCols BY <1>2 DEF JobRows, JobCols
    <2>4. Len(TritonRows) = 2 /\ TritonRows[1] = 0 /\ TritonRows[2] = 1 /\ Len(TritonCols) = 128
      BY PatternTypes DEF TritonRows
    <2>5. ASSUME NEW k \in 1..128 PROVE TritonCols[k] = k - 1
      BY DEF TritonCols
    <2> DEFINE V(j, c) == <<a + (r + j), b + c>>
    <2>6. ASSUME NEW j \in {0, 1}, NEW c \in 0..127
          PROVE  V(j, c) \in Spread(a + r, TritonRows) \X Spread(b + e, TritonCols)
      <3>1. PICK k \in 1..2 : TritonRows[k] = j
        <4>1. 1 \in 1..2 /\ 2 \in 1..2 OBVIOUS
        <4> QED BY <4>1, <2>4
      <3>2. PICK l \in 1..128 : l = c + 1 OBVIOUS
      <3>3. TritonCols[l] = c BY <3>2, <2>5
      <3>4. a + (r + j) = a + r + TritonRows[k] /\ b + c = b + e + TritonCols[l]
        BY <3>1, <3>3, <2>2
      <3> QED BY <3>4, <2>4 DEF Spread
    <2>7. {<<a + x[1], b + x[2]>> : x \in Cells(p, t)} = {V(j, c) : j \in {0, 1}, c \in 0..127}
      <3> DEFINE C(j, c) == <<r + j, c>>
                 W(x) == <<a + x[1], b + x[2]>>
      <3>1. \A j, c : W(C(j, c)) = V(j, c) OBVIOUS
      <3>2. Cells(p, t) = {C(j, c) : j \in {0, 1}, c \in 0..127} BY <2>2
      <3> HIDE DEF C, W, V
      <3>3. {W(x) : x \in Cells(p, t)} = {V(j, c) : j \in {0, 1}, c \in 0..127} BY <3>1, <3>2
      <3> QED BY <3>3 DEF W
    <2>8. ASSUME NEW y \in Spread(a + r, TritonRows) \X Spread(b + e, TritonCols)
          PROVE  \E j \in {0, 1}, c \in 0..127 : y = V(j, c)
      <3>1. PICK k \in 1..2 : y[1] = a + r + TritonRows[k] BY <2>4 DEF Spread
      <3>2. PICK l \in 1..128 : y[2] = b + e + TritonCols[l] BY <2>4 DEF Spread
      <3>3. y = <<y[1], y[2]>> OBVIOUS
      <3>4. PICK j \in {0, 1} : TritonRows[k] = j
        <4>1. k = 1 \/ k = 2 OBVIOUS
        <4> QED BY <4>1, <2>4
      <3>5. PICK c \in 0..127 : c = l - 1 OBVIOUS
      <3>6. y[1] = a + (r + j) /\ y[2] = b + c BY <3>1, <3>2, <3>4, <3>5, <2>2, <2>5
      <3> QED BY <3>3, <3>6
    <2> HIDE DEF V
    <2>9. {V(j, c) : j \in {0, 1}, c \in 0..127} = Spread(a + r, TritonRows) \X Spread(b + e, TritonCols)
      BY <2>6, <2>8, SMTT(60)
    <2> QED BY <2>3, <2>7, <2>9, <1>0
  <1> QED BY <1>1, <1>2

(* A pattern laid out from an offset, sorted: the pattern, shifted.        *)
LEMMA SpreadSorted ==
  ASSUME HitReportAssumption, NEW J \in Seq(Nat), Increasing(J), NEW o \in Nat,
         Spread(o, J) \subseteq Coordinate
  PROVE  SortedUnique[Spread(o, J)] = [k \in 1..Len(J) |-> o + J[k]]
  <1>1. PICK n \in Nat : n = Len(J) OBVIOUS
  <1>2. \A k \in 1..n : J[k] \in Nat BY <1>1
  <1>3. PICK s : s = [k \in 1..n |-> o + J[k]] OBVIOUS
  <1>4. s \in [1..n -> Nat] BY <1>2, <1>3
  <1>5. s \in Seq(Nat) /\ Len(s) = n BY <1>4
  <1>6. \A k \in 1..n : s[k] = o + J[k] BY <1>3
  <1>7. \A i \in 1..(Len(s) - 1) : s[i] < s[i + 1]
    <2> SUFFICES ASSUME NEW i \in 1..(n - 1) PROVE s[i] < s[i + 1] BY <1>5
    <2>1. i \in 1..n /\ i + 1 \in 1..n OBVIOUS
    <2>2. J[i] < J[i + 1] BY <1>1 DEF Increasing
    <2>3. s[i] = o + J[i] /\ s[i + 1] = o + J[i + 1] BY <1>6, <2>1
    <2>4. J[i] \in Nat /\ J[i + 1] \in Nat BY <1>2, <2>1
    <2> QED BY <2>2, <2>3, <2>4
  <1>8. Spread(o, J) = {s[i] : i \in 1..Len(s)} BY <1>1, <1>5, <1>6 DEF Spread
  <1>9. Lists(s, Spread(o, J)) BY <1>5, <1>7, <1>8 DEF Lists
  <1>10. SortedUnique[Spread(o, J)] = s BY <1>9, SortedUniqueIs
  <1> QED BY <1>1, <1>3, <1>10

(* The verifier takes a pattern laid out from an offset that fits.         *)
LEMMA ShiftAccepted ==
  ASSUME NEW J \in Seq(Nat), FromListOk(J), NEW o \in Nat, OffsetIsValid(Shape(J), o),
         NEW extent \in Nat, o + J[Len(J)] < extent,
         NEW s, s = [k \in 1..Len(J) |-> o + J[k]]
  PROVE  PatternOfTheJob(s, J, extent) /\ ElementsOf(s) = Spread(o, J)
  <1>1. PICK n \in Nat : n = Len(J) OBVIOUS
  <1>2. J # <<>> /\ Increasing(J) /\ J[1] = 0 BY DEF FromListOk
  <1>3. n # 0 /\ \A k \in 1..n : J[k] \in Nat BY <1>1, <1>2
  <1>4. s \in [1..n -> Nat] /\ \A k \in 1..n : s[k] = o + J[k] BY <1>1, <1>3
  <1>5. s \in Seq(Nat) /\ Len(s) = n /\ DOMAIN s = 1..n BY <1>4
  <1>6. s[1] = o /\ s # <<>>
    <2>1. 1 \in 1..n BY <1>3
    <2> QED BY <2>1, <1>2, <1>3, <1>4, <1>5
  <1>7. Increasing(s)
    <2> SUFFICES ASSUME NEW i \in 1..(n - 1) PROVE s[i] < s[i + 1] BY <1>5 DEF Increasing
    <2>1. i \in 1..n /\ i + 1 \in 1..n OBVIOUS
    <2>2. J[i] < J[i + 1] BY <1>1, <1>2 DEF Increasing
    <2> QED BY <1>3, <1>4, <2>1, <2>2
  <1>8. Normalized(s) = J
    <2>1. Normalized(s) = [i \in 1..n |-> s[i] - o] BY <1>5, <1>6 DEF Normalized
    <2>2. \A i \in 1..n : s[i] - o = J[i] BY <1>3, <1>4
    <2>3. J = [i \in 1..n |-> J[i]] BY <1>1
    <2> QED BY <2>1, <2>2, <2>3
  <1>9. Accepted(s) BY <1>6, <1>7, <1>8 DEF Accepted
  <1>10. PatternOfTheJob(s, J, extent) BY <1>6, <1>8, <1>9 DEF PatternOfTheJob
  <1>11. ElementsOf(s) = Spread(o, J) BY <1>1, <1>4, <1>5 DEF ElementsOf, Spread
  <1> QED BY <1>10, <1>11

(* The offset of a candidate is one its pattern takes, and the candidate   *)
(* lies inside the tile.                                                   *)
Fits(p, t, c, d) ==
  /\ OffsetIsValid(Shape(JobRows(p)), c * 128 + RowAt(p, t))
  /\ OffsetIsValid(Shape(JobCols(p)), d * 128 + ColAt(p, t))
  /\ JobRows(p) \in Seq(Nat) /\ JobCols(p) \in Seq(Nat)
  /\ \A k \in 1..Len(JobRows(p)) : RowAt(p, t) + JobRows(p)[k] \in 0..127
  /\ \A k \in 1..Len(JobCols(p)) : ColAt(p, t) + JobCols(p)[k] \in 0..127
  /\ Len(JobRows(p)) \in 1..Len(JobRows(p)) /\ Len(JobCols(p)) \in 1..Len(JobCols(p))

(* So it is for every candidate of every tile, on either path.             *)
LEMMA JobOffsets ==
  ASSUME NEW p, NEW t \in 0..(PerTile(p) - 1), NEW c \in Nat, NEW d \in Nat
  PROVE  Fits(p, t, c, d)
  <1>0. PICK r \in Nat, e \in Nat : r = RowAt(p, t) /\ e = ColAt(p, t)
    BY OffsetsWithin
  <1>1. CASE p = "CppSearch"
    <2>1. JobRows(p) = CppRows /\ JobCols(p) = CppCols BY <1>1 DEF JobRows, JobCols
    <2>2. r % 16 < 8 /\ r <= 119 /\ e % 2 = 0 /\ e <= 6 BY <1>0, <1>1, OffsetsWithin
    <2>3. OffsetIsValid(Shape(CppRows), c * 128 + r)
      <3>1. PICK h : h = << <<8, 2>>, <<16, 1>>, <<16, 1>> >> OBVIOUS
      <3>2. /\ h[1][1] = 8 /\ h[1][2] = 2 /\ h[2][1] = 16 /\ h[2][2] = 1 /\ h[3][1] = 16
            /\ h[3][2] = 1
        BY <3>1
      <3>3. PICK o \in Nat : o = c * 128 + r BY <1>0
      <3>4. o % 16 = r % 16 BY <3>3
      <3>5. PICK x \in Nat : x = o % 16 /\ x < 8 /\ x % 16 = x BY <2>2, <3>4
      <3>6. Rest(h, o, 3) = x /\ Rest(h, x, 2) = x /\ Rest(h, x, 1) = x
        BY <3>2, <3>5 DEF Rest, PeriodOf
      <3>7. x < h[3][1] /\ x < h[2][1] /\ x < h[1][1] BY <3>2, <3>5
      <3>8. OffsetIsValid(h, o) BY <3>6, <3>7, OffsetValid
      <3> QED BY <3>1, <3>3, <3>8, ShapesAre
    <2>4. OffsetIsValid(Shape(CppCols), d * 128 + e)
      <3>1. PICK h : h = << <<1, 2>>, <<8, 16>>, <<128, 1>> >> OBVIOUS
      <3>2. /\ h[1][1] = 1 /\ h[1][2] = 2 /\ h[2][1] = 8 /\ h[2][2] = 16 /\ h[3][1] = 128
            /\ h[3][2] = 1
        BY <3>1
      <3>3. PICK o \in Nat : o = d * 128 + e BY <1>0
      <3>4. o % 128 = e /\ e % 128 = e BY <3>3, <2>2
      <3>5. Rest(h, o, 3) = e /\ Rest(h, e, 2) = e /\ Rest(h, e, 1) = 0
        BY <3>2, <3>4, <2>2 DEF Rest, PeriodOf
      <3>6. e < h[3][1] /\ e < h[2][1] /\ 0 < h[1][1] BY <3>2, <2>2
      <3>7. OffsetIsValid(h, o) BY <3>5, <3>6, OffsetValid
      <3> QED BY <3>1, <3>3, <3>7, ShapesAre
    <2>5. Len(CppRows) = 2 /\ CppRows[1] = 0 /\ CppRows[2] = 8 BY DEF CppRows
    <2>6. ASSUME NEW k \in 1..2 PROVE r + CppRows[k] \in 0..127
      <3>1. k = 1 \/ k = 2 OBVIOUS
      <3> QED BY <3>1, <2>2, <2>5
    <2>7. ASSUME NEW k \in 1..32 PROVE e + CppCols[k] \in 0..127
      <3>1. CppCols[k] = ((k - 1) \div 2) * 8 + ((k - 1) % 2) BY DEF CppCols
      <3>2. (k - 1) \div 2 \in 0..15 /\ (k - 1) % 2 \in 0..1 OBVIOUS
      <3> QED BY <2>2, <3>1, <3>2
    <2>8. Len(CppRows) = 2 /\ Len(CppCols) = 32 BY PatternTypes
    <2>9. /\ Len(CppRows) \in 1..Len(CppRows) /\ Len(CppCols) \in 1..Len(CppCols)
          /\ \A k \in 1..Len(CppRows) : r + CppRows[k] \in 0..127
          /\ \A k \in 1..Len(CppCols) : e + CppCols[k] \in 0..127
      <3>1. 2 \in 1..2 /\ 32 \in 1..32 OBVIOUS
      <3> QED BY <2>6, <2>7, <2>8, <3>1, Zenon
    <2> QED BY <1>0, <2>1, <2>3, <2>4, <2>9, PatternTypes, Zenon DEF Fits
  <1>2. CASE p # "CppSearch"
    <2>1. JobRows(p) = TritonRows /\ JobCols(p) = TritonCols BY <1>2 DEF JobRows, JobCols
    <2>2. r % 2 = 0 /\ r <= 126 /\ e = 0 BY <1>0, <1>2, OffsetsWithin
    <2>3. OffsetIsValid(Shape(TritonRows), c * 128 + r)
      <3>1. PICK h : h = << <<1, 2>>, <<2, 1>>, <<2, 1>> >> OBVIOUS
      <3>2. /\ h[1][1] = 1 /\ h[1][2] = 2 /\ h[2][1] = 2 /\ h[2][2] = 1 /\ h[3][1] = 2
            /\ h[3][2] = 1
        BY <3>1
      <3>3. PICK o \in Nat : o = c * 128 + r BY <1>0
      <3>4. o % 2 = 0 BY <3>3, <2>2
      <3>5. Rest(h, o, 3) = 0 /\ Rest(h, 0, 2) = 0 /\ Rest(h, 0, 1) = 0
        BY <3>2, <3>4 DEF Rest, PeriodOf
      <3>6. 0 < h[3][1] /\ 0 < h[2][1] /\ 0 < h[1][1] BY <3>2
      <3>7. OffsetIsValid(h, o) BY <3>5, <3>6, OffsetValid
      <3> QED BY <3>1, <3>3, <3>7, ShapesAre
    <2>4. OffsetIsValid(Shape(TritonCols), d * 128 + e)
      <3>1. PICK h : h = << <<1, 128>>, <<128, 1>>, <<128, 1>> >> OBVIOUS
      <3>2. /\ h[1][1] = 1 /\ h[1][2] = 128 /\ h[2][1] = 128 /\ h[2][2] = 1 /\ h[3][1] = 128
            /\ h[3][2] = 1
        BY <3>1
      <3>3. PICK o \in Nat : o = d * 128 + e BY <1>0
      <3>4. o % 128 = 0 BY <3>3, <2>2
      <3>5. Rest(h, o, 3) = 0 /\ Rest(h, 0, 2) = 0 /\ Rest(h, 0, 1) = 0
        BY <3>2, <3>4 DEF Rest, PeriodOf
      <3>6. 0 < h[3][1] /\ 0 < h[2][1] /\ 0 < h[1][1] BY <3>2
      <3>7. OffsetIsValid(h, o) BY <3>5, <3>6, OffsetValid
      <3> QED BY <3>1, <3>3, <3>7, ShapesAre
    <2>5. Len(TritonRows) = 2 /\ TritonRows[1] = 0 /\ TritonRows[2] = 1 BY DEF TritonRows
    <2>6. ASSUME NEW k \in 1..2 PROVE r + TritonRows[k] \in 0..127
      <3>1. k = 1 \/ k = 2 OBVIOUS
      <3> QED BY <3>1, <2>2, <2>5
    <2>7. ASSUME NEW k \in 1..128 PROVE e + TritonCols[k] \in 0..127
      BY <2>2 DEF TritonCols
    <2>8. Len(TritonRows) = 2 /\ Len(TritonCols) = 128 BY PatternTypes
    <2>9. /\ Len(TritonRows) \in 1..Len(TritonRows) /\ Len(TritonCols) \in 1..Len(TritonCols)
          /\ \A k \in 1..Len(TritonRows) : r + TritonRows[k] \in 0..127
          /\ \A k \in 1..Len(TritonCols) : e + TritonCols[k] \in 0..127
      <3>1. 2 \in 1..2 /\ 128 \in 1..128 OBVIOUS
      <3>2. \A k \in 1..Len(TritonRows) : r + TritonRows[k] \in 0..127 BY <2>6, <2>8
      <3>3. \A k \in 1..Len(TritonCols) : e + TritonCols[k] \in 0..127 BY <2>7, <2>8
      <3> QED BY <2>8, <3>1, <3>2, <3>3
    <2> QED BY <1>0, <2>1, <2>3, <2>4, <2>9, PatternTypes, Zenon DEF Fits
  <1> QED BY <1>1, <1>2

(* The least word is the winner's index, and one candidate has it.         *)
LEMMA WinnerIs ==
  ASSUME HitReportAssumption, Inv, met # {}, IsLeast(word)
  PROVE  Winner \in met /\ Winner \in Candidate(path) /\ path \in Paths /\ Index(path, Winner) = word
  <1>1. path \in Paths /\ met \subseteq Candidate(path) BY DEF Inv, TypeOK
  <1>2. \A c \in met : Index(path, c) \in Nat BY <1>1, IndexBound
  <1>3. PICK c \in met : Index(path, c) = word BY DEF IsLeast, Indices
  <1>4. \A d \in met : word <= Index(path, d) BY DEF IsLeast, Indices
  <1>5. Winner \in met /\ \A d \in met : Index(path, Winner) <= Index(path, d)
    <2>1. \A d \in met : Index(path, c) <= Index(path, d) BY <1>3, <1>4
    <2> QED BY <2>1, Zenon DEF Winner
  <1>6. Index(path, Winner) <= word /\ word <= Index(path, Winner) BY <1>3, <1>4, <1>5
  <1> QED BY <1>1, <1>2, <1>3, <1>5, <1>6

(* What the host makes of a complete header.                               *)
LEMMA HeaderGives ==
  ASSUME HitReportAssumption, Inv, hdr.status = 1, NEW c, c = Winner
  PROVE  /\ c \in Candidate(path)
         /\ Global(hdr, 1, hdr.rows) = Spread(c[1] * 128 + RowAt(path, c[3]), JobRows(path))
         /\ Global(hdr, 2, hdr.cols) = Spread(c[2] * 128 + ColAt(path, c[3]), JobCols(path))
  <1>1. met # {} /\ IsLeast(word) /\ \A f \in Field : hdr[f] = HeaderOf(word)[f]
    BY DEF Inv, NoTornHeader
  <1>2. c \in Candidate(path) /\ path \in Paths /\ Index(path, c) = word BY <1>1, WinnerIs
  <1>3. /\ (word \div PerTile(path)) \div NumTileN = c[1]
        /\ (word \div PerTile(path)) % NumTileN = c[2]
        /\ word % PerTile(path) = c[3]
    BY <1>2, IndexInverse
  <1>4. c[1] \in Nat /\ c[2] \in Nat /\ c[3] \in 0..(PerTile(path) - 1)
    BY <1>2 DEF Candidate, HitReportAssumption
  <1>5. PICK t : t = c[3] OBVIOUS
  <1>6. PICK a \in Nat : a = c[1] * 128 BY <1>4
  <1>7. PICK b \in Nat : b = c[2] * 128 BY <1>4
  <1>8. PICK h : h = HeaderOf(word) OBVIOUS
  <1>9. /\ hdr.coord = h.coord /\ hdr.regs = h.regs /\ hdr.rows = h.rows
        /\ hdr.cols = h.cols /\ hdr.tile = h.tile
    BY <1>1, <1>8 DEF Field
  <1>10. RowAt(path, t) \in Nat /\ ColAt(path, t) \in Nat BY <1>4, <1>5, OffsetsWithin
  <1>11. CASE path = "CppSearch"
    <2>1. PerTile(path) = 256 /\ t \in 0..255 BY <1>4, <1>5, <1>11 DEF PerTile, ThreadsPerTile
    <2>2. h = CppHeader(word) BY <1>8, <1>11 DEF HeaderOf
    <2>3. /\ h.coord = <<c[1], c[2]>> /\ h.regs = 64 /\ h.tile = <<128, 128>>
          /\ h.rows = CppHeaderRows(t) /\ h.cols = CppHeaderCols(t)
      BY <1>3, <1>5, <2>1, <2>2 DEF CppHeader, ThreadsPerTile, TileSize
    <2>4. Registers(hdr) = 64 BY <1>9, <2>3 DEF Registers
    <2>5. DOMAIN hdr.rows = 1..64 /\ DOMAIN hdr.cols = 1..64
      BY <1>9, <2>3 DEF CppHeaderRows, CppHeaderCols
    <2>6. Global(hdr, 1, hdr.rows) = Reach(a, CppHeaderRows(t), 64)
      BY <1>6, <1>9, <2>3, <2>4, <2>5 DEF Global, Entries, Reach
    <2>7. Global(hdr, 2, hdr.cols) = Reach(b, CppHeaderCols(t), 64)
      BY <1>7, <1>9, <2>3, <2>4, <2>5 DEF Global, Entries, Reach
    <2>8. RowAt(path, t) = 16 * (t \div 32) + (t % 32) \div 4 /\ ColAt(path, t) = 2 * (t % 4)
      BY <1>11 DEF RowAt, ColAt
    <2>9. PICK o \in Nat : o = a + RowAt(path, t) BY <1>10
    <2>10. PICK u \in Nat : u = b + ColAt(path, t) BY <1>10
    <2>11. Global(hdr, 1, hdr.rows) = Spread(o, CppRows)
      BY <2>1, <2>6, <2>8, <2>9, CppRowsSpread
    <2>12. Global(hdr, 2, hdr.cols) = Spread(u, CppCols)
      BY <2>1, <2>7, <2>8, <2>10, CppColsSpread
    <2> QED BY <1>2, <1>5, <1>6, <1>7, <1>11, <2>9, <2>10, <2>11, <2>12 DEF JobRows, JobCols
  <1>12. CASE path # "CppSearch"
    <2>1. PerTile(path) = 64 /\ t \in 0..63 BY <1>4, <1>5, <1>12 DEF PerTile, HashCandidates
    <2>2. h = TritonHeader(word) BY <1>8, <1>12 DEF HeaderOf
    <2>3. /\ h.coord = <<c[1], c[2]>> /\ h.regs = 256 /\ h.tile = <<128, 128>>
          /\ h.rows = TritonHeaderRows(t) /\ h.cols = TritonHeaderCols(t)
      BY <1>3, <1>5, <2>1, <2>2 DEF TritonHeader, HashCandidates, TileSize
    <2>4. Registers(hdr) = 256 BY <1>9, <2>3 DEF Registers
    <2>5. DOMAIN hdr.rows = 1..256 /\ DOMAIN hdr.cols = 1..256
      BY <1>9, <2>3 DEF TritonHeaderRows, TritonHeaderCols
    <2>6. Global(hdr, 1, hdr.rows) = Reach(a, TritonHeaderRows(t), 256)
      BY <1>6, <1>9, <2>3, <2>4, <2>5 DEF Global, Entries, Reach
    <2>7. Global(hdr, 2, hdr.cols) = Reach(b, TritonHeaderCols(t), 256)
      BY <1>7, <1>9, <2>3, <2>4, <2>5 DEF Global, Entries, Reach
    <2>8. RowAt(path, t) = 2 * t /\ ColAt(path, t) = 0
      BY <1>12 DEF RowAt, ColAt
    <2>9. PICK o \in Nat : o = a + RowAt(path, t) BY <1>10
    <2>10. b = b + ColAt(path, t) BY <2>8
    <2>11. PICK x \in 0..63 : x = t /\ o = a + 2 * x BY <2>1, <2>8, <2>9
    <2>12. Reach(a, TritonHeaderRows(x), 256) = Spread(a + 2 * x, TritonRows)
      BY TritonRowsSpread, Zenon
    <2>13. Global(hdr, 1, hdr.rows) = Spread(o, TritonRows)
      BY <2>6, <2>11, <2>12
    <2>14. Global(hdr, 2, hdr.cols) = Spread(b, TritonCols)
      BY <2>1, <2>7, TritonColsSpread
    <2> QED BY <1>2, <1>5, <1>6, <1>7, <1>12, <2>9, <2>10, <2>13, <2>14 DEF JobRows, JobCols
  <1> QED BY <1>11, <1>12

(* The report of a complete header: the cells of the winner, in the job's  *)
(* pattern.                                                                *)
LEMMA ReportGives ==
  ASSUME HitReportAssumption, Inv, hdr.status = 1, NEW h, h = ExtractIndices(hdr)
  PROVE  /\ h # NoReport
         /\ ElementsOf(h.rows) \X ElementsOf(h.cols) = CellsHashed(Winner)
         /\ PatternOfTheJob(h.rows, JobRows(path), NumTileM * TileSize)
         /\ PatternOfTheJob(h.cols, JobCols(path), NumTileN * TileSize)
  <1>1. PICK c : c = Winner OBVIOUS
  <1>2. /\ c \in Candidate(path)
        /\ Global(hdr, 1, hdr.rows) = Spread(c[1] * 128 + RowAt(path, c[3]), JobRows(path))
        /\ Global(hdr, 2, hdr.cols) = Spread(c[2] * 128 + ColAt(path, c[3]), JobCols(path))
    BY <1>1, HeaderGives
  <1>3. /\ c[1] \in 0..(NumTileM - 1) /\ c[2] \in 0..(NumTileN - 1)
        /\ c[3] \in 0..(PerTile(path) - 1)
        /\ NumTileM \in Nat \ {0} /\ NumTileN \in Nat \ {0}
    BY <1>2 DEF Candidate, HitReportAssumption
  <1>4. c[1] \in Nat /\ c[2] \in Nat BY <1>3
  <1>5. PICK JR : JR = JobRows(path) OBVIOUS
  <1>6. PICK JC : JC = JobCols(path) OBVIOUS
  <1>7. PICK r \in Nat : r = RowAt(path, c[3]) BY <1>3, OffsetsWithin
  <1>8. PICK e \in Nat : e = ColAt(path, c[3]) BY <1>3, OffsetsWithin
  <1>9. PICK o \in Nat : o = c[1] * 128 + r BY <1>4
  <1>10. PICK u \in Nat : u = c[2] * 128 + e BY <1>4
  <1>11. /\ OffsetIsValid(Shape(JR), o) /\ OffsetIsValid(Shape(JC), u)
         /\ JR \in Seq(Nat) /\ JC \in Seq(Nat)
         /\ \A k \in 1..Len(JR) : r + JR[k] \in 0..127
         /\ \A k \in 1..Len(JC) : e + JC[k] \in 0..127
         /\ Len(JR) \in 1..Len(JR) /\ Len(JC) \in 1..Len(JC)
    <2>1. Fits(path, c[3], c[1], c[2]) BY <1>3, <1>4, JobOffsets
    <2> QED BY <2>1, <1>5, <1>6, <1>7, <1>8, <1>9, <1>10, Zenon DEF Fits
  <1>12. FromListOk(JR) /\ FromListOk(JC) BY <1>5, <1>6, PatternsOk
  <1>13. Increasing(JR) /\ Increasing(JC) BY <1>12 DEF FromListOk
  <1>14. PICK m \in Nat : m = NumTileM * 128 /\ c[1] * 128 + 128 <= m BY <1>3
  <1>15. PICK n \in Nat : n = NumTileN * 128 /\ c[2] * 128 + 128 <= n BY <1>3
  <1>16. \A k \in 1..Len(JR) : JR[k] \in Nat /\ o + JR[k] \in Nat /\ o + JR[k] < m
    <2> SUFFICES ASSUME NEW k \in 1..Len(JR)
                 PROVE JR[k] \in Nat /\ o + JR[k] \in Nat /\ o + JR[k] < m
      OBVIOUS
    <2>1. JR[k] \in Nat BY <1>11
    <2>2. r + JR[k] \in 0..127 BY <1>11
    <2>3. PICK y \in Nat : y = JR[k] BY <2>1
    <2>4. r + y \in 0..127 BY <2>2, <2>3, Zenon
    <2>5. r + y <= 127 BY <2>4
    <2>6. PICK z \in Nat : z = c[1] * 128 BY <1>4
    <2>7. o = z + r /\ z + 128 <= m BY <2>6, <1>9, <1>14
    <2>8. o + y \in Nat /\ o + y < m BY <2>5, <2>7
    <2> QED BY <2>3, <2>8, Zenon
  <1>17. \A k \in 1..Len(JC) : JC[k] \in Nat /\ u + JC[k] \in Nat /\ u + JC[k] < n
    <2> SUFFICES ASSUME NEW k \in 1..Len(JC)
                 PROVE JC[k] \in Nat /\ u + JC[k] \in Nat /\ u + JC[k] < n
      OBVIOUS
    <2>1. JC[k] \in Nat BY <1>11
    <2>2. e + JC[k] \in 0..127 BY <1>11
    <2>3. PICK y \in Nat : y = JC[k] BY <2>1
    <2>4. e + y \in 0..127 BY <2>2, <2>3, Zenon
    <2>5. e + y <= 127 BY <2>4
    <2>6. PICK z \in Nat : z = c[2] * 128 BY <1>4
    <2>7. u = z + e /\ z + 128 <= n BY <2>6, <1>10, <1>15
    <2>8. u + y \in Nat /\ u + y < n BY <2>5, <2>7
    <2> QED BY <2>3, <2>8, Zenon
  <1>18. Coordinate = 0..(m + n) BY <1>14, <1>15 DEF Coordinate, TileSize
  <1>19. Spread(o, JR) \subseteq Coordinate BY <1>16, <1>18 DEF Spread
  <1>20. Spread(u, JC) \subseteq Coordinate BY <1>17, <1>18 DEF Spread
  <1>21. PICK s : s = [k \in 1..Len(JR) |-> o + JR[k]] OBVIOUS
  <1>22. PICK v : v = [k \in 1..Len(JC) |-> u + JC[k]] OBVIOUS
  <1>23. SortedUnique[Spread(o, JR)] = s BY <1>11, <1>13, <1>19, <1>21, SpreadSorted
  <1>24. SortedUnique[Spread(u, JC)] = v BY <1>11, <1>13, <1>20, <1>22, SpreadSorted
  <1>25. h = [rows |-> s, cols |-> v]
    BY <1>2, <1>5, <1>6, <1>7, <1>8, <1>9, <1>10, <1>23, <1>24 DEF ExtractIndices
  <1>26. PatternOfTheJob(s, JR, m) /\ ElementsOf(s) = Spread(o, JR)
    BY <1>11, <1>12, <1>16, <1>21, ShiftAccepted
  <1>27. PatternOfTheJob(v, JC, n) /\ ElementsOf(v) = Spread(u, JC)
    BY <1>11, <1>12, <1>17, <1>22, ShiftAccepted
  <1>28. CellsHashed(Winner) = Spread(o, JR) \X Spread(u, JC)
    <2>1. PICK a \in Nat : a = c[1] * 128 BY <1>4
    <2>2. PICK b \in Nat : b = c[2] * 128 BY <1>4
    <2>3. CellsHashed(c) = {<<a + x[1], b + x[2]>> : x \in Cells(path, c[3])}
      BY <2>1, <2>2, Zenon DEF CellsHashed, Cells, TileSize
    <2>4. {<<a + x[1], b + x[2]>> : x \in Cells(path, c[3])} = Spread(a + r, JR) \X Spread(b + e, JC)
      BY <1>3, <1>5, <1>6, <1>7, <1>8, CellsSpread
    <2> QED BY <1>1, <1>9, <1>10, <2>1, <2>2, <2>3, <2>4
  <1>29. h # NoReport
    <2>1. DOMAIN h = {"rows", "cols"} BY <1>25
    <2>2. DOMAIN NoReport = {} BY DEF NoReport
    <2> QED BY <2>1, <2>2
  <1>30. m = NumTileM * TileSize /\ n = NumTileN * TileSize BY <1>14, <1>15 DEF TileSize
  <1> QED BY <1>5, <1>6, <1>25, <1>26, <1>27, <1>28, <1>29, <1>30

-----------------------------------------------------------------------------
(* The stream is not drained before the status of a hit is set, and the    *)
(* report is what the header said.                                         *)
Reported ==
  /\ stage = "sync" /\ met # {} => hdr.status = 1
  /\ stage = "read" =>
       IF met = {} THEN report = NoReport
       ELSE hdr.status = 1 /\ report = ExtractIndices(hdr)

(* A slot starts with nothing to report.                                   *)
LEMMA InitReported == Init => Reported
  BY DEF Init, Reported

(* Every step keeps it: only the emit kernel's end and the host's reading  *)
(* bear on it.                                                             *)
LEMMA NextReported == Inv /\ Reported /\ [Next]_vars => Reported'
  <1> SUFFICES ASSUME Inv, Reported, [Next]_vars PROVE Reported'
    OBVIOUS
  <1>1. CASE Launch
    BY <1>1 DEF Launch, To, Reported
  <1>2. CASE ZeroHits \/ ResetScan \/ Search \/ EmitStart
    BY <1>2 DEF ZeroHits, ResetScan, Search, EmitStart, To, Reported
  <1>3. CASE \E i \in pending : ScanThread(i)
    BY <1>3 DEF ScanThread, Reported
  <1>4. CASE EmitNothing
    <2>1. IF met = {} THEN word = Sentinel ELSE IsLeast(word) /\ word # Sentinel
      BY <1>4, ScannedAll DEF EmitNothing, To
    <2> QED BY <1>4, <2>1 DEF EmitNothing, To, Reported
  <1>5. CASE (\E f \in todo : EmitField(f)) \/ EmitStatus
    BY <1>5 DEF EmitField, EmitStatus, Reported
  <1>6. CASE EmitEnd
    BY <1>6 DEF EmitEnd, To, Reported
  <1>7. CASE ReadHeader
    <2>1. stage = "sync" /\ stage' = "read" /\ UNCHANGED <<path, met, hdr>>
          /\ report' = IF hdr.status = 1 THEN ExtractIndices(hdr) ELSE NoReport
      BY <1>7 DEF ReadHeader, To
    <2>2. ExtractIndices(hdr)' = ExtractIndices(hdr)
      BY <2>1 DEF ExtractIndices, Global, Entries, Registers
    <2>3. met = {} => hdr.status # 1 BY DEF Inv, NoTornHeader
    <2> QED BY <2>1, <2>2, <2>3 DEF Reported
  <1>8. CASE UNCHANGED vars
    <2>1. ExtractIndices(hdr)' = ExtractIndices(hdr)
      BY <1>8 DEF vars, ExtractIndices, Global, Entries, Registers
    <2> QED BY <1>8, <2>1 DEF vars, Reported
  <1> QED BY <1>1, <1>2, <1>3, <1>4, <1>5, <1>6, <1>7, <1>8 DEF Next

(* It holds in every reachable state.                                      *)
LEMMA ReportedHolds == Spec => [](Inv /\ Reported)
  <1>1. Init => Inv /\ Reported BY InitInv, InitReported
  <1>2. Inv /\ Reported /\ [Next]_vars => Inv' /\ Reported' BY NextInv, NextReported
  <1> QED BY <1>1, <1>2, PTL DEF Spec

(* What the host reports spans the cells of the least candidate that met   *)
(* the target, and nothing is reported when none did.                      *)
THEOREM ReportsTheWinner == Spec => []ReportedCells
  <1>1. Inv /\ Reported => ReportedCells
    <2> SUFFICES ASSUME Inv, Reported, stage = "read", met # {}
                 PROVE  /\ report # NoReport
                        /\ ElementsOf(report.rows) \X ElementsOf(report.cols) = CellsHashed(Winner)
      BY DEF ReportedCells, Reported
    <2>1. hdr.status = 1 /\ report = ExtractIndices(hdr) BY DEF Reported
    <2> QED BY <2>1, ReportGives, HitReportAssumption
  <1> QED BY <1>1, ReportedHolds, PTL

(* The verifier takes the reported indices as the pattern of the job.      *)
THEOREM VerifierTakesReport == Spec => []VerifierFindsPattern
  <1>1. Inv /\ Reported => VerifierFindsPattern
    <2> SUFFICES ASSUME Inv, Reported, stage = "read", report # NoReport
                 PROVE  /\ PatternOfTheJob(report.rows, JobRows(path), NumTileM * TileSize)
                        /\ PatternOfTheJob(report.cols, JobCols(path), NumTileN * TileSize)
      BY DEF VerifierFindsPattern
    <2>1. hdr.status = 1 /\ report = ExtractIndices(hdr) BY DEF Reported
    <2> QED BY <2>1, ReportGives, HitReportAssumption
  <1> QED BY <1>1, ReportedHolds, PTL
=============================================================================
