-------------------------- MODULE GpuWorker_proofs --------------------------
(***************************************************************************)
(* Proofs about GpuWorker, for any ring size, any jobs and any bounds.     *)
(* The stream is described by its shape: while a batch is launched it is a *)
(* tail of the graphs launched so far, so that its head, the operation to  *)
(* run next, determines what every buffer holds.                           *)
(***************************************************************************)
EXTENDS GpuWorker, Integers, SequenceTheorems, TLAPS

(* Where the bytes of a buffer may come from, and the shapes of the state. *)
Source == {Of(f, j) : f \in JobField, j \in Job} \cup {At(i) : i \in Nat} \cup {Garbage}
Header == [status : {0, 1}, from : SUBSET Source]
OpName == {"fillB", "hashB", "copyB", "copyA", "fillA", "hashA", "commit", "noise",
           "noiseA", "noiseB", "zeroTrans", "searchT", "zeroHits", "resetScan",
           "search", "compare", "scan", "emit"}
Operation == [op : OpName, slot : Slot, iter : Nat]
Pc == {"check", "loadSync", "launch", "scan", "failed"}

TypeOK ==
  /\ path \in Paths /\ hpc \in Pc
  /\ hjob \in Job \cup {NoJob} /\ newJob \in Job \cup {NoJob} /\ cached \in Job \cup {NoJob}
  /\ iter \in Nat /\ start \in Nat /\ seen \in Nat /\ loads \in Nat
  /\ bBytes \in SUBSET Source
  /\ found \in SUBSET [iter : Nat, hdr : Header]
  /\ works \in SUBSET [job : Job \cup {NoJob}, iter : Nat, from : SUBSET Source,
                       a : SUBSET Source, b : SUBSET Source]
  /\ stream \in Seq(Operation) /\ dma \in Seq(JobField \X Job)
  /\ mem \in [SharedBuf -> SUBSET Source]
  /\ hits \in Header /\ scan \in Header
  /\ ring \in [Slot -> [RingBuf -> SUBSET Source]]
  /\ hdr \in [Slot -> Header] /\ snap \in [Slot -> SUBSET Source]
  /\ bPinned \in SUBSET Source
  /\ real \in SUBSET Nat
-----------------------------------------------------------------------------
(* The order of a graph: what follows a step in the graph of its slot, and *)
(* what follows the graph of an iteration in the stream.                   *)
CppNext == [fillA |-> "hashA", hashA |-> "commit", commit |-> "noise",
            noise |-> "noiseA", noiseA |-> "noiseB", noiseB |-> "zeroHits",
            zeroHits |-> "resetScan", resetScan |-> "search", search |-> "scan",
            scan |-> "emit"]
TritonNext == [fillA |-> "hashA", hashA |-> "commit", commit |-> "noise",
               noise |-> "noiseA", noiseA |-> "noiseB", noiseB |-> "zeroTrans",
               zeroTrans |-> "searchT", searchT |-> "resetScan",
               resetScan |-> "compare", compare |-> "scan", scan |-> "emit"]
NextStep == IF path = "CppSearch" THEN CppNext ELSE TritonNext
Follows(o) == IF o.op = "emit" THEN IterOp("fillA", o.iter + 1)
              ELSE IterOp(NextStep[o.op], o.iter)

IsStep(o, lo, hi) ==
  /\ o.op = "emit" \/ o.op \in DOMAIN NextStep
  /\ o.iter \in lo..(hi - 1)
  /\ o = IterOp(o.op, o.iter)

(* A tail s of the graphs of the iterations lo to hi - 1, and the step     *)
(* that comes up on it.                                                    *)
GraphTail(s, lo, hi) ==
  /\ \A n \in 1..Len(s) : IsStep(s[n], lo, hi)
  /\ \A n \in 1..(Len(s) - 1) : s[n + 1] = Follows(s[n])
  /\ s # <<>> => s[Len(s)] = IterOp("emit", hi - 1)
Upcoming(s, hi) == IF s = <<>> THEN IterOp("fillA", hi) ELSE Head(s)

LoadTails == {LoadOps, <<Op("hashB"), Op("copyB")>>, <<Op("copyB")>>, <<>>}

(* What is on the stream, and where the batch stands, at each point of the *)
(* host's loop; nothing here depends on when the job's copies land.        *)
Shape ==
  /\ hpc \in {"check", "failed"} => stream = <<>>
  /\ hpc = "loadSync" => stream \in LoadTails
  /\ hpc = "launch" => GraphTail(stream, start, iter) /\ start <= iter /\ iter <= start + RingSize
  /\ hpc = "scan" =>
       /\ iter = start + RingSize /\ seen \in start..iter
       /\ \A n \in 1..Len(stream) : \E f \in found : stream[n] = IterOp("copyA", f.iter)
  /\ found # {} => hpc = "scan"
-----------------------------------------------------------------------------
(* Everything committed for an iteration: the seed, the key, the number.   *)
Committed(i) == {Of("seed", hjob), Of("key", hjob), At(i)}
HitOf(i) == [status |-> 1, from |-> AllSources(hjob, i)]

(* The order in which both paths run the steps they have.                  *)
Rank == [fillA |-> 1, hashA |-> 2, commit |-> 3, noise |-> 4, noiseA |-> 5,
         noiseB |-> 6, zeroHits |-> 7, zeroTrans |-> 7, searchT |-> 8,
         resetScan |-> 9, search |-> 10, compare |-> 10, scan |-> 11, emit |-> 12]

(* What the buffers hold when step r of iteration i is the next to run.    *)
Staged(r, i) ==
  /\ r > 1 => ring[SlotOf(i)]["A"] = SourcesA(hjob, i)
  /\ r > 2 => ring[SlotOf(i)]["aHash"] = Committed(i)
  /\ r > 3 => ring[SlotOf(i)]["commit"] = Committed(i)
  /\ r > 4 => mem["noise"] = Committed(i)
  /\ r > 5 => mem["apEa"] = Committed(i)
  /\ r > 6 => mem["bpEb"] = Committed(i)
  /\ r = 8 => mem["transcripts"] = {}
  /\ r > 8 /\ path # "CppSearch" => mem["transcripts"] = Committed(i)
  /\ r \in {10, 11} => scan = NoHit
  /\ r > 10 => hits = IF i \in real THEN HitOf(i) ELSE NoHit
  /\ r > 11 => scan = hits
  /\ r <= 10 => i \notin real

(* What the iterations of the batch that are complete have left behind,    *)
(* and what the host prepared for those that are not.                      *)
BatchDone(i) ==
  /\ \A n \in start..(i - 1) :
       /\ ring[SlotOf(n)]["A"] = SourcesA(hjob, n)
       /\ hdr[SlotOf(n)] = IF n \in real THEN HitOf(n) ELSE NoHit
  /\ \A n \in i..(iter - 1) : hdr[SlotOf(n)] = NoHit
  /\ \A n \in real : n <= i

(* The job of the worker is on the device and its B in the host's bytes.   *)
JobLoaded ==
  /\ dma = <<>> /\ hjob \in Job /\ cached = hjob
  /\ \A f \in JobField : mem[f] = {Of(f, hjob)}
  /\ mem["B"] = SourcesB(hjob)
  /\ mem["bHash"] = {Of("seed", hjob), Of("key", hjob)}
  /\ bBytes = SourcesB(hjob)

(* A job being loaded: what has landed, and what the stream has done.      *)
JobLoading ==
  LET landed == 3 - Len(dma)
      done == 3 - Len(stream)
  IN /\ newJob \in Job /\ cached = newJob
     /\ dma \in {Copies(newJob), <<Of("target", newJob), Of("seed", newJob)>>,
                 <<Of("seed", newJob)>>, <<>>}
     /\ dma # <<>> => done = 0
     /\ landed >= 1 => mem["key"] = {Of("key", newJob)}
     /\ landed >= 2 => mem["target"] = {Of("target", newJob)}
     /\ landed >= 3 => mem["seed"] = {Of("seed", newJob)}
     /\ done >= 1 => mem["B"] = SourcesB(newJob)
     /\ done >= 2 => mem["bHash"] = {Of("seed", newJob), Of("key", newJob)}
     /\ done >= 3 => bPinned = SourcesB(newJob)

(* The headers copied out, and the snapshots taken or on the stream.       *)
Scanned ==
  /\ \A f \in found :
       /\ f.iter \in start..(seen - 1) /\ f.iter \in real
       /\ f.hdr = HitOf(f.iter)
       /\ \/ snap[SlotOf(f.iter)] = SourcesA(hjob, f.iter)
          \/ \E n \in 1..Len(stream) : stream[n] = IterOp("copyA", f.iter)
  /\ \A n \in start..(seen - 1) : n \in real => \E f \in found : f.iter = n

DataInv ==
  /\ hpc = "check" => (hjob = NoJob /\ cached = NoJob /\ dma = <<>>) \/ JobLoaded
  /\ hpc = "loadSync" => JobLoading
  /\ hpc \in {"check", "loadSync"} => SentIters = real /\ \A n \in real : n < iter
  /\ hpc \in {"launch", "scan"} =>
       JobLoaded /\ SentIters = {n \in real : n < start}
  /\ hpc = "launch" => LET o == Upcoming(stream, iter)
                       IN  Staged(Rank[o.op], o.iter) /\ BatchDone(o.iter)
  /\ hpc = "scan" => BatchDone(iter) /\ iter \notin real /\ Scanned
  /\ HitsProvable
-----------------------------------------------------------------------------
(* Slots: an iteration has one, and the iterations of a batch have         *)
(* different ones (MinerBufs::slot).                                       *)
LEMMA SlotType == ASSUME NEW i \in Nat PROVE SlotOf(i) \in Slot
BY GpuWorkerAssumption DEF SlotOf, Slot

LEMMA SlotsDiffer ==
  ASSUME NEW i \in Nat, NEW j \in Nat, i < j, j < i + RingSize
  PROVE  SlotOf(i) # SlotOf(j)
<1> DEFINE R == RingSize
           qi == i \div R
           qj == j \div R
<1>1. R \in Nat \ {0} BY GpuWorkerAssumption
<1> HIDE DEF R
<1>2. i = R * qi + (i % R) /\ qi \in Nat /\ j = R * qj + (j % R) /\ qj \in Nat
  BY <1>1
<1>3. SUFFICES ASSUME i % R = j % R PROVE FALSE
  BY DEF SlotOf, R
<1>4. j - i = R * qj - R * qi
  BY <1>1, <1>2, <1>3
<1>5. j - i = R * (qj - qi)
  BY <1>1, <1>2, <1>4
<1>6. CASE qj - qi <= 0
  BY <1>1, <1>2, <1>5, <1>6
<1>7. CASE qj - qi >= 1
  <2>1. R * (qj - qi) >= R
    BY <1>1, <1>2, <1>7
  <2> QED BY <2>1, <1>5, <1>1 DEF R
<1> QED BY <1>6, <1>7, <1>2

(* The graph of an iteration starts with the fill of A, ends with the      *)
(* emit, and each step is followed by the next (capture_all_slots).        *)
LEMMA GraphOrder ==
  ASSUME TypeOK, NEW i \in Nat
  PROVE  /\ Graph(i) \in Seq(Operation) /\ Len(Graph(i)) \in {11, 12}
         /\ Graph(i)[1] = IterOp("fillA", i)
         /\ Graph(i)[Len(Graph(i))] = IterOp("emit", i)
         /\ \A n \in 1..Len(Graph(i)) :
              /\ Graph(i)[n] = IterOp(Graph(i)[n].op, i)
              /\ Graph(i)[n].op = "emit" \/ Graph(i)[n].op \in DOMAIN NextStep
         /\ \A n \in 1..(Len(Graph(i)) - 1) : Graph(i)[n + 1] = Follows(Graph(i)[n])
<1> DEFINE G == Graph(i)
<1>s. SlotOf(i) \in Slot BY SlotType
<1>1. CASE path = "CppSearch"
  <2>1. GraphSteps = CppSteps /\ NextStep = CppNext
    BY <1>1 DEF GraphSteps, NextStep
  <2>2. DOMAIN CppSteps = 1..11 /\ \A n \in 1..11 : CppSteps[n] \in OpName
    BY DEF CppSteps, OpName
  <2>3. G = [n \in 1..11 |-> IterOp(CppSteps[n], i)]
    BY <2>1, <2>2 DEF Graph
  <2>4. G \in Seq(Operation) /\ Len(G) = 11
    BY <2>2, <2>3, <1>s DEF IterOp, Operation
  <2>5. \A n \in 1..11 : G[n] = IterOp(CppSteps[n], i) /\ G[n].op = CppSteps[n] /\ G[n].iter = i
    BY <2>3 DEF IterOp
  <2>6. CppSteps[1] = "fillA" /\ CppSteps[11] = "emit"
    BY DEF CppSteps
  <2>7. \A n \in 1..10 : /\ CppSteps[n] \in DOMAIN CppNext /\ CppSteps[n] # "emit"
                         /\ CppNext[CppSteps[n]] = CppSteps[n + 1]
    BY DEF CppSteps, CppNext
  <2>8. \A n \in 1..10 : G[n + 1] = Follows(G[n])
    <3> TAKE n \in 1..10
    <3>1. n + 1 \in 1..11 OBVIOUS
    <3> QED BY <3>1, <2>1, <2>5, <2>7 DEF Follows
  <2>9. \A n \in 1..11 : G[n].op = "emit" \/ G[n].op \in DOMAIN NextStep
    BY <2>1, <2>5, <2>6, <2>7
  <2> QED BY <2>4, <2>5, <2>6, <2>8, <2>9
<1>2. CASE path # "CppSearch"
  <2>1. GraphSteps = TritonSteps /\ NextStep = TritonNext
    BY <1>2 DEF GraphSteps, NextStep
  <2>2. DOMAIN TritonSteps = 1..12 /\ \A n \in 1..12 : TritonSteps[n] \in OpName
    BY DEF TritonSteps, OpName
  <2>3. G = [n \in 1..12 |-> IterOp(TritonSteps[n], i)]
    BY <2>1, <2>2 DEF Graph
  <2>4. G \in Seq(Operation) /\ Len(G) = 12
    BY <2>2, <2>3, <1>s DEF IterOp, Operation
  <2>5. \A n \in 1..12 : G[n] = IterOp(TritonSteps[n], i) /\ G[n].op = TritonSteps[n] /\ G[n].iter = i
    BY <2>3 DEF IterOp
  <2>6. TritonSteps[1] = "fillA" /\ TritonSteps[12] = "emit"
    BY DEF TritonSteps
  <2>7. \A n \in 1..11 : /\ TritonSteps[n] \in DOMAIN TritonNext /\ TritonSteps[n] # "emit"
                         /\ TritonNext[TritonSteps[n]] = TritonSteps[n + 1]
    BY DEF TritonSteps, TritonNext
  <2>8. \A n \in 1..11 : G[n + 1] = Follows(G[n])
    <3> TAKE n \in 1..11
    <3>1. n + 1 \in 1..12 OBVIOUS
    <3> QED BY <3>1, <2>1, <2>5, <2>7 DEF Follows
  <2>9. \A n \in 1..12 : G[n].op = "emit" \/ G[n].op \in DOMAIN NextStep
    BY <2>1, <2>5, <2>6, <2>7
  <2> QED BY <2>4, <2>5, <2>6, <2>8, <2>9
<1> QED BY <1>1, <1>2

LEMMA LoadOpsType == LoadOps \in Seq(Operation) /\ Len(LoadOps) = 3
<1>1. 0 \in Slot BY GpuWorkerAssumption DEF Slot
<1> QED BY <1>1 DEF LoadOps, Op, Operation, OpName

(* The sources of every buffer are sources, whatever the stream runs.      *)
LEMMA SourceTypes ==
  ASSUME NEW i \in Nat, NEW j \in Job
  PROVE  /\ {At(i)} \in SUBSET Source /\ Empty \in SUBSET Source /\ NoHit \in Header
         /\ \A f \in JobField : {Of(f, j)} \in SUBSET Source
<1>1. {At(i)} \in SUBSET Source BY DEF Source
<1>2. Empty \in SUBSET Source /\ NoHit \in Header BY DEF Source, Empty, NoHit, Header
<1>3. \A f \in JobField : {Of(f, j)} \in SUBSET Source BY DEF Source
<1> QED BY <1>1, <1>2, <1>3

LEMMA InitType == Init => TypeOK
<1> SUFFICES ASSUME Init PROVE TypeOK OBVIOUS
<1>1. Empty \in SUBSET Source /\ NoHit \in Header
  BY DEF Source, Empty, NoHit, Header
<1> QED BY <1>1 DEF Init, TypeOK, Pc

LEMMA ExecuteType ==
  ASSUME TypeOK, NEW o \in Operation, Execute(o)
  PROVE  /\ mem' \in [SharedBuf -> SUBSET Source]
         /\ hits' \in Header /\ scan' \in Header
         /\ ring' \in [Slot -> [RingBuf -> SUBSET Source]]
         /\ hdr' \in [Slot -> Header] /\ snap' \in [Slot -> SUBSET Source]
         /\ bPinned' \in SUBSET Source /\ real' \in SUBSET Nat
<1> DEFINE s == o.slot
           i == o.iter
<1>1. s \in Slot /\ i \in Nat BY DEF Operation
<1>2. {At(i)} \in SUBSET Source /\ NoHit \in Header /\ {} \in SUBSET Source
  BY <1>1 DEF Source, NoHit, Header
<1>3. \A b \in SharedBuf : mem[b] \in SUBSET Source BY DEF TypeOK
<1>4. \A b \in RingBuf : ring[s][b] \in SUBSET Source BY <1>1 DEF TypeOK
<1>5. \A b \in SharedBuf, v \in SUBSET Source : SetMem(b, v) =>
        /\ mem' \in [SharedBuf -> SUBSET Source]
        /\ UNCHANGED <<hits, scan, ring, hdr, snap, bPinned, real>>
  BY DEF SetMem, TypeOK, workspace, pinVars
<1>6. \A b \in RingBuf, v \in SUBSET Source : SetRing(s, b, v) =>
        /\ ring' \in [Slot -> [RingBuf -> SUBSET Source]]
        /\ UNCHANGED <<hits, scan, mem, hdr, snap, bPinned, real>>
  BY <1>1 DEF SetRing, TypeOK, workspace, pinVars
<1>7. \A v \in SUBSET Source : Finds(i, v) =>
        /\ hits' \in Header /\ real' \in SUBSET Nat
        /\ UNCHANGED <<mem, scan, ring, hdr, snap, bPinned>>
  <2> TAKE v \in SUBSET Source
  <2>1. [status |-> 1, from |-> v] \in Header BY DEF Header
  <2>2. real \in SUBSET Nat /\ real \cup {i} \in SUBSET Nat BY <1>1 DEF TypeOK
  <2> QED BY <1>2, <2>1, <2>2 DEF Finds, pinVars
<1> HIDE DEF s, i
<1>8. CASE FillB \/ HashB \/ NoiseB \/ ZeroTrans \/ SearchT \/ Noise(s) \/ NoiseA(s)
  <2>1. \A b \in SharedBuf, v \in SUBSET Source : SetMem(b, v) =>
          /\ mem' \in [SharedBuf -> SUBSET Source]
          /\ hits' \in Header /\ scan' \in Header
          /\ ring' \in [Slot -> [RingBuf -> SUBSET Source]]
          /\ hdr' \in [Slot -> Header] /\ snap' \in [Slot -> SUBSET Source]
          /\ bPinned' \in SUBSET Source /\ real' \in SUBSET Nat
    BY <1>5 DEF TypeOK
  <2>2. \E b \in SharedBuf, v \in SUBSET Source : SetMem(b, v)
    BY <1>2, <1>3, <1>4, <1>8
       DEF FillB, HashB, NoiseB, ZeroTrans, SearchT, Noise, NoiseA, SharedBuf, RingBuf
  <2> QED BY <2>1, <2>2
<1>9. CASE FillA(s, i) \/ HashA(s) \/ Commit(s)
  <2>1. \E b \in RingBuf, v \in SUBSET Source : SetRing(s, b, v)
    BY <1>2, <1>3, <1>4, <1>9 DEF FillA, HashA, Commit, SharedBuf, RingBuf
  <2> QED BY <2>1, <1>6 DEF TypeOK
<1>10. CASE Search(s, i) \/ Compare(s, i)
  <2>1. \E v \in SUBSET Source : Finds(i, v)
    BY <1>3, <1>4, <1>10 DEF Search, Compare, SharedBuf, RingBuf
  <2> QED BY <2>1, <1>7 DEF TypeOK
<1>11. CASE ZeroHits \/ ResetScan \/ Scan
  BY <1>2, <1>11 DEF ZeroHits, ResetScan, Scan, TypeOK, pinVars
<1>12. CASE Emit(s)
  <2>1. scan.from \cup mem["target"] \in SUBSET Source
    BY <1>3 DEF TypeOK, Header, SharedBuf
  <2>2. [status |-> 1, from |-> scan.from \cup mem["target"]] \in Header
    BY <2>1 DEF Header
  <2> QED BY <1>1, <1>12, <2>2 DEF Emit, TypeOK, workspace
<1>13. CASE CopyB \/ CopyA(s)
  BY <1>1, <1>3, <1>4, <1>13 DEF CopyA, CopyB, TypeOK, workspace, SharedBuf, RingBuf
<1> QED
  BY <1>8, <1>9, <1>10, <1>11, <1>12, <1>13 DEF Execute, s, i

LEMMA TypeStep == TypeOK /\ [Next]_vars => TypeOK'
<1> SUFFICES ASSUME TypeOK, [Next]_vars PROVE TypeOK' OBVIOUS
<1> USE DEF hostVars, devVars, workspace, pinVars
<1>1. CASE UNCHANGED vars
  BY <1>1 DEF vars, TypeOK
<1>2. ASSUME NEW j \in Job, EnsureForJob(j) PROVE TypeOK'
  <2>1. stream' \in Seq(Operation)
    BY <1>2, LoadOpsType, ConcatProperties DEF EnsureForJob, TypeOK
  <2>2. Copies(j) \in Seq(JobField \X Job)
    BY DEF Copies, Of, JobField
  <2>3. dma' \in Seq(JobField \X Job)
    BY <1>2, <2>2, ConcatProperties DEF EnsureForJob, TypeOK
  <2> QED BY <1>2, <2>1, <2>3 DEF EnsureForJob, Host, TypeOK, Pc
<1>3. CASE AdoptJob
  BY <1>3 DEF AdoptJob, Host, TypeOK, Pc
<1>4. CASE NextBatch
  BY <1>4 DEF NextBatch, Host, TypeOK, Pc
<1>5. CASE MineOne
  <2>1. SlotOf(iter) \in Slot /\ NoHit \in Header /\ Graph(iter) \in Seq(Operation)
    BY SlotType, GraphOrder DEF TypeOK, NoHit, Header
  <2>2. stream' \in Seq(Operation)
    BY <1>5, <2>1, ConcatProperties DEF MineOne, TypeOK
  <2>3. hdr' \in [Slot -> Header]
    BY <1>5, <2>1 DEF MineOne, ZeroHeader, TypeOK
  <2> QED BY <1>5, <2>2, <2>3 DEF MineOne, TypeOK
<1>6. CASE BeginScan
  BY <1>6 DEF BeginScan, Host, TypeOK, Pc
<1>7. CASE ScanSlot
  <2>1. SlotOf(seen) \in Slot BY SlotType DEF TypeOK
  <2>2. IterOp("copyA", seen) \in Operation
    BY <2>1 DEF TypeOK, IterOp, Operation, OpName
  <2>3. stream' \in Seq(Operation)
    BY <1>7, <2>2, AppendProperties DEF ScanSlot, TypeOK
  <2>4. [iter |-> seen, hdr |-> hdr[SlotOf(seen)]] \in [iter : Nat, hdr : Header]
    BY <2>1 DEF TypeOK
  <2>5. found' \in SUBSET [iter : Nat, hdr : Header]
    BY <1>7, <2>4 DEF ScanSlot, TypeOK
  <2> QED BY <1>7, <2>3, <2>5 DEF ScanSlot, TypeOK
<1>8. CASE SendHits
  <2>1. ASSUME NEW f \in found
        PROVE  Work(f) \in [job : Job \cup {NoJob}, iter : Nat, from : SUBSET Source,
                            a : SUBSET Source, b : SUBSET Source]
    <3>1. f.iter \in Nat /\ f.hdr.from \in SUBSET Source
      BY DEF TypeOK, Header
    <3>2. snap[SlotOf(f.iter)] \in SUBSET Source
      BY <3>1, SlotType DEF TypeOK
    <3> QED BY <3>1, <3>2 DEF Work, TypeOK
  <2>2. works' \in SUBSET [job : Job \cup {NoJob}, iter : Nat, from : SUBSET Source,
                           a : SUBSET Source, b : SUBSET Source]
    BY <1>8, <2>1 DEF SendHits, TypeOK
  <2> QED BY <1>8, <2>2 DEF SendHits, Host, TypeOK, Pc
<1>9. CASE HostFails
  BY <1>9 DEF HostFails, TypeOK, Pc
<1>10. CASE CopyLands
  <2>1. Head(dma) \in JobField \X Job /\ Tail(dma) \in Seq(JobField \X Job)
    BY <1>10, HeadTailProperties DEF CopyLands, TypeOK
  <2>2. PICK f \in JobField, j \in Job : Head(dma) = Of(f, j)
    BY <2>1 DEF Of
  <2>3. Head(dma)[1] \in SharedBuf /\ {Head(dma)} \in SUBSET Source
    BY <2>2 DEF Of, JobField, SharedBuf, Source
  <2>4. mem' \in [SharedBuf -> SUBSET Source]
    BY <1>10, <2>3 DEF CopyLands, TypeOK
  <2> QED BY <1>10, <2>1, <2>4 DEF CopyLands, TypeOK
<1>11. CASE StreamStep
  <2>1. Head(stream) \in Operation /\ Tail(stream) \in Seq(Operation)
    BY <1>11, HeadTailProperties DEF StreamStep, TypeOK
  <2>2. Execute(Head(stream)) BY <1>11 DEF StreamStep
  <2>3. /\ mem' \in [SharedBuf -> SUBSET Source]
        /\ hits' \in Header /\ scan' \in Header
        /\ ring' \in [Slot -> [RingBuf -> SUBSET Source]]
        /\ hdr' \in [Slot -> Header] /\ snap' \in [Slot -> SUBSET Source]
        /\ bPinned' \in SUBSET Source /\ real' \in SUBSET Nat
    BY <2>1, <2>2, ExecuteType
  <2> QED BY <1>11, <2>1, <2>3 DEF StreamStep, TypeOK
<1> QED
  BY <1>1, <1>2, <1>3, <1>4, <1>5, <1>6, <1>7, <1>8, <1>9, <1>10, <1>11 DEF Next, HostStep

(* Every variable has its type, in every state of the worker.              *)
LEMMA Typed == Spec => []TypeOK
BY InitType, TypeStep, PTL DEF Spec

-----------------------------------------------------------------------------
(* Running the head of a tail of graphs leaves a tail of graphs, and the   *)
(* step that comes up is the one that follows it.                          *)
LEMMA TailAdvances ==
  ASSUME NEW s \in Seq(Operation), NEW lo \in Nat, NEW hi \in Nat,
         GraphTail(s, lo, hi), s # <<>>
  PROVE  /\ IsStep(Head(s), lo, hi) /\ Upcoming(s, hi) = Head(s)
         /\ GraphTail(Tail(s), lo, hi) /\ Upcoming(Tail(s), hi) = Follows(Head(s))
<1> DEFINE t == Tail(s)
<1>2. Len(s) \in Nat \ {0} /\ Head(s) = s[1]
  BY HeadTailProperties, EmptySeq
<1>3. /\ t \in Seq(Operation) /\ Len(t) = Len(s) - 1
      /\ \A n \in 1..(Len(s) - 1) : t[n] = s[n + 1]
  BY <1>2, HeadTailProperties
<1> HIDE DEF t
<1>4. IsStep(Head(s), lo, hi) /\ Upcoming(s, hi) = Head(s)
  BY <1>2 DEF GraphTail, Upcoming
<1>5. \A n \in 1..Len(t) : IsStep(t[n], lo, hi)
  BY <1>2, <1>3 DEF GraphTail
<1>7. \A n \in 1..(Len(t) - 1) : t[n + 1] = Follows(t[n])
  <2> TAKE n \in 1..(Len(t) - 1)
  <2>1. s[n + 1 + 1] = Follows(s[n + 1])
    BY <1>2, <1>3 DEF GraphTail
  <2>2. t[n] = s[n + 1] /\ t[n + 1] = s[n + 1 + 1]
    BY <1>2, <1>3
  <2> QED BY <2>1, <2>2
<1>8. t # <<>> => t[Len(t)] = IterOp("emit", hi - 1)
  <2> SUFFICES ASSUME t # <<>> PROVE t[Len(t)] = IterOp("emit", hi - 1)
    OBVIOUS
  <2>1. Len(t) \in 1..(Len(s) - 1)
    BY <1>2, <1>3, EmptySeq
  <2>2. t[Len(t)] = s[Len(s)]
    BY <2>1, <1>2, <1>3
  <2> QED BY <2>2, <1>2 DEF GraphTail
<1>9. GraphTail(t, lo, hi)
  BY <1>5, <1>7, <1>8 DEF GraphTail
<1>10. Upcoming(t, hi) = Follows(Head(s))
  <2>1. CASE Len(s) = 1
    <3>1. t = <<>> BY <1>3, <2>1, EmptySeq
    <3>2. Head(s) = IterOp("emit", hi - 1) BY <1>2, <2>1 DEF GraphTail
    <3>3. hi - 1 + 1 = hi OBVIOUS
    <3>4. Follows(Head(s)) = IterOp("fillA", hi) BY <3>2, <3>3 DEF Follows, IterOp
    <3> QED BY <3>1, <3>4 DEF Upcoming
  <2>2. CASE Len(s) > 1
    <3>1. t # <<>> /\ Head(t) = t[1] /\ t[1] = s[2]
      BY <1>2, <1>3, <2>2, HeadTailProperties, EmptySeq
    <3>2. s[2] = Follows(s[1])
      <4>1. 1 \in 1..(Len(s) - 1) /\ 1 + 1 = 2 BY <1>2, <2>2
      <4> QED BY <4>1 DEF GraphTail
    <3> QED BY <3>1, <3>2, <1>2 DEF Upcoming
  <2>3. \A n \in Nat \ {0} : n = 1 \/ n > 1 OBVIOUS
  <2> QED BY <2>1, <2>2, <2>3, <1>2
<1> QED BY <1>4, <1>9, <1>10 DEF t

(* Launching another graph leaves a tail of graphs, and does not change    *)
(* the step that comes up.                                                 *)
LEMMA LaunchExtends ==
  ASSUME TypeOK, NEW s \in Seq(Operation), NEW lo \in Nat, NEW hi \in Nat, lo <= hi,
         GraphTail(s, lo, hi)
  PROVE  /\ GraphTail(s \o Graph(hi), lo, hi + 1)
         /\ Upcoming(s \o Graph(hi), hi + 1) = Upcoming(s, hi)
<1> DEFINE G == Graph(hi)
           L == Len(s)
           t == s \o G
<1>2. /\ G \in Seq(Operation) /\ Len(G) \in {11, 12}
      /\ G[1] = IterOp("fillA", hi) /\ G[Len(G)] = IterOp("emit", hi)
      /\ \A n \in 1..Len(G) : /\ G[n] = IterOp(G[n].op, hi)
                              /\ G[n].op = "emit" \/ G[n].op \in DOMAIN NextStep
      /\ \A n \in 1..(Len(G) - 1) : G[n + 1] = Follows(G[n])
  BY GraphOrder
<1> HIDE DEF G
<1>3. /\ t \in Seq(Operation) /\ Len(t) = L + Len(G) /\ L \in Nat
      /\ \A n \in 1..(L + Len(G)) : t[n] = IF n <= L THEN s[n] ELSE G[n - L]
  BY <1>2, ConcatProperties
<1> HIDE DEF t, L
<1>4. \A n \in 1..Len(t) : IsStep(t[n], lo, hi + 1)
  <2> TAKE n \in 1..Len(t)
  <2>1. CASE n <= L
    <3>1. t[n] = s[n] /\ n \in 1..L BY <2>1, <1>2, <1>3
    <3>2. IsStep(s[n], lo, hi) BY <3>1 DEF GraphTail, L
    <3>3. lo..(hi - 1) \subseteq lo..(hi + 1 - 1) OBVIOUS
    <3> QED BY <3>1, <3>2, <3>3 DEF IsStep
  <2>2. CASE n > L
    <3>1. t[n] = G[n - L] /\ n - L \in 1..Len(G) BY <2>2, <1>2, <1>3
    <3>2. /\ G[n - L] = IterOp(G[n - L].op, hi)
          /\ G[n - L].op = "emit" \/ G[n - L].op \in DOMAIN NextStep
      BY <3>1, <1>2
    <3>3. G[n - L].iter = hi BY <3>2 DEF IterOp
    <3>4. hi \in lo..(hi + 1 - 1) OBVIOUS
    <3> QED BY <3>1, <3>2, <3>3, <3>4 DEF IsStep
  <2> QED BY <2>1, <2>2, <1>3, <1>2
<1>5. \A n \in 1..(Len(t) - 1) : t[n + 1] = Follows(t[n])
  <2> TAKE n \in 1..(Len(t) - 1)
  <2>1. CASE n < L
    <3>1. n \in 1..(L - 1) /\ t[n] = s[n] /\ t[n + 1] = s[n + 1]
      BY <2>1, <1>2, <1>3
    <3> QED BY <3>1 DEF GraphTail, L
  <2>2. CASE n = L
    <3>1. t[n] = s[L] /\ t[n + 1] = G[1]
      <4>1. /\ n \in 1..(L + Len(G)) /\ n + 1 \in 1..(L + Len(G))
            /\ n <= L /\ ~(n + 1 <= L) /\ n + 1 - L = 1
        BY <2>2, <1>2, <1>3
      <4>2. t[n] = s[n] BY <4>1, <1>3
      <4>3. t[n + 1] = G[n + 1 - L] BY <4>1, <1>3
      <4> QED BY <4>1, <4>2, <4>3, <2>2
    <3>2. s[L] = IterOp("emit", hi - 1)
      BY <2>2, <1>3, EmptySeq DEF GraphTail, L
    <3>3. hi - 1 + 1 = hi OBVIOUS
    <3> QED BY <3>1, <3>2, <3>3, <1>2 DEF Follows, IterOp
  <2>3. CASE n > L
    <3>1. /\ t[n] = G[n - L] /\ t[n + 1] = G[n - L + 1]
          /\ n - L \in 1..(Len(G) - 1)
      BY <2>3, <1>2, <1>3
    <3> QED BY <3>1, <1>2
  <2> QED BY <2>1, <2>2, <2>3, <1>3, <1>2
<1>6. t[Len(t)] = IterOp("emit", hi + 1 - 1)
  <2>1. t[Len(t)] = G[Len(G)] BY <1>2, <1>3
  <2>2. hi + 1 - 1 = hi OBVIOUS
  <2> QED BY <2>1, <2>2, <1>2
<1>7. GraphTail(t, lo, hi + 1) BY <1>4, <1>5, <1>6 DEF GraphTail
<1>8. Upcoming(t, hi + 1) = Upcoming(s, hi)
  <2>1. t # <<>> /\ Head(t) = t[1]
    BY <1>2, <1>3, HeadTailProperties, EmptySeq
  <2>2. CASE s = <<>>
    <3>1. L = 0 BY <2>2, EmptySeq DEF L
    <3>2. t[1] = G[1] BY <3>1, <1>2, <1>3
    <3> QED BY <2>1, <2>2, <3>2, <1>2 DEF Upcoming
  <2>3. CASE s # <<>>
    <3>1. L \in Nat \ {0} /\ Head(s) = s[1] BY <2>3, HeadTailProperties, EmptySeq DEF L
    <3>2. t[1] = s[1] BY <3>1, <1>2, <1>3
    <3> QED BY <2>1, <2>3, <3>1, <3>2 DEF Upcoming
  <2> QED BY <2>2, <2>3
<1> QED BY <1>7, <1>8 DEF t, G

-----------------------------------------------------------------------------
(* The shape of the stream and of the batch, at each point of the loop.    *)
LEMMA InitShape == Init => Shape
BY DEF Init, Shape

LEMMA ShapeStep == TypeOK /\ Shape /\ [Next]_vars => Shape'
<1> SUFFICES ASSUME TypeOK, Shape, [Next]_vars PROVE Shape' OBVIOUS
<1> USE DEF hostVars
<1>1. CASE UNCHANGED vars
  <2>1. UNCHANGED <<path, hpc, iter, start, seen, found, stream>>
    BY <1>1 DEF vars
  <2>2. hpc = "launch" => GraphTail(stream, start, iter)'
    BY <2>1 DEF Shape, GraphTail, IsStep, Follows, NextStep
  <2> QED BY <2>1, <2>2 DEF Shape
<1>2. ASSUME NEW j \in Job, EnsureForJob(j) PROVE Shape'
  <2>1. stream = <<>> /\ found = {} /\ hpc' = "loadSync" /\ found' = {}
    BY <1>2 DEF EnsureForJob, Host, Shape
  <2>2. stream' = LoadOps \/ stream' = <<>>
    BY <1>2, <2>1, LoadOpsType, ConcatEmptySeq DEF EnsureForJob
  <2> QED BY <2>1, <2>2 DEF Shape, LoadTails
<1>3. CASE AdoptJob \/ NextBatch
  <2>1. hpc' = "launch" /\ stream = <<>> /\ stream' = <<>> /\ found' = {} /\ start' = iter'
    BY <1>3 DEF AdoptJob, NextBatch, Host, Drained, Shape
  <2>2. iter' \in Nat BY <1>3 DEF AdoptJob, NextBatch, TypeOK
  <2>3. GraphTail(stream, start, iter)'
    BY <2>1, EmptySeq DEF GraphTail
  <2>4. start' <= iter' /\ iter' <= start' + RingSize
    <3>1. \A n \in Nat : n <= n /\ n <= n + RingSize
      BY GpuWorkerAssumption
    <3> QED BY <2>1, <2>2, <3>1
  <2> QED BY <2>1, <2>3, <2>4 DEF Shape
<1>4. CASE MineOne
  <2>1. /\ GraphTail(stream, start, iter) /\ start <= iter /\ iter < start + RingSize
        /\ hpc' = "launch" /\ found' = {}
    BY <1>4, GpuWorkerAssumption DEF MineOne, BatchFull, Shape, TypeOK
  <2>2. GraphTail(stream \o Graph(iter), start, iter + 1)
    BY <2>1, LaunchExtends DEF TypeOK
  <2>3. GraphTail(stream, start, iter)'
    BY <1>4, <2>2 DEF MineOne, GraphTail, IsStep, Follows, NextStep
  <2>4. start' <= iter' /\ iter' <= start' + RingSize
    BY <1>4, <2>1, GpuWorkerAssumption DEF MineOne, TypeOK
  <2> QED BY <2>1, <2>3, <2>4 DEF Shape
<1>5. CASE BeginScan
  <2>1. hpc' = "scan" /\ stream' = <<>> /\ seen' = start
    BY <1>5 DEF BeginScan, Host, Drained
  <2>2. iter' = start' + RingSize /\ seen' \in start'..iter'
    BY <1>5, GpuWorkerAssumption DEF BeginScan, Host, BatchFull, Shape, TypeOK
  <2> QED BY <2>1, <2>2, EmptySeq DEF Shape
<1>6. CASE ScanSlot
  <2>1. hpc = "scan" /\ hpc' = "scan" /\ UNCHANGED <<iter, start>> /\ seen' = seen + 1
    BY <1>6 DEF ScanSlot
  <2>2. iter' = start' + RingSize /\ seen' \in start'..iter'
    BY <1>6, <2>1 DEF ScanSlot, Shape, TypeOK
  <2>3. \A n \in 1..Len(stream') : \E f \in found' : stream'[n] = IterOp("copyA", f.iter)
    <3>1. CASE ~HitSlot(seen)
      BY <1>6, <2>1, <3>1 DEF ScanSlot, Shape
    <3>2. CASE HitSlot(seen)
      <4> DEFINE g == [iter |-> seen, hdr |-> hdr[SlotOf(seen)]]
      <4>1. found' = found \cup {g} /\ stream' = Append(stream, IterOp("copyA", seen))
        BY <1>6, <3>2 DEF ScanSlot
      <4>2. IterOp("copyA", seen) \in Operation
        BY SlotType DEF TypeOK, IterOp, Operation, OpName
      <4>3. /\ Len(stream) \in Nat /\ Len(stream') = Len(stream) + 1
            /\ \A n \in 1..Len(stream) : stream'[n] = stream[n]
            /\ stream'[Len(stream) + 1] = IterOp("copyA", seen)
        BY <4>1, <4>2, AppendProperties, LenProperties DEF TypeOK
      <4>4. \A n \in 1..Len(stream) : \E f \in found' : stream'[n] = IterOp("copyA", f.iter)
        BY <2>1, <4>1, <4>3 DEF Shape
      <4>5. g \in found' /\ stream'[Len(stream) + 1] = IterOp("copyA", g.iter)
        BY <4>1, <4>3
      <4> QED BY <4>3, <4>4, <4>5
    <3> QED BY <3>1, <3>2
  <2> QED BY <2>1, <2>2, <2>3 DEF Shape
<1>7. CASE SendHits
  <2>1. hpc = "scan" /\ hpc' = "check" /\ found' = {} /\ stream' = stream
    BY <1>7 DEF SendHits, Host
  <2>2. stream = <<>>
    <3>1. CASE found # {} BY <1>7, <3>1 DEF SendHits, Drained
    <3>2. CASE found = {}
      BY <2>1, <3>2, LenProperties, EmptySeq DEF Shape, TypeOK
    <3> QED BY <3>1, <3>2
  <2> QED BY <2>1, <2>2 DEF Shape
<1>8. CASE HostFails
  BY <1>8 DEF HostFails, Shape
<1>9. CASE CopyLands
  BY <1>9 DEF CopyLands, Shape, GraphTail, IsStep, Follows, NextStep
<1>10. CASE StreamStep
  <2>1. stream # <<>> /\ stream' = Tail(stream) /\ UNCHANGED <<path, hostVars>>
    BY <1>10 DEF StreamStep
  <2>2. stream \in Seq(Operation) /\ iter \in Nat /\ start \in Nat BY DEF TypeOK
  <2>3. CASE hpc = "loadSync"
    <3>1. stream' \in LoadTails
      <4>1. \A a, b, c : /\ Tail(<<a, b, c>>) = <<b, c>>
                         /\ Tail(<<b, c>>) = <<c>> /\ Tail(<<c>>) = <<>>
        OBVIOUS
      <4>2. stream \in LoadTails \ {<<>>} BY <2>1, <2>3 DEF Shape
      <4>3. Tail(stream) \in LoadTails
        <5> DEFINE a == Op("fillB")
                   b == Op("hashB")
                   c == Op("copyB")
        <5>1. LoadTails = {<<a, b, c>>, <<b, c>>, <<c>>, <<>>}
          BY DEF LoadTails, LoadOps
        <5> HIDE DEF a, b, c
        <5>2. CASE stream = <<a, b, c>> BY <4>1, <5>1, <5>2
        <5>3. CASE stream = <<b, c>> BY <4>1, <5>1, <5>3
        <5>4. CASE stream = <<c>> BY <4>1, <5>1, <5>4
        <5> QED BY <4>2, <5>1, <5>2, <5>3, <5>4
      <4> QED BY <2>1, <4>3
    <3> QED BY <2>1, <2>3, <3>1 DEF Shape
  <2>4. CASE hpc = "launch"
    <3>1. GraphTail(Tail(stream), start, iter)
      BY <2>1, <2>2, <2>4, TailAdvances DEF Shape
    <3>2. GraphTail(stream, start, iter)'
      BY <2>1, <3>1 DEF GraphTail, IsStep, Follows, NextStep
    <3> QED BY <2>1, <2>4, <3>2 DEF Shape
  <2>5. CASE hpc = "scan"
    <3>1. /\ Len(stream) \in Nat /\ Len(stream') = Len(stream) - 1
          /\ \A n \in 1..Len(stream') : stream'[n] = stream[n + 1]
      BY <2>1, <2>2, HeadTailProperties, LenProperties, EmptySeq
    <3>2. \A n \in 1..Len(stream') : \E f \in found' : stream'[n] = IterOp("copyA", f.iter)
      BY <2>1, <2>5, <3>1 DEF Shape
    <3> QED BY <2>1, <2>5, <3>2 DEF Shape
  <2> QED BY <2>1, <2>3, <2>4, <2>5 DEF Shape, TypeOK, Pc
<1> QED
  BY <1>1, <1>2, <1>3, <1>4, <1>5, <1>6, <1>7, <1>8, <1>9, <1>10 DEF Next, HostStep

LEMMA Shaped == Spec => [](TypeOK /\ Shape)
BY InitType, InitShape, TypeStep, ShapeStep, PTL DEF Spec

(* In every execution, whenever copies land, the host zeroes or reads a    *)
(* pinned buffer, or starts to overwrite key, target and seed, only when   *)
(* no operation on the stream uses it (mine_one_with_graphs, the scan of   *)
(* the slots and ensure_for_job).                                          *)
THEOREM HostNeverRacesDevice == Spec => NoHostDeviceRace
<1> DEFINE Race == /\ iter' # iter => ~Pending("emit", SlotOf(iter))
                   /\ bBytes' # bBytes => ~Pending("copyB", 0)
                   /\ works' # works => \A s \in Slot : ~Pending("copyA", s)
                   /\ seen' # seen => \A s \in Slot : ~Pending("emit", s)
                   /\ cached' # cached => stream = <<>>
<1>1. TypeOK /\ Shape /\ [Next]_vars => [Race]_vars
  <2> SUFFICES ASSUME TypeOK, Shape, Next PROVE Race
    OBVIOUS
  <2> USE DEF hostVars
  <2>0. stream = <<>> => \A k, s : ~Pending(k, s)
    BY EmptySeq DEF Pending
  <2>1. ASSUME NEW j \in Job, EnsureForJob(j) PROVE Race
    BY <2>1 DEF EnsureForJob, Host, Shape, devVars
  <2>2. CASE AdoptJob
    BY <2>0, <2>2 DEF AdoptJob, Drained
  <2>3. CASE NextBatch \/ HostFails \/ CopyLands \/ StreamStep
    BY <2>3 DEF NextBatch, HostFails, CopyLands, StreamStep
  <2>4. CASE MineOne
    <3>1. /\ GraphTail(stream, start, iter) /\ start <= iter /\ iter < start + RingSize
      BY <2>4, GpuWorkerAssumption DEF MineOne, BatchFull, Shape, TypeOK
    <3>2. ASSUME NEW n \in DOMAIN stream, stream[n].slot = SlotOf(iter) PROVE FALSE
      <4>1. n \in 1..Len(stream) BY LenProperties DEF TypeOK
      <4>2. IsStep(stream[n], start, iter) BY <3>1, <4>1 DEF GraphTail
      <4> DEFINE i == stream[n].iter
      <4>3. i \in start..(iter - 1) /\ stream[n].slot = SlotOf(i)
        BY <4>2 DEF IsStep, IterOp
      <4>4. i \in Nat /\ i < iter /\ iter < i + RingSize
        BY <4>3, <3>1, GpuWorkerAssumption DEF TypeOK
      <4>5. SlotOf(i) # SlotOf(iter)
        BY <4>4, SlotsDiffer DEF TypeOK
      <4> QED BY <3>2, <4>3, <4>5
    <3>3. ~Pending("emit", SlotOf(iter)) BY <3>2 DEF Pending
    <3> QED BY <2>4, <3>3 DEF MineOne
  <2>5. CASE BeginScan
    BY <2>0, <2>5 DEF BeginScan, Drained
  <2>6. CASE ScanSlot
    <3>1. \A n \in DOMAIN stream : stream[n].op # "emit"
      <4> TAKE n \in DOMAIN stream
      <4>1. n \in 1..Len(stream) BY LenProperties DEF TypeOK
      <4>2. PICK f \in found : stream[n] = IterOp("copyA", f.iter)
        BY <2>6, <4>1 DEF ScanSlot, Shape
      <4> QED BY <4>2 DEF IterOp
    <3> QED BY <2>6, <3>1 DEF ScanSlot, Pending
  <2>7. CASE SendHits
    <3>1. CASE found = {}
      <4>1. works' = works BY <2>7, <3>1 DEF SendHits
      <4> QED BY <2>7, <4>1 DEF SendHits
    <3>2. CASE found # {}
      BY <2>0, <2>7, <3>2 DEF SendHits, Drained
    <3> QED BY <3>1, <3>2
  <2> QED BY <2>1, <2>2, <2>3, <2>4, <2>5, <2>6, <2>7 DEF Next, HostStep
<1> QED BY <1>1, Shaped, PTL DEF Spec, NoHostDeviceRace

-----------------------------------------------------------------------------
(* What an operation that writes one shared buffer, or one buffer of a     *)
(* slot, leaves behind.                                                    *)
LEMMA MemWritten ==
  ASSUME TypeOK, NEW b \in SharedBuf, NEW v, SetMem(b, v)
  PROVE  /\ mem'[b] = v /\ \A c \in SharedBuf \ {b} : mem'[c] = mem[c]
         /\ UNCHANGED <<hits, scan, ring, hdr, snap, bPinned, real>>
BY DEF SetMem, TypeOK, workspace, pinVars

LEMMA RingWritten ==
  ASSUME TypeOK, NEW s \in Slot, NEW b \in RingBuf, NEW v, SetRing(s, b, v)
  PROVE  /\ ring'[s][b] = v /\ \A c \in RingBuf \ {b} : ring'[s][c] = ring[s][c]
         /\ \A t \in Slot \ {s} : ring'[t] = ring[t]
         /\ UNCHANGED <<hits, scan, mem, hdr, snap, bPinned, real>>
BY DEF SetRing, TypeOK, workspace, pinVars

(* The job stays loaded, and what complete iterations left stays, while    *)
(* the stream writes only buffers of the iteration under way.              *)
LEMMA JobStays ==
  ASSUME JobLoaded, UNCHANGED <<dma, hjob, cached, bBytes>>,
         \A b \in JobField \cup {"B", "bHash"} : mem'[b] = mem[b]
  PROVE  JobLoaded'
BY DEF JobLoaded

LEMMA BatchStays ==
  ASSUME TypeOK, TypeOK', NEW i \in start..(iter - 1), BatchDone(i), iter <= start + RingSize,
         UNCHANGED <<hjob, start, iter, hdr>>,
         \A n \in Nat : n # i => (n \in real' <=> n \in real),
         \A s \in Slot \ {SlotOf(i)} : ring'[s]["A"] = ring[s]["A"]
  PROVE  BatchDone(i)'
<1>1. start \in Nat /\ iter \in Nat /\ RingSize \in Nat /\ i \in Nat /\ real' \in SUBSET Nat
  BY GpuWorkerAssumption DEF TypeOK
<1>2. ASSUME NEW n \in start..(i - 1)
      PROVE  /\ ring'[SlotOf(n)]["A"] = SourcesA(hjob, n)
             /\ hdr'[SlotOf(n)] = IF n \in real' THEN HitOf(n) ELSE NoHit
  <2>1. n \in Nat /\ n < i /\ i < n + RingSize BY <1>1
  <2>2. SlotOf(n) \in Slot \ {SlotOf(i)} BY <1>1, <2>1, SlotType, SlotsDiffer
  <2>3. n \in real' <=> n \in real BY <2>1
  <2> QED BY <2>2, <2>3 DEF BatchDone
<1>3. \A n \in i..(iter - 1) : hdr'[SlotOf(n)] = NoHit
  BY DEF BatchDone
<1>4. \A n \in real' : n <= i
  BY <1>1 DEF BatchDone
<1> QED BY <1>2, <1>3, <1>4 DEF BatchDone, HitOf

(* One step of a graph: what the buffers hold for the step that follows.   *)
LEMMA GraphStepStaged ==
  ASSUME TypeOK, TypeOK', JobLoaded, NEW o, IsStep(o, start, iter),
         iter <= start + RingSize,
         Staged(Rank[o.op], o.iter), BatchDone(o.iter), Execute(o),
         UNCHANGED <<path, hostVars, dma>>,
         NEW r, NEW j, r = Rank[Follows(o).op], j = Follows(o).iter
  PROVE  Staged(r, j)' /\ BatchDone(j)' /\ JobLoaded'
<1> DEFINE i == o.iter
           s == SlotOf(i)
<1>1. i \in start..(iter - 1) /\ i \in Nat /\ s \in Slot /\ o = IterOp(o.op, i)
  BY SlotType DEF IsStep, TypeOK
<1>2. UNCHANGED <<path, hjob, cached, bBytes, start, iter, dma>> BY DEF hostVars
<1>3. /\ mem["key"] = {Of("key", hjob)} /\ mem["target"] = {Of("target", hjob)}
      /\ mem["seed"] = {Of("seed", hjob)} /\ mem["B"] = {Of("seed", hjob)}
      /\ mem["bHash"] = {Of("seed", hjob), Of("key", hjob)}
  BY DEF JobLoaded, JobField, SourcesB
<1>4. o.slot = s BY <1>1 DEF IterOp
<1>5. JobField \cup {"B", "bHash"} \subseteq SharedBuf
  BY DEF JobField, SharedBuf
<1> HIDE DEF i, s
<1>6. CASE o.op = "fillA"
  <2>1. SetRing(s, "A", SourcesA(hjob, i))
    BY <1>3, <1>4, <1>6 DEF Execute, FillA, SourcesA, i
  <2>2. r = 2 /\ j = i
    BY <1>6 DEF Follows, NextStep, CppNext, TritonNext, Rank, IterOp, i
  <2>3. /\ ring'[s]["A"] = SourcesA(hjob, i) /\ UNCHANGED <<mem, hdr, real>>
        /\ \A t \in Slot \ {s} : ring'[t] = ring[t]
    BY <1>1, <2>1, RingWritten DEF RingBuf
  <2>4. Staged(r, j)'
    BY <1>2, <1>6, <2>2, <2>3 DEF Staged, Rank, i, s
  <2>5. BatchDone(j)'
    BY <1>1, <1>2, <2>2, <2>3, BatchStays DEF i, s
  <2> QED BY <1>2, <2>3, <2>4, <2>5, JobStays
<1>7. CASE o.op = "hashA"
  <2>1. SetRing(s, "aHash", Committed(i))
    <3>1. ring[s]["A"] = SourcesA(hjob, i)
      BY <1>7 DEF Staged, Rank, i, s
    <3> QED BY <3>1, <1>3, <1>4, <1>7 DEF Execute, HashA, SourcesA, Committed
  <2>2. r = 3 /\ j = i
    BY <1>7 DEF Follows, NextStep, CppNext, TritonNext, Rank, IterOp, i
  <2>3. /\ ring'[s]["aHash"] = Committed(i) /\ UNCHANGED <<mem, hdr, real>>
        /\ \A c \in RingBuf \ {"aHash"} : ring'[s][c] = ring[s][c]
        /\ \A t \in Slot \ {s} : ring'[t] = ring[t]
    BY <1>1, <2>1, RingWritten DEF RingBuf
  <2>4. Staged(r, j)'
    BY <1>2, <1>7, <2>2, <2>3 DEF Staged, Rank, RingBuf, Committed, i, s
  <2>5. BatchDone(j)'
    BY <1>1, <1>2, <2>2, <2>3, BatchStays DEF i, s
  <2> QED BY <1>2, <2>3, <2>4, <2>5, JobStays
<1>8. CASE o.op = "commit"
  <2>1. SetRing(s, "commit", Committed(i))
    <3>1. ring[s]["aHash"] = Committed(i)
      BY <1>8 DEF Staged, Rank, i, s
    <3> QED BY <3>1, <1>3, <1>4, <1>8 DEF Execute, Commit, SourcesA, Committed
  <2>2. r = 4 /\ j = i
    BY <1>8 DEF Follows, NextStep, CppNext, TritonNext, Rank, IterOp, i
  <2>3. /\ ring'[s]["commit"] = Committed(i) /\ UNCHANGED <<mem, hdr, real>>
        /\ \A c \in RingBuf \ {"commit"} : ring'[s][c] = ring[s][c]
        /\ \A t \in Slot \ {s} : ring'[t] = ring[t]
    BY <1>1, <2>1, RingWritten DEF RingBuf
  <2>4. Staged(r, j)'
    BY <1>2, <1>8, <2>2, <2>3 DEF Staged, Rank, RingBuf, Committed, i, s
  <2>5. BatchDone(j)'
    BY <1>1, <1>2, <2>2, <2>3, BatchStays DEF i, s
  <2> QED BY <1>2, <2>3, <2>4, <2>5, JobStays
<1>9. CASE o.op = "noise"
  <2>1. SetMem("noise", Committed(i))
    <3>1. ring[s]["commit"] = Committed(i)
      BY <1>9 DEF Staged, Rank, i, s
    <3> QED BY <3>1, <1>3, <1>4, <1>9 DEF Execute, Noise, SourcesA, Committed
  <2>2. r = 5 /\ j = i
    BY <1>9 DEF Follows, NextStep, CppNext, TritonNext, Rank, IterOp, i
  <2>3. /\ mem'["noise"] = Committed(i) /\ UNCHANGED <<ring, hdr, hits, scan, real>>
        /\ \A c \in SharedBuf \ {"noise"} : mem'[c] = mem[c]
    BY <2>1, MemWritten DEF SharedBuf
  <2>4. Staged(r, j)'
    BY <1>2, <1>9, <2>2, <2>3 DEF Staged, Rank, SharedBuf, Committed, i, s
  <2>5. BatchDone(j)'
    BY <1>1, <1>2, <2>2, <2>3, BatchStays DEF i, s
  <2>6. "noise" \notin JobField \cup {"B", "bHash"} BY DEF JobField
  <2> QED BY <1>2, <1>5, <2>3, <2>4, <2>5, <2>6, JobStays
<1>10. CASE o.op = "noiseA"
  <2>1. SetMem("apEa", Committed(i))
    <3>1. ring[s]["A"] = SourcesA(hjob, i) /\ mem["noise"] = Committed(i)
      BY <1>10 DEF Staged, Rank, i, s
    <3> QED BY <3>1, <1>3, <1>4, <1>10 DEF Execute, NoiseA, SourcesA, Committed
  <2>2. r = 6 /\ j = i
    BY <1>10 DEF Follows, NextStep, CppNext, TritonNext, Rank, IterOp, i
  <2>3. /\ mem'["apEa"] = Committed(i) /\ UNCHANGED <<ring, hdr, hits, scan, real>>
        /\ \A c \in SharedBuf \ {"apEa"} : mem'[c] = mem[c]
    BY <2>1, MemWritten DEF SharedBuf
  <2>4. Staged(r, j)'
    BY <1>2, <1>10, <2>2, <2>3 DEF Staged, Rank, SharedBuf, Committed, i, s
  <2>5. BatchDone(j)'
    BY <1>1, <1>2, <2>2, <2>3, BatchStays DEF i, s
  <2>6. "apEa" \notin JobField \cup {"B", "bHash"} BY DEF JobField
  <2> QED BY <1>2, <1>5, <2>3, <2>4, <2>5, <2>6, JobStays
<1>11. CASE o.op = "noiseB"
  <2>1. SetMem("bpEb", Committed(i))
    <3>1. mem["noise"] = Committed(i)
      BY <1>11 DEF Staged, Rank, i, s
    <3> QED BY <3>1, <1>3, <1>4, <1>11 DEF Execute, NoiseB, SourcesA, Committed
  <2>2. r = 7 /\ j = i
    BY <1>11 DEF Follows, NextStep, CppNext, TritonNext, Rank, IterOp, i
  <2>3. /\ mem'["bpEb"] = Committed(i) /\ UNCHANGED <<ring, hdr, hits, scan, real>>
        /\ \A c \in SharedBuf \ {"bpEb"} : mem'[c] = mem[c]
    BY <2>1, MemWritten DEF SharedBuf
  <2>4. Staged(r, j)'
    BY <1>2, <1>11, <2>2, <2>3 DEF Staged, Rank, SharedBuf, Committed, i, s
  <2>5. BatchDone(j)'
    BY <1>1, <1>2, <2>2, <2>3, BatchStays DEF i, s
  <2>6. "bpEb" \notin JobField \cup {"B", "bHash"} BY DEF JobField
  <2> QED BY <1>2, <1>5, <2>3, <2>4, <2>5, <2>6, JobStays
<1>12. CASE o.op = "zeroTrans"
  <2>0. path # "CppSearch"
    BY <1>12 DEF IsStep, NextStep, CppNext
  <2>1. SetMem("transcripts", {})
    BY <1>12 DEF Execute, ZeroTrans
  <2>2. r = 8 /\ j = i
    BY <1>12, <2>0 DEF Follows, NextStep, CppNext, TritonNext, Rank, IterOp, i
  <2>3. /\ mem'["transcripts"] = {} /\ UNCHANGED <<ring, hdr, hits, scan, real>>
        /\ \A c \in SharedBuf \ {"transcripts"} : mem'[c] = mem[c]
    BY <2>1, MemWritten DEF SharedBuf
  <2>4. Staged(r, j)'
    BY <1>2, <1>12, <2>2, <2>3 DEF Staged, Rank, SharedBuf, Committed, i, s
  <2>5. BatchDone(j)'
    BY <1>1, <1>2, <2>2, <2>3, BatchStays DEF i, s
  <2>6. "transcripts" \notin JobField \cup {"B", "bHash"} BY DEF JobField
  <2> QED BY <1>2, <1>5, <2>3, <2>4, <2>5, <2>6, JobStays
<1>13. CASE o.op = "searchT"
  <2>0. path # "CppSearch"
    BY <1>13 DEF IsStep, NextStep, CppNext
  <2>1. SetMem("transcripts", Committed(i))
    <3>1. /\ mem["transcripts"] = {} /\ mem["apEa"] = Committed(i)
          /\ mem["bpEb"] = Committed(i)
      BY <1>13 DEF Staged, Rank, i, s
    <3> QED BY <3>1, <1>3, <1>4, <1>13 DEF Execute, SearchT, SourcesA, Committed
  <2>2. r = 9 /\ j = i
    BY <1>13, <2>0 DEF Follows, NextStep, CppNext, TritonNext, Rank, IterOp, i
  <2>3. /\ mem'["transcripts"] = Committed(i) /\ UNCHANGED <<ring, hdr, hits, scan, real>>
        /\ \A c \in SharedBuf \ {"transcripts"} : mem'[c] = mem[c]
    BY <2>1, MemWritten DEF SharedBuf
  <2>4. Staged(r, j)'
    BY <1>2, <1>13, <2>2, <2>3 DEF Staged, Rank, SharedBuf, Committed, i, s
  <2>5. BatchDone(j)'
    BY <1>1, <1>2, <2>2, <2>3, BatchStays DEF i, s
  <2>6. "transcripts" \notin JobField \cup {"B", "bHash"} BY DEF JobField
  <2> QED BY <1>2, <1>5, <2>3, <2>4, <2>5, <2>6, JobStays
<1>14. CASE o.op = "zeroHits"
  <2>0. path = "CppSearch"
    BY <1>14 DEF IsStep, NextStep, TritonNext
  <2>1. UNCHANGED <<mem, scan, ring, hdr, real>>
    BY <1>14 DEF Execute, ZeroHits, pinVars
  <2>2. r = 9 /\ j = i
    BY <1>14, <2>0 DEF Follows, NextStep, CppNext, Rank, IterOp, i
  <2>3. Staged(r, j)'
    BY <1>2, <1>14, <2>0, <2>1, <2>2 DEF Staged, Rank, Committed, i, s
  <2>4. BatchDone(j)'
    BY <1>1, <1>2, <2>1, <2>2, BatchStays DEF i, s
  <2> QED BY <1>2, <2>1, <2>3, <2>4, JobStays
<1>15. CASE o.op = "resetScan"
  <2>1. scan' = NoHit /\ UNCHANGED <<mem, hits, ring, hdr, real>>
    BY <1>15 DEF Execute, ResetScan, pinVars
  <2>2. r = 10 /\ j = i
    BY <1>15 DEF Follows, NextStep, CppNext, TritonNext, Rank, IterOp, i
  <2>3. Staged(r, j)'
    BY <1>2, <1>15, <2>1, <2>2 DEF Staged, Rank, Committed, i, s
  <2>4. BatchDone(j)'
    BY <1>1, <1>2, <2>1, <2>2, BatchStays DEF i, s
  <2> QED BY <1>2, <2>1, <2>3, <2>4, JobStays
<1>16. CASE o.op \in {"search", "compare"}
  <2>1. Finds(i, AllSources(hjob, i))
    <3>1. /\ mem["apEa"] = Committed(i) /\ mem["bpEb"] = Committed(i)
          /\ ring[s]["commit"] = Committed(i)
      BY <1>16 DEF Staged, Rank, i, s
    <3>2. Committed(i) \cup {Of("target", hjob)} = AllSources(hjob, i)
      BY DEF Committed, AllSources, JobField
    <3>3. CASE o.op = "search"
      <4>1. Search(s, i) BY <1>4, <3>3 DEF Execute, i
      <4>2. Committed(i) \cup Committed(i) \cup Committed(i) \cup {Of("target", hjob)}
              = AllSources(hjob, i)
        BY <3>2
      <4> QED BY <4>1, <4>2, <3>1, <1>3 DEF Search
    <3>4. CASE o.op = "compare"
      <4>1. Compare(s, i) BY <1>4, <3>4 DEF Execute, i
      <4>2. mem["transcripts"] = Committed(i)
        <5>1. path # "CppSearch" BY <3>4 DEF IsStep, NextStep, CppNext
        <5> QED BY <3>4, <5>1 DEF Staged, Rank, i
      <4>3. Committed(i) \cup Committed(i) \cup {Of("target", hjob)} = AllSources(hjob, i)
        BY <3>2
      <4> QED BY <4>1, <4>2, <4>3, <3>1, <1>3 DEF Compare
    <3> QED BY <1>16, <3>3, <3>4
  <2>2. r = 11 /\ j = i
    BY <1>16 DEF Follows, NextStep, CppNext, TritonNext, Rank, IterOp, i, IsStep
  <2>3. /\ UNCHANGED <<mem, scan, ring, hdr>>
        /\ \A n : n # i => (n \in real' <=> n \in real)
        /\ hits' = IF i \in real' THEN HitOf(i) ELSE NoHit
    <3>1. i \notin real BY <1>16 DEF Staged, Rank, i
    <3> QED BY <2>1, <3>1 DEF Finds, HitOf, pinVars
  <2>4. Staged(r, j)'
    BY <1>2, <1>16, <2>2, <2>3 DEF Staged, Rank, Committed, HitOf, i, s
  <2>5. BatchDone(j)'
    BY <1>1, <1>2, <2>2, <2>3, BatchStays DEF i, s
  <2> QED BY <1>2, <2>3, <2>4, <2>5, JobStays
<1>17. CASE o.op = "scan"
  <2>1. UNCHANGED <<mem, hits, ring, hdr, real>> /\ scan' = hits
    <3>1. scan = NoHit /\ hits = IF i \in real THEN HitOf(i) ELSE NoHit
      BY <1>17 DEF Staged, Rank, i
    <3> QED BY <1>17, <3>1 DEF Execute, Scan, pinVars, NoHit, HitOf
  <2>2. r = 12 /\ j = i
    BY <1>17 DEF Follows, NextStep, CppNext, TritonNext, Rank, IterOp, i
  <2>3. Staged(r, j)'
    BY <1>2, <1>17, <2>1, <2>2 DEF Staged, Rank, Committed, HitOf, i, s
  <2>4. BatchDone(j)'
    BY <1>1, <1>2, <2>1, <2>2, BatchStays DEF i, s
  <2> QED BY <1>2, <2>1, <2>3, <2>4, JobStays
<1>18. CASE o.op = "emit"
  <2>1. /\ UNCHANGED <<mem, hits, scan, ring, real>>
        /\ hdr' = [hdr EXCEPT ![s] = IF i \in real THEN HitOf(i) ELSE hdr[s]]
    <3>1. scan = IF i \in real THEN HitOf(i) ELSE NoHit
      BY <1>18 DEF Staged, Rank, i
    <3>2. AllSources(hjob, i) \cup mem["target"] = AllSources(hjob, i)
      BY <1>3 DEF AllSources, JobField
    <3>3. i \in real => scan.status = 1 /\ scan.from \cup mem["target"] = AllSources(hjob, i)
      BY <3>1, <3>2 DEF HitOf
    <3>4. i \notin real => scan.status = 0
      BY <3>1 DEF NoHit
    <3>5. Emit(s) BY <1>4, <1>18 DEF Execute
    <3>6. [hdr EXCEPT ![s] = hdr[s]] = hdr BY <1>1 DEF TypeOK
    <3>7. CASE i \in real
      <4>1. [status |-> 1, from |-> scan.from \cup mem["target"]] = HitOf(i)
        BY <3>3, <3>7 DEF HitOf
      <4>2. hdr' = [hdr EXCEPT ![s] = HitOf(i)] /\ UNCHANGED <<mem, hits, scan, ring, real>>
        <5> DEFINE h == [status |-> 1, from |-> scan.from \cup mem["target"]]
        <5>1. hdr' = [hdr EXCEPT ![s] = h]
          BY <3>3, <3>5, <3>7 DEF Emit
        <5>2. UNCHANGED <<mem, hits, scan, ring, real>>
          BY <3>5 DEF Emit, workspace
        <5>3. h = HitOf(i) BY <4>1
        <5> HIDE DEF h
        <5> QED BY <5>1, <5>2, <5>3
      <4>3. (IF i \in real THEN HitOf(i) ELSE hdr[s]) = HitOf(i) BY <3>7
      <4> QED BY <4>2, <4>3
    <3>8. CASE i \notin real BY <3>4, <3>5, <3>6, <3>8 DEF Emit, workspace
    <3> QED BY <3>7, <3>8
  <2>2. r = 1 /\ j = i + 1
    BY <1>18 DEF Follows, Rank, IterOp, i
  <2>3. hdr[s] = NoHit /\ ring[s]["A"] = SourcesA(hjob, i) /\ \A n \in real : n <= i
    <3>1. i \in i..(iter - 1) BY <1>1 DEF TypeOK
    <3> QED BY <1>18, <3>1 DEF BatchDone, Staged, Rank, i, s
  <2>4. Staged(r, j)'
    <3>1. i + 1 \notin real' BY <1>1, <2>1, <2>3
    <3> QED BY <2>2, <3>1 DEF Staged
  <2>5. BatchDone(j)'
    <3>0. start \in Nat /\ iter \in Nat /\ RingSize \in Nat
      BY GpuWorkerAssumption DEF TypeOK
    <3>1. \A n \in start..(iter - 1) : n # i => SlotOf(n) \in Slot \ {s}
      <4> TAKE n \in start..(iter - 1)
      <4>1. n \in Nat /\ n < i + RingSize /\ i < n + RingSize BY <1>1, <3>0
      <4> QED BY <1>1, <4>1, SlotType, SlotsDiffer DEF s
    <3>2. \A n \in start..(iter - 1) : n # i => hdr'[SlotOf(n)] = hdr[SlotOf(n)]
      BY <2>1, <3>1 DEF TypeOK
    <3>3. hdr'[SlotOf(i)] = IF i \in real THEN HitOf(i) ELSE NoHit
      BY <1>1, <2>1, <2>3 DEF TypeOK, s
    <3>4. ASSUME NEW n \in start..i
          PROVE  /\ ring'[SlotOf(n)]["A"] = SourcesA(hjob, n)
                 /\ hdr'[SlotOf(n)] = IF n \in real' THEN HitOf(n) ELSE NoHit
      <4>1. CASE n = i BY <2>1, <2>3, <3>3, <4>1 DEF s
      <4>2. CASE n # i
        <5>1. n \in start..(iter - 1) /\ n \in start..(i - 1) BY <1>1, <3>0, <4>2
        <5>2. hdr'[SlotOf(n)] = hdr[SlotOf(n)] BY <3>2, <4>2, <5>1
        <5> QED BY <5>1, <5>2, <2>1 DEF BatchDone, i
      <4> QED BY <4>1, <4>2
    <3>5. \A n \in (i + 1)..(iter - 1) : hdr'[SlotOf(n)] = NoHit
      <4> TAKE n \in (i + 1)..(iter - 1)
      <4>1. n # i /\ n \in start..(iter - 1) /\ n \in i..(iter - 1) BY <1>1, <3>0
      <4> QED BY <3>2, <4>1 DEF BatchDone, i
    <3>6. \A n \in real' : n <= i + 1
      BY <1>1, <2>1, <2>3 DEF TypeOK
    <3>7. i + 1 - 1 = i BY <1>1
    <3>8. j - 1 = i /\ \A n : HitOf(n)' = HitOf(n)
      <4>1. j - 1 = i BY <1>1, <2>2
      <4>2. \A n : HitOf(n)' = HitOf(n) BY <1>2 DEF HitOf
      <4> QED BY <4>1, <4>2
    <3>9. \A n \in start'..(j - 1) :
            /\ ring'[SlotOf(n)]["A"] = SourcesA(hjob', n)
            /\ hdr'[SlotOf(n)] = IF n \in real' THEN HitOf(n)' ELSE NoHit
      BY <1>2, <3>4, <3>8
    <3>10. /\ \A n \in j..(iter' - 1) : hdr'[SlotOf(n)] = NoHit
           /\ \A n \in real' : n <= j
      BY <1>2, <2>2, <3>5, <3>6
    <3> QED BY <3>9, <3>10 DEF BatchDone
  <2> QED BY <1>2, <2>1, <2>4, <2>5, JobStays
<1> QED
  <2>1. o.op \in {"fillA", "hashA", "commit", "noise", "noiseA", "noiseB", "zeroTrans",
                  "searchT", "zeroHits", "resetScan", "search", "compare", "scan", "emit"}
    BY DEF IsStep, NextStep, CppNext, TritonNext
  <2> QED
    BY <2>1, <1>6, <1>7, <1>8, <1>9, <1>10, <1>11, <1>12, <1>13, <1>14, <1>15, <1>16,
       <1>17, <1>18

-----------------------------------------------------------------------------
(* What the buffers hold, step by step, when copies land in order.         *)
LEMMA InitData == Init => DataInv
<1> SUFFICES ASSUME Init PROVE DataInv OBVIOUS
<1>1. SentIters = {} BY DEF Init, SentIters
<1> QED BY <1>1 DEF Init, DataInv, HitsProvable

LEMMA DataEnsure ==
  ASSUME TypeOK, Shape, DataInv, NEW j \in Job, EnsureForJob(j)
  PROVE  DataInv'
<1>1. /\ hpc = "check" /\ hpc' = "loadSync" /\ newJob' = j /\ cached' = j /\ j # hjob
      /\ UNCHANGED <<works, real, iter>>
  BY DEF EnsureForJob, Host, devVars
<1>2. cached = hjob /\ dma = <<>> /\ stream = <<>>
  BY <1>1 DEF DataInv, JobLoaded, Shape
<1>3. dma' = Copies(j) /\ stream' = LoadOps
  <2>1. Copies(j) \in Seq(JobField \X Job) BY DEF Copies, Of, JobField
  <2>2. <<>> \o Copies(j) = Copies(j) /\ <<>> \o LoadOps = LoadOps
    BY <2>1, LoadOpsType, ConcatEmptySeq
  <2>3. ~IsCached(j) BY <1>1, <1>2 DEF IsCached
  <2> QED BY <1>2, <2>2, <2>3 DEF EnsureForJob
<1>4. Len(dma') = 3 /\ Len(stream') = 3
  BY <1>3, LoadOpsType DEF Copies
<1>5. JobLoading'
  BY <1>1, <1>3, <1>4 DEF JobLoading
<1>6. SentIters' = SentIters BY <1>1 DEF SentIters
<1>7. HitsProvable' BY <1>1 DEF DataInv, HitsProvable
<1> QED BY <1>1, <1>5, <1>6, <1>7 DEF DataInv

LEMMA DataBatch ==
  ASSUME TypeOK, Shape, DataInv, AdoptJob \/ NextBatch
  PROVE  DataInv'
<1>1. /\ hpc' = "launch" /\ stream = <<>> /\ stream' = <<>> /\ start' = iter
      /\ hpc \in {"check", "loadSync"}
      /\ UNCHANGED <<path, cached, iter, works, dma, mem, ring, hits, scan, hdr, real>>
  BY DEF AdoptJob, NextBatch, Host, Drained, Shape, devVars, workspace, pinVars
<1>2. JobLoaded'
  <2>1. CASE NextBatch
    <3>1. JobLoaded BY <2>1 DEF NextBatch, Host, DataInv
    <3> QED BY <2>1, <3>1, <1>1 DEF NextBatch, JobLoaded
  <2>2. CASE AdoptJob
    <3>1. hjob' = newJob /\ bBytes' = bPinned /\ JobLoading
      BY <2>2 DEF AdoptJob, Host, DataInv
    <3>2. Len(stream) = 0 BY <1>1
    <3>3. dma = <<>> BY <3>1, <3>2 DEF JobLoading
    <3>4. Len(dma) = 0 BY <3>3
    <3>5. /\ newJob \in Job /\ cached = newJob
          /\ mem["key"] = {Of("key", newJob)} /\ mem["target"] = {Of("target", newJob)}
          /\ mem["seed"] = {Of("seed", newJob)} /\ mem["B"] = SourcesB(newJob)
          /\ mem["bHash"] = {Of("seed", newJob), Of("key", newJob)}
          /\ bPinned = SourcesB(newJob)
      BY <3>1, <3>2, <3>4 DEF JobLoading
    <3> QED BY <1>1, <3>1, <3>3, <3>5 DEF JobLoaded, JobField
  <2> QED BY <2>1, <2>2
<1>3. SentIters = real /\ \A n \in real : n < iter
  BY <1>1 DEF DataInv
<1>4. SentIters' = {n \in real' : n < start'}
  BY <1>1, <1>3 DEF SentIters
<1>5. iter \in Nat /\ iter \notin real BY <1>3 DEF TypeOK
<1>6. Upcoming(stream', iter') = IterOp("fillA", iter)
  BY <1>1 DEF Upcoming
<1>7. Staged(1, iter)' BY <1>1, <1>5 DEF Staged
<1>8. BatchDone(iter)'
  BY <1>1, <1>3, <1>5 DEF BatchDone, TypeOK
<1>9. HitsProvable' BY <1>1 DEF DataInv, HitsProvable
<1>10. iter' = iter BY <1>1
<1>11. LET o == Upcoming(stream, iter)' IN Rank[o.op] = 1 /\ o.iter = iter
  BY <1>6 DEF IterOp, Rank
<1> QED BY <1>1, <1>2, <1>4, <1>7, <1>8, <1>9, <1>10, <1>11 DEF DataInv

LEMMA DataMineOne ==
  ASSUME TypeOK, Shape, DataInv, MineOne
  PROVE  DataInv'
<1> DEFINE o == Upcoming(stream, iter)
<1>0. PICK r, i : r = Rank[o.op] /\ i = o.iter OBVIOUS
<1>1. /\ hpc = "launch" /\ hpc' = "launch" /\ iter' = iter + 1
      /\ stream' = stream \o Graph(iter) /\ hdr' = [hdr EXCEPT ![SlotOf(iter)] = NoHit]
      /\ UNCHANGED <<path, hjob, cached, bBytes, start, works, dma, mem, ring, hits, scan,
                     real>>
  BY DEF MineOne, workspace, ZeroHeader
<1>2. /\ GraphTail(stream, start, iter) /\ start <= iter /\ iter < start + RingSize
      /\ stream \in Seq(Operation) /\ iter \in Nat /\ start \in Nat /\ RingSize \in Nat
      /\ real \in SUBSET Nat
  BY <1>1, GpuWorkerAssumption DEF MineOne, BatchFull, Shape, TypeOK
<1>3. Upcoming(stream', iter') = o
  BY <1>1, <1>2, LaunchExtends
<1>4. i \in Nat /\ start <= i /\ i <= iter
  <2>1. CASE stream = <<>> BY <1>0, <1>2, <2>1 DEF Upcoming, IterOp
  <2>2. CASE stream # <<>>
    <3>1. IsStep(Head(stream), start, iter) /\ o = Head(stream)
      BY <1>2, <2>2, TailAdvances
    <3> QED BY <3>1, <1>0, <1>2 DEF IsStep
  <2> QED BY <2>1, <2>2
<1>5. Staged(r, i) /\ BatchDone(i) /\ JobLoaded /\ SentIters = {n \in real : n < start}
  BY <1>0, <1>1 DEF DataInv
<1>6. SlotOf(iter) \in Slot /\ \A n \in start..(iter - 1) : SlotOf(n) \in Slot \ {SlotOf(iter)}
  <2>1. ASSUME NEW n \in start..(iter - 1) PROVE SlotOf(n) \in Slot \ {SlotOf(iter)}
    <3>1. n \in Nat /\ n < iter /\ iter < n + RingSize BY <1>2
    <3> QED BY <1>2, <3>1, SlotType, SlotsDiffer
  <2> QED BY <1>2, <2>1, SlotType
<1>7. /\ hdr'[SlotOf(iter)] = NoHit
      /\ \A n \in start..(iter - 1) : hdr'[SlotOf(n)] = hdr[SlotOf(n)]
  BY <1>1, <1>6 DEF TypeOK
<1>8. BatchDone(i)'
  <2>1. \A n \in i..iter : hdr'[SlotOf(n)] = NoHit
    <3> TAKE n \in i..iter
    <3>1. CASE n = iter BY <3>1, <1>7
    <3>2. CASE n # iter
      <4>1. n \in i..(iter - 1) /\ n \in start..(iter - 1) BY <3>2, <1>2, <1>4
      <4> QED BY <4>1, <1>5, <1>7 DEF BatchDone
    <3> QED BY <3>1, <3>2
  <2>2. \A n \in start..(i - 1) : n \in start..(iter - 1) BY <1>2, <1>4
  <2>3. \A n \in start..(i - 1) :
          /\ ring'[SlotOf(n)]["A"] = SourcesA(hjob, n)
          /\ hdr'[SlotOf(n)] = IF n \in real THEN HitOf(n) ELSE NoHit
    BY <2>2, <1>1, <1>5, <1>7 DEF BatchDone
  <2>4. iter' - 1 = iter /\ \A n : HitOf(n)' = HitOf(n)
    <3>1. iter' - 1 = iter BY <1>1, <1>2
    <3>2. \A n : HitOf(n)' = HitOf(n) BY <1>1 DEF HitOf
    <3> QED BY <3>1, <3>2
  <2> QED BY <1>1, <1>5, <2>1, <2>3, <2>4 DEF BatchDone
<1>9. Staged(r, i)'
  BY <1>1, <1>5 DEF Staged, Committed, HitOf
<1>10. JobLoaded' BY <1>1, <1>5 DEF JobLoaded
<1>11. SentIters' = {n \in real' : n < start'} BY <1>1, <1>5 DEF SentIters
<1>12. HitsProvable' BY <1>1 DEF DataInv, HitsProvable
<1>13. (LET u == Upcoming(stream, iter) IN Staged(Rank[u.op], u.iter) /\ BatchDone(u.iter))'
  BY <1>0, <1>3, <1>8, <1>9
<1> QED BY <1>1, <1>3, <1>8, <1>10, <1>11, <1>12, <1>13 DEF DataInv

LEMMA DataScan ==
  ASSUME TypeOK, Shape, DataInv, BeginScan \/ ScanSlot
  PROVE  DataInv'
<1>1. /\ hpc' = "scan"
      /\ UNCHANGED <<path, hjob, cached, bBytes, iter, start, works, dma, mem, ring, hdr, snap,
                     real>>
  BY DEF BeginScan, ScanSlot, Host, devVars, pinVars
<1>2. hpc \in {"launch", "scan"} BY DEF BeginScan, ScanSlot, Host
<1>3. JobLoaded' /\ SentIters' = {n \in real' : n < start'} /\ HitsProvable'
  <2>1. JobLoaded' BY <1>1, <1>2 DEF DataInv, JobLoaded
  <2>2. SentIters' = {n \in real' : n < start'} BY <1>1, <1>2 DEF DataInv, SentIters
  <2>3. HitsProvable' BY <1>1 DEF DataInv, HitsProvable
  <2> QED BY <2>1, <2>2, <2>3
<1>4. BatchDone(iter) /\ iter \notin real
  <2>1. CASE BeginScan
    <3>1. Upcoming(stream, iter) = IterOp("fillA", iter)
      BY <2>1 DEF BeginScan, Drained, Upcoming
    <3>2. Rank["fillA"] = 1 BY DEF Rank
    <3>3. Staged(1, iter) /\ BatchDone(iter)
      BY <2>1, <3>1, <3>2 DEF BeginScan, Host, DataInv, IterOp
    <3> QED BY <3>3 DEF Staged
  <2>2. CASE ScanSlot BY <2>2 DEF ScanSlot, DataInv
  <2> QED BY <2>1, <2>2
<1>5. \A n : HitOf(n)' = HitOf(n) /\ SourcesA(hjob', n) = SourcesA(hjob, n)
  BY <1>1 DEF HitOf
<1>6. BatchDone(iter)' /\ iter' \notin real'
  BY <1>1, <1>4, <1>5 DEF BatchDone
<1>7. Scanned'
  <2>1. CASE BeginScan
    <3>1. seen' = start /\ found' = {}
      BY <2>1 DEF BeginScan, Host, Shape
    <3>2. start \in Nat BY DEF TypeOK
    <3> QED BY <1>1, <3>1, <3>2 DEF Scanned
  <2>2. CASE ScanSlot
    <3>1. /\ Scanned /\ seen \in start..(iter - 1) /\ seen' = seen + 1
          /\ seen \in Nat /\ start \in Nat /\ iter \in Nat
      BY <2>2 DEF ScanSlot, DataInv, Shape, TypeOK
    <3>2. hdr[SlotOf(seen)] = IF seen \in real THEN HitOf(seen) ELSE NoHit
      BY <1>4, <3>1 DEF BatchDone
    <3>3. HitSlot(seen) <=> seen \in real
      BY <3>2 DEF HitSlot, HitOf, NoHit
    <3>4. start..(seen - 1) \subseteq start..(seen' - 1) /\ seen \in start..(seen' - 1)
          /\ \A n \in start..(seen' - 1) : n = seen \/ n \in start..(seen - 1)
      BY <3>1
    <3>5. CASE ~HitSlot(seen)
      <4>1. UNCHANGED <<found, stream>> BY <2>2, <3>5 DEF ScanSlot
      <4> QED BY <1>1, <1>5, <3>1, <3>3, <3>4, <3>5, <4>1 DEF Scanned
    <3>6. CASE HitSlot(seen)
      <4> DEFINE g == [iter |-> seen, hdr |-> hdr[SlotOf(seen)]]
      <4>1. found' = found \cup {g} /\ stream' = Append(stream, IterOp("copyA", seen))
        BY <2>2, <3>6 DEF ScanSlot
      <4>2. g.iter = seen /\ g.hdr = HitOf(seen)
        BY <3>2, <3>3, <3>6
      <4>3. IterOp("copyA", seen) \in Operation
        BY <3>1, SlotType DEF IterOp, Operation, OpName
      <4>4. /\ Len(stream) \in Nat /\ Len(stream') = Len(stream) + 1
            /\ \A n \in 1..Len(stream) : n \in 1..Len(stream') /\ stream'[n] = stream[n]
            /\ Len(stream') \in 1..Len(stream') /\ stream'[Len(stream')] = IterOp("copyA", seen)
        BY <4>1, <4>3, AppendProperties, LenProperties DEF TypeOK
      <4> HIDE DEF g
      <4>5. ASSUME NEW f \in found'
            PROVE  /\ f.iter \in start..(seen' - 1) /\ f.iter \in real /\ f.hdr = HitOf(f.iter)
                   /\ \/ snap[SlotOf(f.iter)] = SourcesA(hjob, f.iter)
                      \/ \E n \in 1..Len(stream') : stream'[n] = IterOp("copyA", f.iter)
        <5>1. CASE f = g BY <5>1, <4>2, <4>4, <3>3, <3>4, <3>6
        <5>2. CASE f \in found
          <6>1. /\ f.iter \in start..(seen - 1) /\ f.iter \in real /\ f.hdr = HitOf(f.iter)
                /\ \/ snap[SlotOf(f.iter)] = SourcesA(hjob, f.iter)
                   \/ \E n \in 1..Len(stream) : stream[n] = IterOp("copyA", f.iter)
            BY <5>2, <3>1 DEF Scanned
          <6> QED BY <6>1, <3>4, <4>4
        <5> QED BY <4>1, <5>1, <5>2
      <4>6. \A n \in start..(seen' - 1) : n \in real => \E f \in found' : f.iter = n
        BY <3>1, <3>4, <4>1, <4>2 DEF Scanned
      <4> QED BY <1>1, <1>5, <4>5, <4>6 DEF Scanned
    <3> QED BY <3>5, <3>6
  <2> QED BY <2>1, <2>2
<1> QED BY <1>1, <1>3, <1>6, <1>7 DEF DataInv

LEMMA DataSend ==
  ASSUME TypeOK, Shape, DataInv, SendHits
  PROVE  DataInv'
<1>1. /\ hpc = "scan" /\ hpc' = "check" /\ seen = iter
      /\ works' = works \cup {Work(f) : f \in found}
      /\ UNCHANGED <<hjob, cached, bBytes, iter, dma, mem, real>>
  BY DEF SendHits, Host, devVars
<1>2. /\ JobLoaded /\ SentIters = {n \in real : n < start} /\ BatchDone(iter)
      /\ iter \notin real /\ Scanned /\ iter \in Nat /\ start \in Nat /\ real \in SUBSET Nat
  BY <1>1 DEF DataInv, TypeOK
<1>3. \A n \in real : n < iter
  BY <1>2 DEF BatchDone
<1>4. found # {} => \A n : n \notin 1..Len(stream)
  BY EmptySeq DEF SendHits, Drained
<1>5. \A f \in found : /\ Work(f).job = hjob /\ Work(f).iter = f.iter
                       /\ Work(f).from = AllSources(hjob, f.iter)
                       /\ Work(f).a = SourcesA(hjob, f.iter)
                       /\ Work(f).b = SourcesB(hjob)
                       /\ f.iter \in real
  <2> TAKE f \in found
  <2>1. /\ f.hdr = HitOf(f.iter) /\ f.iter \in real
        /\ snap[SlotOf(f.iter)] = SourcesA(hjob, f.iter)
    BY <1>2, <1>4 DEF Scanned
  <2>2. f.hdr.from = AllSources(hjob, f.iter) BY <2>1 DEF HitOf
  <2>3. bBytes = SourcesB(hjob) BY <1>2 DEF JobLoaded
  <2> QED BY <2>1, <2>2, <2>3 DEF Work
<1>6. HitsProvable'
  <2>1. HitsProvable BY DEF DataInv
  <2>2. \A f \in found : /\ Work(f).from = AllSources(Work(f).job, Work(f).iter)
                         /\ Work(f).a = SourcesA(Work(f).job, Work(f).iter)
                         /\ Work(f).b = SourcesB(Work(f).job)
    BY <1>5
  <2> QED BY <1>1, <2>1, <2>2 DEF HitsProvable
<1>7. SentIters' = real
  <2>1. SentIters' = SentIters \cup {f.iter : f \in found}
    BY <1>1, <1>5 DEF SentIters
  <2>2. {f.iter : f \in found} \subseteq real BY <1>5
  <2>3. ASSUME NEW n \in real, n \notin SentIters PROVE \E f \in found : f.iter = n
    <3>1. n \in start..(iter - 1) BY <1>2, <1>3, <2>3
    <3> QED BY <3>1, <1>1, <1>2 DEF Scanned
  <2> QED BY <2>1, <2>2, <2>3, <1>2
<1>8. JobLoaded' BY <1>1, <1>2 DEF JobLoaded
<1> QED BY <1>1, <1>3, <1>6, <1>7, <1>8 DEF DataInv

LEMMA DataFails ==
  ASSUME DataInv, HostFails
  PROVE  DataInv'
<1>1. hpc' = "failed" /\ works' = works BY DEF HostFails
<1> QED BY <1>1 DEF DataInv, HitsProvable

(* A copy of the job's bytes lands while the job is loaded, never later.   *)
LEMMA DataLands ==
  ASSUME TypeOK, Shape, DataInv, CopyLands, hpc # "failed"
  PROVE  DataInv'
<1>1. /\ dma # <<>> /\ mem' = [mem EXCEPT ![Head(dma)[1]] = {Head(dma)}]
      /\ dma' = Tail(dma) /\ UNCHANGED <<path, hpc, newJob, cached, iter, works, stream, bPinned,
                                         real>>
  BY DEF CopyLands, hostVars, pinVars
<1>2. hpc = "loadSync" /\ JobLoading
  <2>1. hpc \in Pc BY DEF TypeOK
  <2> QED BY <2>1, <1>1 DEF DataInv, JobLoaded, Pc
<1>3. /\ dma = Copies(newJob) \/ dma = <<Of("target", newJob), Of("seed", newJob)>>
         \/ dma = <<Of("seed", newJob)>>
      /\ Len(stream') = 3 /\ newJob \in Job /\ cached = newJob
  <2>1. Len(stream) \in Nat /\ 3 - Len(stream) = 0
    BY <1>1, <1>2, LenProperties DEF JobLoading, TypeOK
  <2>2. Len(stream) = 3 BY <2>1
  <2> QED BY <1>1, <1>2, <2>2 DEF JobLoading
<1>4. \A b \in {"key", "target", "seed"} : b \in SharedBuf BY DEF SharedBuf
<1>5. \A b \in {"key", "target", "seed"} : Head(dma) = Of(b, newJob) =>
        mem'[b] = {Of(b, newJob)} /\ \A c \in SharedBuf \ {b} : mem'[c] = mem[c]
  <2> TAKE b \in {"key", "target", "seed"}
  <2> HAVE Head(dma) = Of(b, newJob)
  <2>1. Head(dma)[1] = b BY DEF Of
  <2>2. mem' = [mem EXCEPT ![b] = {Of(b, newJob)}] BY <1>1, <2>1
  <2> QED BY <1>4, <2>2 DEF TypeOK
<1>6. JobLoading'
  <2>1. CASE dma = Copies(newJob)
    <3>1. /\ Head(dma) = Of("key", newJob) /\ Len(dma') = 2
          /\ dma' = <<Of("target", newJob), Of("seed", newJob)>>
      BY <1>1, <2>1 DEF Copies
    <3>2. mem'["key"] = {Of("key", newJob)} /\ newJob' = newJob /\ cached' = cached
      BY <1>1, <1>5, <3>1
    <3>3. newJob \in Job /\ cached = newJob /\ Len(stream') = 3 BY <1>3
    <3> QED BY <3>1, <3>2, <3>3 DEF JobLoading
  <2>2. CASE dma = <<Of("target", newJob), Of("seed", newJob)>>
    <3>1. /\ Head(dma) = Of("target", newJob) /\ Len(dma') = 1 /\ Len(dma) = 2
          /\ dma' = <<Of("seed", newJob)>>
      BY <1>1, <2>2
    <3>2. mem["key"] = {Of("key", newJob)} BY <1>2, <3>1 DEF JobLoading
    <3>3. mem'["target"] = {Of("target", newJob)} /\ mem'["key"] = mem["key"]
      BY <1>5, <3>1 DEF SharedBuf
    <3>4. mem'["key"] = {Of("key", newJob)} /\ newJob' = newJob /\ cached' = cached
      BY <3>2, <3>3, <1>1
    <3>5. newJob \in Job /\ cached = newJob /\ Len(stream') = 3 BY <1>3
    <3> QED BY <3>1, <3>3, <3>4, <3>5 DEF JobLoading
  <2>3. CASE dma = <<Of("seed", newJob)>>
    <3>1. Head(dma) = Of("seed", newJob) /\ Len(dma') = 0 /\ Len(dma) = 1 /\ dma' = <<>>
      BY <1>1, <2>3
    <3>2. mem["key"] = {Of("key", newJob)} /\ mem["target"] = {Of("target", newJob)}
      BY <1>2, <3>1 DEF JobLoading
    <3>3. /\ mem'["seed"] = {Of("seed", newJob)} /\ mem'["key"] = mem["key"]
          /\ mem'["target"] = mem["target"]
      BY <1>5, <3>1 DEF SharedBuf
    <3>4. /\ mem'["key"] = {Of("key", newJob)} /\ mem'["target"] = {Of("target", newJob)}
          /\ newJob' = newJob /\ cached' = cached
      BY <3>2, <3>3, <1>1
    <3>5. newJob \in Job /\ cached = newJob /\ Len(stream') = 3 BY <1>3
    <3> QED BY <3>1, <3>3, <3>4, <3>5 DEF JobLoading
  <2> QED BY <1>3, <2>1, <2>2, <2>3
<1>7. SentIters' = SentIters BY <1>1 DEF SentIters
<1>8. HitsProvable' BY <1>1 DEF DataInv, HitsProvable
<1> QED BY <1>1, <1>2, <1>6, <1>7, <1>8 DEF DataInv

(* The stream runs the loading of a job: only after its copies have landed. *)
LEMMA DataLoadRuns ==
  ASSUME TypeOK, Shape, DataInv, OrderedCopies = TRUE, StreamStep, hpc = "loadSync"
  PROVE  DataInv'
<1> USE DEF hostVars
<1>1. /\ stream # <<>> /\ dma = <<>> /\ Execute(Head(stream)) /\ stream' = Tail(stream)
      /\ stream \in LoadTails
      /\ UNCHANGED <<path, hpc, newJob, cached, iter, works, dma>>
  BY DEF StreamStep, Shape
<1>2. JobLoading BY DEF DataInv
<1>3. /\ newJob \in Job /\ cached = newJob /\ mem["key"] = {Of("key", newJob)}
      /\ mem["target"] = {Of("target", newJob)} /\ mem["seed"] = {Of("seed", newJob)}
  <2>1. Len(dma) = 0 BY <1>1
  <2> QED BY <1>2, <2>1 DEF JobLoading
<1>4. {"key", "target", "seed", "B", "bHash"} \subseteq SharedBuf BY DEF SharedBuf
<1> DEFINE Keep == /\ newJob' = newJob /\ cached' = cached /\ dma' = <<>> /\ Len(dma') = 0
                   /\ mem'["key"] = mem["key"] /\ mem'["target"] = mem["target"]
                   /\ mem'["seed"] = mem["seed"]
<1>5. CASE stream = LoadOps
  <2>1. /\ Head(stream) = Op("fillB") /\ Len(stream') = 2 BY <1>1, <1>5 DEF LoadOps
  <2>2. SetMem("B", SourcesB(newJob))
    BY <1>1, <1>3, <2>1 DEF Execute, Op, FillB, SourcesB
  <2>3. mem'["B"] = SourcesB(newJob) /\ Keep /\ real' = real
    BY <1>1, <1>4, <2>2, MemWritten
  <2>4. JobLoading' BY <1>3, <2>1, <2>3 DEF JobLoading
  <2> QED BY <1>1, <2>3, <2>4 DEF DataInv, SentIters, HitsProvable
<1>6. CASE stream = <<Op("hashB"), Op("copyB")>>
  <2>1. Head(stream) = Op("hashB") /\ Len(stream') = 1 /\ Len(stream) = 2 BY <1>1, <1>6
  <2>2. mem["B"] = SourcesB(newJob) BY <1>2, <2>1 DEF JobLoading
  <2>3. SetMem("bHash", {Of("seed", newJob), Of("key", newJob)})
    BY <1>1, <1>3, <2>1, <2>2 DEF Execute, Op, HashB, SourcesB
  <2>4. /\ mem'["bHash"] = {Of("seed", newJob), Of("key", newJob)}
        /\ mem'["B"] = mem["B"] /\ Keep /\ real' = real
    BY <1>1, <1>4, <2>3, MemWritten
  <2>5. JobLoading' BY <1>3, <2>1, <2>2, <2>4 DEF JobLoading
  <2> QED BY <1>1, <2>4, <2>5 DEF DataInv, SentIters, HitsProvable
<1>7. CASE stream = <<Op("copyB")>>
  <2>1. Head(stream) = Op("copyB") /\ Len(stream') = 0 /\ Len(stream) = 1 BY <1>1, <1>7
  <2>2. /\ mem["B"] = SourcesB(newJob)
        /\ mem["bHash"] = {Of("seed", newJob), Of("key", newJob)}
    BY <1>2, <2>1 DEF JobLoading
  <2>3. bPinned' = SourcesB(newJob) /\ UNCHANGED <<mem, real>>
    BY <1>1, <2>1, <2>2 DEF Execute, Op, CopyB
  <2>4. Keep BY <1>1, <2>3
  <2>5. JobLoading' BY <1>3, <2>1, <2>2, <2>3, <2>4 DEF JobLoading
  <2> QED BY <1>1, <2>3, <2>5 DEF DataInv, SentIters, HitsProvable
<1> QED BY <1>1, <1>5, <1>6, <1>7 DEF LoadTails

(* The stream runs a step of a graph.                                      *)
LEMMA DataGraphRuns ==
  ASSUME TypeOK, TypeOK', Shape, DataInv, StreamStep, hpc = "launch"
  PROVE  DataInv'
<1>1. /\ stream # <<>> /\ Execute(Head(stream)) /\ stream' = Tail(stream)
      /\ UNCHANGED <<path, hostVars, dma>>
      /\ UNCHANGED <<hpc, iter, start, works>>
  BY DEF StreamStep, hostVars
<1>2. GraphTail(stream, start, iter) /\ iter <= start + RingSize
  BY DEF Shape
<1>3. stream \in Seq(Operation) /\ iter \in Nat /\ start \in Nat BY DEF TypeOK
<1> DEFINE o == Head(stream)
<1>4. /\ IsStep(o, start, iter) /\ Upcoming(stream, iter) = o
      /\ Upcoming(Tail(stream), iter) = Follows(o)
  BY <1>1, <1>2, <1>3, TailAdvances
<1>5. JobLoaded /\ Staged(Rank[o.op], o.iter) /\ BatchDone(o.iter)
  BY <1>4 DEF DataInv
<1>6. PICK r, j : r = Rank[Follows(o).op] /\ j = Follows(o).iter OBVIOUS
<1>7. Staged(r, j)' /\ BatchDone(j)' /\ JobLoaded'
  BY <1>1, <1>2, <1>4, <1>5, <1>6, GraphStepStaged
<1>8. Upcoming(stream', iter') = Follows(o) BY <1>1, <1>4
<1>9. (LET u == Upcoming(stream, iter) IN Staged(Rank[u.op], u.iter) /\ BatchDone(u.iter))'
  BY <1>6, <1>7, <1>8
<1>10. HitsProvable' BY <1>1 DEF DataInv, HitsProvable
<1>11. SentIters' = {n \in real' : n < start'}
  <2>1. o.iter >= start BY <1>3, <1>4 DEF IsStep
  <2>2. SentIters' = SentIters BY <1>1 DEF SentIters
  <2>3. SentIters = {n \in real : n < start} BY DEF DataInv
  <2>4. real' = real \/ real' = real \cup {o.iter}
    BY <1>1, <1>4 DEF Execute, FillB, HashB, CopyB, FillA, HashA, Commit, Noise, NoiseA, NoiseB,
       ZeroTrans, SearchT, ZeroHits, ResetScan, Search, Compare, Finds, Scan, Emit, CopyA,
       SetMem, SetRing
  <2> QED BY <1>1, <1>3, <1>4, <2>1, <2>2, <2>3, <2>4 DEF IsStep
<1> QED BY <1>1, <1>7, <1>9, <1>10, <1>11 DEF DataInv

(* The stream copies the A of a hit into the snapshot of its slot.         *)
LEMMA DataSnapshotRuns ==
  ASSUME TypeOK, Shape, DataInv, StreamStep, hpc = "scan"
  PROVE  DataInv'
<1>1. /\ stream # <<>> /\ Execute(Head(stream)) /\ stream' = Tail(stream)
      /\ UNCHANGED <<path, hpc, hjob, cached, bBytes, iter, start, seen, found, works, dma>>
  BY DEF StreamStep, hostVars
<1>2. /\ JobLoaded /\ SentIters = {n \in real : n < start} /\ BatchDone(iter)
      /\ iter \notin real /\ Scanned /\ HitsProvable
  BY DEF DataInv
<1>3. /\ iter = start + RingSize /\ seen \in start..iter /\ iter \in Nat /\ start \in Nat
      /\ seen \in Nat /\ RingSize \in Nat
  BY GpuWorkerAssumption DEF Shape, TypeOK
<1>4. /\ Head(stream) = stream[1] /\ Len(stream) \in Nat /\ 1 \in 1..Len(stream)
      /\ Len(stream') = Len(stream) - 1
      /\ \A n \in 1..Len(stream') : stream'[n] = stream[n + 1]
  BY <1>1, HeadTailProperties, LenProperties, EmptySeq DEF TypeOK
<1>5. PICK g \in found : Head(stream) = IterOp("copyA", g.iter)
  BY <1>4 DEF Shape
<1> DEFINE s == SlotOf(g.iter)
<1>6. g.iter \in start..(seen - 1) /\ g.iter \in Nat /\ s \in Slot
  <2>1. g.iter \in start..(seen - 1) BY <1>2 DEF Scanned
  <2> QED BY <1>3, <2>1, SlotType
<1>7. /\ snap' = [snap EXCEPT ![s] = ring[s]["A"]]
      /\ UNCHANGED <<mem, ring, hdr, real>>
  <2>1. CopyA(s) BY <1>1, <1>5 DEF Execute, IterOp
  <2> QED BY <2>1 DEF CopyA
<1>8. snap'[s] = SourcesA(hjob, g.iter)
  <2>1. g.iter \in start..(iter - 1) BY <1>3, <1>6
  <2>2. ring[s]["A"] = SourcesA(hjob, g.iter) BY <1>2, <2>1 DEF BatchDone
  <2> QED BY <1>6, <1>7, <2>2 DEF TypeOK
<1> HIDE DEF s
<1>9. ASSUME NEW f \in found
      PROVE  \/ snap'[SlotOf(f.iter)] = SourcesA(hjob, f.iter)
             \/ \E n \in 1..Len(stream') : stream'[n] = IterOp("copyA", f.iter)
  <2>1. CASE f.iter = g.iter BY <2>1, <1>8 DEF s
  <2>2. CASE f.iter # g.iter
    <3>1. f.iter \in start..(seen - 1) BY <1>2 DEF Scanned
    <3>2. SlotOf(f.iter) \in Slot \ {s}
      <4>1. /\ f.iter \in Nat /\ f.iter < g.iter + RingSize /\ g.iter < f.iter + RingSize
            /\ f.iter < g.iter \/ g.iter < f.iter
        BY <1>3, <1>6, <2>2, <3>1
      <4> QED BY <4>1, <1>6, SlotType, SlotsDiffer DEF s
    <3>3. CASE snap[SlotOf(f.iter)] = SourcesA(hjob, f.iter)
      BY <3>2, <3>3, <1>6, <1>7 DEF TypeOK
    <3>4. ASSUME NEW n \in 1..Len(stream), stream[n] = IterOp("copyA", f.iter)
          PROVE  \E k \in 1..Len(stream') : stream'[k] = IterOp("copyA", f.iter)
      <4>1. n # 1 BY <1>4, <1>5, <2>2, <3>4 DEF IterOp
      <4>2. n - 1 \in 1..Len(stream') /\ n - 1 + 1 = n BY <4>1, <1>4
      <4> QED BY <4>2, <1>4, <3>4
    <3> QED BY <3>3, <3>4, <1>2 DEF Scanned
  <2> QED BY <2>1, <2>2
<1>10. /\ \A n : HitOf(n)' = HitOf(n) /\ SourcesA(hjob', n) = SourcesA(hjob, n)
  BY <1>1 DEF HitOf
<1>11. Scanned'
  <2>1. \A f \in found : f.iter \in start..(seen - 1) /\ f.iter \in real /\ f.hdr = HitOf(f.iter)
    BY <1>2 DEF Scanned
  <2>2. \A n \in start..(seen - 1) : n \in real => \E f \in found : f.iter = n
    BY <1>2 DEF Scanned
  <2> QED BY <1>1, <1>7, <1>9, <1>10, <2>1, <2>2 DEF Scanned
<1>12. BatchDone(iter)' /\ iter' \notin real'
  BY <1>1, <1>2, <1>7, <1>10 DEF BatchDone
<1>13. JobLoaded' BY <1>1, <1>2, <1>7 DEF JobLoaded
<1>14. SentIters' = {n \in real' : n < start'} BY <1>1, <1>2, <1>7 DEF SentIters
<1>15. HitsProvable' BY <1>1, <1>2 DEF HitsProvable
<1> QED BY <1>1, <1>11, <1>12, <1>13, <1>14, <1>15 DEF DataInv

(* When a copy lands before what is enqueued after it runs, the buffers    *)
(* hold what DataInv says at every point of the host's loop.               *)
LEMMA DataStep ==
  ASSUME OrderedCopies = TRUE
  PROVE  TypeOK /\ Shape /\ DataInv /\ [Next]_vars => DataInv'
<1> SUFFICES ASSUME TypeOK, Shape, DataInv, [Next]_vars PROVE DataInv'
  OBVIOUS
<1>0. TypeOK' BY TypeStep
<1>1. CASE UNCHANGED vars
  <2> USE <1>1 DEF vars, hostVars, devVars, workspace, pinVars
  <2>0. UNCHANGED <<path, hpc, hjob, newJob, cached, bBytes, iter, start, seen, found, works,
                    stream, dma, mem, hits, scan, ring, hdr, snap, bPinned, real>>
    OBVIOUS
  <2>1. JobLoaded => JobLoaded' BY <2>0 DEF JobLoaded
  <2>2. JobLoading => JobLoading' BY <2>0 DEF JobLoading
  <2>3. \A n : HitOf(n)' = HitOf(n) /\ Committed(n)' = Committed(n)
    BY <2>0 DEF HitOf, Committed
  <2>4. PICK o : o = Upcoming(stream, iter) OBVIOUS
  <2>5. PICK r, i : r = Rank[o.op] /\ i = o.iter OBVIOUS
  <2>6. o = Upcoming(stream', iter') BY <2>0, <2>4
  <2>7. Staged(r, i) => Staged(r, i)' BY <2>0, <2>3 DEF Staged
  <2>8. \A n : BatchDone(n) => BatchDone(n)' BY <2>0, <2>3 DEF BatchDone
  <2>9. Scanned => Scanned' BY <2>0, <2>3 DEF Scanned
  <2>10. SentIters' = SentIters BY <2>0 DEF SentIters
  <2>11. HitsProvable' BY <2>0 DEF DataInv, HitsProvable
  <2>12. hpc = "launch" => (LET u == Upcoming(stream, iter)
                            IN  Staged(Rank[u.op], u.iter) /\ BatchDone(u.iter))'
    BY <2>4, <2>5, <2>6, <2>7, <2>8 DEF DataInv
  <2>13. hpc = "scan" => (BatchDone(iter) /\ iter \notin real)'
    BY <2>0, <2>3 DEF DataInv, BatchDone
  <2> QED BY <2>0, <2>1, <2>2, <2>9, <2>10, <2>11, <2>12, <2>13 DEF DataInv
<1>2. ASSUME NEW j \in Job, EnsureForJob(j) PROVE DataInv'
  BY <1>2, DataEnsure
<1>3. CASE AdoptJob \/ NextBatch
  BY <1>3, DataBatch
<1>4. CASE MineOne
  BY <1>4, DataMineOne
<1>5. CASE BeginScan \/ ScanSlot
  BY <1>5, DataScan
<1>6. CASE SendHits
  BY <1>6, DataSend
<1>7. CASE HostFails
  BY <1>7, DataFails
<1>8. CASE hpc = "failed" /\ (CopyLands \/ StreamStep)
  <2>1. hpc' = "failed" /\ works' = works
    BY <1>8 DEF CopyLands, StreamStep, hostVars
  <2> QED BY <2>1 DEF DataInv, HitsProvable
<1>9. CASE hpc # "failed" /\ CopyLands
  BY <1>9, DataLands
<1>10. CASE hpc # "failed" /\ StreamStep
  <2>1. hpc \in {"loadSync", "launch", "scan"}
    BY <1>10 DEF TypeOK, Pc, Shape, StreamStep
  <2> QED
    BY <1>0, <1>10, <2>1, DataLoadRuns, DataGraphRuns, DataSnapshotRuns
<1> QED
  BY <1>1, <1>2, <1>3, <1>4, <1>5, <1>6, <1>7, <1>8, <1>9, <1>10 DEF Next, HostStep

LEMMA DataHeld ==
  ASSUME OrderedCopies = TRUE
  PROVE  Spec => []DataInv
BY InitData, DataStep, Shaped, PTL DEF Spec

(* In every execution in which a copy of a job's bytes lands before the    *)
(* kernels enqueued after it run, every hit handed to the prover has the   *)
(* header, the rows of A and the columns of B of the job and iteration it  *)
(* names, although every launch in flight shares the noise, the operands   *)
(* and the hit workspace.                                                  *)
THEOREM HitsAreProvable ==
  ASSUME OrderedCopies = TRUE
  PROVE  Spec => []HitsProvable
<1>1. DataInv => HitsProvable BY DEF DataInv
<1> QED BY <1>1, DataHeld, PTL

(* At every point of the loop of a worker that has not failed, what is not *)
(* sent is of the batch in hand.                                           *)
LEMMA UnsentAreOfTheBatch ==
  ASSUME TypeOK, Shape, DataInv, hpc # "failed"
  PROVE  ExactlyTheHitsFound
<1>1. /\ start \in Nat /\ iter \in Nat /\ real \in SUBSET Nat
      /\ hpc \in {"check", "loadSync", "launch", "scan"}
  BY DEF TypeOK, Pc
<1>2. CASE hpc \in {"check", "loadSync"}
  <2>1. SentIters = real BY <1>2 DEF DataInv
  <2> QED BY <2>1 DEF ExactlyTheHitsFound
<1>3. CASE hpc = "scan"
  <2>1. /\ SentIters = {n \in real : n < start}
        /\ BatchDone(iter) /\ iter \notin real
    BY <1>3 DEF DataInv
  <2>2. \A n \in real : n < iter BY <1>1, <2>1 DEF BatchDone
  <2> QED BY <1>1, <1>3, <2>1, <2>2 DEF ExactlyTheHitsFound
<1>4. CASE hpc = "launch"
  <2> DEFINE o == Upcoming(stream, iter)
  <2>1. /\ SentIters = {n \in real : n < start}
        /\ Staged(Rank[o.op], o.iter) /\ BatchDone(o.iter)
    BY <1>4 DEF DataInv
  <2>2. CASE stream = <<>>
    <3>1. o.iter = iter /\ Rank[o.op] = 1 BY <2>2 DEF Upcoming, IterOp, Rank
    <3>2. iter \notin real BY <2>1, <3>1 DEF Staged
    <3>3. \A n \in real : n < iter BY <1>1, <2>1, <3>1, <3>2 DEF BatchDone
    <3> QED BY <1>1, <1>4, <2>1, <3>3 DEF ExactlyTheHitsFound
  <2>3. CASE stream # <<>>
    <3>1. o = stream[1] /\ 1 \in 1..Len(stream)
      BY <2>3, HeadTailProperties, LenProperties, EmptySeq DEF Upcoming, TypeOK
    <3>2. o.iter \in start..(iter - 1) BY <1>4, <3>1 DEF Shape, GraphTail, IsStep
    <3>3. \A n \in real : n < iter BY <1>1, <2>1, <3>2 DEF BatchDone
    <3> QED BY <1>1, <1>4, <2>1, <3>3 DEF ExactlyTheHitsFound
  <2> QED BY <2>2, <2>3
<1> QED BY <1>1, <1>2, <1>3, <1>4

(* A worker that fails keeps what it had sent and found, and nothing moves *)
(* afterwards: its stream is gone.                                         *)
LEMMA FailureLosesOneBatch ==
  ASSUME OrderedCopies = TRUE
  PROVE  TypeOK /\ Shape /\ DataInv /\ ExactlyTheHitsFound /\ [Next]_vars
           => ExactlyTheHitsFound'
<1> SUFFICES ASSUME TypeOK, Shape, DataInv, ExactlyTheHitsFound, [Next]_vars
             PROVE  ExactlyTheHitsFound'
  OBVIOUS
<1>1. CASE hpc' # "failed"
  <2>1. TypeOK' BY TypeStep
  <2>2. Shape' BY ShapeStep
  <2>3. DataInv' BY DataStep
  <2>4. (TypeOK /\ Shape /\ DataInv /\ hpc # "failed" => ExactlyTheHitsFound)'
    BY UnsentAreOfTheBatch, PTL
  <2> QED BY <1>1, <2>1, <2>2, <2>3, <2>4
<1>2. CASE hpc' = "failed"
  <2>1. UNCHANGED <<works, real, start, iter>>
    <3>1. CASE UNCHANGED vars BY <3>1 DEF vars, hostVars, devVars
    <3>2. CASE HostFails BY <3>2 DEF HostFails, devVars
    <3>3. CASE CopyLands BY <3>3 DEF CopyLands, hostVars
    <3>4. CASE StreamStep
      <4>1. hpc = "failed" BY <1>2, <3>4 DEF StreamStep, hostVars
      <4> QED BY <3>4, <4>1 DEF Shape, StreamStep
    <3>5. CASE HostStep
      <4>1. hpc' # "failed" \/ MineOne \/ ScanSlot
        BY <3>5 DEF HostStep, EnsureForJob, AdoptJob, NextBatch, BeginScan, SendHits, Host
      <4> QED BY <1>2, <4>1 DEF MineOne, ScanSlot
    <3> QED BY <3>1, <3>2, <3>3, <3>4, <3>5 DEF Next
  <2> QED BY <1>2, <2>1 DEF ExactlyTheHitsFound, SentIters
<1> QED BY <1>1, <1>2

(* Under the same condition, what the worker has sent is what the device   *)
(* found, but for hits of the batch in hand: none is lost between batches, *)
(* none is left over from an iteration before, and a call that fails costs *)
(* the hits of that batch alone.                                           *)
THEOREM NoHitIsLostOrStale ==
  ASSUME OrderedCopies = TRUE
  PROVE  Spec => []ExactlyTheHitsFound
<1>1. Init => ExactlyTheHitsFound
  BY DEF Init, ExactlyTheHitsFound, SentIters
<1> QED BY <1>1, FailureLosesOneBatch, DataHeld, Shaped, PTL DEF Spec

(* Under the same condition, the key in a proof is the one the device      *)
(* hashed with (plain_proof.rs); without it the run of GpuWorker_copies    *)
(* shows a hit made with another job's key.                                *)
THEOREM KeyIsHashedKey ==
  ASSUME OrderedCopies = TRUE
  PROVE  Spec => []KeyIsTheOneHashed
<1>1. HitsProvable => KeyIsTheOneHashed
  <2> SUFFICES ASSUME HitsProvable, NEW w \in works, NEW j \in Job, Of("key", j) \in w.from
               PROVE  j = w.job
    BY DEF KeyIsTheOneHashed
  <2>1. Of("key", j) \in AllSources(w.job, w.iter) BY DEF HitsProvable
  <2>2. Of("key", j) # At(w.iter) BY DEF Of, At
  <2> QED BY <2>1, <2>2 DEF AllSources, Of
<1> QED BY <1>1, HitsAreProvable, PTL

=============================================================================
