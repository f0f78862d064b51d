----------------------------- MODULE GpuWorker -----------------------------
(***************************************************************************)
(* One worker's device: the host loop of src/bin/live_miner.rs against the *)
(* buffers and the launch order of src/miner_bufs.rs.  The host enqueues   *)
(* on one non-blocking stream and runs ahead of it; the stream executes    *)
(* its operations one at a time, in order.  The ring slots each have an A, *)
(* its commitments, a pinned header and a pinned snapshot; B, key, target, *)
(* seed, noise, noised operands, hit workspace and scan word are shared by *)
(* every iteration in flight.                                              *)
(*                                                                         *)
(* Data are abstracted to where they come from: the value of a buffer is   *)
(* the set of sources (the key, target and seed of a job, an iteration     *)
(* number) that went into it, so a kernel's output is the union of its     *)
(* inputs.  A proof verifies only when every part of a hit has exactly the *)
(* sources of one job and one iteration.                                   *)
(***************************************************************************)
EXTENDS Naturals, Sequences

CONSTANTS
  Job,         \* jobs (header, key, target, seed) the miner is given
  NoJob,       \* no job loaded yet
  RingSize,    \* ring slots, and iterations per batch
  Paths,       \* the MiningPaths pick_config may choose
  OrderedCopies, \* whether a copy lands before what is enqueued after it runs
  MaxLoads,    \* bound: job changes
  IterBound    \* bound: iterations launched

ASSUME GpuWorkerAssumption ==
  /\ NoJob \notin Job
  /\ RingSize \in Nat \ {0}
  /\ Paths \subseteq {"CppSearch", "TritonNorotl"}
  /\ OrderedCopies \in BOOLEAN
  /\ MaxLoads \in Nat /\ IterBound \in Nat

Slot == 0..(RingSize - 1)
JobField == {"key", "target", "seed"}
Of(f, j) == <<f, j>>
At(i) == <<"iter", i>>
Garbage == <<"uninitialised", 0>>
Empty == {Garbage}

(* Everything that goes into a hit of iteration i of job j; into A; into B. *)
AllSources(j, i) == {Of(f, j) : f \in JobField} \cup {At(i)}
SourcesA(j, i) == {Of("seed", j), At(i)}
SourcesB(j) == {Of("seed", j)}

VARIABLES
  path,     \* MinerBufsConfig.path, chosen at start
  hpc,      \* host: where the worker's loop is
  hjob,     \* host: current_job
  newJob,   \* host: the job being loaded
  cached,   \* host: MinerBufs.cached_header
  bBytes,   \* host: ReadyJob.b_bytes of the current job
  iter,     \* host: iter_idx
  start,    \* host: batch_start
  seen,     \* host: batch_iter of the slot scan
  found,    \* host: hits_this_batch, the headers copied out by the slot scan
  works,    \* the HitWorks handed to the channel
  loads,    \* bound: job loads so far
  stream,   \* operations enqueued and not yet executed
  dma,      \* host-to-device copies that have returned and not yet landed
  mem,      \* device: the shared buffers
  hits,     \* device: pow_workspace_hit
  scan,     \* device: pow_workspace_scan
  ring,     \* device: the per-slot buffers
  hdr,      \* pinned: host_signal_header_pool
  snap,     \* pinned: a_snapshot_pool
  bPinned,  \* pinned: b_pinned
  real      \* history: iterations in which the search met the target

hostVars == <<hpc, hjob, newJob, cached, bBytes, iter, start, seen, found,
             works, loads>>
pinVars  == <<hdr, snap, bPinned>>
workspace == <<hits, scan>>
devVars  == <<mem, workspace, ring, pinVars, real>>
vars == <<path, hostVars, stream, dma, devVars>>
-----------------------------------------------------------------------------
SharedBuf == {"key", "target", "seed", "B", "bHash", "noise", "apEa", "bpEb",
              "transcripts"}
RingBuf == {"A", "aHash", "commit"}
NoHit == [status |-> 0, from |-> {}]

SlotOf(i) == i % RingSize

(* Operations on the stream: a kernel or copy, and for the kernels of an   *)
(* iteration its slot and number.                                          *)
Op(k) == [op |-> k, slot |-> 0, iter |-> 0]
IterOp(k, i) == [op |-> k, slot |-> SlotOf(i), iter |-> i]

(* ensure_for_job enqueues the fill of B, its Merkle root and its copy.    *)
LoadOps == <<Op("fillB"), Op("hashB"), Op("copyB")>>

(* The captured graph of one slot: random_fill_a, mine_one_post_random.    *)
CppSteps == <<"fillA", "hashA", "commit", "noise", "noiseA", "noiseB",
              "zeroHits", "resetScan", "search", "scan", "emit">>
TritonSteps == <<"fillA", "hashA", "commit", "noise", "noiseA", "noiseB",
                 "zeroTrans", "searchT", "resetScan", "compare", "scan", "emit">>
GraphStepsNoReset ==              \* mutant: the scan word is not reset
  SelectSeq(IF path = "CppSearch" THEN CppSteps ELSE TritonSteps,
            LAMBDA o : o # "resetScan")
GraphSteps == IF path = "CppSearch" THEN CppSteps ELSE TritonSteps
Graph(i) == [k \in DOMAIN GraphSteps |-> IterOp(GraphSteps[k], i)]

Init ==
  /\ path \in Paths
  /\ hpc = "check" /\ hjob = NoJob /\ newJob = NoJob /\ cached = NoJob
  /\ bBytes = Empty
  /\ iter = 0 /\ start = 0 /\ seen = 0 /\ found = {} /\ works = {} /\ loads = 0
  /\ stream = <<>> /\ dma = <<>>
  /\ mem = [b \in SharedBuf |-> Empty] /\ hits = NoHit /\ scan = NoHit
  /\ ring = [s \in Slot |-> [b \in RingBuf |-> Empty]]
  /\ hdr = [s \in Slot |-> NoHit]
  /\ snap = [s \in Slot |-> Empty]
  /\ bPinned = Empty
  /\ real = {}
-----------------------------------------------------------------------------
Host(from, to) == hpc = from /\ hpc' = to

(* A template with another tip: ensure_for_job for its job, which returns  *)
(* at once when the header is the cached one.  The three copies are of     *)
(* pageable bytes, on the null stream: a call may return before the bytes  *)
(* have landed, and the worker's own stream does not wait for them.        *)
Copies(j) == <<Of("key", j), Of("target", j), Of("seed", j)>>

IsCached(j) == cached = j

EnsureForJob(j) ==
  /\ Host("check", "loadSync")
  /\ loads < MaxLoads /\ loads' = loads + 1
  /\ j # hjob
  /\ newJob' = j
  /\ dma' = IF IsCached(j) THEN dma ELSE dma \o Copies(j)
  /\ stream' = IF IsCached(j) THEN stream ELSE stream \o LoadOps
  /\ cached' = j
  /\ UNCHANGED <<path, hjob, bBytes, iter, start, seen, found, works, devVars>>

(* stream.synchronize returns once everything enqueued has executed.       *)
DrainedAlways == TRUE             \* mutant: the synchronize is left out
Drained == stream = <<>>

(* The copy of b_pinned and the new ReadyJob.  The graphs are captured the *)
(* first time; capture executes nothing.                                   *)
AdoptJob ==
  /\ Host("loadSync", "launch")
  /\ Drained
  /\ bBytes' = bPinned
  /\ hjob' = newJob
  /\ start' = iter
  /\ UNCHANGED <<path, newJob, cached, iter, seen, found, works, loads,
                 stream, dma, devVars>>

(* Same tip: another batch of the current job.                             *)
NextBatch ==
  /\ Host("check", "launch")
  /\ hjob # NoJob
  /\ start' = iter
  /\ UNCHANGED <<path, hjob, newJob, cached, bBytes, iter, seen, found, works, loads,
                 stream, dma, devVars>>

BatchFullLate == iter > start + RingSize     \* mutant: one iteration too many
BatchFull == iter >= start + RingSize

(* zero_cpu of the slot's pinned header, then the graph with iter_idx.     *)
ZeroHeader(s) == [hdr EXCEPT ![s] = NoHit]

MineOne ==
  /\ hpc = "launch"
  /\ ~BatchFull
  /\ iter < IterBound
  /\ hdr' = ZeroHeader(SlotOf(iter))
  /\ stream' = stream \o Graph(iter)
  /\ iter' = iter + 1
  /\ UNCHANGED <<path, hpc, hjob, newJob, cached, bBytes, start, seen, found, works, loads,
                 dma, mem, workspace, ring, snap, bPinned, real>>

(* After the synchronize the slots of the batch are looked at one by one:  *)
(* a status of 1 copies the header and enqueues the snapshot of that       *)
(* slot's A, which may run while the next slots are looked at.             *)
BeginScan ==
  /\ Host("launch", "scan")
  /\ BatchFull
  /\ Drained
  /\ seen' = start
  /\ UNCHANGED <<path, hjob, newJob, cached, bBytes, iter, start, seen, found, works, loads,
                 stream, dma, devVars>>

FirstHitSlot(i) ==                \* mutant: only the first hit of the batch
  hdr[SlotOf(i)].status = 1 /\ found = {}
HitSlot(i) == hdr[SlotOf(i)].status = 1

ScanSlot ==
  /\ hpc = "scan"
  /\ seen < iter /\ seen' = seen + 1
  /\ \/ /\ HitSlot(seen)
        /\ found' = found \cup {[iter |-> seen, hdr |-> hdr[SlotOf(seen)]]}
        /\ stream' = Append(stream, IterOp("copyA", seen))
     \/ ~HitSlot(seen) /\ UNCHANGED <<found, stream>>
  /\ UNCHANGED <<path, hpc, hjob, newJob, cached, bBytes, iter, start, works, loads, dma,
                 devVars>>

(* With hits, a second synchronize; then one HitWork for each.             *)
Work(f) == [job |-> hjob, iter |-> f.iter, from |-> f.hdr.from,
            a |-> snap[SlotOf(f.iter)], b |-> bBytes]
SendHits ==
  /\ Host("scan", "check")
  /\ seen = iter
  /\ found # {} => Drained
  /\ works' = works \cup {Work(f) : f \in found}
  /\ found' = {}
  /\ UNCHANGED <<path, hjob, newJob, cached, bBytes, iter, start, seen, loads, stream, dma,
                 devVars>>

(* Any CUDA call may fail and end the worker; the stream is destroyed.     *)
HostFails ==
  /\ hpc # "failed"
  /\ hpc' = "failed"
  /\ stream' = <<>> /\ dma' = <<>> /\ found' = {}
  /\ UNCHANGED <<path, hjob, newJob, cached, bBytes, iter, start, seen, works, loads,
                 devVars>>
-----------------------------------------------------------------------------
(* The device.  A copy issued on the null stream lands in order.           *)
CopyLands ==
  /\ dma # <<>>
  /\ mem' = [mem EXCEPT ![Head(dma)[1]] = {Head(dma)}]
  /\ dma' = Tail(dma)
  /\ UNCHANGED <<path, hostVars, stream, workspace, ring, pinVars, real>>

SetMem(b, v) ==
  mem' = [mem EXCEPT ![b] = v] /\ UNCHANGED <<workspace, ring, pinVars, real>>
SetRing(s, b, v) ==
  ring' = [ring EXCEPT ![s][b] = v] /\ UNCHANGED <<mem, workspace, pinVars, real>>

(* random_int8_seeded: B of the job (iteration 0), A of an iteration.      *)
FillB == SetMem("B", mem["seed"])
FillA(s, i) == SetRing(s, "A", mem["seed"] \cup {At(i)})
(* tensor_hash: the keyed Merkle root of B and of A.                       *)
HashB == SetMem("bHash", mem["B"] \cup mem["key"])
HashA(s) == SetRing(s, "aHash", ring[s]["A"] \cup mem["key"])
(* commitment_hash: commit_A and commit_B from both roots and the key.     *)
Commit(s) == SetRing(s, "commit", ring[s]["aHash"] \cup mem["bHash"] \cup mem["key"])
(* noise_gen: the dense, sparse and transposed noise from the commitments. *)
Noise(s) == SetMem("noise", ring[s]["commit"])
(* noising: A + E_AL E_AR and B + E_BR E_BL.                               *)
NoiseA(s) == SetMem("apEa", ring[s]["A"] \cup mem["noise"])
NoiseB == SetMem("bpEb", mem["B"] \cup mem["noise"])
(* The Triton search leaves transcripts for the postpass to hash; it only  *)
(* writes some of them, and what it leaves alone stays in the buffer.      *)
ZeroTrans == SetMem("transcripts", {})
SearchT == SetMem("transcripts", mem["transcripts"] \cup mem["apEa"] \cup mem["bpEb"])

ZeroHits == hits' = NoHit /\ UNCHANGED <<mem, scan, ring, pinVars, real>>
ResetScan == scan' = NoHit /\ UNCHANGED <<mem, hits, ring, pinVars, real>>

(* A candidate of iteration i meets the target, or none does.  The C++     *)
(* search, which hashes as it goes, and the Triton postpass, which hashes  *)
(* the transcripts, both write the flag of every candidate.                *)
Finds(i, from) ==
  /\ \/ hits' = [status |-> 1, from |-> from] /\ real' = real \cup {i}
     \/ hits' = NoHit /\ UNCHANGED real
  /\ UNCHANGED <<mem, scan, ring, pinVars>>
Search(s, i) ==
  Finds(i, mem["apEa"] \cup mem["bpEb"] \cup ring[s]["commit"] \cup mem["target"])
Compare(s, i) ==
  Finds(i, mem["transcripts"] \cup ring[s]["commit"] \cup mem["target"])

(* The scan leaves the least flagged index, or the word already there.     *)
Scan ==
  /\ \/ hits.status = 1 /\ scan' = hits
     \/ (hits.status = 0 \/ scan.status = 1) /\ UNCHANGED scan
  /\ UNCHANGED <<mem, hits, ring, pinVars, real>>

(* emit writes nothing when the scan word is the sentinel; otherwise the   *)
(* header, with the target of the job, its status last.                    *)
Emit(s) ==
  /\ \/ scan.status = 0 /\ UNCHANGED hdr
     \/ /\ scan.status = 1
        /\ hdr' = [hdr EXCEPT ![s] =
                     [status |-> 1, from |-> scan.from \cup mem["target"]]]
  /\ UNCHANGED <<mem, workspace, ring, snap, bPinned, real>>

(* cuMemcpyDtoHAsync of B for the job, of a hit's A for the batch.         *)
CopyB ==
  bPinned' = mem["B"] /\ UNCHANGED <<mem, workspace, ring, hdr, snap, real>>
CopyA(s) ==
  /\ snap' = [snap EXCEPT ![s] = ring[s]["A"]]
  /\ UNCHANGED <<mem, workspace, ring, hdr, bPinned, real>>

Execute(o) ==
  \/ o.op = "fillB"     /\ FillB
  \/ o.op = "hashB"     /\ HashB
  \/ o.op = "copyB"     /\ CopyB
  \/ o.op = "fillA"     /\ FillA(o.slot, o.iter)
  \/ o.op = "hashA"     /\ HashA(o.slot)
  \/ o.op = "commit"    /\ Commit(o.slot)
  \/ o.op = "noise"     /\ Noise(o.slot)
  \/ o.op = "noiseA"    /\ NoiseA(o.slot)
  \/ o.op = "noiseB"    /\ NoiseB
  \/ o.op = "zeroTrans" /\ ZeroTrans
  \/ o.op = "searchT"   /\ SearchT
  \/ o.op = "zeroHits"  /\ ZeroHits
  \/ o.op = "resetScan" /\ ResetScan
  \/ o.op = "search"    /\ Search(o.slot, o.iter)
  \/ o.op = "compare"   /\ Compare(o.slot, o.iter)
  \/ o.op = "scan"      /\ Scan
  \/ o.op = "emit"      /\ Emit(o.slot)
  \/ o.op = "copyA"     /\ CopyA(o.slot)

StreamStep ==
  /\ stream # <<>>
  /\ OrderedCopies => dma = <<>>
  /\ Execute(Head(stream))
  /\ stream' = Tail(stream)
  /\ UNCHANGED <<path, hostVars, dma>>
-----------------------------------------------------------------------------
HostStep ==
  \/ \E j \in Job : EnsureForJob(j)
  \/ AdoptJob \/ NextBatch \/ MineOne \/ BeginScan \/ ScanSlot \/ SendHits

Next == HostStep \/ HostFails \/ CopyLands \/ StreamStep
Spec == Init /\ [][Next]_vars

(* The worker thread is scheduled, kernels terminate, copies land.  A CUDA *)
(* call may fail but never has to.                                         *)
FairSpec == Spec /\ WF_vars(HostStep) /\ WF_vars(StreamStep) /\ WF_vars(CopyLands)
-----------------------------------------------------------------------------
(* A hit sent to the prover has, in its header, its A rows and its B       *)
(* columns, exactly the data of the job it names and of its iteration,     *)
(* although all launches share one set of noise, workspaces and B.         *)
HitsProvable ==
  \A w \in works :
    /\ w.from = AllSources(w.job, w.iter)
    /\ w.a = SourcesA(w.job, w.iter)
    /\ w.b = SourcesB(w.job)

(* The hits sent are hits the device found, never a leftover of an earlier *)
(* iteration in a pinned header or in the scan word.  A hit found and not  *)
(* sent is one of the batch in hand, also in a worker that has failed: a   *)
(* call that fails costs the hits of one batch and no more, and between    *)
(* batches none is missing.                                                *)
SentIters == {w.iter : w \in works}
ExactlyTheHitsFound ==
  /\ SentIters \subseteq real
  /\ \A i \in real \ SentIters : hpc # "check" /\ i \in start..(iter - 1)

(* The host touches what the device works on only when no operation still  *)
(* on the stream could write or read it: pinned buffers when it zeroes or  *)
(* copies them, key, target and seed when a job is loaded.                 *)
Pending(k, s) == \E n \in DOMAIN stream : stream[n].op = k /\ stream[n].slot = s
NoHostDeviceRace ==
  [][/\ iter' # iter => ~Pending("emit", SlotOf(iter))
     /\ bBytes' # bBytes => ~Pending("copyB", 0)
     /\ works' # works => \A s \in Slot : ~Pending("copyA", s)
     /\ seen' # seen => \A s \in Slot : ~Pending("emit", s)
     /\ cached' # cached => stream = <<>>]_vars

(* Every iteration that meets the target is sent, unless the worker fails: *)
(* the host loop and the device both make progress.                        *)
HitsFoundAreSent ==
  \A i \in 0..(IterBound - 1) :
    (i \in real) ~> ((\E w \in works : w.iter = i) \/ hpc = "failed")

(* plain_proof.rs: the key of the proof is "the same value passed to       *)
(* tensor_hash": the roots the device committed to were made with the key  *)
(* of the job the hit names.                                               *)
KeyIsTheOneHashed ==
  \A w \in works : \A j \in Job : Of("key", j) \in w.from => j = w.job
=============================================================================
