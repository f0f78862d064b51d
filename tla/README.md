# Verification of pearl-miner-live

TLA+ models of the GPU miner in `src/`, the TLC instances that check them, and
TLAPS proofs of what matters most in them. A source path is given from the root
of the repository's `src/` tree (`src/bin/live_miner.rs` is the crate's
binary, `csrc/` the CUDA kernels, `deps/` the vendored crates).

## 1. The system

`pearl-miner-live` asks a node (pearld) for block templates, searches for a
proof of work on one or several GPUs, proves each hit and submits the block.

    pearld --getblocktemplate--> template poller --> cell (Mutex<Option<Arc>>)
                                                       | clone, compare tip
              worker 1 .. n (a thread and a CUDA stream each) <----+
                     | HitWork (mpsc, unbounded)
                     v
                 hit poller --build_plain_proof, prove_block--> submitblock --> pearld
    main: spawns all, drops its sender, joins the workers, joins the hit poller

| Component | Source | State | Operations |
|---|---|---|---|
| Template poller | `src/bin/live_miner.rs`, `src/gateway/client.rs` | `last_prev`, the shared cell | fetch, compare the tip, publish under the lock |
| Worker | `src/bin/live_miner.rs` | `current_prev`, `current_job`, `iter_idx`, `hits_this_batch` | check the cell, build and load a job, run a batch, snapshot and send hits, count, stop at MAX_ITERS |
| Device buffers | `src/miner_bufs.rs`, `src/driver.rs` | ring slots, pinned pools, shared buffers, `cached_header`, graphs, stream | `ensure_for_job`, capture, replay of a slot's graph, snapshot of A, synchronize |
| Hit poller | `src/bin/live_miner.rs`, `src/proof/*`, `src/gateway/client.rs` | hit in hand, `blocks_accepted`, `blocks_rejected` | receive, prove, submit, count |
| Main | `src/bin/live_miner.rs` | join handles, `first_err` | spawn, drop the sender, join, exit code |
| Merkle commitment | `src/kernels/tensor_hash.rs`, `csrc/extern_c_shims.inc`, `deps/pearl-blake3/src/merkle.rs` | two scratch buffers, layers, `current_set` | hash chunks, combine layers, tree, multi-leaf proof, verification, sibling ranges |
| Share target | `src/gateway/block.rs`, `src/gateway/mining_job.rs`, `deps/zk-pow/src/api/*` | 33 bytes of product, carries | decode bits, multiply, compare, verifier's bound |
| Resources of a worker | `src/driver.rs`, `src/miner_bufs.rs`, `src/kernels/triton.rs` | context, modules, memory, stream, capture, graphs | acquire in order, capture, instantiate, fail, drop |
| Noise kernels | `src/kernels/{random_int8,noise_gen,noisy_gemm,commitment_hash}.rs`, `csrc/pearl_gemm/*` | matrices, noise factors, noised operands | fill, commit, draw noise, transpose, add |
| Search, scan and emit kernels | `csrc/pearl_gemm/*`, `src/kernels/{search,pow_scan_emit,triton}.rs` | transcripts, flags, scan word, signal header | multiply and hash, compare, scan, emit |
| Mining patterns | `src/gateway/mining_job.rs`, `src/proof/signal_header.rs`, `deps/zk-pow/src/api/proof_utils.rs` | none | cells of a candidate, indices of a header, pattern of a proof |
| Block and wire encoding | `src/gateway/block.rs` | none | header, coinbase, certificate, script numbers, varints |
| zk proof of work, plonky2 | `deps/zk-pow`, `deps/plonky2` | circuit cache | prove, verify |
| Aggregate logger, parity and benchmark binaries | `src/bin/*` | none of their own | printing, comparison with CPU references |

What is hard here:

- **Interleavings.** The cell is cloned under a lock and used after it is
  released, so a template may be published between the check and the batch. A
  hit found just before a template change must be proved with the job it was
  mined under, while the worker is already loading another one.
- **A host ahead of its device.** A batch enqueues `ring_size` graphs and only
  then waits. The slots have their own A, commitments and pinned header, but
  noise, noised operands, B, flags and the scan word are shared by all of them:
  only the order of the stream separates one iteration from the next.
- **Ends.** `recv` fails only when every clone of the sender is gone, main's too;
  a worker may return an error, finish, or panic; the hit poller may panic and
  drop the receiver with what is queued; main joins all of them in order.
- **Timeouts.** A submission may time out after the node took the block.
- **Two authors of one number.** The device computes noise, noised operands and
  transcripts with kernels of its own, and names a hit by an index, a thread and
  an array of cells; the verifier starts from a few rows of A and B and must
  arrive at the same noise, the same hash and the same pattern.
- **Failure half way.** A worker makes dozens of driver objects one by one; any
  call may fail, and what is held is then dropped by Rust in an order that is
  written nowhere, possibly while the device is still running, and while another
  worker captures a graph.
- **Boundaries.** Odd nodes of a hash layer, rows that straddle chunks, a
  single chunk, carries beyond the top byte, exponents below 3 and above 32.

What makes the components correct, in a sentence each: every hit sent to the
prover is made of exactly one job and one iteration; no hit is lost or proved
twice, and a failed call costs those of one batch; no search is repeated; a replaced tip costs at most one more
batch; the process ends, and only when every hit is settled; the root committed
on the device is the BLAKE3 root the proof opens to; a hash the kernel takes for
a hit meets the verifier's bound (but for bits with the sign bit, section 5); what the kernel hashes is what the verifier
hashes; the cells a header names are those of one candidate that met the target,
in the pattern of the job; nothing is dropped under the device's feet, and
nothing stays. `PROJECT.json` lists the hazards at their
lines with the properties that watch them.

## 2. The modules

| Module | What it is |
|---|---|
| `MinerService` | the promise: candidates searched, hits reported once, settled in order, stop only when settled |
| `LiveMiner` | the threads of the process, with the node as its environment |
| `MCLiveMiner` | device lists and symmetry for TLC |
| `GpuWorker` | one worker's host loop against its stream, device and pinned memory |
| `MerkleCommitment` | the tree of one matrix: kernel, prover, verifier |
| `MCMerkle` | shapes for TLC |
| `ShareTarget` | the target of a job in bytes, and the two comparisons |
| `MiningPattern` | `PeriodicPattern` of the verifier and the patterns of the two search paths (operators only) |
| `HitReport`, `MCHitReport` | one slot from the search's flags to the indices the host extracts |
| `NoisePipeline`, `MCNoise` | the values the kernels of an iteration compute, and the verifier's |
| `Powers` | powers of two |
| `WorkerResources`, `MCWorkerResources` | what workers hold of the driver, and how they lose it |
| `NumberLemmas` | induction over the numbers, quotients and remainders, powers of two: the lemmas the proofs share |
| `LiveMiner_proofs` | type correctness, the life of a hit, the uniqueness of the search, stale work, the end of the process, honest counters, `LiveMiner` implements `MinerService` |
| `GpuWorker_proofs` | the host never races its device; the hits sent are those found, each of one job and iteration |
| `HitReport_proofs` | the scan finds the least hit, the header is never torn, the cells named are those hashed, the verifier takes the pattern |
| `MerkleCommitment_proofs` | device root, host tree, proof and sibling ranges, for any number of chunks |
| `ShareTarget_proofs` | the multiplication, the two targets, the two comparisons, for bytes and integers of any size |
| `NoisePipeline_proofs` | the noise factors are drawn whole, operands and jackpots are the verifier's, for matrices of any size and any hash |
| `WorkerResources_proofs` | drop order, memory under running work, captures, leaks, the newest PTX |

How they fit: `LiveMiner` takes a batch for one step that yields some hits;
`GpuWorker` opens that step into host and stream and follows which data go
where; `NoisePipeline` opens the kernels up to the hash of a candidate and
`HitReport` those after it, `MerkleCommitment` the hashing of the matrices, and
`ShareTarget` the comparison. `WorkerResources` is the same worker seen from its
handles.

### LiveMiner

One action per step a thread takes between two points where another thread can
see or change what it uses.

| Thread | Actions and code |
|---|---|
| node (external) | `NodeOffers`: another template, on any tip |
| template poller | `FetchTemplate` (the RPC returns), `PublishTemplate` (comparison with `last_prev`, the write under the lock). A failed fetch changes nothing and has no action |
| worker | `OpenDevice`; `TakeTemplate` or `KeepJob` (the check of the cell); `BuildJob`; `LoadJob` (`ensure_for_job`, synchronize, capture, new `ReadyJob`); `RunBatch` (enqueue, synchronize, scan of the slots); `Snapshot`; `SendHit`; `EndBatch` (counter, MAX_ITERS). `WorkerFails` is every `?`, `WorkerPanics` every assert |
| hit poller | `Receive`, `Disconnect`, `ProofBuilt`, `ProofFails`, `SubmitTaken(answered)`, `SubmitRefused` (also when the node was not reached), `PollerPanics` |
| main | `DropSender`, `JoinWorkers`, `JoinPoller` |

`curPrev` is set before the job is built, as `current_prev` is in the code, so a
failed build is a state of the model. A hit is a worker, the job its `HitWork`
carries (`tpl`), the job that was on the device (`minedOn`) and an iteration; a
candidate is a device, a job and an iteration, because the seed is a function of
header, salt and device ordinal. `SameSearch` takes two templates of one tip for
one header: a node whose tip comes back may offer the same header once more, and
then only `iter_idx`, which no job load resets, keeps the search from repeating. A worker without a job sleeps and looks again:
that changes nothing and is no action. `mined`, `sent`, `settled` and
`lag` are history and guard nothing.

### GpuWorker

The host enqueues operations on `stream` and goes on; the stream executes them
one at a time in order. The three copies of a new job (`dma`) are pageable
host-to-device copies on the null stream. A buffer's value is the set of sources
that went into it (key, target and seed of a job, an iteration number, or the
uninitialised contents), so a kernel's output is the union of its inputs, and a
hit is provable when its sources are those of one job and one iteration. `path`
is the kernel family `pick_config` chooses; its launch order is `CppSteps` or
`TritonSteps`. The scan of the slots after a batch is a loop of its own
(`seen`): each slot's header is looked at once, a hit is snapshot by an enqueued
copy of its A, and the hits are sent when that copy has run. `HostFails` is any
CUDA error: the worker and its stream go.

### MerkleCommitment

A digest is the term of what was hashed, which makes BLAKE3 collision-free and
keeps the shape of the tree. The launches of the device are actions of their
own, and within one the threads (`LayerThread`) run in any order. `BuildTree`,
`StartProof`/`ProveLevel`, `VerifyLevel`/`VerifyTop` and `RangeLevel` are the
iterations of the loops of `merkle.rs`. `Subtree` is the BLAKE3 tree by its own
definition (left subtree: the largest power of two), the reference; it is a
function from a number of chunks to a function from the first of them. `Lone`
are the keys that want a sibling, in the ascending order in which a `BTreeSet`
yields them, and `Covers` says which bytes a labelled range stands for.

### ShareTarget

`Decode`, `MultiplyByte`, `Spread`, `NextByte` and `Finish` are the steps of
`bits_to_target` and `mul_u256_u128`. The byte and the number of bytes are
parameters (`Power[n]` is the place value of byte `n`); a `usize` below zero
wraps, as in the release build. `Tidied` is the carry of the tidy pass into each
byte.

### MiningPattern and HitReport

A candidate is a tile and a thread of it (C++ search: 256 threads, two rows by
32 columns each; Triton: 64 pairs of rows by 128 columns). `Search` sets the
flags of any set of candidates in `Outcomes` (for Triton, the compare pass that
writes them), where the kernels put them (`Index`), and clears the flag of every
other one it covers; `ScanThread` is one `atomicMin`, in any order; `EmitField`
is a store of the emit kernel on its way to host memory, in any order up to the
fence; `ReadHeader` is the host after the synchronize, with `parse` and
`extract_indices`. Workspaces and header keep what the last iteration left.
`CppCells` and `TritonCells` say which cells a thread of the search accumulates,
from the layout of its registers (for Triton from the job's pattern, its PTX is
not source), and are what the report is compared with. The verifier's
`from_list`, `is_valid`, `offset_is_valid` and `list_to_pattern` are the
operators of `MiningPattern`. Two observations: zeroing the flags before the C++
search is redundant, as every thread of the search writes its flag; and the host
as it is reads only after the synchronize, while `NoTornHeader` holds even for a
host that polls.

### NoisePipeline

The kernels run in the order of `mine_one_post_random`, each divided into the
threads, chunks or blocks of its launch, which run in any order (`todo`). BLAKE3
is the constant `Digest` (a function of key, label, counter and chunk), so that
any table of bytes will do; so is the exclusive or, of which `XorAssumption` says
the one thing the code relies on: a column below R xored with a number from 1 to
R - 1 is another column below R. It holds because the rank is a power of two,
which the verifier checks, and TLC evaluates it for the xor of the run. The
numbers of rows, of columns, R, the width of the
transcript and of the accumulator are constants. `Strip`, `Noise`, `Permutation`
and `Jackpot` are the verifier's, written from `deps/zk-pow/src/circuit`, and share
with the kernels only the hash. Also visible in it: A of iteration 0 and B are
filled from the same seed and counter, so B begins with the bytes of A; the
half-precision and K-major buffers are filled every iteration and read by no
kernel of the live path; a sparse chunk is never partial, as K is a multiple of
R. The ring slots are `GpuWorker`'s business: here the host waits for an
iteration before it enqueues the next. The Triton search stores a word of the
transcript when its tile is done and leaves a word without a tile as it was
(`Stored`), which is what the zeroing before it (`Blank`) is for; with
K/R = JACKPOT_SIZE, asserted by `MinerBufs::new`, every word has one tile
(`EveryWordStored`) and the zeroing changes no result.

### WorkerResources

`Setup` is the list of acquisitions in the order of `worker` and
`MinerBufs::new`; `Acquire` makes the next one, `CallFails` is a `?` on any
call, in set-up or later, and computes what Rust will drop and where in the
order each thing has its place: the locals of `new` in reverse (`LocalPlace`),
or, once there is a `MinerBufs`, graphs, stream, its fields in the order of
their declaration, module and context (`WorkerPlace`). What is still to be
dropped is a set, and `Drop` takes the element whose place comes first,
interleaved with the other workers. What is assumed of the driver (external):
`cuMemFree` and the destruction of a context wait for the device, those of a
stream or a graph do not; destroying a capturing stream ends its capture; a
context takes with it what was made in it, except a `CUgraph`; while a stream
captures in THREAD_LOCAL mode, allocations, module loads and synchronous copies
of its own thread are refused, in GLOBAL mode those of every thread; PTX for a
newer architecture is refused. All three PTX files are embedded, so the
`is_empty` tests of `pick_ptx` do not occur. Simplified: buffers of one role
that are made and dropped together are one, and the graphs of a capture that
failed half way are dropped where those of a finished one would be.

## 3. The runs

| Run | Instance | What it shows |
|---|---|---|
| `jobs` | 1 worker, 2 batches of 2 slots, 3 templates over 2 tips, quota 3 (1.1 M states) | types; a batch always has a job; hits carry the job of their iteration; at most one batch for a replaced tip; at exit 0 the counter is exact and only a panicked worker is short; no search repeated when a tip comes back |
| `two` | 2 workers, 2 batches each, 1 template (197 k) | hits are conserved in order, sent once; the exit is drained; counters against the node; no search of one worker repeated by the other; the threads implement `MinerService` |
| `live` | 2 workers, 1 batch each, 2 templates, fair threads (120 k) | hits are settled; the process terminates |
| `gpu` | 2 jobs, both paths, 2 slots, 3 batches, 3 job loads (57 k) | hits are provable, exactly the hits found are sent, but for those of the batch in which a worker fails; the host never touches memory the stream still works on, every hit is sent |
| `merkle` | 1 to 9 chunks, rows shorter, equal and longer than a chunk, every set of rows (14 k) | device root, host tree, proof and its coverage of the rows, sibling ranges, against BLAKE3's tree |
| `target` | bytes of 4 values, 4 bytes, every mantissa, 7 exponents, 4 factors (22 k) | exact product or error, miner and verifier agree, a hit meets the bound unless the sign bit is set |
| `hits` | both paths, 2 x 3 tiles of the code's own size, in each iteration no hit, any single one, or any set of five at the corners (142 k) | the least hit is reported, never torn, never left over; the cells it names are those that were hashed; the verifier finds the job's pattern |
| `noise` | 2 rows of A and of B, 4 (C++) or 2 (Triton) steps of 4 columns, 2 jobs, 2 iterations, 6 hash functions (35 k) | the noise factors are drawn whole; operands and hashes are the verifier's |
| `resources` | 2 workers, one set up before the other, one of them with failures at any call, both paths, 2 slots, 2 batches (765 k) | drop order, memory under running work, captures, leaks, PTX |
| `gpu_copies`, `merkle_scratch`, `target_overflow` | small | the divergences of section 5 |

Why the bounds suffice. Two tips make every answer of the comparison occur and
allow a tip to come back, as the third template does; three templates allow a change while one is fetched
and another is loaded. A second batch is the first one that can reuse what the
first left. Two workers make the channel interleave and the two ends race. Two
slots and three batches make a slot be reused with a job change before, between
and after; the third load goes back to the first job over the second's buffers.
No load takes the early return of `ensure_for_job` (`IsCached`): the worker loads
only for another tip, and the tip is part of the header. Nine chunks reach odd nodes at every level and an orphan that
is carried through three of them. Four bytes of two bits give mantissas that
fall out at both ends and products that need the extra byte and exceed it; the
code's constants enter only as widths.

In `hits` the tiles have their real size, because the index arithmetic and the
patterns are what is checked; two rows of three tiles distinguish row-major from
column-major numbering, and the five candidates of the sets lie at the ends of
tiles, of warps and of the grid. In `noise` each C++ transcript word is written twice (so that rotation
matters) and each Triton word once, which is what K/R = JACKPOT_SIZE means; the
six hash functions vary the columns of the sparse rows and the bytes, and two
iterations make stale noise visible. In `resources` one worker
without failures is enough to be disturbed, one with failures to disturb; two
slots separate the first graph from the rest.

`MaxTemplates`, `IterBound`, `MaxLoads`, `MaxIters` of `NoisePipeline`,
`MaxBatches` and `Failing` are bounds on otherwise endless
behaviour. `MaxIters` of `LiveMiner` is the code's own MAX_ITERS. Prev is a symmetric set where
no liveness is checked. `GpuWorker`, `NoisePipeline` and
`WorkerResources` are run without the deadlock test because a worker stops when
it has failed, has ended or has reached its bound; `HitReport` never ends; in the
other models
the ended state stutters explicitly and deadlock is tested.

### Fairness

`LiveMiner!FairSpec`: weak fairness of each worker's `WorkerStep`, of main, and
of the hit poller. Threads are scheduled by the operating system, a batch is a
finite set of kernels, a proof is a finite computation and an RPC has a 10 s
timeout. None is assumed of the node or the template poller (the node may never
answer), and none of failures or panics, which may happen and never must.
`Termination` therefore starts from a published template. `GpuWorker!FairSpec`: weak fairness of the host loop,
the stream and the copies. The other models state safety only: their steps are
those of one batch or one launch, whose progress `GpuWorker` has.

## 4. The proofs

All are for every value of the constants that satisfies the modules' named
assumptions: `LiveMinerAssumption` (workers finite and not empty, each with a
device, ring size and bounds natural numbers), `NoHitAssumption`,
`HitReportAssumption` (at least one tile; every index at most the sentinel),
`GpuWorkerAssumption` (at least one slot), `MerkleCommitmentAssumption` (chunks,
matrices and rows are not empty), `ShareTargetAssumption` (a byte has two values
or more, an integer four bytes or more), `NoisePipelineAssumption` and
`XorAssumption` (R divides the depth and holds whole digests, the C++ tiles divide
the matrices, K/R = JACKPOT_SIZE on the Triton path; the xor as above) and
`WorkerResourcesAssumption`.

Three kinds of argument recur. Induction over the numbers is done with sets: the
least number outside of a set would have a predecessor in it (`LeastNat`,
`InductionOn`). A function defined by recursion is what its definition says only
if some function satisfies the definition, so each comes with a lemma that builds
one (`PowerUpTo`, `SumUpTo`, `TidyUpTo`, `Pow2UpTo`, `SubtreeUpTo`, `ListExists`,
`SumsUpTo`, `WordsUpTo`, `MessagesUpTo`, `StridesDef`). Quotients are handled by what characterises them (`DivIs`).

`LiveMiner_proofs`. `TypeOK` is not inductive: it says that the job of a worker
is a template already published, so that its tip exists, and that hits name real
templates. `TypeInv` adds what that rests on: the poller never publishes an
older template than the published one (`NeverOlder`), a worker past its check
holds a template (`HasTemplate`), the job of the hits is the job on the device
(`JobIsLoaded`), and a worker that mines has a job (`JobWhenMining`). One lemma
per thread, and one per worker action that changes more than its program
counter. It yields `TypeSafety` and `NeverMinesWithoutJob`.

The life of a hit. `HitsCarryTheirJob` follows from `JobIsLoaded` at the
batch; every other step keeps the evidence of a hit (`SameEvidence`).
`HitsAreConserved` is the conservation law of the channel, which is inductive
with `TypeInv`: a send appends on both sides, a receive moves the head into the
hand, a settlement moves the hand to the end. `NeverSearchesTwice` needs
`SearchedBelow`, what was searched on a device, for whatever template, lies below
its worker's counter, and the hypothesis `DistinctDevices`: the code accepts a device list
(PEARL_DEVICES) that names a device twice, and then two workers do the same work.

The end of the process. `StopsInOrder` says who has waited for whom: main drains
after all workers ended, the poller leaves its loop when nothing is queued and
nobody can send, main exits after the poller. With the conservation law it gives
`ExitsOnlyDrained`. `ExitZeroMeansQuota` rests on `QuotaInv`: the counter falls
behind the iterations launched by one ring for each worker between its batch and
its account, and a worker is short of MAX_ITERS until its last batch and after a
panic (`ShortOfQuota`: the test comes after every batch). It has the hypothesis `DistinctDevices` because it counts the iterations by device:
with a device named twice the counter would be right and the candidates fewer.
`StaleWorkIsBounded` rests on `StaleInv`: `current_prev` is the tip of the job
in use, and a worker that has already begun a batch for a replaced tip has
looked at the cell again before the next one.

The promise. `OnceInv` relates the unsent hits of a worker to its
counter and to what was sent, and gives `HitsAreSentOnce`; `CountersAreHonest` is
inductive with the types. `ThreadsKeepThePromise` is the refinement: under the
mapping of `LiveMiner!Service` (`mined`, the blocks of `sent` and `settled`, a
dead poller, an ended process) a batch is a `Search`, a send a `Report`, every
end of an iteration of the hit poller a `SettleNext`, its panic a `Break`, the
exit of main a `Stop`, and every other step a stutter. The invariant it needs,
`MapInv`, is all of the above: `HitsBoundToJob` for "reported was searched",
`OnceInv` for "once", `NoHitLost` for "in order", `StopsInOrder` for the end.

`HitReport_proofs`. The invariant, for any number of tiles and any outcomes: the
flags lie below the number of candidates (`Bounded`); before a C++ search they
are clear and before a Triton search every one will be written (`AllWritten`), so
that during the scan they are this iteration's (`FlagsOfIteration`); the word is
the sentinel or a flag's index and at most every index that is no longer pending
(`Scanning`); a header field that is not on its way holds what the emit kernel
wrote (`Emitting`), and the status is set only behind the fence (`StatusLast`).
`IndexBound` and `EveryThreadScans` carry the arithmetic: each candidate's index
is below the total, and the whole blocks of the launch cover it. With nothing
pending this gives `ScanFindsLeast`, and at the status `HeaderNeverTorn`.

`ReportsTheWinner` and `VerifierTakesReport` add `Reported`: a report is the one a
header of the least candidate gives. `IndexInverse` takes an index apart into
tile and thread, `CppRowsSpread` and its companions show that what the emit
kernel writes for a thread is, offset by the tile, the pattern of its path
(`Spread`), and `CellsSpread` that the search accumulates the same cells;
`SortedUnique` keeps the set (`SortedUniqueIs`), which is all `from_list` and
`offset_is_valid` look at (`ShapesAre`, `ShiftAccepted`, `JobOffsets`).

`GpuWorker_proofs`, for any ring size, any jobs and both launch orders.
`HostNeverRacesDevice` needs `Shape`: while a batch is launched the stream is a
tail of the graphs launched so far, in the scan it holds only snapshots of slots
with a hit, and otherwise it is empty or a tail of the job's operations. What the
host touches therefore has no operation left. `HitsAreProvable`,
`NoHitIsLostOrStale` and `KeyIsHashedKey` add `DataInv`: the operation at the head
of the stream tells what every buffer holds (`Staged`), iterations before it have
left their header and A in their slots (`BatchDone`), and the scan has copied out
the hits of the slots it has seen (`Scanned`). A worker that fails keeps what it had sent and found, and its stream
is gone (`FailureLosesOneBatch`). Those three have the hypothesis
`OrderedCopies = TRUE`, that a copy of a new job lands before what is enqueued
after it; the run `gpu_copies` shows that nothing in the code orders them, and
that without it the third is false.

`MerkleCommitment_proofs`, for any number of chunks. `DeviceInv`: the buffer the
next launch reads holds, for some level, the BLAKE3 values of that level's nodes,
and each thread that has run has written the node above (`PairNode`, `OrphanNode`:
an orphan is carried up unchanged because the left part of a subtree is the
largest power of two below it). Threads write the other buffer, so their order
does not matter. `TreeInv` says the same of the host's layers. `WalkInv` is about
the three loops over a proof: what they hold at a level is the image of the leaves
(`Up`), and the siblings used so far are those of the levels below (`Trail`), so
prover, verifier and range builder consume the same list at the same places.
With the leaf set that covers the rows (`LeavesOfRowHold`) this gives
`ProofsAreAccepted`, and with `Covers` `RangesTile`.

`ShareTarget_proofs`, for bytes of any size, integers of any length and every
exponent, mantissa and factor. In the loops the value of `out` and the carry is
behind the product of the bytes done by a multiple of what 33 bytes can hold
(`Behind`), because the only carry ever dropped is one past the last byte; bytes
still to be multiplied are normalised (`Progress`), so that an entry takes two
summands at most. From this `LoopsKeepTheProduct`; the tidy pass keeps the value
(`TidyKeeps`), which gives `MultiplicationIsExact`. `TargetsAgree` computes both
readings of bits (`TargetIs`, `DifficultyIs`). `HitsAreAcceptedUnlessNegative`
needs, where it accepts (`PositiveAccepted`), only that
the result is never above the product, that an exponent past the top gives the
target 0, and that the order of the compare is the order of the values
(`ValueOrder`); where it does not, the verifier's bound is 0 and the target
itself is a hit above it (`NegativeAccepted`).

`NoisePipeline_proofs`, for matrices of any size, any rank, launch geometry and
candidates, and any order of the threads. The theorems have the hypothesis
`DigestIsBytes`, that a digest is an array of bytes, which is its type in the code
and says something of every key and message, so that TLC cannot evaluate it as an
assumption. The invariant `Inv` says where the device is (`StreamInv`: the stream
is a tail of the kernels of a job load or of an iteration, `Here` the place of the
running one) and, for every kernel, what each chunk, thread or block of it that
has finished left in its buffer (`Finished`; `DenseDone`, `SparseDone`,
`TransposeDone`, `NoisingDone`, `SearchDone`, `CompareDone` and so on), given
that the kernels before it are through. A step of one kernel adds what its thread
writes (`Adds`) and keeps the buffers of every other (`Writes`, `OthersKept`), so
one lemma per kernel does it. `WorkCovers` shows that the launch covers every
cell, `CellOf` that no two threads share one, and `PlacesDiffer` that nothing after
a kernel writes over its result in the same iteration; the next iteration begins
with nothing finished, which is why stale buffers do no harm.

From it: `FactorsAre` gives each row of a sparse factor its two columns, which
`XorAssumption` and `ColumnsAre` keep apart and below R, hence
`FactorsAreDrawn`. `SeedsAre` and `UniformIs` identify the bytes drawn on the
device and by the verifier, `StripIs` and `NoisedIs` the sum of products with
the difference of two entries: the cell lies within -126..126, so wrapping to int8
changes nothing, hence `OperandsAreVerified`. `TilesAre` carries this to the
accumulators and `TranscriptIs`, by induction over the tiles, to the words of
the transcript; the Triton search, which does not rotate, agrees because
K/R = JACKPOT_SIZE makes every word that is rotated still zero. Hence
`JackpotsAreVerified`.

`WorkerResources_proofs`. `NobodyDisturbed` rests on `CaptureInv`: a worker
captures only while it records or ends, or until it drops the stream of a
capture that failed, and none of its own calls in between may serialise
(`NeverRefused`). `NewestPtxLoaded` rests on `PtxInv`, a worker that holds a
Triton module could load it, and on the thresholds of `PickPtx`. The others rest
on `HoldingInv`: a worker that is set up to step `n` holds exactly what the
steps before it made (`Kinded`, `Working`), and one that leaves holds what it
will still drop and what no value owns (`Leaving`). `SetupCalls` walks the list
of acquisitions, and the two orders of dropping each put the context after
everything made in it (`ContextGoesLast`). Graphs and stream go first, do not
wait and are not memory; the first buffer to go waits for the device, so nothing
runs that uses the ones after it (`WorkKeepsItsBuffers`). `EndedHasReleasedAll`
names what stays.

Only model-checked:

- Liveness (`HitsAreSettled`, `Termination`, `HitsFoundAreSent`): out of the
  prover's reach.
- Reachability: that the cases the invariants speak of do occur is shown by the
  runs, each of which has a mutant of the code for every property it checks.

## 5. Where the code and its words differ

Three runs check a statement made by a comment and find it violated.
`PROJECT.json` quotes both sides.

- `gpu_copies`: nothing orders the pageable copies of key, target and seed (null
  stream) before the kernels on the worker's non-blocking stream; the run has
  the copies land late. In `gpu`, `OrderedCopies` makes them land in time, as
  they do when the driver has finished the transfer before the call returns.
- `merkle_scratch`: the scratch is sized for B, "largest input"; with
  `shape_49k_m` A is larger and the hash of A panics.
- `target_overflow`: `mul_u256_u128` "errors on overflow", but drops a carry
  beyond its 33rd byte. `HitsMeetBoundUnlessNegative` shows that the
  target that comes out is not the easier one because of it.

Checked by a run, but contradicted by no comment:

- Bits with the sign bit (0x00800000): the verifier reads them as 0
  (`proof_utils.rs:35`), `bits_to_target` (`block.rs:139`) has no such case and
  keeps the mantissa, so that the miner is the more lenient one and its hits are
  refused. `HitsMeetBoundUnlessNegative` says that this happens for exactly the
  bits with the sign bit that leave a positive target, and for no others.

Seen while modelling, and checked by no run:

- `client.rs:3` tells callers to back off and retry; the hit poller counts a
  failed submission as rejected and takes the next hit.
- main prints "draining hit poller (max 60s)" and joins without limit.
- The tree of a single chunk has a root with the ROOT flag, its proof recomputes
  one without (`merkle.rs:240`). The shapes of the miner have many chunks.
- "All GPU handles are released before the CUDA context that owns them"
  (`live_miner.rs:487`): not the graph whose instantiation failed, nor pinned
  memory whose mapping failed; the context takes the latter. `AllReleased` says
  exactly what remains.
- `driver.rs:15` speaks of the primary context, "created once at process start";
  each worker creates a context of its own. The comment of `PinnedHostBuf`
  speaks of write-combined memory, which the flags do not ask for.
- "the highest available arch <= the device" (`triton.rs:70`): below 8.6 the
  sm_86 file is taken, which the driver refuses; the worker then ends with an
  error.

## 6. What is not modelled

- Inside a block: the `cp.async` stages and the shared memory of the search, the
  MMA fragments, warp scheduling. A block, or a thread where threads only meet in
  global memory, is one step.
- Triton's PTX (compiled, not source), but for its store of a transcript word:
  which cells a candidate covers is taken from the postpass and the job's pattern.
- The zk circuit, its trace and cache, plonky2.
- Byte layout of blocks, JSON, environment parsing, logging, the benchmark and
  parity binaries. A malformed answer of the node (neither result nor error).
- Memory: the channel is unbounded in the code and bounded by the iterations in
  the models; a failed allocation is `WorkerFails` in `LiveMiner` and `CallFails`
  in `WorkerResources`.
- Two workers on one device, except as the missing hypothesis of
  `NeverSearchesTwice`.
- A template of the same tip with other transactions: the code does not publish
  it, and `StaleWorkBounded` counts by tip.

## 7. Plan

Done: `LiveMiner`, `MinerService`, `GpuWorker`, `MerkleCommitment`,
`ShareTarget`, `MiningPattern`, `HitReport`, `NoisePipeline`, `WorkerResources`,
and the proofs above. Next, in this order:

1. An abstract `BatchSearch` (a batch yields the hits of one job and iteration
   range) that `GpuWorker` implements, which is what `LiveMiner!RunBatch` assumes.
2. `BlockWire`: the height in the coinbase script, compact sizes at their
   boundaries, the merkle root of the transactions with its duplicated odd nodes,
   and the block a node decodes from what `block.rs` encodes.
3. The pipelined search inside a block: three `cp.async` stages over shared
   memory, no stage overwritten while a warp reads it.
