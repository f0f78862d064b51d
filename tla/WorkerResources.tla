-------------------------- MODULE WorkerResources --------------------------
(***************************************************************************)
(* What a worker thread holds of the CUDA driver, from the creation of its *)
(* context to the end of the thread: the acquisitions of worker() and      *)
(* MinerBufs::new one by one, the capture of the graphs, batches, and the  *)
(* drops by which Rust releases everything in an order the code never      *)
(* writes down.  Any call of the driver may fail, and `?` then drops what  *)
(* is held.  Contents of buffers are not modelled, see GpuWorker.  Buffers *)
(* of one role that are made and dropped side by side count as one:        *)
(* "noise_bufs" for a_scales to a_e_bl, "pow_workspace" for the three.     *)
(***************************************************************************)
EXTENDS Integers, Sequences, SequencesExt

CONSTANTS
  Workers,      \* worker threads, each on a device of its own
  Early,        \* those that have set up when the others start
  Failing,      \* bound: the workers whose driver calls may fail
  Paths,        \* the MiningPaths
  Capability,   \* the compute capabilities (10 * major + minor) a device may have
  RingSize,     \* slots, and graphs
  MaxBatches    \* bound: batches of a worker

ASSUME WorkerResourcesAssumption ==
  /\ Failing \subseteq Workers /\ Early \subseteq Workers
  /\ Paths \subseteq {"CppSearch", "TritonNorotl"}
  /\ RingSize \in Nat \ {0} /\ MaxBatches \in Nat \ {0}
  /\ \A w \in Workers : Capability[w] \subseteq Nat

VARIABLES
  path,       \* MinerBufsConfig.path
  cc,         \* compute capability of each worker's device
  pc,         \* what the worker does next
  at,         \* the next acquisition
  slot,       \* the slot captured or replayed
  batches,    \* batches begun
  live,       \* objects that exist in the driver
  unowned,    \* those of them that no Rust value owns
  dropping,   \* what is still to be dropped once the worker has returned
  busy,       \* the device may be running work of this worker
  capturing,  \* the worker's stream is capturing
  cause       \* why the worker returned

vars == <<path, cc, pc, at, slot, batches, live, unowned, dropping, busy, capturing, cause>>
-----------------------------------------------------------------------------
(* An acquisition, and the object it makes: <<kind, field, index>>.        *)
One(kind, fields) == [i \in DOMAIN fields |-> <<kind, fields[i], 0>>]
Ring(field) == [i \in 1..RingSize |-> <<"dev", field, i>>]

(* PinnedHostBuf::alloc makes two calls, the second maps what the first    *)
(* has allocated.                                                          *)
Pinned(field) == << <<"host", field, 0>>, <<"map", field, 0>> >>
PinnedRing(field) ==
  [i \in 1..(2 * RingSize) |-> <<IF i % 2 = 1 THEN "host" ELSE "map", field, (i + 1) \div 2>>]

SharedBufs == <<"noise_bufs", "pow_workspace">>
SeedLabels == <<"seed_label_a", "seed_label_b">>
Kernels == <<"commitment_hash", "noise_gen", "noisy_gemm", "search", "pow_scan_emit">>

(* MinerBufs::new.  "find" is a lookup of a kernel, with the attribute     *)
(* some of them set; "copy" fills a seed label.                            *)
NewBufs ==
  Ring("a_pool") \o Ring("a_tensor_hash_pool") \o Ring("commit_a_pool")
    \o Ring("commit_b_pool") \o PinnedRing("host_signal_header_pool")
    \o PinnedRing("a_snapshot_pool") \o PinnedRing("commit_a_snapshot_pool")
    \o PinnedRing("commit_b_snapshot_pool")
    \o One("dev", <<"b", "b_tensor_hash", "key_tensor", "pow_target_tensor">>)
    \o Pinned("b_pinned") \o One("dev", <<"seed_tensor">>)
    \o One("dev", SharedBufs) \o One("dev", SeedLabels) \o One("copy", SeedLabels)
    \o One("find", <<"random_int8">>)
    \o << <<"dev", "scratch", 0>>, <<"find", "tensor_hash", 0>> >>
    \o One("find", Kernels)
NewTriton ==
  IF path = "CppSearch" THEN <<>>
  ELSE << <<"query", "cc", 0>>, <<"module", "_noising_mod", 0>>,
          <<"module", "_search_mod", 0>>, <<"find", "noising", 0>>, <<"find", "search", 0>>,
          <<"find", "postpass", 0>>, <<"dev", "transcripts", 0>> >>
NewCtx == << <<"query", "cuInit", 0>>, <<"query", "cuDeviceGet", 0>>, <<"ctx", "ctx", 0>>,
             <<"query", "device_name", 0>>, <<"module", "module", 0>> >>
Setup == NewCtx \o NewBufs \o NewTriton \o << <<"stream", "stream", 0>> >>

Object == {"ctx", "module", "dev", "host", "stream"}
Made(ops) == {op \in Range(ops) : op[1] \in Object}
Graphs == {<<"graph", "graphs", i>> : i \in 1..RingSize}
Execs == {<<"exec", "graphs", i>> : i \in 1..RingSize}
BufsMade == Made(NewBufs \o NewTriton)
-----------------------------------------------------------------------------
(* The order in which Rust drops.  A failure inside MinerBufs::new drops   *)
(* the locals made so far, last made first (a Vec from its first element   *)
(* on); once there is a MinerBufs, its fields go in the order in which the *)
(* struct declares them, which is not the one of new.  Of a CapturedGraph, *)
(* the exec goes first.                                                    *)
ReleasedNoGraph ==            \* mutant: CapturedGraph destroys the exec only
  {"exec", "ctx", "module", "dev", "host", "stream"}
Released == {"exec", "graph", "ctx", "module", "dev", "host", "stream"}
LocalFields ==
  <<"ctx", "module", "a_pool", "a_tensor_hash_pool", "commit_a_pool", "commit_b_pool",
    "host_signal_header_pool", "a_snapshot_pool", "commit_a_snapshot_pool",
    "commit_b_snapshot_pool", "b", "b_tensor_hash", "key_tensor", "pow_target_tensor",
    "b_pinned", "seed_tensor", "noise_bufs", "pow_workspace", "seed_label_a", "seed_label_b",
    "scratch", "_noising_mod", "_search_mod", "transcripts">>
StructFields ==
  <<"a_pool", "a_tensor_hash_pool", "commit_a_pool", "commit_b_pool",
    "host_signal_header_pool", "a_snapshot_pool", "commit_a_snapshot_pool",
    "commit_b_snapshot_pool", "b", "b_tensor_hash", "key_tensor", "pow_target_tensor",
    "b_pinned", "seed_tensor", "seed_label_a", "seed_label_b", "noise_bufs", "pow_workspace",
    "scratch", "transcripts", "_noising_mod", "_search_mod">>
WorkerFieldsModuleFirst ==    \* mutant: the module before what runs its kernels
  <<"graphs", "stream", "module">> \o StructFields \o <<"ctx">>
WorkerFieldsCtxFirst ==       \* mutant: the context before the module
  <<"graphs", "stream">> \o StructFields \o <<"ctx", "module">>
WorkerFields == <<"graphs", "stream">> \o StructFields \o <<"module", "ctx">>

PlaceIn(fields) == [f \in Range(fields) |-> CHOOSE i \in DOMAIN fields : fields[i] = f]
WorkerPlace == PlaceIn(WorkerFields)
LocalPlace == PlaceIn(Reverse(LocalFields))
HasBufs(w) == at[w] >= Len(Setup)
DropPlace(w) == IF HasBufs(w) THEN WorkerPlace ELSE LocalPlace
GoesBefore(place, o, p) ==
  \/ place[o[2]] < place[p[2]]
  \/ o[2] = p[2] /\ (o[3] < p[3] \/ (o[3] = p[3] /\ o[1] = "exec"))
ToDrop(w, owned) == {o \in owned : o[1] \in Released /\ o[2] \in DOMAIN DropPlace(w)}
-----------------------------------------------------------------------------
(* Capture.  The driver refuses a call that could serialise with the       *)
(* capture of a stream: in the mode begin() asks for, to the thread that   *)
(* captures only; in the global mode, to every thread.                     *)
RefusedGlobally(w) == \E v \in Workers : capturing[v]   \* mutant: the global mode
Refused(w) == capturing[w]
Serialising == {"dev", "host", "module", "copy"}

(* pick_ptx: the PTX files there are, and the one it takes.                *)
Archs == {86, 89, 120}
PickPtxMiddleFirst(c) ==      \* mutant: the thresholds in the wrong order
  IF c >= 89 THEN 89 ELSE IF c >= 120 THEN 120 ELSE 86
PickPtx(c) == IF c >= 120 THEN 120 ELSE IF c >= 89 THEN 89 ELSE 86
IsTritonModule(op) == op[1] = "module" /\ op[2] # "module"
(* The driver does not load PTX for an architecture newer than its device. *)
Loadable(w, op) == IsTritonModule(op) => PickPtx(cc[w]) <= cc[w]

Goto(w, l) == pc' = [pc EXCEPT ![w] = l]
Make(w, o) == live' = [live EXCEPT ![w] = @ \cup {o}]
Ends(w) == dropping' = [dropping EXCEPT ![w] = ToDrop(w, live[w] \ unowned[w])]
-----------------------------------------------------------------------------
Init ==
  /\ path \in Paths
  /\ cc \in [Workers -> UNION {Capability[w] : w \in Workers}]
  /\ \A w \in Workers : cc[w] \in Capability[w]
  /\ \A w \in Early, op \in Range(Setup) : Loadable(w, op)
  /\ pc = [w \in Workers |-> IF w \in Early THEN "idle" ELSE "setup"]
  /\ at = [w \in Workers |-> IF w \in Early THEN Len(Setup) + 1 ELSE 1]
  /\ live = [w \in Workers |-> IF w \in Early THEN Made(Setup) ELSE {}]
  /\ slot = [w \in Workers |-> 1] /\ batches = [w \in Workers |-> 0]
  /\ unowned = [w \in Workers |-> {}]
  /\ dropping = [w \in Workers |-> {}]
  /\ busy = [w \in Workers |-> FALSE] /\ capturing = busy
  /\ cause = [w \in Workers |-> "none"]

Acquire(w) ==
  LET op == Setup[at[w]]
  IN  /\ pc[w] = "setup" /\ at[w] <= Len(Setup)
      /\ ~(op[1] \in Serialising /\ Refused(w)) /\ Loadable(w, op)
      /\ IF op[1] \in Object THEN Make(w, op) ELSE UNCHANGED live
      /\ at' = [at EXCEPT ![w] = @ + 1]
      /\ Goto(w, IF at[w] = Len(Setup) THEN "idle" ELSE "setup")
      /\ UNCHANGED <<path, cc, slot, batches, unowned, dropping, busy, capturing, cause>>

(* A template of a new tip: ensure_for_job copies with the synchronous     *)
(* copy, then enqueues; synchronize; the first time, the graphs.           *)
LoadJob(w) ==
  /\ pc[w] = "idle"
  /\ ~Refused(w)
  /\ busy' = [busy EXCEPT ![w] = TRUE]
  /\ Goto(w, "loaded")
  /\ UNCHANGED <<path, cc, at, slot, batches, live, unowned, dropping, capturing, cause>>
JobLoaded(w) ==
  /\ pc[w] = "loaded"
  /\ busy' = [busy EXCEPT ![w] = FALSE]
  /\ slot' = [slot EXCEPT ![w] = 1]
  /\ Goto(w, IF Execs \cap live[w] = {} THEN "begin" ELSE "replay")
  /\ UNCHANGED <<path, cc, at, batches, live, unowned, dropping, capturing, cause>>

(* capture_all_slots, one slot: begin, the kernels, end and instantiate,   *)
(* and the search for the one random_int8 node.                            *)
BeginCapture(w) ==
  /\ pc[w] = "begin"
  /\ capturing' = [capturing EXCEPT ![w] = TRUE]
  /\ Goto(w, "record")
  /\ UNCHANGED <<path, cc, at, slot, batches, live, unowned, dropping, busy, cause>>
RecordKernels(w) ==
  /\ pc[w] = "record"
  /\ Goto(w, "end")
  /\ UNCHANGED <<path, cc, at, slot, batches, live, unowned, dropping, busy, capturing, cause>>
EndCapture(w) ==
  /\ pc[w] = "end"
  /\ capturing' = [capturing EXCEPT ![w] = FALSE]
  /\ Make(w, <<"graph", "graphs", slot[w]>>)
  /\ Goto(w, "instantiate")
  /\ UNCHANGED <<path, cc, at, slot, batches, unowned, dropping, busy, cause>>
Instantiate(w) ==
  /\ pc[w] = "instantiate"
  /\ Make(w, <<"exec", "graphs", slot[w]>>)
  /\ Goto(w, "find")
  /\ UNCHANGED <<path, cc, at, slot, batches, unowned, dropping, busy, capturing, cause>>
FindRandomNode(w) ==
  /\ pc[w] = "find"
  /\ slot' = [slot EXCEPT ![w] = IF @ = RingSize THEN 1 ELSE @ + 1]
  /\ Goto(w, IF slot[w] = RingSize THEN "replay" ELSE "begin")
  /\ UNCHANGED <<path, cc, at, batches, live, unowned, dropping, busy, capturing, cause>>

(* A batch: a replay for each slot, synchronize; with a hit, the snapshot  *)
(* of A and another synchronize.                                           *)
Replay(w) ==
  /\ pc[w] = "replay"
  /\ busy' = [busy EXCEPT ![w] = TRUE]
  /\ slot' = [slot EXCEPT ![w] = IF @ = RingSize THEN 1 ELSE @ + 1]
  /\ Goto(w, IF slot[w] = RingSize THEN "sync" ELSE "replay")
  /\ UNCHANGED <<path, cc, at, batches, live, unowned, dropping, capturing, cause>>
Synchronize(w) ==
  /\ pc[w] \in {"sync", "resync"}
  /\ busy' = [busy EXCEPT ![w] = FALSE]
  /\ Goto(w, IF pc[w] = "sync" THEN "headers" ELSE "counted")
  /\ UNCHANGED <<path, cc, at, slot, batches, live, unowned, dropping, capturing, cause>>
NoHit(w) ==
  /\ pc[w] = "headers"
  /\ Goto(w, "counted")
  /\ UNCHANGED <<path, cc, at, slot, batches, live, unowned, dropping, busy, capturing, cause>>
Snapshot(w) ==
  /\ pc[w] = "headers"
  /\ busy' = [busy EXCEPT ![w] = TRUE]
  /\ Goto(w, "resync")
  /\ UNCHANGED <<path, cc, at, slot, batches, live, unowned, dropping, capturing, cause>>
NextBatch(w) ==
  /\ pc[w] = "counted" /\ batches[w] + 1 < MaxBatches
  /\ batches' = [batches EXCEPT ![w] = @ + 1]
  /\ pc' \in {[pc EXCEPT ![w] = l] : l \in {"idle", "replay"}}
  /\ UNCHANGED <<path, cc, at, slot, live, unowned, dropping, busy, capturing, cause>>
QuotaReached(w) ==
  /\ pc[w] = "counted"
  /\ cause' = [cause EXCEPT ![w] = "quota"]
  /\ Ends(w) /\ Goto(w, "drop")
  /\ UNCHANGED <<path, cc, at, slot, batches, live, unowned, busy, capturing>>
-----------------------------------------------------------------------------
(* A call that fails, and what it loses: cuMemHostGetDevicePointer the     *)
(* memory that is to be mapped, cuGraphInstantiate the graph; neither has  *)
(* an owner yet.                                                           *)
CallOf(w) == IF pc[w] = "setup" THEN Setup[at[w]] ELSE <<pc[w], "", slot[w]>>
LostMapping(w) ==             \* mutant: the mapping that failed instead of the memory
  IF CallOf(w)[1] = "map" THEN {CallOf(w)} ELSE {}
Lost(w) ==
  CASE CallOf(w)[1] = "map" -> {<<"host", CallOf(w)[2], CallOf(w)[3]>>}
    [] pc[w] = "instantiate" -> {<<"graph", "graphs", slot[w]>>}
    [] OTHER -> {}
Calling == {"setup", "idle", "loaded", "begin", "record", "end", "instantiate", "find",
            "replay", "sync", "resync", "headers"}
Refusable(w) == CallOf(w)[1] \in Serialising \cup {"idle"}
CallFails(w) ==
  /\ pc[w] \in Calling
  /\ \/ /\ w \in Failing \/ (pc[w] = "setup" /\ ~Loadable(w, CallOf(w)))
        /\ cause' = [cause EXCEPT ![w] = "driver"]
     \/ /\ Refusable(w) /\ Refused(w)
        /\ cause' = [cause EXCEPT ![w] = "refused"]
  /\ unowned' = [unowned EXCEPT ![w] = @ \cup Lost(w)]
  /\ dropping' = [dropping EXCEPT ![w] = ToDrop(w, live[w] \ unowned'[w])]
  /\ capturing' = [capturing EXCEPT ![w] = @ /\ pc[w] # "end"]
  /\ Goto(w, "drop")
  /\ UNCHANGED <<path, cc, at, slot, batches, live, busy>>

(* A drop ignores errors: what the driver refuses to free stays.  Freeing  *)
(* device memory waits for the device; destroying a stream or a graph does *)
(* not.  A stream destroyed in a capture ends the capture, and a context   *)
(* takes with it all that was made in it, which a CUgraph is not.          *)
GoesWith(w, o) == IF o[1] = "ctx" THEN live[w] \ Graphs ELSE {o}
Drop(w) ==
  LET place == DropPlace(w)
  IN  \E o \in dropping[w] :
        LET refused == o[1] \in Serialising /\ Refused(w)
        IN  /\ pc[w] = "drop"
            /\ \A p \in dropping[w] : p = o \/ GoesBefore(place, o, p)
            /\ dropping' = [dropping EXCEPT ![w] = @ \ {o}]
            /\ live' = IF refused THEN live ELSE [live EXCEPT ![w] = @ \ GoesWith(w, o)]
            /\ unowned' = [unowned EXCEPT ![w] = @ \cap live'[w]]
            /\ busy' = [busy EXCEPT ![w] = @ /\ (refused \/ o[1] \notin {"dev", "ctx"})]
            /\ capturing' = [capturing EXCEPT ![w] = @ /\ o[1] # "stream"]
            /\ UNCHANGED <<path, cc, pc, at, slot, batches, cause>>
Ended(w) == pc[w] = "drop" /\ dropping[w] = {}

Next == \E w \in Workers :
  \/ Acquire(w) \/ LoadJob(w) \/ JobLoaded(w) \/ BeginCapture(w) \/ RecordKernels(w)
  \/ EndCapture(w) \/ Instantiate(w) \/ FindRandomNode(w) \/ Replay(w) \/ Synchronize(w)
  \/ NoHit(w) \/ Snapshot(w) \/ NextBatch(w) \/ QuotaReached(w) \/ CallFails(w) \/ Drop(w)

Spec == Init /\ [][Next]_vars
-----------------------------------------------------------------------------
(* The types; what no Rust value owns exists, and a worker drops what it    *)
(* holds for a reason.                                                      *)
TypeOK ==
  \A w \in Workers :
    /\ pc[w] \in Calling \cup {"counted", "drop"}
    /\ at[w] \in 1..(Len(Setup) + 1) /\ slot[w] \in 1..RingSize /\ batches[w] \in 0..MaxBatches
    /\ live[w] \subseteq Made(Setup) \cup Graphs \cup Execs
    /\ unowned[w] \subseteq live[w]
    /\ dropping[w] \subseteq Made(Setup) \cup Graphs \cup Execs
    /\ busy[w] \in BOOLEAN /\ capturing[w] \in BOOLEAN
    /\ cause[w] \in {"none", "quota", "driver", "refused"}
    /\ pc[w] = "drop" <=> cause[w] # "none"

(* Whatever is dropped still exists when its turn comes, so its context    *)
(* has not gone first; and the buffers and modules that the nodes of a     *)
(* graph name exist as long as the graph can be launched.                  *)
ContextLast ==
  \A w \in Workers :
    /\ dropping[w] \subseteq live[w]
    /\ Execs \cap live[w] # {} => BufsMade \subseteq live[w]

(* What the device may still be running keeps every buffer and module it   *)
(* uses, although no error path waits for the device.                      *)
RunningWorkKeepsItsBuffers ==
  \A w \in Workers : busy[w] => Made(Setup) \ {<<"stream", "stream", 0>>} \subseteq live[w]

(* No call of a worker is refused because of a capture, its own or another *)
(* worker's: a worker returns for its quota or for a failure.              *)
CaptureDisturbsNobody ==
  \A w \in Workers : cause[w] # "refused"

(* A worker that has ended has released all it made, but for the graph     *)
(* that `end` loses when it cannot be instantiated.                        *)
AllReleased ==
  \A w \in Workers : Ended(w) =>
    /\ ~capturing[w] /\ ~busy[w]
    /\ live[w] \subseteq {<<"graph", "graphs", slot[w]>>}
    /\ live[w] # {} => cause[w] = "driver"

(* A device runs the newest PTX it can.                                    *)
NewestPtx ==
  \A w \in Workers : (\E o \in live[w] : IsTritonModule(o)) =>
    /\ PickPtx(cc[w]) \in Archs /\ PickPtx(cc[w]) <= cc[w]
    /\ \A a \in Archs : a <= cc[w] => a <= PickPtx(cc[w])
=============================================================================
