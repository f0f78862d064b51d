----------------------------- MODULE LiveMiner -----------------------------
(***************************************************************************)
(* The process pearl-miner-live (src/bin/live_miner.rs): a template        *)
(* poller, one worker thread per entry of the device list, one hit poller  *)
(* and the main thread that joins them.  They share the template cell      *)
(* (Mutex<Option<Arc<BlockTemplateResponse>>>), the unbounded hit channel  *)
(* (std::sync::mpsc) and the aggregate iteration counter.                  *)
(*                                                                         *)
(* The node, pearld, is external.  Its templates are numbered in the order *)
(* in which it offers them: template t extends the tip chain[t].  A job is *)
(* named by the template it was built from, a candidate (one search        *)
(* iteration) by the device, the job and the iteration number, because the *)
(* matrix A is a function of the seed (header, salt, device ordinal) and   *)
(* of the iteration.                                                       *)
(***************************************************************************)
EXTENDS Naturals, Sequences, FiniteSets

CONSTANTS
  Worker,       \* worker threads, one per entry of the device list
  Device,       \* CUDA device ordinals
  DeviceOf,     \* the device list: the device each worker opens
  Prev,         \* block hashes the node may have as its tip
  NoPrev,       \* no previous block hash remembered yet
  NoHit,        \* the hit poller holds no hit
  RingSize,     \* iterations per batch (MinerBufs.ring_size)
  MaxIters,     \* MAX_ITERS, 0 when unbounded
  MaxTemplates, \* bound: templates the node ever offers
  IterBound     \* bound: iterations one worker ever launches

ASSUME LiveMinerAssumption ==
  /\ IsFiniteSet(Worker) /\ Worker # {}
  /\ DeviceOf \in [Worker -> Device]
  /\ NoPrev \notin Prev
  /\ RingSize \in Nat \ {0}
  /\ MaxIters \in Nat
  /\ MaxTemplates \in Nat \ {0}
  /\ IterBound \in Nat

Template   == 1..MaxTemplates
NoTemplate == 0
Candidate  == [dev : Device, tpl : Template, iter : Nat]

(* HitWork: the worker that found it, the job whose Arc it carries, and    *)
(* the job that was loaded on the device when the iteration ran.           *)
Hit == [w : Worker, tpl : Template, minedOn : Template, iter : Nat]
ASSUME NoHitAssumption == NoHit \notin Hit

Block(h) == [dev |-> DeviceOf[h.w], tpl |-> h.tpl, iter |-> h.iter]

VARIABLES
  chain,        \* external: the tip of every template offered so far
  fetched,      \* template poller: a response not yet compared and published
  lastPrev,     \* template poller: last_prev
  cell,         \* SharedTemplate.latest
  wpc,          \* worker: where its loop is, or how it ended
  curPrev,      \* worker: current_prev
  building,     \* worker: the template being turned into a job
  job,          \* worker: current_job
  loaded,       \* worker: the job whose key, target, seed and B are on the device
  iter,         \* worker: iter_idx
  hits,         \* worker: hits_this_batch not yet sent
  totalIters,   \* the shared AtomicU64
  chan,         \* the mpsc channel
  cur,          \* hit poller: the hit being proved or submitted
  ppc,          \* hit poller: where its loop is
  accepted, rejected, \* hit poller: blocks_accepted, blocks_rejected
  mpc,          \* main thread
  firstErr,     \* main thread: first_err is Some
  nodeBlocks,   \* external: blocks the node has accepted
  mined,        \* history: candidates whose iteration was launched
  sent,         \* history: hits the channel took
  settled,      \* history: hits the hit poller is done with
  lag           \* history: since the cell last changed, batches begun for another tip

tplVars   == <<chain, fetched, lastPrev, cell>>
workVars  == <<wpc, curPrev, building, job, loaded, iter, hits, totalIters,
               mined, lag>>
proveVars == <<cur, ppc, accepted, rejected, nodeBlocks, settled>>
chanVars  == <<chan, sent>>
mainVars  == <<mpc, firstErr>>
vars == <<tplVars, workVars, proveVars, chanVars, mainVars>>
-----------------------------------------------------------------------------
Running == mpc # "exited"
Ended(w) == wpc[w] \in {"ok", "err", "panicked"}

(* Every worker owns a clone of hit_tx and drops it when it returns or     *)
(* unwinds; main drops its own clone after the last spawn.                 *)
SendersGoneMainKeeps == FALSE    \* mutant: main never drops its clone
SendersGone == (mpc # "spawning") /\ (\A w \in Worker : Ended(w))

(* The receiver is dropped when the hit poller's thread unwinds.           *)
ReceiverAlive == ppc # "dead"

(* for batch_iter in batch_start..iter_idx.                                *)
BatchIters(w) == iter[w] .. (iter[w] + RingSize - 1)
BatchOneSeed(w) ==                \* mutant: no device ordinal in the seed
  {[dev |-> CHOOSE d \in Device : TRUE, tpl |-> loaded[w], iter |-> i] :
     i \in BatchIters(w)}
Batch(w) == {[dev |-> DeviceOf[w], tpl |-> loaded[w], iter |-> i] :
               i \in BatchIters(w)}

(* The HitWork of iteration i: the job cloned before the batch.            *)
HitAtLatest(w, i) ==              \* mutant: the job named by the cell
  [w |-> w, tpl |-> cell, minedOn |-> loaded[w], iter |-> i]
HitAt(w, i) == [w |-> w, tpl |-> job[w], minedOn |-> loaded[w], iter |-> i]

Init ==
  /\ \E p \in Prev : chain = <<p>>
  /\ fetched = NoTemplate
  /\ lastPrev = NoPrev
  /\ cell = NoTemplate
  /\ wpc = [w \in Worker |-> "open"]
  /\ curPrev = [w \in Worker |-> NoPrev]
  /\ building = [w \in Worker |-> NoTemplate]
  /\ job = [w \in Worker |-> NoTemplate]
  /\ loaded = [w \in Worker |-> NoTemplate]
  /\ iter = [w \in Worker |-> 0]
  /\ hits = [w \in Worker |-> {}]
  /\ totalIters = 0
  /\ chan = <<>> /\ sent = <<>>
  /\ cur = NoHit /\ ppc = "recv"
  /\ accepted = 0 /\ rejected = 0
  /\ mpc = "spawning" /\ firstErr = FALSE
  /\ nodeBlocks = {}
  /\ mined = {} /\ settled = <<>>
  /\ lag = [w \in Worker |-> 0]
-----------------------------------------------------------------------------
(* pearld offers another template: on a new tip (a block arrived, or a     *)
(* reorganisation), or on the same tip with new transactions or time.      *)
NodeOffers(p) ==
  /\ Running
  /\ Len(chain) < MaxTemplates
  /\ chain' = Append(chain, p)
  /\ UNCHANGED <<fetched, lastPrev, cell, workVars, proveVars, chanVars, mainVars>>

(* The template poller's get_block_template returned Ok.                   *)
FetchTemplate ==
  /\ Running
  /\ fetched = NoTemplate
  /\ fetched' = Len(chain)
  /\ UNCHANGED <<chain, lastPrev, cell, workVars, proveVars, chanVars, mainVars>>

(* It compares the response with last_prev and, for another tip, replaces  *)
(* the shared cell under the lock; otherwise the response is dropped.      *)
PublishTemplate ==
  /\ Running
  /\ fetched # NoTemplate
  /\ fetched' = NoTemplate
  /\ \/ /\ chain[fetched] # lastPrev
        /\ lastPrev' = chain[fetched]
        /\ cell' = fetched
        /\ lag' = [w \in Worker |-> 0]
     \/ /\ chain[fetched] = lastPrev
        /\ UNCHANGED <<lastPrev, cell, lag>>
  /\ UNCHANGED <<chain, wpc, curPrev, building, job, loaded, iter, hits, totalIters,
                 mined, proveVars, chanVars, mainVars>>
-----------------------------------------------------------------------------
(* A worker returns an error, finishes, or panics: its locals and its      *)
(* sender are dropped, and with them the hits it had not sent.             *)
End(w, how) ==
  /\ wpc' = [wpc EXCEPT ![w] = how]
  /\ hits' = [hits EXCEPT ![w] = {}]

Goto(w, from, to) ==
  /\ Running
  /\ wpc[w] = from
  /\ wpc' = [wpc EXCEPT ![w] = to]

(* CudaCtx::new, Module::load_fatbin, MinerBufs::new, Stream::new.         *)
OpenDevice(w) ==
  /\ Goto(w, "open", "check")
  /\ UNCHANGED <<tplVars, curPrev, building, job, loaded, iter, hits, totalIters,
                 mined, lag, proveVars, chanVars, mainVars>>

(* Any step of a worker that calls CUDA, builds a job or parses a header   *)
(* may return Err; the ? ends the worker.                                  *)
Fallible == {"open", "build", "load", "batch", "snapshot", "send"}
WorkerFails(w) ==
  /\ Running
  /\ wpc[w] \in Fallible
  /\ End(w, "err")
  /\ UNCHANGED <<tplVars, curPrev, building, job, loaded, iter, totalIters, mined,
                 lag, proveVars, chanVars, mainVars>>

(* The asserts of MinerBufs::new, of the job arithmetic, of the launchers.  *)
WorkerPanics(w) ==
  /\ Running
  /\ wpc[w] \in {"open", "build", "load"}
  /\ End(w, "panicked")
  /\ UNCHANGED <<tplVars, curPrev, building, job, loaded, iter, totalIters, mined,
                 lag, proveVars, chanVars, mainVars>>

(* The worker clones the cell and needs a new job when its tip is not the  *)
(* one remembered.  current_prev is set before the job is built.           *)
NeedsJobOnce(w) ==                \* mutant: only the first template is taken
  cell # NoTemplate /\ curPrev[w] = NoPrev
NeedsJob(w) == cell # NoTemplate /\ curPrev[w] # chain[cell]
TakeTemplate(w) ==
  /\ Goto(w, "check", "build")
  /\ NeedsJob(w)
  /\ curPrev' = [curPrev EXCEPT ![w] = chain[cell]]
  /\ building' = [building EXCEPT ![w] = cell]
  /\ UNCHANGED <<tplVars, job, loaded, iter, hits, totalIters, mined, lag,
                 proveVars, chanVars, mainVars>>

HasJobAlways(w) == TRUE           \* mutant: no wait for the first job
HasJob(w) == job[w] # NoTemplate

(* Same tip: mine another batch of the current job.  Without a job the     *)
(* worker sleeps 100 ms and looks again, which changes nothing.            *)
KeepJob(w) ==
  /\ Goto(w, "check", "batch")
  /\ ~NeedsJob(w)
  /\ HasJob(w)
  /\ UNCHANGED <<tplVars, curPrev, building, job, loaded, iter, hits, totalIters,
                 mined, lag, proveVars, chanVars, mainVars>>

(* parse_template_txs, coinbase, MiningJob::build succeed.                 *)
BuildJob(w) ==
  /\ Goto(w, "build", "load")
  /\ UNCHANGED <<tplVars, curPrev, building, job, loaded, iter, hits, totalIters,
                 mined, lag, proveVars, chanVars, mainVars>>

LoadJobRestarts(w) ==             \* mutant: iter_idx starts again with the job
  /\ Goto(w, "load", "batch")
  /\ loaded' = [loaded EXCEPT ![w] = building[w]]
  /\ job' = [job EXCEPT ![w] = building[w]]
  /\ iter' = [iter EXCEPT ![w] = 0]
  /\ UNCHANGED <<tplVars, curPrev, building, hits, totalIters, mined, lag,
                 proveVars, chanVars, mainVars>>
(* ensure_for_job, synchronize, copy of b_pinned, capture of the graphs    *)
(* once, and the new Arc<ReadyJob>.  iter_idx goes on.                     *)
LoadJob(w) ==
  /\ Goto(w, "load", "batch")
  /\ loaded' = [loaded EXCEPT ![w] = building[w]]
  /\ job' = [job EXCEPT ![w] = building[w]]
  /\ UNCHANGED <<tplVars, curPrev, building, iter, hits, totalIters, mined, lag,
                 proveVars, chanVars, mainVars>>

(* ring_size iterations are enqueued and the stream synchronised; any of   *)
(* the slots may then show status 1.                                       *)
RunBatch(w) ==
  /\ Running
  /\ wpc[w] = "batch"
  /\ iter[w] + RingSize <= IterBound
  /\ iter' = [iter EXCEPT ![w] = @ + RingSize]
  /\ mined' = mined \cup Batch(w)
  /\ lag' = [lag EXCEPT ![w] =
               IF chain[job[w]] # chain[cell] THEN @ + 1 ELSE @]
  /\ \E I \in SUBSET BatchIters(w) :
       /\ hits' = [hits EXCEPT ![w] = {HitAt(w, i) : i \in I}]
       /\ wpc' = [wpc EXCEPT ![w] = IF I = {} THEN "account" ELSE "snapshot"]
  /\ UNCHANGED <<tplVars, curPrev, building, job, loaded, totalIters,
                 proveVars, chanVars, mainVars>>

(* snapshot_a_for_hit for every hit slot, then a second synchronize.       *)
Snapshot(w) ==
  /\ Goto(w, "snapshot", "send")
  /\ UNCHANGED <<tplVars, curPrev, building, job, loaded, iter, hits, totalIters,
                 mined, lag, proveVars, chanVars, mainVars>>

EnqueueFront(h) == chan' = <<h>> \o chan /\ sent' = Append(sent, h)  \* mutant
Enqueue(h) == chan' = Append(chan, h) /\ sent' = Append(sent, h)

UnsentAll(w, h) == hits[w]        \* mutant: the hit is not consumed
Unsent(w, h) == hits[w] \ {h}

(* The hits go out in iteration order.  send fails, and the failure is     *)
(* ignored, once the receiver is gone.                                     *)
SendHit(w) ==
  /\ Running
  /\ wpc[w] = "send"
  /\ \E h \in hits[w] :
       /\ \A g \in hits[w] : h.iter <= g.iter
       /\ hits' = [hits EXCEPT ![w] = Unsent(w, h)]
       /\ wpc' = [wpc EXCEPT ![w] = IF Unsent(w, h) = {} THEN "account" ELSE "send"]
       /\ \/ ReceiverAlive /\ Enqueue(h)
          \/ /\ ~ReceiverAlive
             /\ UNCHANGED chanVars
  /\ UNCHANGED <<tplVars, curPrev, building, job, loaded, iter, totalIters, mined,
                 lag, proveVars, mainVars>>

QuotaMet(w) == MaxIters > 0 /\ iter[w] >= MaxIters

CountedUnlessLast(w) ==           \* mutant: the MAX_ITERS break comes first
  IF QuotaMet(w) THEN totalIters ELSE totalIters + RingSize
Counted(w) == totalIters + RingSize

(* The aggregate counter, then the MAX_ITERS test.                         *)
EndBatch(w) ==
  /\ Goto(w, "account", IF QuotaMet(w) THEN "ok" ELSE "check")
  /\ totalIters' = Counted(w)
  /\ UNCHANGED <<tplVars, curPrev, building, job, loaded, iter, hits, mined, lag,
                 proveVars, chanVars, mainVars>>
-----------------------------------------------------------------------------
(* The hit poller takes the next hit.                                      *)
Receive ==
  /\ Running
  /\ ppc = "recv"
  /\ chan # <<>>
  /\ cur' = Head(chan)
  /\ chan' = Tail(chan)
  /\ ppc' = "prove"
  /\ UNCHANGED <<tplVars, workVars, sent, accepted, rejected, nodeBlocks, settled,
                 mainVars>>

(* recv fails only when the queue is empty and every sender is dropped.    *)
Disconnect ==
  /\ Running
  /\ ppc = "recv"
  /\ chan = <<>>
  /\ SendersGone
  /\ ppc' = "done"
  /\ UNCHANGED <<tplVars, workVars, chanVars, cur, accepted, rejected, nodeBlocks,
                 settled, mainVars>>

SettleKeeps ==                    \* mutant: the hit stays in hand
  /\ settled' = Append(settled, cur) /\ ppc' = "recv" /\ UNCHANGED cur
SettleStops ==                    \* mutant: break instead of continue
  /\ settled' = Append(settled, cur) /\ cur' = NoHit /\ ppc' = "done"
Settle ==
  /\ settled' = Append(settled, cur)
  /\ cur' = NoHit
  /\ ppc' = "recv"

(* build_plain_proof: an error is logged, counted nowhere, and skipped.    *)
ProofBuilt ==
  /\ Running
  /\ ppc = "prove"
  /\ ppc' = "submit"
  /\ UNCHANGED <<tplVars, workVars, chanVars, cur, accepted, rejected, nodeBlocks,
                 settled, mainVars>>

ProofFails ==
  /\ Running
  /\ ppc = "prove"
  /\ Settle
  /\ UNCHANGED <<tplVars, workVars, chanVars, accepted, rejected, nodeBlocks,
                 mainVars>>

(* A panic of the prover or of a serialisation assert ends the thread and  *)
(* drops the receiver with everything queued.                              *)
PollerPanics ==
  /\ Running
  /\ ppc \in {"prove", "submit"}
  /\ ppc' = "dead"
  /\ cur' = NoHit
  /\ chan' = <<>>
  /\ UNCHANGED <<tplVars, workVars, sent, accepted, rejected, nodeBlocks, settled,
                 mainVars>>

CountBoth == accepted' = accepted + 1 /\ rejected' = rejected + 1  \* mutant
CountRejected == accepted' = accepted /\ rejected' = rejected + 1
CountAccepted == accepted' = accepted + 1 /\ rejected' = rejected

(* submitblock reaches the node, which takes a block it does not have yet; *)
(* the answer arrives, or the request times out after the node took it.    *)
SubmitTaken(answered) ==
  /\ Running
  /\ ppc = "submit"
  /\ Block(cur) \notin nodeBlocks
  /\ nodeBlocks' = nodeBlocks \cup {Block(cur)}
  /\ IF answered THEN CountAccepted ELSE CountRejected
  /\ Settle
  /\ UNCHANGED <<tplVars, workVars, chanVars, mainVars>>

(* The zk proof or the encoding fails, the node refuses (stale tip,        *)
(* "already have block"), or the transport fails before the node has seen  *)
(* the block: counted as rejected, and not tried again.                    *)
SubmitRefused ==
  /\ Running
  /\ ppc = "submit"
  /\ CountRejected
  /\ Settle
  /\ UNCHANGED <<tplVars, workVars, chanVars, nodeBlocks, mainVars>>

-----------------------------------------------------------------------------
(* main has spawned every worker and drops its own sender.                 *)
DropSender ==
  /\ mpc = "spawning"
  /\ mpc' = "join"
  /\ UNCHANGED <<tplVars, workVars, proveVars, chanVars, firstErr>>

(* Every worker handle is joined; an Err is kept, a panic only printed.    *)
JoinWorkers ==
  /\ mpc = "join"
  /\ \A w \in Worker : Ended(w)
  /\ firstErr' = \E w \in Worker : wpc[w] = "err"
  /\ mpc' = "drain"
  /\ UNCHANGED <<tplVars, workVars, proveVars, chanVars>>

PollerJoinedAnyTime == TRUE       \* mutant: the drain gives up after 60 s
PollerJoined == ppc \in {"done", "dead"}

(* hit_poller_handle.join(), then main returns and the process is gone.    *)
JoinPoller ==
  /\ mpc = "drain"
  /\ PollerJoined
  /\ mpc' = "exited"
  /\ UNCHANGED <<tplVars, workVars, proveVars, chanVars, firstErr>>

Exited ==
  /\ mpc = "exited"
  /\ UNCHANGED vars
-----------------------------------------------------------------------------
WorkerStep(w) ==
  \/ OpenDevice(w) \/ TakeTemplate(w) \/ KeepJob(w) \/ BuildJob(w)
  \/ LoadJob(w) \/ RunBatch(w) \/ Snapshot(w) \/ SendHit(w) \/ EndBatch(w)

HitPollerStep ==
  \/ Receive \/ Disconnect \/ ProofBuilt \/ ProofFails
  \/ SubmitTaken(TRUE) \/ SubmitTaken(FALSE) \/ SubmitRefused

MainStep == DropSender \/ JoinWorkers \/ JoinPoller

Next ==
  \/ \E p \in Prev : NodeOffers(p)
  \/ FetchTemplate \/ PublishTemplate
  \/ \E w \in Worker : WorkerStep(w) \/ WorkerFails(w) \/ WorkerPanics(w)
  \/ HitPollerStep \/ PollerPanics
  \/ MainStep
  \/ Exited

Spec == Init /\ [][Next]_vars

(* Every thread that can take a step eventually does: the scheduler is     *)
(* fair, kernels and proofs terminate, RPCs have a 10 s timeout.  Failures *)
(* and panics may happen and never have to; nothing is assumed of the node *)
(* or of the template fetches.                                             *)
WorkersFair == \A w \in Worker : WF_vars(WorkerStep(w))
MainFair    == WF_vars(MainStep)
PollerFair  == WF_vars(HitPollerStep)
FairSpec == Spec /\ WorkersFair /\ MainFair /\ PollerFair

-----------------------------------------------------------------------------
EvidenceMatches(h) == Block(h) \in mined /\ h.tpl = h.minedOn

TplType ==
  /\ chain \in Seq(Prev) /\ Len(chain) \in 1..MaxTemplates
  /\ fetched \in 0..Len(chain) /\ cell \in 0..Len(chain)
  /\ lastPrev \in Prev \cup {NoPrev}
WorkType ==
  /\ wpc \in [Worker -> {"open", "check", "build", "load", "batch", "snapshot",
                        "send", "account", "ok", "err", "panicked"}]
  /\ curPrev \in [Worker -> Prev \cup {NoPrev}]
  /\ building \in [Worker -> 0..cell]
  /\ job \in [Worker -> 0..cell]
  /\ loaded \in [Worker -> 0..cell]
  /\ iter \in [Worker -> Nat]
  /\ hits \in [Worker -> SUBSET Hit]
  /\ totalIters \in Nat
  /\ mined \subseteq Candidate
  /\ lag \in [Worker -> Nat]
ProveType ==
  /\ cur \in Hit \cup {NoHit}
  /\ ppc \in {"recv", "prove", "submit", "done", "dead"}
  /\ cur # NoHit <=> ppc \in {"prove", "submit"}
  /\ accepted \in Nat /\ rejected \in Nat
  /\ nodeBlocks \subseteq Candidate
  /\ settled \in Seq(Hit)
ChanType == chan \in Seq(Hit) /\ sent \in Seq(Hit)
MainType == mpc \in {"spawning", "join", "drain", "exited"} /\ firstErr \in BOOLEAN

(* The types of the state of every thread; the cell, the jobs and what is  *)
(* on a device name templates that were published.                         *)
TypeOK == TplType /\ WorkType /\ ProveType /\ ChanType /\ MainType

(* A worker that mines has a job and the graphs captured with it: the      *)
(* expect("graphs captured by job_load") never fires.                      *)
Mining == {"batch", "snapshot", "send", "account"}
JobWhenMining ==
  \A w \in Worker : wpc[w] \in Mining => job[w] # NoTemplate /\ loaded[w] # NoTemplate

(* Whatever interleaving of template changes, job loads and batches, a hit *)
(* that is unsent, queued, in hand or settled carries the job under which  *)
(* its iteration really ran: the proof is built from that job's key and B. *)
HitsBoundToJob ==
  /\ \A w \in Worker : \A h \in hits[w] : EvidenceMatches(h)
  /\ \A k \in 1..Len(sent) : EvidenceMatches(sent[k])

(* Conservation: while the hit poller lives, the hits sent are the hits    *)
(* settled, then the one in hand, then the ones queued, in that order.     *)
InHand == IF cur = NoHit THEN <<>> ELSE <<cur>>
NoHitLost == ppc # "dead" => sent = settled \o InHand \o chan

(* No hit is sent twice.                                                   *)
SentOnce == \A k, l \in 1..Len(sent) : k # l => Block(sent[k]) # Block(sent[l])

(* The seed is hashed from the header, the salt of the process and the     *)
(* device ordinal.  Templates of one tip count as one header here, because *)
(* a node whose tip comes back may offer the same header once more.        *)
SameSearch(c, d) ==
  c.dev = d.dev /\ c.iter = d.iter /\ chain[c.tpl] = chain[d.tpl]

(* No launch repeats a search: not one of the worker's own when the tip    *)
(* returns to an earlier one, because iter_idx goes on across job changes, *)
(* and not one of another worker on the same tip, because the device       *)
(* ordinal is part of the seed.                                            *)
NoRepeatedWork ==
  [][\A w \in Worker :
       iter'[w] # iter[w] => \A c \in Batch(w), d \in mined : ~SameSearch(c, d)]_vars

(* Between two changes of the cell a worker begins at most one batch for a *)
(* tip other than the published one: the check before each batch may come  *)
(* just before a publication, and so may the load of an older template.    *)
StaleWorkBounded == \A w \in Worker : lag[w] <= 1

(* The process is only gone when every worker has returned, and, unless    *)
(* the hit poller died, with every hit that was ever sent settled.         *)
DrainedOnExit ==
  mpc = "exited" =>
    /\ \A w \in Worker : Ended(w)
    /\ ppc # "dead" => settled = sent

(* Exit code 0: the aggregate counter has every iteration launched, each   *)
(* once, and the workers whose share of the quota is missing are exactly   *)
(* those that panicked, which main prints and does not report.             *)
SuccessMeansQuota ==
  (mpc = "exited" /\ ~firstErr) =>
    /\ totalIters = Cardinality(mined)
    /\ \A w \in Worker :
         wpc[w] = "panicked" <=> ~(MaxIters > 0 /\ iter[w] >= MaxIters)

(* blocks_accepted never exceeds what the node took, and each settled hit  *)
(* is counted at most once.                                                *)
CountersHonest ==
  /\ accepted <= Cardinality(nodeBlocks)
  /\ Cardinality(nodeBlocks) <= accepted + rejected
  /\ accepted + rejected <= Len(settled)

(* A hit handed to the channel is settled, unless the poller dies first.   *)
HitBound == IterBound * Cardinality(Worker)
HitsAreSettled ==
  \A k \in 1..HitBound :
    (Len(sent) >= k) ~> (Len(settled) >= k \/ ppc = "dead")

(* With MAX_ITERS set, the process ends once a first template arrived.     *)
Termination == (MaxIters > 0 /\ cell # NoTemplate) ~> (mpc = "exited")

-----------------------------------------------------------------------------
BlocksOf(s) == [k \in DOMAIN s |-> Block(s[k])]

(* The threads implement the promise of MinerService.                      *)
Service == INSTANCE MinerService WITH
  searched <- mined, reported <- BlocksOf(sent), settled <- BlocksOf(settled),
  broken <- (ppc = "dead"), stopped <- (mpc = "exited")
(* The threads keep every promise of MinerService, step by step.           *)
ServiceSpec == Service!Spec
=============================================================================
