-------------------------- MODULE LiveMiner_proofs --------------------------
(***************************************************************************)
(* Proofs about LiveMiner, for every set of workers, device list, ring     *)
(* size, iteration quota and number of templates: its types; the life of a *)
(* hit, which is bound to the job it was mined under and not lost between  *)
(* the worker that sends it and the hit poller that settles it; that no    *)
(* two launches search the same candidate; and how the process and its     *)
(* workers come to an end: the process is gone only when every worker has  *)
(* returned and every hit sent is settled, exit code 0 means the quota was *)
(* mined, and a worker leaves a job whose tip was replaced.  At the end,   *)
(* that the threads implement the promise of MinerService when the device  *)
(* list names each device once, and that the counters are honest.          *)
(***************************************************************************)
EXTENDS LiveMiner, TLAPS, SequenceTheorems, FiniteSetTheorems, FunctionTheorems

(* What TypeOK needs to be inductive: the template poller never publishes  *)
(* an older template than the one published, a worker past its check holds *)
(* a template, and the job named by its hits is the one on its device.     *)
NeverOlder == fetched # NoTemplate => cell <= fetched
HasTemplate ==
  \A w \in Worker : wpc[w] \in {"build", "load"} => building[w] # NoTemplate
JobIsLoaded == job = loaded

(* The inductive invariant: the types, and the four facts above about      *)
(* templates and jobs.                                                     *)
TypeInv ==
  /\ TypeOK
  /\ NeverOlder /\ HasTemplate /\ JobIsLoaded /\ JobWhenMining

(* At start nothing is published, loaded, queued or counted.               *)
LEMMA InitTypeInv == Init => TypeInv
  <1> SUFFICES ASSUME Init PROVE TypeInv
    OBVIOUS
  <1> USE LiveMinerAssumption DEF Init, NoTemplate
  <1>1. TplType
    <2> PICK p \in Prev : chain = <<p>>
      OBVIOUS
    <2>1. chain \in Seq(Prev) /\ Len(chain) = 1
      OBVIOUS
    <2> QED BY <2>1 DEF TplType
  <1>2. WorkType
    BY DEF WorkType
  <1>3. ProveType /\ ChanType
    BY NoHitAssumption DEF ProveType, ChanType
  <1>4. MainType
    BY DEF MainType
  <1>5. NeverOlder /\ HasTemplate /\ JobIsLoaded /\ JobWhenMining
    BY DEF NeverOlder, HasTemplate, JobIsLoaded, JobWhenMining, Mining
  <1> QED BY <1>1, <1>2, <1>3, <1>4, <1>5 DEF TypeInv, TypeOK

(* A step that leaves the worker's variables alone keeps what is said of   *)
(* them when the cell only moves forward.                                  *)
LEMMA WorkersUntouched ==
  ASSUME WorkType, HasTemplate, JobIsLoaded, JobWhenMining, TplType, TplType',
         cell <= cell',
         UNCHANGED <<wpc, curPrev, building, job, loaded, iter, hits, totalIters, mined>>,
         lag' \in [Worker -> Nat]
  PROVE  WorkType' /\ HasTemplate' /\ JobIsLoaded' /\ JobWhenMining'
  <1>1. 0..cell \subseteq 0..cell'
    BY DEF TplType
  <1>2. WorkType'
    BY <1>1 DEF WorkType
  <1>3. HasTemplate' /\ JobIsLoaded' /\ JobWhenMining'
    BY DEF HasTemplate, JobIsLoaded, JobWhenMining, Mining, NoTemplate
  <1> QED BY <1>2, <1>3

(* A template offered, fetched or published: the poller fetches the newest *)
(* one offered, so the cell only moves forward and the jobs the workers    *)
(* hold stay templates of the past.                                        *)
LEMMA TemplateStep ==
  ASSUME TypeInv,
         (\E p \in Prev : NodeOffers(p)) \/ FetchTemplate \/ PublishTemplate
  PROVE  TypeInv'
  <1> USE DEF TypeInv, TypeOK
  <1>1. UNCHANGED <<proveVars, chanVars, mainVars>>
    BY DEF NodeOffers, FetchTemplate, PublishTemplate
  <1>2. ProveType' /\ ChanType' /\ MainType'
    BY <1>1 DEF ProveType, ChanType, MainType, proveVars, chanVars, mainVars
  <1>3. TplType' /\ NeverOlder' /\ cell <= cell'
    <2> USE DEF TplType, NeverOlder, NoTemplate
    <2>1. ASSUME NEW p \in Prev, NodeOffers(p) PROVE TplType' /\ NeverOlder' /\ cell <= cell'
      <3>1. chain' \in Seq(Prev) /\ Len(chain') = Len(chain) + 1
        BY <2>1 DEF NodeOffers
      <3> QED BY <2>1, <3>1, LiveMinerAssumption DEF NodeOffers
    <2>2. CASE FetchTemplate
      BY <2>2 DEF FetchTemplate
    <2>3. CASE PublishTemplate
      <3>1. chain[fetched] \in Prev
        BY <2>3, ElementOfSeq DEF PublishTemplate
      <3> QED BY <2>3, <3>1 DEF PublishTemplate
    <2> QED BY <2>1, <2>2, <2>3
  <1>4. /\ UNCHANGED <<wpc, curPrev, building, job, loaded, iter, hits, totalIters, mined>>
        /\ lag' \in [Worker -> Nat]
    <2>1. CASE \E p \in Prev : NodeOffers(p) BY <2>1 DEF NodeOffers, workVars, WorkType
    <2>2. CASE FetchTemplate BY <2>2 DEF FetchTemplate, workVars, WorkType
    <2>3. CASE PublishTemplate BY <2>3 DEF PublishTemplate, WorkType
    <2> QED BY <2>1, <2>2, <2>3
  <1>5. WorkType' /\ HasTemplate' /\ JobIsLoaded' /\ JobWhenMining'
    BY <1>3, <1>4, WorkersUntouched
  <1> QED BY <1>2, <1>3, <1>5

(* A worker that only moves its program counter: hits may be dropped.      *)
LEMMA WorkerMoves ==
  ASSUME TypeInv, NEW w \in Worker,
         NEW to \in {"check", "build", "load", "batch", "snapshot", "send", "account",
                     "ok", "err", "panicked"},
         wpc' = [wpc EXCEPT ![w] = to],
         hits' \in [Worker -> SUBSET Hit], totalIters' \in Nat,
         to \in {"build", "load"} => building[w] # NoTemplate,
         to \in Mining => job[w] # NoTemplate,
         UNCHANGED <<tplVars, curPrev, building, job, loaded, iter, mined, lag,
                     proveVars, mainVars>>,
         ChanType'
  PROVE  TypeInv'
  <1> USE DEF TypeInv, TypeOK
  <1>1. TplType' /\ ProveType' /\ MainType' /\ NeverOlder'
    BY DEF TplType, ProveType, MainType, NeverOlder, tplVars, proveVars, mainVars
  <1>2. WorkType'
    BY DEF WorkType, tplVars
  <1>3. HasTemplate'
    BY DEF HasTemplate, WorkType
  <1>4. JobIsLoaded' /\ JobWhenMining'
    BY DEF JobIsLoaded, JobWhenMining, WorkType
  <1> QED BY <1>1, <1>2, <1>3, <1>4

(* With a job in hand, what a worker searches and what it would report are *)
(* a candidate and a hit.                                                  *)
LEMMA HitsAreTyped ==
  ASSUME TypeInv, NEW w \in Worker, NEW i \in Nat, job[w] # NoTemplate
  PROVE  /\ HitAt(w, i) \in Hit
         /\ [dev |-> DeviceOf[w], tpl |-> loaded[w], iter |-> i] \in Candidate
  BY LiveMinerAssumption
     DEF TypeInv, TypeOK, TplType, WorkType, JobIsLoaded, HitAt, Hit, Candidate,
         Template, NoTemplate

(* The check of the tip takes the template in the cell, so the job to      *)
(* build has a template.                                                   *)
LEMMA TakeTemplateTypeInv ==
  ASSUME TypeInv, NEW w \in Worker, TakeTemplate(w)
  PROVE  TypeInv'
  <1> USE DEF TypeInv, TypeOK, TakeTemplate, NeedsJob, Goto
  <1>1. TplType' /\ ProveType' /\ MainType' /\ NeverOlder' /\ ChanType'
    BY DEF TplType, ProveType, MainType, NeverOlder, ChanType, tplVars, proveVars,
           mainVars, chanVars
  <1>2. chain[cell] \in Prev /\ cell \in 0..cell
    BY ElementOfSeq DEF TplType, NoTemplate
  <1>3. WorkType'
    BY <1>2 DEF WorkType, tplVars
  <1>4. HasTemplate'
    BY DEF HasTemplate, WorkType
  <1>5. JobIsLoaded' /\ JobWhenMining'
    BY DEF JobIsLoaded, JobWhenMining, WorkType, Mining
  <1> QED BY <1>1, <1>3, <1>4, <1>5

(* The load sets the job on the device and the job of the hits together,   *)
(* to a template: mining starts with a job.                                *)
LEMMA LoadJobTypeInv ==
  ASSUME TypeInv, NEW w \in Worker, LoadJob(w)
  PROVE  TypeInv'
  <1> USE DEF TypeInv, TypeOK, LoadJob, Goto
  <1>1. TplType' /\ ProveType' /\ MainType' /\ NeverOlder' /\ ChanType'
    BY DEF TplType, ProveType, MainType, NeverOlder, ChanType, tplVars, proveVars,
           mainVars, chanVars
  <1>2. WorkType'
    BY DEF WorkType, tplVars
  <1>3. HasTemplate' /\ JobIsLoaded'
    BY DEF HasTemplate, WorkType, JobIsLoaded
  <1>4. JobWhenMining'
    BY DEF HasTemplate, JobWhenMining, WorkType, Mining
  <1> QED BY <1>1, <1>2, <1>3, <1>4

(* A batch adds candidates to those searched and hits to those unsent.     *)
LEMMA RunBatchTypeInv ==
  ASSUME TypeInv, NEW w \in Worker, RunBatch(w)
  PROVE  TypeInv'
  <1> USE DEF TypeInv, TypeOK, RunBatch
  <1>1. TplType' /\ ProveType' /\ MainType' /\ NeverOlder' /\ ChanType'
    BY DEF TplType, ProveType, MainType, NeverOlder, ChanType, tplVars, proveVars,
           mainVars, chanVars
  <1>2. job[w] # NoTemplate
    BY DEF JobWhenMining, Mining
  <1>3. iter[w] \in Nat /\ BatchIters(w) \subseteq Nat
    BY LiveMinerAssumption DEF WorkType, BatchIters
  <1>4. Batch(w) \subseteq Candidate
    BY <1>2, <1>3, HitsAreTyped DEF Batch
  <1>5. PICK I \in SUBSET BatchIters(w) :
          /\ hits' = [hits EXCEPT ![w] = {HitAt(w, i) : i \in I}]
          /\ wpc' = [wpc EXCEPT ![w] = IF I = {} THEN "account" ELSE "snapshot"]
    OBVIOUS
  <1>6. {HitAt(w, i) : i \in I} \subseteq Hit
    <2>1. \A i \in Nat : HitAt(w, i) \in Hit
      BY <1>2, HitsAreTyped
    <2> QED BY <1>3, <2>1
  <1>7. WorkType'
    <2>1. hits' \in [Worker -> SUBSET Hit]
      BY <1>5, <1>6 DEF WorkType
    <2>2. iter' \in [Worker -> Nat] /\ lag' \in [Worker -> Nat]
      BY LiveMinerAssumption DEF WorkType
    <2>3. mined' \subseteq Candidate
      BY <1>4 DEF WorkType
    <2> QED BY <2>1, <2>2, <2>3, <1>5 DEF WorkType, tplVars
  <1>8. HasTemplate' /\ JobIsLoaded' /\ JobWhenMining'
    BY <1>5 DEF HasTemplate, JobIsLoaded, JobWhenMining, WorkType, Mining
  <1> QED BY <1>1, <1>7, <1>8

(* A send moves a hit to the channel, or drops it when the receiver is     *)
(* gone.                                                                   *)
LEMMA SendHitTypeInv ==
  ASSUME TypeInv, NEW w \in Worker, SendHit(w)
  PROVE  TypeInv'
  <1> USE DEF TypeInv, TypeOK
  <1>1. PICK h \in hits[w] :
          /\ hits' = [hits EXCEPT ![w] = Unsent(w, h)]
          /\ wpc' = [wpc EXCEPT ![w] = IF Unsent(w, h) = {} THEN "account" ELSE "send"]
          /\ \/ ReceiverAlive /\ Enqueue(h)
             \/ ~ReceiverAlive /\ UNCHANGED chanVars
    BY DEF SendHit
  <1>2. h \in Hit /\ hits' \in [Worker -> SUBSET Hit]
    BY <1>1 DEF WorkType, Unsent
  <1>3. ChanType'
    <2>1. CASE Enqueue(h)
      BY <1>2, <2>1, AppendProperties DEF ChanType, Enqueue
    <2>2. CASE UNCHANGED chanVars
      BY <2>2 DEF ChanType, chanVars
    <2> QED BY <1>1, <2>1, <2>2
  <1>4. wpc[w] = "send" /\ job[w] # NoTemplate
    BY DEF SendHit, JobWhenMining, Mining
  <1>5. /\ UNCHANGED <<tplVars, curPrev, building, job, loaded, iter, mined, lag,
                       proveVars, mainVars>>
        /\ totalIters' \in Nat
    BY DEF SendHit, WorkType
  <1>6. CASE Unsent(w, h) = {}
    <2>1. wpc' = [wpc EXCEPT ![w] = "account"]
      BY <1>1, <1>6
    <2> QED BY <2>1, <1>2, <1>3, <1>4, <1>5, WorkerMoves
  <1>7. CASE Unsent(w, h) # {}
    <2>1. wpc' = [wpc EXCEPT ![w] = "send"]
      BY <1>1, <1>7
    <2> QED BY <2>1, <1>2, <1>3, <1>4, <1>5, WorkerMoves
  <1> QED BY <1>6, <1>7

(* Every step of worker(), its errors and its panics.                      *)
LEMMA WorkerTypeInv ==
  ASSUME TypeInv, NEW w \in Worker, WorkerStep(w) \/ WorkerFails(w) \/ WorkerPanics(w)
  PROVE  TypeInv'
  <1>1. ChanType /\ hits \in [Worker -> SUBSET Hit] /\ totalIters \in Nat /\ RingSize \in Nat
    BY LiveMinerAssumption DEF TypeInv, TypeOK, WorkType
  <1>2. UNCHANGED chanVars => ChanType'
    BY <1>1 DEF ChanType, chanVars
  <1>3. ASSUME NEW to \in {"err", "panicked"}, End(w, to),
               UNCHANGED <<tplVars, curPrev, building, job, loaded, iter, totalIters, mined,
                           lag, proveVars, chanVars, mainVars>>
        PROVE  TypeInv'
    <2>1. wpc' = [wpc EXCEPT ![w] = to] /\ hits' \in [Worker -> SUBSET Hit]
      BY <1>1, <1>3 DEF End
    <2>2. to \notin {"build", "load"} /\ to \notin Mining
      BY DEF Mining
    <2> QED BY <1>1, <1>2, <1>3, <2>1, <2>2, WorkerMoves
  <1>4. CASE OpenDevice(w)
    BY <1>1, <1>2, <1>4, WorkerMoves DEF OpenDevice, Goto, Mining
  <1>5. CASE KeepJob(w)
    BY <1>1, <1>2, <1>5, WorkerMoves DEF KeepJob, HasJob, Goto, Mining
  <1>6. CASE BuildJob(w)
    <2>1. building[w] # NoTemplate
      BY <1>6 DEF BuildJob, Goto, TypeInv, HasTemplate
    <2> QED BY <1>1, <1>2, <1>6, <2>1, WorkerMoves DEF BuildJob, Goto, Mining
  <1>7. CASE Snapshot(w)
    <2>1. job[w] # NoTemplate
      BY <1>7 DEF Snapshot, Goto, TypeInv, JobWhenMining, Mining
    <2> QED BY <1>1, <1>2, <1>7, <2>1, WorkerMoves DEF Snapshot, Goto
  <1>8. CASE EndBatch(w)
    <2>1. totalIters' \in Nat
      BY <1>1, <1>8 DEF EndBatch, Counted
    <2> QED BY <1>1, <1>2, <1>8, <2>1, WorkerMoves DEF EndBatch, Goto, Mining
  <1>9. CASE WorkerFails(w)
    BY <1>3, <1>9 DEF WorkerFails
  <1>10. CASE WorkerPanics(w)
    BY <1>3, <1>10 DEF WorkerPanics
  <1> QED BY <1>4, <1>5, <1>6, <1>7, <1>8, <1>9, <1>10, TakeTemplateTypeInv,
             LoadJobTypeInv, RunBatchTypeInv, SendHitTypeInv DEF WorkerStep

(* Every step of the hit poller, its panic included, holds a hit exactly   *)
(* while it proves or submits one.                                         *)
LEMMA HitPollerTypeInv ==
  ASSUME TypeInv, HitPollerStep \/ PollerPanics
  PROVE  TypeInv'
  <1> USE DEF TypeInv, TypeOK
  <1>1. UNCHANGED <<tplVars, workVars, mainVars>>
    BY DEF HitPollerStep, Receive, Disconnect, ProofBuilt, ProofFails, SubmitTaken,
           SubmitRefused, PollerPanics
  <1>2. TplType' /\ MainType' /\ NeverOlder'
    BY <1>1 DEF TplType, MainType, NeverOlder, tplVars, mainVars
  <1>3. WorkType'
    BY <1>1 DEF WorkType, tplVars, workVars
  <1>4. HasTemplate' /\ JobIsLoaded' /\ JobWhenMining'
    BY <1>1 DEF HasTemplate, JobIsLoaded, JobWhenMining, workVars
  <1>5. ProveType' /\ ChanType'
    <2> USE NoHitAssumption DEF ProveType, ChanType
    <2>1. CASE Receive
      BY <2>1, HeadTailProperties DEF Receive
    <2>2. CASE Disconnect \/ ProofBuilt
      BY <2>2 DEF Disconnect, ProofBuilt, chanVars
    <2>3. CASE PollerPanics
      BY <2>3 DEF PollerPanics
    <2>4. ASSUME Settle, ppc \in {"prove", "submit"} PROVE
            /\ settled' \in Seq(Hit) /\ cur' = NoHit /\ ppc' = "recv"
      BY <2>4, AppendProperties DEF Settle
    <2>5. ASSUME ppc \in {"prove", "submit"} PROVE Block(cur) \in Candidate
      BY <2>5, LiveMinerAssumption DEF Block, Hit, Candidate
    <2>6. CASE ProofFails
      BY <2>4, <2>6 DEF ProofFails, chanVars
    <2>7. CASE SubmitTaken(TRUE) \/ SubmitTaken(FALSE)
      BY <2>4, <2>5, <2>7 DEF SubmitTaken, CountAccepted, CountRejected, chanVars
    <2>8. CASE SubmitRefused
      BY <2>4, <2>8 DEF SubmitRefused, CountRejected, chanVars
    <2> QED BY <2>1, <2>2, <2>3, <2>6, <2>7, <2>8 DEF HitPollerStep
  <1> QED BY <1>2, <1>3, <1>4, <1>5

(* The main thread only moves its own variables.                           *)
LEMMA IdleTypeInv ==
  ASSUME TypeInv, MainStep \/ UNCHANGED vars
  PROVE  TypeInv'
  <1> USE DEF TypeInv, TypeOK
  <1>1. UNCHANGED <<tplVars, workVars, proveVars, chanVars>>
    BY DEF MainStep, DropSender, JoinWorkers, JoinPoller, vars
  <1>2. MainType'
    BY DEF MainStep, DropSender, JoinWorkers, JoinPoller, vars, mainVars, MainType
  <1>3. TplType' /\ NeverOlder' /\ ProveType' /\ ChanType'
    BY <1>1 DEF TplType, NeverOlder, ProveType, ChanType, tplVars, proveVars, chanVars
  <1>4. WorkType' /\ HasTemplate' /\ JobIsLoaded' /\ JobWhenMining'
    BY <1>1 DEF WorkType, HasTemplate, JobIsLoaded, JobWhenMining, tplVars, workVars
  <1> QED BY <1>2, <1>3, <1>4

(* Every step of the process.                                              *)
LEMMA NextTypeInv == TypeInv /\ [Next]_vars => TypeInv'
  BY TemplateStep, WorkerTypeInv, HitPollerTypeInv, IdleTypeInv DEF Next, Exited

(* Every reachable state is well typed, and a worker that mines has a job. *)
THEOREM TypeCorrect == Spec => []TypeInv
  BY InitTypeInv, NextTypeInv, PTL DEF Spec

(* The types of all the state shared by the threads of live_miner.rs.      *)
THEOREM TypeSafety == Spec => []TypeOK
  <1>1. TypeInv => TypeOK
    BY DEF TypeInv
  <1> QED BY <1>1, TypeCorrect, PTL

(* expect("graphs captured by job_load") never fires: no batch without a   *)
(* loaded job.                                                             *)
THEOREM NeverMinesWithoutJob == Spec => []JobWhenMining
  <1>1. TypeInv => JobWhenMining
    BY DEF TypeInv
  <1> QED BY <1>1, TypeCorrect, PTL

-----------------------------------------------------------------------------
(* Hits and the jobs they carry.                                           *)

(* Nothing is found or sent yet.                                           *)
LEMMA HitsBoundInit == Init => HitsBoundToJob
  BY DEF Init, HitsBoundToJob

(* Steps that find no hit, send none and forget no search keep every hit   *)
(* bound.                                                                  *)
LEMMA SameEvidence ==
  ASSUME HitsBoundToJob, mined \subseteq mined', UNCHANGED sent,
         \A w \in Worker : hits'[w] \subseteq hits[w]
  PROVE  HitsBoundToJob'
  BY DEF HitsBoundToJob, EvidenceMatches, Block

(* A batch searches under the loaded job, which is the job its hits are    *)
(* given; every other step only moves or drops hits.                       *)
LEMMA HitsBoundNext == TypeInv /\ HitsBoundToJob /\ [Next]_vars => HitsBoundToJob'
  <1> SUFFICES ASSUME TypeInv, HitsBoundToJob, [Next]_vars PROVE HitsBoundToJob'
    OBVIOUS
  <1> USE DEF workVars, chanVars
  <1>1. CASE (\E p \in Prev : NodeOffers(p)) \/ FetchTemplate \/ PublishTemplate
    BY <1>1, SameEvidence DEF NodeOffers, FetchTemplate, PublishTemplate
  <1>2. CASE HitPollerStep \/ PollerPanics
    BY <1>2, SameEvidence
       DEF HitPollerStep, Receive, Disconnect, ProofBuilt, ProofFails, SubmitTaken,
           SubmitRefused, PollerPanics
  <1>3. CASE MainStep \/ UNCHANGED vars
    BY <1>3, SameEvidence DEF MainStep, DropSender, JoinWorkers, JoinPoller, vars
  <1>4. ASSUME NEW w \in Worker, WorkerStep(w) \/ WorkerFails(w) \/ WorkerPanics(w)
        PROVE  HitsBoundToJob'
    <2>0. hits \in [Worker -> SUBSET Hit]
      BY DEF TypeInv, TypeOK, WorkType
    <2>1. CASE OpenDevice(w) \/ TakeTemplate(w) \/ KeepJob(w) \/ BuildJob(w) \/ LoadJob(w)
                 \/ Snapshot(w) \/ EndBatch(w)
      BY <2>1, SameEvidence
         DEF OpenDevice, TakeTemplate, KeepJob, BuildJob, LoadJob, Snapshot, EndBatch
    <2>2. CASE WorkerFails(w) \/ WorkerPanics(w)
      BY <2>0, <2>2, SameEvidence DEF WorkerFails, WorkerPanics, End
    <2>3. CASE RunBatch(w)
      <3>1. PICK I \in SUBSET BatchIters(w) :
              hits' = [hits EXCEPT ![w] = {HitAt(w, i) : i \in I}]
        BY <2>3 DEF RunBatch
      <3>2. mined' = mined \cup Batch(w) /\ UNCHANGED <<sent, job, loaded>>
        BY <2>3 DEF RunBatch
      <3>3. job[w] = loaded[w]
        BY DEF TypeInv, JobIsLoaded
      <3>4. ASSUME NEW i \in I PROVE EvidenceMatches(HitAt(w, i))'
        BY <3>2, <3>3 DEF EvidenceMatches, HitAt, Block, Batch
      <3>5. \A v \in Worker : \A h \in hits'[v] : EvidenceMatches(h)'
        <4> SUFFICES ASSUME NEW v \in Worker, NEW h \in hits'[v]
                     PROVE  EvidenceMatches(h)'
          OBVIOUS
        <4>1. CASE v # w
          BY <2>0, <3>1, <3>2, <4>1 DEF HitsBoundToJob, EvidenceMatches, Block
        <4>2. CASE v = w
          <5>1. PICK i \in I : h = HitAt(w, i)
            BY <2>0, <3>1, <4>2
          <5>2. h = HitAt(w, i)'
            BY <3>2, <5>1 DEF HitAt
          <5> QED BY <3>4, <5>2 DEF EvidenceMatches
        <4> QED BY <4>1, <4>2
      <3> QED BY <3>2, <3>5 DEF HitsBoundToJob, EvidenceMatches, Block
    <2>4. CASE SendHit(w)
      <3>1. PICK h \in hits[w] :
              /\ hits' = [hits EXCEPT ![w] = Unsent(w, h)]
              /\ Enqueue(h) \/ UNCHANGED chanVars
        BY <2>4 DEF SendHit
      <3>2. UNCHANGED mined /\ \A v \in Worker : hits'[v] \subseteq hits[v]
        BY <2>0, <2>4, <3>1 DEF SendHit, Unsent
      <3>3. CASE UNCHANGED chanVars
        BY <3>2, <3>3, SameEvidence
      <3>4. CASE Enqueue(h)
        <4>1. sent' = Append(sent, h) /\ sent \in Seq(Hit) /\ h \in Hit
          BY <2>0, <3>4 DEF Enqueue, TypeInv, TypeOK, ChanType
        <4>2. \A k \in 1..Len(sent') : sent'[k] = h \/ (k \in 1..Len(sent) /\ sent'[k] = sent[k])
          BY <4>1, AppendProperties
        <4>3. \A g : EvidenceMatches(g) => EvidenceMatches(g)'
          BY <3>2 DEF EvidenceMatches, Block
        <4> QED BY <3>2, <4>2, <4>3 DEF HitsBoundToJob, EvidenceMatches, Block
      <3> QED BY <3>1, <3>3, <3>4
    <2> QED BY <1>4, <2>1, <2>2, <2>3, <2>4 DEF WorkerStep
  <1> QED BY <1>1, <1>2, <1>3, <1>4 DEF Next, Exited

(* Whatever the interleaving of template changes, job loads, batches and   *)
(* failures, a hit carries the job under which its iteration ran.          *)
THEOREM HitsCarryTheirJob == Spec => []HitsBoundToJob
  BY HitsBoundInit, HitsBoundNext, TypeCorrect, PTL DEF Spec

-----------------------------------------------------------------------------
(* Hits between the channel and the hit poller.                            *)

(* A step of the hit poller that settles the hit in hand.                  *)
LEMMA SettleKeepsOrder ==
  ASSUME TypeInv, NoHitLost, ppc \in {"prove", "submit"}, Settle, UNCHANGED chanVars
  PROVE  NoHitLost'
  <1>1. sent = settled \o <<cur>> \o chan
    BY DEF NoHitLost, InHand, TypeInv, TypeOK, ProveType
  <1>2. settled \in Seq(Hit) /\ cur \in Hit /\ chan \in Seq(Hit)
    BY NoHitAssumption DEF TypeInv, TypeOK, ProveType, ChanType
  <1>3. settled' = settled \o <<cur>> /\ settled' \in Seq(Hit)
    BY <1>2, AppendIsConcat, ConcatProperties DEF Settle
  <1>4. InHand' = <<>>
    BY DEF InHand, Settle
  <1>5. settled' \o <<>> = settled'
    BY <1>3, ConcatEmptySeq
  <1> QED BY <1>1, <1>3, <1>4, <1>5 DEF NoHitLost, chanVars

(* A send appends to both histories; a receive moves the head of the       *)
(* channel into the hand; a settled hit leaves the hand.                   *)
LEMMA NoHitLostNext == TypeInv /\ NoHitLost /\ [Next]_vars => NoHitLost'
  <1> SUFFICES ASSUME TypeInv, NoHitLost, [Next]_vars PROVE NoHitLost'
    OBVIOUS
  <1>1. /\ settled \in Seq(Hit) /\ chan \in Seq(Hit)
        /\ InHand \in Seq(Hit)
    BY DEF TypeInv, TypeOK, ProveType, ChanType, InHand
  <1>2. ASSUME UNCHANGED <<proveVars, chanVars>> PROVE NoHitLost'
    BY <1>2 DEF NoHitLost, InHand, proveVars, chanVars
  <1>3. CASE (\E p \in Prev : NodeOffers(p)) \/ FetchTemplate \/ PublishTemplate
    BY <1>2, <1>3 DEF NodeOffers, FetchTemplate, PublishTemplate
  <1>4. CASE MainStep \/ UNCHANGED vars
    BY <1>2, <1>4 DEF MainStep, DropSender, JoinWorkers, JoinPoller, vars
  <1>5. ASSUME NEW w \in Worker, WorkerStep(w) \/ WorkerFails(w) \/ WorkerPanics(w)
        PROVE  NoHitLost'
    <2>1. CASE SendHit(w)
      <3>1. PICK h \in hits[w] : (ReceiverAlive /\ Enqueue(h)) \/ UNCHANGED chanVars
        BY <2>1 DEF SendHit
      <3>2. UNCHANGED proveVars /\ h \in Hit
        BY <2>1, <3>1 DEF SendHit, TypeInv, TypeOK, WorkType
      <3>3. CASE ReceiverAlive /\ Enqueue(h)
        <4>1. sent = settled \o InHand \o chan
          BY <3>3 DEF NoHitLost, ReceiverAlive
        <4>2. (settled \o InHand) \in Seq(Hit) /\ <<h>> \in Seq(Hit)
          BY <1>1, <3>2, ConcatProperties
        <4>3. sent' = (settled \o InHand \o chan) \o <<h>> /\ chan' = chan \o <<h>>
          BY <1>1, <3>2, <3>3, <4>1, <4>2, AppendIsConcat, ConcatProperties DEF Enqueue
        <4>4. sent' = (settled \o InHand) \o (chan \o <<h>>)
          BY <1>1, <4>2, <4>3, ConcatAssociative
        <4> QED BY <3>2, <4>3, <4>4 DEF NoHitLost, InHand, proveVars
      <3> QED BY <1>2, <3>1, <3>2, <3>3
    <2>2. CASE ~SendHit(w)
      BY <1>2, <1>5, <2>2
         DEF WorkerStep, WorkerFails, WorkerPanics, OpenDevice, TakeTemplate, KeepJob,
             BuildJob, LoadJob, RunBatch, Snapshot, EndBatch
    <2> QED BY <2>1, <2>2
  <1>6. CASE Receive
    <2>1. cur = NoHit /\ InHand = <<>> /\ sent = settled \o <<>> \o chan
      BY <1>6 DEF Receive, NoHitLost, InHand, TypeInv, TypeOK, ProveType
    <2>2. chan = <<Head(chan)>> \o Tail(chan) /\ Head(chan) \in Hit
          /\ Tail(chan) \in Seq(Hit)
      BY <1>1, <1>6, HeadTailProperties, ConcatProperties DEF Receive
    <2>3. sent = settled \o chan
      BY <1>1, <2>1, ConcatEmptySeq
    <2>4. sent = settled \o <<Head(chan)>> \o Tail(chan)
      <3>1. <<Head(chan)>> \in Seq(Hit)
        BY <2>2
      <3>2. settled \o (<<Head(chan)>> \o Tail(chan)) = settled \o <<Head(chan)>> \o Tail(chan)
        BY <1>1, <2>2, <3>1, ConcatAssociative
      <3> QED BY <2>2, <2>3, <3>2
    <2>5. InHand' = <<Head(chan)>>
      BY <1>6, <2>2, NoHitAssumption DEF Receive, InHand
    <2> QED BY <1>6, <2>4, <2>5 DEF Receive, NoHitLost
  <1>7. CASE Disconnect \/ ProofBuilt
    BY <1>7 DEF Disconnect, ProofBuilt, NoHitLost, InHand, chanVars
  <1>8. CASE ProofFails \/ SubmitTaken(TRUE) \/ SubmitTaken(FALSE) \/ SubmitRefused
    BY <1>8, SettleKeepsOrder
       DEF ProofFails, SubmitTaken, SubmitRefused
  <1>9. CASE PollerPanics
    BY <1>9 DEF PollerPanics, NoHitLost
  <1> QED BY <1>3, <1>4, <1>5, <1>6, <1>7, <1>8, <1>9 DEF Next, HitPollerStep, Exited

(* While the hit poller lives, the hits sent are, in order, those settled, *)
(* the one in hand and those queued: the channel loses and reorders none.  *)
THEOREM HitsAreConserved == Spec => []NoHitLost
  <1>1. Init => NoHitLost
    BY DEF Init, NoHitLost, InHand
  <1> QED BY <1>1, NoHitLostNext, TypeCorrect, PTL DEF Spec

-----------------------------------------------------------------------------
(* Candidates are searched once.                                           *)

(* PEARL_DEVICES names each device once, as its default does.              *)
DistinctDevices == \A v, w \in Worker : DeviceOf[v] = DeviceOf[w] => v = w

(* What was searched on a worker's device lies below its counter.          *)
SearchedBelow ==
  \A u \in mined : \A w \in Worker : u.dev = DeviceOf[w] => u.iter < iter[w]

(* Only a batch touches the counters and the candidates searched.          *)
LEMMA OnlyBatchesSearch ==
  ASSUME [Next]_vars, \A w \in Worker : ~RunBatch(w)
  PROVE  UNCHANGED <<mined, iter>>
  BY DEF Next, NodeOffers, FetchTemplate, PublishTemplate, WorkerStep, WorkerFails,
         WorkerPanics, OpenDevice, TakeTemplate, KeepJob, BuildJob, LoadJob, Snapshot,
         SendHit, EndBatch, HitPollerStep, Receive, Disconnect, ProofBuilt, ProofFails,
         SubmitTaken, SubmitRefused, PollerPanics, MainStep, DropSender,
         JoinWorkers, JoinPoller, Exited, vars, workVars

(* A batch searches from the counter on and moves it past what it searched. *)
LEMMA SearchedBelowNext ==
  DistinctDevices /\ TypeInv /\ SearchedBelow /\ [Next]_vars => SearchedBelow'
  <1> SUFFICES ASSUME DistinctDevices, TypeInv, SearchedBelow, [Next]_vars
               PROVE  SearchedBelow'
    OBVIOUS
  <1>1. ASSUME NEW w \in Worker, RunBatch(w) PROVE SearchedBelow'
    <2>1. /\ iter \in [Worker -> Nat] /\ RingSize \in Nat \ {0}
          /\ mined \subseteq Candidate
      BY LiveMinerAssumption DEF TypeInv, TypeOK, WorkType
    <2>2. /\ mined' = mined \cup Batch(w)
          /\ iter' = [iter EXCEPT ![w] = iter[w] + RingSize]
      BY <1>1 DEF RunBatch
    <2> SUFFICES ASSUME NEW u \in mined', NEW v \in Worker, u.dev = DeviceOf[v]
                 PROVE  u.iter < iter'[v]
      BY DEF SearchedBelow
    <2>3. CASE u \in mined
      BY <2>1, <2>2, <2>3 DEF SearchedBelow, Candidate
    <2>4. CASE u \in Batch(w)
      <3>1. u.dev = DeviceOf[w] /\ u.iter \in BatchIters(w)
        BY <2>4 DEF Batch
      <3>2. v = w
        BY <3>1 DEF DistinctDevices
      <3> QED BY <2>1, <2>2, <3>1, <3>2 DEF BatchIters
    <2> QED BY <2>2, <2>3, <2>4
  <1>2. CASE \A w \in Worker : ~RunBatch(w)
    BY <1>2, OnlyBatchesSearch DEF SearchedBelow
  <1> QED BY <1>1, <1>2

(* A step that moves a counter searches nothing that was searched.         *)
LEMMA BatchIsNew ==
  ASSUME DistinctDevices, TypeInv, SearchedBelow, [Next]_vars
  PROVE  \A w \in Worker :
           iter'[w] # iter[w] => \A c \in Batch(w), d \in mined : ~SameSearch(c, d)
  <1> SUFFICES ASSUME NEW w \in Worker, NEW c \in Batch(w), NEW d \in mined,
                      c.dev = d.dev, c.iter = d.iter
               PROVE  FALSE
    BY DEF SameSearch
  <1>1. d.dev = DeviceOf[w] /\ d.iter \in BatchIters(w)
    BY DEF Batch
  <1>2. d.iter < iter[w]
    BY <1>1 DEF SearchedBelow
  <1> QED BY <1>1, <1>2, LiveMinerAssumption
          DEF BatchIters, TypeInv, TypeOK, WorkType

(* What lies below the counters, in every reachable state.                 *)
LEMMA SearchedBelowAlways == DistinctDevices => (Spec => []SearchedBelow)
  <1> SUFFICES ASSUME DistinctDevices PROVE Spec => []SearchedBelow
    OBVIOUS
  <1>1. Init => SearchedBelow
    BY DEF Init, SearchedBelow
  <1>2. TypeInv /\ SearchedBelow /\ [Next]_vars => SearchedBelow'
    BY SearchedBelowNext
  <1> QED BY <1>1, <1>2, TypeCorrect, PTL DEF Spec

(* With distinct devices no search is ever repeated: not by the same       *)
(* worker when the tip returns, and not by another worker on one tip.      *)
THEOREM NeverSearchesTwice == DistinctDevices => (Spec => NoRepeatedWork)
  <1> SUFFICES ASSUME DistinctDevices PROVE Spec => NoRepeatedWork
    OBVIOUS
  <1>1. TypeInv /\ SearchedBelow /\ [Next]_vars =>
          [\A w \in Worker :
             iter'[w] # iter[w] => \A c \in Batch(w), d \in mined : ~SameSearch(c, d)]_vars
    BY BatchIsNew
  <1> QED BY <1>1, SearchedBelowAlways, TypeCorrect, PTL DEF Spec, NoRepeatedWork

-----------------------------------------------------------------------------
(* The end of the process.                                                 *)

AllEnded == \A w \in Worker : Ended(w)

(* Main only drains when all workers are joined and only exits when the    *)
(* hit poller is; the poller only leaves its loop when no sender is left   *)
(* and nothing is queued.  first_err is what the workers returned.         *)
StopsInOrder ==
  /\ mpc \in {"drain", "exited"} => AllEnded
  /\ mpc \in {"drain", "exited"} => (firstErr <=> \E w \in Worker : wpc[w] = "err")
  /\ mpc = "exited" => ppc \in {"done", "dead"}
  /\ ppc = "done" => AllEnded /\ chan = <<>> /\ mpc # "spawning"
  /\ \A w \in Worker : wpc[w] = "ok" => QuotaMet(w)

(* A worker that has ended takes no step.                                  *)
LEMMA EndedStays ==
  ASSUME TypeInv, NEW w \in Worker, WorkerStep(w) \/ WorkerFails(w) \/ WorkerPanics(w)
  PROVE  ~Ended(w) /\ Running
  BY DEF WorkerStep, WorkerFails, WorkerPanics, OpenDevice, TakeTemplate, KeepJob,
         BuildJob, LoadJob, RunBatch, Snapshot, SendHit, EndBatch, Goto, Ended, Fallible

(* A worker's step comes before main's joins and the poller's end, because *)
(* they wait for it; it ends with ok only past the quota.                  *)
LEMMA WorkerStopsInOrder ==
  ASSUME TypeInv, StopsInOrder, NEW w \in Worker,
         WorkerStep(w) \/ WorkerFails(w) \/ WorkerPanics(w)
  PROVE  StopsInOrder'
  <1>1. ~Ended(w) /\ Running
    BY EndedStays
  <1>2. mpc \in {"spawning", "join"} /\ ppc # "done"
    BY <1>1 DEF StopsInOrder, AllEnded, Running, TypeInv, TypeOK, MainType
  <1>3. UNCHANGED <<mpc, ppc>>
    BY DEF WorkerStep, WorkerFails, WorkerPanics, OpenDevice, TakeTemplate, KeepJob,
           BuildJob, LoadJob, RunBatch, Snapshot, SendHit, EndBatch, mainVars, proveVars
  <1>4. \A v \in Worker : wpc'[v] = "ok" => QuotaMet(v)'
    <2>1. wpc = [v \in Worker |-> wpc[v]] /\ iter \in [Worker -> Nat]
      BY DEF TypeInv, TypeOK, WorkType
    <2>2. CASE EndBatch(w)
      BY <2>1, <2>2 DEF EndBatch, Goto, QuotaMet, StopsInOrder
    <2>3. CASE RunBatch(w)
      <3>1. wpc'[w] # "ok" /\ \A v \in Worker \ {w} : wpc'[v] = wpc[v] /\ iter'[v] = iter[v]
        BY <2>1, <2>3 DEF RunBatch
      <3> QED BY <3>1 DEF QuotaMet, StopsInOrder
    <2>4. CASE SendHit(w)
      <3>1. UNCHANGED iter /\ wpc'[w] # "ok" /\ \A v \in Worker \ {w} : wpc'[v] = wpc[v]
        BY <2>1, <2>4 DEF SendHit
      <3> QED BY <3>1 DEF QuotaMet, StopsInOrder
    <2>5. CASE WorkerFails(w) \/ WorkerPanics(w)
      BY <2>1, <2>5 DEF WorkerFails, WorkerPanics, End, QuotaMet, StopsInOrder
    <2>6. CASE OpenDevice(w) \/ TakeTemplate(w) \/ KeepJob(w) \/ BuildJob(w) \/ LoadJob(w)
                 \/ Snapshot(w)
      BY <2>1, <2>6 DEF OpenDevice, TakeTemplate, KeepJob, BuildJob, LoadJob, Snapshot,
                        Goto, QuotaMet, StopsInOrder
    <2> QED BY <2>2, <2>3, <2>4, <2>5, <2>6 DEF WorkerStep
  <1> QED BY <1>2, <1>3, <1>4 DEF StopsInOrder

(* The other threads: recv ends the poller only without senders, and main  *)
(* joins first the workers and then the poller.                            *)
LEMMA StopsInOrderNext == TypeInv /\ StopsInOrder /\ [Next]_vars => StopsInOrder'
  <1> SUFFICES ASSUME TypeInv, StopsInOrder, [Next]_vars PROVE StopsInOrder'
    OBVIOUS
  <1> USE DEF StopsInOrder, AllEnded, Ended, QuotaMet
  <1>1. CASE (\E p \in Prev : NodeOffers(p)) \/ FetchTemplate \/ PublishTemplate
    BY <1>1 DEF NodeOffers, FetchTemplate, PublishTemplate, workVars, proveVars, chanVars,
                mainVars
  <1>2. CASE HitPollerStep \/ PollerPanics
    <2>1. UNCHANGED <<wpc, iter, mpc, firstErr>> /\ Running /\ ppc # "done" /\ ppc # "dead"
      BY <1>2 DEF HitPollerStep, PollerPanics, Receive, Disconnect, ProofBuilt, ProofFails,
                  SubmitTaken, SubmitRefused, workVars, mainVars
    <2>2. CASE Disconnect
      BY <2>1, <2>2 DEF Disconnect, SendersGone, chanVars, Running
    <2>3. CASE ~Disconnect
      <3>1. ppc' # "done"
        BY <1>2, <2>3 DEF HitPollerStep, PollerPanics, Receive, ProofBuilt, ProofFails,
                          SubmitTaken, SubmitRefused, Settle
      <3> QED BY <2>1, <3>1 DEF Running
    <2> QED BY <2>2, <2>3
  <1>3. CASE MainStep
    <2>1. UNCHANGED <<wpc, iter, ppc, chan>>
      BY <1>3 DEF MainStep, DropSender, JoinWorkers, JoinPoller, workVars, proveVars,
                  chanVars
    <2>2. CASE DropSender
      BY <2>1, <2>2 DEF DropSender
    <2>3. CASE JoinWorkers
      <3>1. firstErr' <=> \E w \in Worker : wpc[w] = "err"
        BY <2>3, Zenon DEF JoinWorkers
      <3>2. AllEnded /\ mpc' = "drain"
        BY <2>3 DEF JoinWorkers
      <3> QED BY <2>1, <3>1, <3>2
    <2>4. CASE JoinPoller
      BY <2>1, <2>4 DEF JoinPoller, PollerJoined
    <2> QED BY <1>3, <2>2, <2>3, <2>4 DEF MainStep
  <1>4. CASE UNCHANGED vars
    BY <1>4 DEF vars, workVars, proveVars, chanVars, mainVars
  <1> QED BY <1>1, <1>2, <1>3, <1>4, WorkerStopsInOrder DEF Next, Exited

(* The order in which the threads stop, in every reachable state.          *)
LEMMA StopsInOrderAlways == Spec => []StopsInOrder
  <1>1. Init => StopsInOrder
    BY DEF Init, StopsInOrder
  <1> QED BY <1>1, StopsInOrderNext, TypeCorrect, PTL DEF Spec

(* The process is gone only when every worker has returned and, unless the *)
(* hit poller died, every hit that was ever sent is settled.               *)
THEOREM ExitsOnlyDrained == Spec => []DrainedOnExit
  <1>1. TypeInv /\ NoHitLost /\ StopsInOrder => DrainedOnExit
    <2> SUFFICES ASSUME TypeInv, NoHitLost, StopsInOrder, mpc = "exited",
                        ppc # "dead"
                 PROVE  settled = sent
      BY DEF DrainedOnExit, StopsInOrder, AllEnded
    <2>1. chan = <<>> /\ InHand = <<>>
      BY DEF StopsInOrder, TypeInv, TypeOK, ProveType, InHand
    <2>2. sent = settled \o <<>> \o <<>> /\ settled \in Seq(Hit)
      BY <2>1 DEF NoHitLost, TypeInv, TypeOK, ProveType
    <2> QED BY <2>2, ConcatEmptySeq
  <1> QED BY <1>1, TypeCorrect, HitsAreConserved, StopsInOrderAlways, PTL

(* What is searched, and what the quota asks: until its next batch ends a  *)
(* worker has not met the quota, and while no worker has failed each batch *)
(* launched is counted or in the hands of the worker that will count it.   *)
Counting == {w \in Worker : wpc[w] \in {"snapshot", "send", "account"}}
ShortOfQuota ==
  \A w \in Worker :
    wpc[w] \in {"open", "check", "build", "load", "batch", "panicked"} => ~QuotaMet(w)
AllCounted ==
  (\A w \in Worker : wpc[w] # "err") =>
    Cardinality(mined) = totalIters + RingSize * Cardinality(Counting)
QuotaInv == IsFiniteSet(mined) /\ ShortOfQuota /\ AllCounted

(* The iterations of one batch more.                                       *)
LEMMA OneMoreBatch ==
  ASSUME NEW r \in Nat, NEW n \in Nat
  PROVE  r * (n + 1) = r * n + r /\ r * n \in Nat
  <1>1. r * (n + 1) = r * n + r
    OBVIOUS
  <1>2. r * n \in Nat
    OBVIOUS
  <1> QED BY <1>1, <1>2

(* A batch has RingSize candidates.                                        *)
LEMMA BatchSize ==
  ASSUME TypeInv, NEW w \in Worker
  PROVE  IsFiniteSet(Batch(w)) /\ Cardinality(Batch(w)) = RingSize
  <1>1. iter[w] \in Nat /\ RingSize \in Nat \ {0}
    BY LiveMinerAssumption DEF TypeInv, TypeOK, WorkType
  <1>2. IsFiniteSet(BatchIters(w)) /\ Cardinality(BatchIters(w)) = RingSize
    <2>1. PICK a \in Int, b \in Int :
            a = iter[w] /\ b = iter[w] + RingSize - 1 /\ ~(a > b) /\ b - a + 1 = RingSize
      BY <1>1
    <2>2. BatchIters(w) = a..b
      BY <2>1 DEF BatchIters
    <2>3. IsFiniteSet(a..b) /\ Cardinality(a..b) = b - a + 1
      BY <2>1, FS_Interval
    <2> QED BY <2>1, <2>2, <2>3
  <1> DEFINE c(i) == [dev |-> DeviceOf[w], tpl |-> loaded[w], iter |-> i]
             f == [i \in BatchIters(w) |-> c(i)]
  <1>3. f \in Bijection(BatchIters(w), Batch(w))
    <2>1. \A i \in BatchIters(w) : f[i] \in Batch(w)
      BY DEF Batch
    <2>2. \A i, j \in BatchIters(w) : f[i] = f[j] => i = j
      <3> SUFFICES ASSUME NEW i \in BatchIters(w), NEW j \in BatchIters(w), c(i) = c(j)
                   PROVE  i = j
        OBVIOUS
      <3>1. c(i).iter = i /\ c(j).iter = j
        OBVIOUS
      <3> QED BY <3>1
    <2>3. \A u \in Batch(w) : \E i \in BatchIters(w) : f[i] = u
      BY DEF Batch
    <2> QED BY <2>1, <2>2, <2>3, Fun_IsBij
  <1>4. ExistsBijection(BatchIters(w), Batch(w))
    BY <1>3 DEF ExistsBijection
  <1> QED BY <1>2, <1>4, FS_Bijection

(* A batch adds RingSize candidates, none of them searched before, and its *)
(* worker to those that have a batch to count.                             *)
LEMMA RunBatchQuota ==
  ASSUME DistinctDevices, TypeInv, SearchedBelow, QuotaInv, NEW w \in Worker, RunBatch(w)
  PROVE  QuotaInv'
  <1>1. /\ wpc[w] = "batch" /\ wpc = [v \in Worker |-> wpc[v]] /\ mined' = mined \cup Batch(w)
        /\ iter' = [iter EXCEPT ![w] = iter[w] + RingSize]
        /\ totalIters' = totalIters /\ totalIters \in Nat /\ RingSize \in Nat
    BY LiveMinerAssumption DEF RunBatch, TypeInv, TypeOK, WorkType
  <1>2. PICK to \in {"account", "snapshot"} : wpc' = [wpc EXCEPT ![w] = to]
    BY DEF RunBatch
  <1>3. IsFiniteSet(Batch(w)) /\ Cardinality(Batch(w)) = RingSize
    BY BatchSize
  <1>4. Batch(w) \cap mined = {}
    <2> SUFFICES ASSUME NEW u \in Batch(w), u \in mined PROVE FALSE
      OBVIOUS
    <2>1. u.dev = DeviceOf[w] /\ u.iter \in BatchIters(w)
      BY DEF Batch
    <2>2. u.iter < iter[w]
      BY <2>1 DEF SearchedBelow
    <2> QED BY <2>1, <2>2, LiveMinerAssumption DEF BatchIters, TypeInv, TypeOK, WorkType
  <1>5. /\ IsFiniteSet(mined') /\ Cardinality(mined) \in Nat
        /\ Cardinality(mined') = Cardinality(mined) + RingSize
    <2>1. IsFiniteSet(mined) /\ Cardinality(mined) \in Nat
      BY FS_CardinalityType DEF QuotaInv
    <2>2. /\ IsFiniteSet(mined \cup Batch(w))
          /\ Cardinality(mined \cup Batch(w)) =
               Cardinality(mined) + Cardinality(Batch(w)) - Cardinality(mined \cap Batch(w))
      BY <1>3, <2>1, FS_Union
    <2>3. mined \cap Batch(w) = {} /\ Cardinality({}) = 0
      BY <1>4, FS_EmptySet
    <2>4. Cardinality(mined \cup Batch(w)) = Cardinality(mined) + RingSize
      <3>1. Cardinality(mined \cup Batch(w)) = Cardinality(mined) + RingSize - 0
        BY <1>3, <2>2, <2>3, Zenon
      <3> QED BY <1>1, <2>1, <3>1
    <2> QED BY <1>1, <2>1, <2>2, <2>4
  <1>6. /\ Cardinality(Counting) \in Nat
        /\ Cardinality(Counting') = Cardinality(Counting) + 1
    <2>1. Counting' = Counting \cup {w} /\ w \notin Counting
      BY <1>1, <1>2 DEF Counting
    <2>2. IsFiniteSet(Counting)
      BY LiveMinerAssumption, FS_Subset DEF Counting
    <2> QED BY <2>1, <2>2, FS_AddElement, FS_CardinalityType
  <1>7. ShortOfQuota'
    BY <1>1, <1>2 DEF QuotaInv, ShortOfQuota, QuotaMet
  <1>8. AllCounted'
    <2> DEFINE n == Cardinality(Counting)
    <2>1. RingSize * (n + 1) = RingSize * n + RingSize /\ RingSize * n \in Nat
      BY <1>1, <1>6, OneMoreBatch
    <2>2. (\A v \in Worker : wpc'[v] # "err") => \A v \in Worker : wpc[v] # "err"
      BY <1>1, <1>2
    <2>3. AllCounted
      BY DEF QuotaInv
    <2> HIDE DEF n
    <2>4. ASSUME \A v \in Worker : wpc'[v] # "err"
          PROVE  Cardinality(mined') = totalIters' + RingSize * Cardinality(Counting')
      <3>1. Cardinality(mined) = totalIters + RingSize * n
        BY <2>2, <2>3, <2>4 DEF AllCounted, n
      <3>2. Cardinality(Counting') = n + 1
        BY <1>6 DEF n
      <3> QED BY <1>1, <1>5, <2>1, <3>1, <3>2
    <2> QED BY <2>4 DEF AllCounted
  <1> QED BY <1>5, <1>7, <1>8 DEF QuotaInv

(* Its end moves RingSize iterations from the worker to the counter; the   *)
(* worker goes on exactly when the quota is not met.                       *)
LEMMA EndBatchQuota ==
  ASSUME TypeInv, QuotaInv, NEW w \in Worker, EndBatch(w)
  PROVE  QuotaInv'
  <1>1. /\ wpc[w] = "account" /\ wpc = [v \in Worker |-> wpc[v]]
        /\ totalIters' = totalIters + RingSize /\ totalIters \in Nat /\ RingSize \in Nat
        /\ UNCHANGED <<mined, iter>>
    BY LiveMinerAssumption DEF EndBatch, Counted, Goto, TypeInv, TypeOK, WorkType
  <1>2. wpc' = [wpc EXCEPT ![w] = IF QuotaMet(w) THEN "ok" ELSE "check"]
    BY DEF EndBatch, Goto
  <1>3. ShortOfQuota'
    BY <1>1, <1>2 DEF QuotaInv, ShortOfQuota, QuotaMet
  <1>4. /\ Cardinality(Counting') \in Nat
        /\ Cardinality(Counting) = Cardinality(Counting') + 1
    <2>1. Counting' = Counting \ {w} /\ w \in Counting
      BY <1>1, <1>2 DEF Counting
    <2>2. IsFiniteSet(Counting) /\ IsFiniteSet(Counting \ {w})
      BY LiveMinerAssumption, FS_Subset, FS_RemoveElement DEF Counting
    <2>3. Cardinality(Counting \ {w}) = Cardinality(Counting) - 1
      BY <2>1, <2>2, FS_RemoveElement
    <2>4. Cardinality(Counting) \in Nat /\ Cardinality(Counting \ {w}) \in Nat
      BY <2>2, FS_CardinalityType
    <2> QED BY <2>1, <2>3, <2>4
  <1>5. AllCounted'
    <2> DEFINE n == Cardinality(Counting')
    <2>1. RingSize * (n + 1) = RingSize * n + RingSize /\ RingSize * n \in Nat
      BY <1>1, <1>4, OneMoreBatch
    <2>2. (\A v \in Worker : wpc'[v] # "err") => \A v \in Worker : wpc[v] # "err"
      BY <1>1, <1>2
    <2>3. AllCounted
      BY DEF QuotaInv
    <2> HIDE DEF n
    <2>4. ASSUME \A v \in Worker : wpc'[v] # "err"
          PROVE  Cardinality(mined') = totalIters' + RingSize * n
      <3>1. Cardinality(mined) = totalIters + RingSize * Cardinality(Counting)
        BY <2>2, <2>3, <2>4 DEF AllCounted
      <3>2. Cardinality(Counting) = n + 1
        BY <1>4 DEF n
      <3> QED BY <1>1, <2>1, <3>1, <3>2
    <2> QED BY <2>4 DEF AllCounted, n
  <1> QED BY <1>1, <1>3, <1>5 DEF QuotaInv

(* A step that neither launches nor counts, takes no worker into or out of *)
(* the batches to count except by an error, and panics none past its quota.*)
LEMMA SameQuota ==
  ASSUME TypeInv, QuotaInv, UNCHANGED <<mined, iter, totalIters>>,
         \A w \in Worker :
           /\ wpc[w] = "err" => wpc'[w] = "err"
           /\ \/ wpc'[w] = "err"
              \/ /\ w \in Counting' <=> w \in Counting
                 /\ wpc'[w] \in {"open", "check", "build", "load", "batch", "panicked"} =>
                      wpc[w] \in {"open", "check", "build", "load", "batch", "panicked"}
  PROVE  QuotaInv'
  <1>1. ShortOfQuota'
    BY DEF QuotaInv, ShortOfQuota, QuotaMet
  <1>2. AllCounted'
    <2> SUFFICES ASSUME \A w \in Worker : wpc'[w] # "err"
                 PROVE  Cardinality(mined') = totalIters' + RingSize * Cardinality(Counting')
      BY DEF AllCounted
    <2>1. \A w \in Worker : wpc[w] # "err"
      OBVIOUS
    <2>2. Counting' = Counting
      <3>1. Counting' \subseteq Worker /\ Counting \subseteq Worker
        BY DEF Counting
      <3> QED BY <3>1
    <2> QED BY <2>1, <2>2 DEF QuotaInv, AllCounted
  <1> QED BY <1>1, <1>2 DEF QuotaInv

(* Every step keeps the account.                                           *)
LEMMA QuotaInvNext ==
  DistinctDevices /\ TypeInv /\ SearchedBelow /\ QuotaInv /\ [Next]_vars => QuotaInv'
  <1> SUFFICES ASSUME DistinctDevices, TypeInv, SearchedBelow, QuotaInv, [Next]_vars
               PROVE  QuotaInv'
    OBVIOUS
  <1>0. wpc = [v \in Worker |-> wpc[v]]
    BY DEF TypeInv, TypeOK, WorkType
  <1>1. ASSUME NEW w \in Worker, WorkerStep(w) \/ WorkerFails(w) \/ WorkerPanics(w)
        PROVE  QuotaInv'
    <2>1. CASE WorkerFails(w) \/ WorkerPanics(w)
      <3>1. /\ UNCHANGED <<mined, iter, totalIters>>
            /\ \/ wpc' = [wpc EXCEPT ![w] = "err"]
               \/ /\ wpc[w] \in {"open", "build", "load"}
                  /\ wpc' = [wpc EXCEPT ![w] = "panicked"]
        BY <2>1 DEF WorkerFails, WorkerPanics, End
      <3> QED BY <1>0, <3>1, SameQuota DEF Counting
    <2>2. CASE Snapshot(w) \/ SendHit(w)
      <3>1. /\ UNCHANGED <<mined, iter, totalIters>>
            /\ wpc[w] \in {"snapshot", "send"}
            /\ \E to \in {"send", "account"} : wpc' = [wpc EXCEPT ![w] = to]
        BY <2>2 DEF Snapshot, SendHit, Goto
      <3> QED BY <1>0, <3>1, SameQuota DEF Counting
    <2>3. CASE OpenDevice(w) \/ TakeTemplate(w) \/ KeepJob(w) \/ BuildJob(w) \/ LoadJob(w)
      <3>1. /\ UNCHANGED <<mined, iter, totalIters>>
            /\ wpc[w] \in {"open", "check", "build", "load"}
            /\ \E to \in {"check", "build", "load", "batch"} :
                 wpc' = [wpc EXCEPT ![w] = to]
        BY <2>3 DEF OpenDevice, TakeTemplate, KeepJob, BuildJob, LoadJob, Goto
      <3> QED BY <1>0, <3>1, SameQuota DEF Counting
    <2> QED BY <1>1, <2>1, <2>2, <2>3, RunBatchQuota, EndBatchQuota DEF WorkerStep
  <1>2. CASE UNCHANGED <<wpc, mined, iter, totalIters>>
    BY <1>2, SameQuota DEF Counting
  <1>3. \/ UNCHANGED <<wpc, mined, iter, totalIters>>
        \/ \E w \in Worker : WorkerStep(w) \/ WorkerFails(w) \/ WorkerPanics(w)
    BY DEF Next, NodeOffers, FetchTemplate, PublishTemplate, HitPollerStep, Receive,
       Disconnect, ProofBuilt, ProofFails, SubmitTaken, SubmitRefused, PollerPanics,
       MainStep, DropSender, JoinWorkers, JoinPoller, Exited, vars, workVars
  <1> QED BY <1>1, <1>2, <1>3

(* With distinct devices, exit code 0 means that the counter has every     *)
(* iteration launched and that exactly the workers that panicked are short *)
(* of MAX_ITERS.                                                           *)
THEOREM ExitZeroMeansQuota == DistinctDevices => (Spec => []SuccessMeansQuota)
  <1> SUFFICES ASSUME DistinctDevices PROVE Spec => []SuccessMeansQuota
    OBVIOUS
  <1>1. Init => QuotaInv
    <2> SUFFICES ASSUME Init PROVE QuotaInv
      OBVIOUS
    <2>1. mined = {} /\ totalIters = 0 /\ Counting = {}
      BY DEF Init, Counting
    <2>2. RingSize \in Nat /\ MaxIters \in Nat /\ Cardinality({}) = 0 /\ IsFiniteSet({})
      BY LiveMinerAssumption, FS_EmptySet
    <2>3. ShortOfQuota
      BY <2>2 DEF Init, ShortOfQuota, QuotaMet
    <2> QED BY <2>1, <2>2, <2>3 DEF QuotaInv, AllCounted
  <1>2. StopsInOrder /\ TypeInv /\ QuotaInv => SuccessMeansQuota
    <2> SUFFICES ASSUME StopsInOrder, TypeInv, QuotaInv, mpc = "exited", ~firstErr
                 PROVE  /\ totalIters = Cardinality(mined)
                        /\ \A w \in Worker : wpc[w] = "panicked" <=> ~QuotaMet(w)
      BY DEF SuccessMeansQuota, QuotaMet
    <2>1. \A w \in Worker : wpc[w] \in {"ok", "panicked"}
      BY DEF StopsInOrder, AllEnded, Ended
    <2>2. Counting = {} /\ \A w \in Worker : wpc[w] # "err"
      BY <2>1 DEF Counting
    <2>3. totalIters = Cardinality(mined)
      BY <2>2, LiveMinerAssumption, FS_EmptySet
         DEF QuotaInv, AllCounted, TypeInv, TypeOK, WorkType
    <2>4. \A w \in Worker : wpc[w] = "panicked" <=> ~QuotaMet(w)
      BY <2>1 DEF StopsInOrder, QuotaInv, ShortOfQuota
    <2> QED BY <2>3, <2>4
  <1>3. Spec => []QuotaInv
    BY <1>1, QuotaInvNext, SearchedBelowAlways, TypeCorrect, PTL DEF Spec
  <1> QED BY <1>2, <1>3, StopsInOrderAlways, TypeCorrect, PTL

-----------------------------------------------------------------------------
(* Stale work.                                                             *)

(* current_prev is the tip of the job being built or mined, and a worker   *)
(* that has begun a batch for a replaced tip has, before its next batch,   *)
(* looked at the cell again.                                               *)
TipOf(w) == IF wpc[w] \in {"build", "load"} THEN building[w]
            ELSE IF Ended(w) THEN NoTemplate ELSE job[w]
StaleInv ==
  \A w \in Worker :
    /\ TipOf(w) # NoTemplate => curPrev[w] = chain[TipOf(w)]
    /\ wpc[w] \in {"build", "load", "batch"} /\ lag[w] > 0 => curPrev[w] = chain[cell]
    /\ lag[w] <= 1

(* A worker's step leaves what is said of the other workers alone.         *)
LEMMA StaleOthers ==
  ASSUME TypeInv, StaleInv, NEW w \in Worker, UNCHANGED <<chain, cell>>,
         \A v \in Worker \ {w} :
           /\ wpc'[v] = wpc[v] /\ building'[v] = building[v] /\ job'[v] = job[v]
           /\ curPrev'[v] = curPrev[v] /\ lag'[v] = lag[v],
         (TipOf(w) # NoTemplate => curPrev[w] = chain[TipOf(w)])',
         (wpc[w] \in {"build", "load", "batch"} /\ lag[w] > 0 => curPrev[w] = chain[cell])',
         (lag[w] <= 1)'
  PROVE  StaleInv'
  BY DEF StaleInv, TipOf, Ended

(* The check compares with the cell; between it and the next batch either  *)
(* the cell changes, which starts the count again, or it does not.         *)
LEMMA StaleWorker ==
  ASSUME TypeInv, StaleInv, NEW w \in Worker,
         WorkerStep(w) \/ WorkerFails(w) \/ WorkerPanics(w)
  PROVE  StaleInv'
  <1> USE DEF TipOf, Ended
  <1>1. /\ wpc = [v \in Worker |-> wpc[v]] /\ building \in [Worker -> Nat]
        /\ job \in [Worker -> Nat] /\ lag \in [Worker -> Nat]
        /\ curPrev \in [Worker -> Prev \cup {NoPrev}]
    BY DEF TypeInv, TypeOK, WorkType, TplType
  <1>2. /\ TipOf(w) # NoTemplate => curPrev[w] = chain[TipOf(w)]
        /\ wpc[w] \in {"build", "load", "batch"} /\ lag[w] > 0 => curPrev[w] = chain[cell]
        /\ lag[w] <= 1
    BY DEF StaleInv
  <1>3. UNCHANGED <<chain, cell>>
    BY DEF WorkerStep, WorkerFails, WorkerPanics, OpenDevice, TakeTemplate, KeepJob,
           BuildJob, LoadJob, RunBatch, Snapshot, SendHit, EndBatch, tplVars
  <1>4. CASE RunBatch(w)
    <2>1. job[w] # NoTemplate /\ wpc[w] = "batch"
      BY <1>4 DEF RunBatch, TypeInv, JobWhenMining, Mining
    <2>2. /\ lag' = [lag EXCEPT ![w] = IF chain[job[w]] # chain[cell] THEN lag[w] + 1
                                       ELSE lag[w]]
          /\ UNCHANGED <<building, job, curPrev>>
      BY <1>4 DEF RunBatch
    <2>3. /\ wpc'[w] \in {"account", "snapshot"}
          /\ \A v \in Worker \ {w} : wpc'[v] = wpc[v]
      BY <1>1, <1>4 DEF RunBatch
    <2>4. lag'[w] <= 1
      BY <1>1, <1>2, <2>1, <2>2
    <2> QED BY <1>1, <1>2, <1>3, <2>1, <2>2, <2>3, <2>4, StaleOthers
  <1>5. CASE TakeTemplate(w)
    <2>1. /\ wpc' = [wpc EXCEPT ![w] = "build"]
          /\ curPrev' = [curPrev EXCEPT ![w] = chain[cell]]
          /\ building' = [building EXCEPT ![w] = cell]
          /\ UNCHANGED <<job, lag>>
      BY <1>5 DEF TakeTemplate, Goto
    <2> QED BY <1>1, <1>2, <1>3, <2>1, StaleOthers
  <1>6. CASE LoadJob(w)
    <2>1. /\ wpc[w] = "load" /\ wpc' = [wpc EXCEPT ![w] = "batch"]
          /\ job' = [job EXCEPT ![w] = building[w]]
          /\ UNCHANGED <<building, curPrev, lag>>
      BY <1>6 DEF LoadJob, Goto
    <2> QED BY <1>1, <1>2, <1>3, <2>1, StaleOthers
  <1>7. CASE KeepJob(w)
    <2>1. /\ wpc[w] = "check" /\ wpc' = [wpc EXCEPT ![w] = "batch"]
          /\ curPrev[w] = chain[cell]
          /\ UNCHANGED <<building, job, curPrev, lag>>
      <3>1. job[w] # NoTemplate /\ cell # NoTemplate
        BY <1>7 DEF KeepJob, HasJob, NoTemplate, TypeInv, TypeOK, WorkType, TplType
      <3> QED BY <1>7, <3>1 DEF KeepJob, NeedsJob, Goto
    <2> QED BY <1>1, <1>2, <1>3, <2>1, StaleOthers
  <1>8. CASE BuildJob(w)
    <2>1. /\ wpc[w] = "build" /\ wpc' = [wpc EXCEPT ![w] = "load"]
          /\ UNCHANGED <<building, job, curPrev, lag>>
      BY <1>8 DEF BuildJob, Goto
    <2> QED BY <1>1, <1>2, <1>3, <2>1, StaleOthers
  <1>9. CASE \/ OpenDevice(w) \/ Snapshot(w) \/ SendHit(w) \/ EndBatch(w)
    <2>1. /\ wpc[w] \in {"open", "snapshot", "send", "account"}
          /\ wpc'[w] \in {"check", "send", "account", "ok"}
          /\ \A v \in Worker \ {w} : wpc'[v] = wpc[v]
          /\ UNCHANGED <<building, job, curPrev, lag>>
      BY <1>1, <1>9 DEF OpenDevice, Snapshot, SendHit, EndBatch, Goto
    <2> QED BY <1>1, <1>2, <1>3, <2>1, StaleOthers
  <1>10. CASE WorkerFails(w) \/ WorkerPanics(w)
    <2>1. /\ wpc'[w] \in {"err", "panicked"}
          /\ \A v \in Worker \ {w} : wpc'[v] = wpc[v]
          /\ UNCHANGED <<building, job, curPrev, lag>>
      BY <1>1, <1>10 DEF WorkerFails, WorkerPanics, End
    <2> QED BY <1>1, <1>2, <1>3, <2>1, StaleOthers
  <1> QED BY <1>4, <1>5, <1>6, <1>7, <1>8, <1>9, <1>10 DEF WorkerStep

(* The template poller: a publication starts every count again, and no tip *)
(* of an earlier template changes.                                         *)
LEMMA StaleInvNext == TypeInv /\ StaleInv /\ [Next]_vars => StaleInv'
  <1> SUFFICES ASSUME TypeInv, StaleInv, [Next]_vars PROVE StaleInv'
    OBVIOUS
  <1> USE DEF TipOf, Ended
  <1>0. /\ building \in [Worker -> 0..cell] /\ job \in [Worker -> 0..cell]
        /\ chain \in Seq(Prev) /\ cell \in 0..Len(chain)
    BY DEF TypeInv, TypeOK, WorkType, TplType
  <1>1. ASSUME NEW p \in Prev, NodeOffers(p) PROVE StaleInv'
    <2>1. \A t \in 1..Len(chain) : chain'[t] = chain[t]
      BY <1>0, <1>1, AppendProperties DEF NodeOffers
    <2>2. UNCHANGED <<cell, wpc, building, job, curPrev, lag>>
      BY <1>1 DEF NodeOffers, workVars
    <2> SUFFICES ASSUME NEW w \in Worker
                 PROVE  /\ TipOf(w) # NoTemplate => curPrev[w] = chain'[TipOf(w)]
                        /\ wpc[w] \in {"build", "load", "batch"} /\ lag[w] > 0
                             => curPrev[w] = chain'[cell]
      BY <2>2 DEF StaleInv
    <2>3. TipOf(w) # NoTemplate => TipOf(w) \in 1..Len(chain)
      BY <1>0 DEF NoTemplate
    <2>4. wpc[w] \in {"build", "load", "batch"} => cell \in 1..Len(chain)
      BY <1>0 DEF NoTemplate, TypeInv, HasTemplate, JobWhenMining, Mining
    <2> QED BY <2>1, <2>3, <2>4 DEF StaleInv
  <1>2. CASE PublishTemplate
    <2>1. CASE UNCHANGED <<cell, lag>>
      BY <1>2, <2>1 DEF PublishTemplate, StaleInv
    <2>2. CASE lag' = [w \in Worker |-> 0]
      BY <1>2, <2>2 DEF PublishTemplate, StaleInv
    <2> QED BY <1>2, <2>1, <2>2 DEF PublishTemplate
  <1>3. ASSUME UNCHANGED <<chain, cell, wpc, building, job, curPrev, lag>> PROVE StaleInv'
    BY <1>3 DEF StaleInv
  <1>4. CASE HitPollerStep \/ PollerPanics
    BY <1>3, <1>4 DEF HitPollerStep, PollerPanics, Receive, Disconnect, ProofBuilt,
                      ProofFails, SubmitTaken, SubmitRefused, workVars,
                      tplVars
  <1>5. CASE FetchTemplate \/ MainStep \/ UNCHANGED vars
    BY <1>3, <1>5 DEF FetchTemplate, MainStep, DropSender, JoinWorkers, JoinPoller, vars,
                      workVars, tplVars
  <1> QED BY <1>1, <1>2, <1>4, <1>5, StaleWorker DEF Next, Exited

(* Between two publications a worker begins at most one batch for a tip    *)
(* that is not the published one.                                          *)
THEOREM StaleWorkIsBounded == Spec => []StaleWorkBounded
  <1>1. Init => StaleInv
    BY DEF Init, StaleInv, TipOf, Ended, NoTemplate
  <1>2. StaleInv => StaleWorkBounded
    BY DEF StaleInv, StaleWorkBounded
  <1> QED BY <1>1, <1>2, StaleInvNext, TypeCorrect, PTL DEF Spec

-----------------------------------------------------------------------------
(* Hits are sent once.                                                     *)

(* The hits of a worker are of its own and of iterations below its         *)
(* counter, one for an iteration, and none of those is sent already.       *)
OwnHits ==
  \A w \in Worker : \A h \in hits[w] :
    /\ h.w = w /\ h.iter < iter[w]
    /\ \A g \in hits[w] : g.iter = h.iter => g = h
    /\ \A k \in 1..Len(sent) : sent[k].w = w => sent[k].iter # h.iter
SentApart ==
  /\ \A k \in 1..Len(sent) : sent[k].iter < iter[sent[k].w]
  /\ \A k, l \in 1..Len(sent) :
       k # l => ~(sent[k].w = sent[l].w /\ sent[k].iter = sent[l].iter)
OnceInv == OwnHits /\ SentApart

(* What was sent are hits.                                                 *)
LEMMA SentTyped ==
  ASSUME TypeInv, NEW k \in 1..Len(sent)
  PROVE  sent[k] \in Hit /\ sent[k].w \in Worker /\ sent[k].iter \in Nat
  <1>1. sent[k] \in Hit
    BY ElementOfSeq DEF TypeInv, TypeOK, ChanType
  <1> QED BY <1>1 DEF Hit

(* Steps that find no hit and send none keep all of this.                  *)
LEMMA SameHits ==
  ASSUME OnceInv, UNCHANGED <<sent, iter>>,
         \A w \in Worker : hits'[w] \subseteq hits[w]
  PROVE  OnceInv'
  BY DEF OnceInv, OwnHits, SentApart

(* A batch finds hits of iterations from the counter on, and the counter   *)
(* moves past them.                                                        *)
LEMMA RunBatchOnce ==
  ASSUME TypeInv, OnceInv, NEW w \in Worker, RunBatch(w)
  PROVE  OnceInv'
  <1>1. PICK I \in SUBSET BatchIters(w) :
          hits' = [hits EXCEPT ![w] = {HitAt(w, i) : i \in I}]
    BY DEF RunBatch
  <1>2. UNCHANGED sent /\ iter' = [iter EXCEPT ![w] = iter[w] + RingSize]
    BY DEF RunBatch, chanVars
  <1>3. /\ iter \in [Worker -> Nat] /\ hits \in [Worker -> SUBSET Hit]
        /\ sent \in Seq(Hit) /\ RingSize \in Nat \ {0}
    BY LiveMinerAssumption DEF TypeInv, TypeOK, WorkType, ChanType
  <1>4. \A v \in Worker : iter[v] <= iter'[v] /\ iter'[v] \in Nat
    BY <1>2, <1>3
  <1>5. \A k \in 1..Len(sent) : /\ sent[k].w \in Worker /\ sent[k].iter \in Nat
                                /\ sent[k].iter < iter[sent[k].w]
    BY SentTyped DEF OnceInv, SentApart
  <1>6. SentApart'
    BY <1>2, <1>3, <1>4, <1>5 DEF OnceInv, SentApart
  <1>7. ASSUME NEW v \in Worker, NEW h \in hits'[v]
        PROVE  /\ h.w = v /\ h.iter < iter'[v]
               /\ \A g \in hits'[v] : g.iter = h.iter => g = h
               /\ \A k \in 1..Len(sent) : sent[k].w = v => sent[k].iter # h.iter
    <2>1. CASE v # w
      BY <1>1, <1>2, <1>3, <2>1 DEF OnceInv, OwnHits
    <2>2. CASE v = w
      <3>1. hits'[w] = {HitAt(w, i) : i \in I}
        BY <1>1, <1>3
      <3>2. PICK i \in I : h = HitAt(w, i)
        BY <2>2, <3>1
      <3>3. h.w = w /\ h.iter = i /\ i \in iter[w] .. (iter[w] + RingSize - 1)
        BY <3>2 DEF HitAt, BatchIters
      <3>4. \A g \in hits'[v] : g.iter = h.iter => g = h
        <4> SUFFICES ASSUME NEW g \in hits'[v], g.iter = h.iter PROVE g = h
          OBVIOUS
        <4>1. PICK n \in I : g = HitAt(w, n)
          BY <2>2, <3>1
        <4>2. n = i
          BY <3>3, <4>1 DEF HitAt
        <4> QED BY <3>2, <4>1, <4>2
      <3>5. h.w = v /\ h.iter < iter'[v]
        BY <1>2, <1>3, <2>2, <3>3
      <3>6. \A k \in 1..Len(sent) : sent[k].w = v => sent[k].iter # h.iter
        BY <1>3, <1>5, <2>2, <3>3
      <3> QED BY <3>4, <3>5, <3>6
    <2> QED BY <2>1, <2>2
  <1> QED BY <1>2, <1>6, <1>7 DEF OnceInv, OwnHits

(* A send takes the hit out of those unsent.                               *)
LEMMA SendHitOnce ==
  ASSUME TypeInv, OnceInv, NEW w \in Worker, SendHit(w)
  PROVE  OnceInv'
  <1>1. PICK h \in hits[w] :
          /\ hits' = [hits EXCEPT ![w] = hits[w] \ {h}]
          /\ Enqueue(h) \/ UNCHANGED chanVars
    BY DEF SendHit, Unsent
  <1>2. /\ iter \in [Worker -> Nat] /\ hits \in [Worker -> SUBSET Hit]
        /\ sent \in Seq(Hit) /\ h \in Hit
    BY <1>1 DEF TypeInv, TypeOK, WorkType, ChanType
  <1>3. UNCHANGED iter /\ \A v \in Worker : hits'[v] \subseteq hits[v]
    BY <1>1, <1>2 DEF SendHit
  <1>4. CASE UNCHANGED chanVars
    BY <1>3, <1>4, SameHits DEF chanVars
  <1>5. CASE Enqueue(h)
    <2>1. /\ Len(sent') = Len(sent) + 1 /\ sent'[Len(sent) + 1] = h
          /\ \A k \in 1..Len(sent) : sent'[k] = sent[k]
      BY <1>2, <1>5, AppendProperties DEF Enqueue
    <2>2. h.w = w /\ h.iter < iter[w]
      BY <1>1 DEF OnceInv, OwnHits
    <2>3. \A k \in 1..Len(sent) : sent[k].w = w => sent[k].iter # h.iter
      BY <1>1 DEF OnceInv, OwnHits
    <2>4. Len(sent) \in Nat
      BY <1>2, LenProperties
    <2>5. \A k \in 1..Len(sent') : k \in 1..Len(sent) \/ k = Len(sent) + 1
      BY <2>1, <2>4
    <2>6. SentApart'
      <3>1. \A k \in 1..Len(sent') : sent'[k].iter < iter[sent'[k].w]
        BY <2>1, <2>2, <2>5 DEF OnceInv, SentApart
      <3>2. ASSUME NEW k \in 1..Len(sent'), NEW l \in 1..Len(sent'), k # l,
                   sent'[k].w = sent'[l].w, sent'[k].iter = sent'[l].iter
            PROVE  FALSE
        <4>1. CASE k \in 1..Len(sent) /\ l \in 1..Len(sent)
          BY <2>1, <3>2, <4>1 DEF OnceInv, SentApart
        <4>2. CASE k \in 1..Len(sent) /\ l = Len(sent) + 1
          BY <2>1, <2>2, <2>3, <3>2, <4>2
        <4>3. CASE k = Len(sent) + 1 /\ l \in 1..Len(sent)
          BY <2>1, <2>2, <2>3, <3>2, <4>3
        <4> QED BY <2>5, <3>2, <4>1, <4>2, <4>3
      <3> QED BY <1>3, <3>1, <3>2 DEF SentApart
    <2>7. ASSUME NEW v \in Worker, NEW g \in hits'[v]
          PROVE  /\ g.w = v /\ g.iter < iter'[v]
                 /\ \A f \in hits'[v] : f.iter = g.iter => f = g
                 /\ \A k \in 1..Len(sent') : sent'[k].w = v => sent'[k].iter # g.iter
      <3>1. g \in hits[v] /\ (v = w => g # h)
        BY <1>1, <1>2, <2>7
      <3>2. /\ g.w = v /\ g.iter < iter'[v]
            /\ \A f \in hits'[v] : f.iter = g.iter => f = g
            /\ \A k \in 1..Len(sent) : sent[k].w = v => sent[k].iter # g.iter
        BY <1>3, <3>1 DEF OnceInv, OwnHits
      <3>3. h.w = v => h.iter # g.iter
        BY <1>1, <2>2, <3>1 DEF OnceInv, OwnHits
      <3> QED BY <2>1, <2>5, <3>2, <3>3
    <2> QED BY <2>6, <2>7 DEF OnceInv, OwnHits
  <1> QED BY <1>1, <1>4, <1>5

(* Every other step only moves or drops hits.                              *)
LEMMA OnceInvNext == TypeInv /\ OnceInv /\ [Next]_vars => OnceInv'
  <1> SUFFICES ASSUME TypeInv, OnceInv, [Next]_vars PROVE OnceInv'
    OBVIOUS
  <1>1. CASE \A w \in Worker : ~RunBatch(w) /\ ~SendHit(w)
    <2>1. UNCHANGED <<sent, iter>>
      BY <1>1, OnlyBatchesSearch
         DEF Next, NodeOffers, FetchTemplate, PublishTemplate, WorkerStep, WorkerFails,
             WorkerPanics, OpenDevice, TakeTemplate, KeepJob, BuildJob, LoadJob,
             Snapshot, EndBatch, HitPollerStep, Receive, Disconnect, ProofBuilt,
             ProofFails, SubmitTaken, SubmitRefused, PollerPanics,
             MainStep, DropSender, JoinWorkers, JoinPoller, Exited, vars, chanVars
    <2>2. hits \in [Worker -> SUBSET Hit]
      BY DEF TypeInv, TypeOK, WorkType
    <2>3. CASE UNCHANGED hits
      BY <2>1, <2>3, SameHits
    <2>4. CASE \E w \in Worker : WorkerFails(w) \/ WorkerPanics(w)
      BY <2>1, <2>2, <2>4, SameHits DEF WorkerFails, WorkerPanics, End
    <2>5. UNCHANGED hits \/ \E w \in Worker : WorkerFails(w) \/ WorkerPanics(w)
      BY <1>1
         DEF Next, NodeOffers, FetchTemplate, PublishTemplate, WorkerStep, OpenDevice,
             TakeTemplate, KeepJob, BuildJob, LoadJob, Snapshot, EndBatch, HitPollerStep,
             Receive, Disconnect, ProofBuilt, ProofFails, SubmitTaken, SubmitRefused,
             PollerPanics, MainStep, DropSender, JoinWorkers, JoinPoller,
             Exited, vars, workVars
    <2> QED BY <2>3, <2>4, <2>5
  <1> QED BY <1>1, RunBatchOnce, SendHitOnce

(* The hits of every worker and those sent, in every reachable state.      *)
LEMMA OnceAlways == Spec => []OnceInv
  <1>1. Init => OnceInv
    BY DEF Init, OnceInv, OwnHits, SentApart
  <1> QED BY <1>1, OnceInvNext, TypeCorrect, PTL DEF Spec

(* With distinct devices no candidate is ever sent to the prover twice.    *)
THEOREM HitsAreSentOnce == DistinctDevices => (Spec => []SentOnce)
  <1> SUFFICES ASSUME DistinctDevices PROVE Spec => []SentOnce
    OBVIOUS
  <1>1. TypeInv /\ OnceInv => SentOnce
    <2> SUFFICES ASSUME TypeInv, OnceInv, NEW k \in 1..Len(sent), NEW l \in 1..Len(sent),
                        k # l, Block(sent[k]) = Block(sent[l])
                 PROVE  FALSE
      BY DEF SentOnce
    <2>1. sent[k].w \in Worker /\ sent[l].w \in Worker
      BY SentTyped
    <2>2. /\ DeviceOf[sent[k].w] = DeviceOf[sent[l].w]
          /\ sent[k].iter = sent[l].iter
      BY DEF Block
    <2> QED BY <2>1, <2>2 DEF DistinctDevices, OnceInv, SentApart
  <1> QED BY <1>1, OnceAlways, TypeCorrect, PTL

-----------------------------------------------------------------------------
(* The counters of the hit poller.                                         *)

(* A block is taken at most once, a hit counted at most once.              *)
LEMMA CountersNext ==
  TypeInv /\ IsFiniteSet(nodeBlocks) /\ CountersHonest /\ [Next]_vars =>
    IsFiniteSet(nodeBlocks)' /\ CountersHonest'
  <1> SUFFICES ASSUME TypeInv, IsFiniteSet(nodeBlocks), CountersHonest, [Next]_vars
               PROVE  IsFiniteSet(nodeBlocks)' /\ CountersHonest'
    OBVIOUS
  <1>1. /\ accepted \in Nat /\ rejected \in Nat /\ Cardinality(nodeBlocks) \in Nat
        /\ settled \in Seq(Hit) /\ Len(settled) \in Nat
        /\ accepted <= Cardinality(nodeBlocks)
        /\ Cardinality(nodeBlocks) <= accepted + rejected
        /\ accepted + rejected <= Len(settled)
    BY FS_CardinalityType, LenProperties DEF TypeInv, TypeOK, ProveType, CountersHonest
  <1>2. ASSUME Settle, ppc \in {"prove", "submit"} PROVE Len(settled') = Len(settled) + 1
    <2>1. cur \in Hit
      BY <1>2, NoHitAssumption DEF TypeInv, TypeOK, ProveType
    <2> QED BY <1>1, <1>2, <2>1, AppendProperties DEF Settle
  <1>3. ASSUME UNCHANGED <<accepted, rejected, nodeBlocks, settled>>
        PROVE  IsFiniteSet(nodeBlocks)' /\ CountersHonest'
    BY <1>3 DEF CountersHonest
  <1>4. ASSUME NEW answered \in BOOLEAN, SubmitTaken(answered)
        PROVE  IsFiniteSet(nodeBlocks)' /\ CountersHonest'
    <2>1. /\ IsFiniteSet(nodeBlocks')
          /\ Cardinality(nodeBlocks') = Cardinality(nodeBlocks) + 1
      BY <1>4, FS_AddElement DEF SubmitTaken
    <2>2. Len(settled') = Len(settled) + 1
      BY <1>2, <1>4 DEF SubmitTaken
    <2>3. \/ accepted' = accepted + 1 /\ rejected' = rejected
          \/ accepted' = accepted /\ rejected' = rejected + 1
      BY <1>4 DEF SubmitTaken, CountAccepted, CountRejected
    <2> QED BY <1>1, <2>1, <2>2, <2>3 DEF CountersHonest
  <1>5. CASE SubmitRefused
    <2>1. Len(settled') = Len(settled) + 1
      BY <1>2, <1>5 DEF SubmitRefused
    <2>2. accepted' = accepted /\ rejected' = rejected + 1 /\ nodeBlocks' = nodeBlocks
      BY <1>5 DEF SubmitRefused, CountRejected
    <2> QED BY <1>1, <2>1, <2>2 DEF CountersHonest
  <1>6. CASE ProofFails
    <2>1. Len(settled') = Len(settled) + 1
      BY <1>2, <1>6 DEF ProofFails
    <2>2. UNCHANGED <<accepted, rejected, nodeBlocks>>
      BY <1>6 DEF ProofFails
    <2> QED BY <1>1, <2>1, <2>2 DEF CountersHonest
  <1>7. CASE Receive \/ Disconnect \/ ProofBuilt \/ PollerPanics
    BY <1>3, <1>7 DEF Receive, Disconnect, ProofBuilt, PollerPanics
  <1>8. CASE ~(HitPollerStep \/ PollerPanics)
    BY <1>3, <1>8
       DEF Next, NodeOffers, FetchTemplate, PublishTemplate, WorkerStep, WorkerFails,
           WorkerPanics, OpenDevice, TakeTemplate, KeepJob, BuildJob, LoadJob, RunBatch,
           Snapshot, SendHit, EndBatch, MainStep, DropSender, JoinWorkers, JoinPoller,
           Exited, vars, proveVars
  <1> QED BY <1>4, <1>5, <1>6, <1>7, <1>8 DEF HitPollerStep

(* blocks_accepted never exceeds the blocks the node took, these never     *)
(* exceed the submissions counted, and no hit is counted twice.            *)
THEOREM CountersAreHonest == Spec => []CountersHonest
  <1>1. Init => IsFiniteSet(nodeBlocks) /\ CountersHonest
    BY FS_EmptySet DEF Init, CountersHonest
  <1> QED BY <1>1, CountersNext, TypeCorrect, PTL DEF Spec

-----------------------------------------------------------------------------
(* The refinement.                                                         *)

(* What the mapping needs of a state.                                      *)
MapInv == TypeInv /\ HitsBoundToJob /\ NoHitLost /\ OnceInv /\ StopsInOrder

(* A settlement is of the first hit reported and not yet settled.          *)
LEMMA SettleIsNext ==
  ASSUME MapInv, Running, ppc \in {"prove", "submit"}, Settle,
         UNCHANGED <<workVars, chanVars, mainVars>>
  PROVE  Service!SettleNext
  <1>1. /\ settled \in Seq(Hit) /\ cur \in Hit /\ chan \in Seq(Hit)
        /\ sent = settled \o <<cur>> \o chan
    BY NoHitAssumption DEF MapInv, NoHitLost, InHand, TypeInv, TypeOK, ProveType, ChanType
  <1>2. /\ Len(settled) \in Nat /\ Len(sent) > Len(settled)
        /\ sent[Len(settled) + 1] = cur
    BY <1>1
  <1>3. BlocksOf(settled)' = Append(BlocksOf(settled), Block(cur))
    BY <1>1 DEF Settle, BlocksOf
  <1>4. /\ Len(BlocksOf(settled)) = Len(settled) /\ Len(BlocksOf(sent)) = Len(sent)
        /\ BlocksOf(sent)[Len(settled) + 1] = Block(cur)
    BY <1>1, <1>2 DEF BlocksOf
  <1>5. ppc # "dead" /\ ppc' # "dead" /\ mpc # "exited"
    BY DEF Settle, Running
  <1> QED BY <1>2, <1>3, <1>4, <1>5 DEF Service!SettleNext, workVars, chanVars, mainVars,
                                       BlocksOf

(* A send reports a candidate that was searched and not reported before.   *)
LEMMA SendIsReport ==
  ASSUME DistinctDevices, MapInv, NEW w \in Worker, NEW h \in hits[w], Running,
         ReceiverAlive, Enqueue(h), UNCHANGED <<mined, proveVars, mainVars>>
  PROVE  Service!Next
  <1>1. /\ sent \in Seq(Hit) /\ h \in Hit /\ hits \in [Worker -> SUBSET Hit]
        /\ sent' = Append(sent, h)
    BY DEF MapInv, TypeInv, TypeOK, WorkType, ChanType, Enqueue
  <1>2. Block(h) \in mined
    BY DEF MapInv, HitsBoundToJob, EvidenceMatches
  <1>3. BlocksOf(sent)' = Append(BlocksOf(sent), Block(h))
    BY <1>1 DEF BlocksOf
  <1>4. \A k \in 1..Len(BlocksOf(sent)) : BlocksOf(sent)[k] # Block(h)
    <2>1. Len(BlocksOf(sent)) = Len(sent) /\ DOMAIN sent = 1..Len(sent)
      BY <1>1 DEF BlocksOf
    <2> SUFFICES ASSUME NEW k \in 1..Len(sent), Block(sent[k]) = Block(h) PROVE FALSE
      BY <2>1 DEF BlocksOf
    <2>2. sent[k].w \in Worker
      BY SentTyped DEF MapInv
    <2>3. h.w = w /\ (sent[k].w = w => sent[k].iter # h.iter)
      BY DEF MapInv, OnceInv, OwnHits
    <2>4. DeviceOf[sent[k].w] = DeviceOf[h.w] /\ sent[k].iter = h.iter
      BY DEF Block
    <2> QED BY <2>2, <2>3, <2>4 DEF DistinctDevices
  <1>5. UNCHANGED <<mined, settled, ppc, mpc>> /\ ppc # "dead" /\ mpc # "exited"
    BY DEF proveVars, mainVars, Running, ReceiverAlive
  <1>6. Service!Report(Block(h))
    BY <1>3, <1>4, <1>5 DEF Service!Report, BlocksOf
  <1> QED BY <1>2, <1>6 DEF Service!Next

(* A worker's step is a search, a report or nothing the service knows of.  *)
LEMMA WorkerRefines ==
  ASSUME DistinctDevices, MapInv, MapInv', NEW w \in Worker,
         WorkerStep(w) \/ WorkerFails(w) \/ WorkerPanics(w)
  PROVE  [Service!Next]_(Service!svars)
  <1>1. Running /\ UNCHANGED <<proveVars, mainVars>>
    BY EndedStays DEF MapInv, WorkerStep, WorkerFails, WorkerPanics, OpenDevice,
       TakeTemplate, KeepJob, BuildJob, LoadJob, RunBatch, Snapshot, SendHit, EndBatch
  <1>2. ASSUME UNCHANGED <<mined, chanVars>> PROVE UNCHANGED Service!svars
    BY <1>1, <1>2 DEF Service!svars, proveVars, mainVars, chanVars, BlocksOf
  <1>3. CASE RunBatch(w)
    <2>1. mined \subseteq mined' /\ mined' \subseteq Candidate /\ UNCHANGED chanVars
      BY <1>3 DEF RunBatch, MapInv, TypeInv, TypeOK, WorkType
    <2>2. Service!Search
      BY <1>1, <2>1 DEF Service!Search, Running, proveVars, mainVars, chanVars, BlocksOf
    <2> QED BY <2>2 DEF Service!Next
  <1>4. CASE SendHit(w)
    <2>1. UNCHANGED mined
      BY <1>4 DEF SendHit
    <2>2. PICK h \in hits[w] : (ReceiverAlive /\ Enqueue(h)) \/ UNCHANGED chanVars
      BY <1>4 DEF SendHit
    <2>3. CASE ReceiverAlive /\ Enqueue(h)
      BY <1>1, <2>1, <2>3, SendIsReport
    <2> QED BY <1>2, <2>1, <2>2, <2>3
  <1>5. CASE ~RunBatch(w) /\ ~SendHit(w)
    <2>1. UNCHANGED <<mined, chanVars>>
      BY <1>5 DEF WorkerStep, WorkerFails, WorkerPanics, OpenDevice, TakeTemplate,
         KeepJob, BuildJob, LoadJob, Snapshot, EndBatch
    <2> QED BY <1>2, <2>1
  <1> QED BY <1>3, <1>4, <1>5

(* The hit poller settles the next hit, breaks, or does nothing the        *)
(* service knows of.                                                       *)
LEMMA HitPollerRefines ==
  ASSUME MapInv, HitPollerStep \/ PollerPanics
  PROVE  [Service!Next]_(Service!svars)
  <1>1. Running /\ UNCHANGED <<workVars, mainVars, sent>>
    BY DEF HitPollerStep, Receive, Disconnect, ProofBuilt, ProofFails, SubmitTaken,
           SubmitRefused, PollerPanics, chanVars
  <1>2. CASE ProofFails \/ SubmitTaken(TRUE) \/ SubmitTaken(FALSE) \/ SubmitRefused
    <2>1. Settle /\ ppc \in {"prove", "submit"} /\ UNCHANGED chanVars
      BY <1>2 DEF ProofFails, SubmitTaken, SubmitRefused
    <2> QED BY <1>1, <2>1, SettleIsNext DEF Service!Next
  <1>3. CASE PollerPanics
    <2>1. Service!Break
      BY <1>1, <1>3 DEF PollerPanics, Service!Break, Running, workVars, mainVars, BlocksOf
    <2> QED BY <2>1 DEF Service!Next
  <1>4. CASE Receive \/ Disconnect \/ ProofBuilt
    <2>1. UNCHANGED settled /\ ppc # "dead" /\ ppc' # "dead"
      BY <1>4 DEF Receive, Disconnect, ProofBuilt
    <2> QED BY <1>1, <2>1 DEF Service!svars, workVars, mainVars, BlocksOf
  <1> QED BY <1>2, <1>3, <1>4 DEF HitPollerStep

(* The exit of the process stops the service.                              *)
LEMMA MainRefines ==
  ASSUME MapInv, MainStep
  PROVE  [Service!Next]_(Service!svars)
  <1>1. UNCHANGED <<workVars, proveVars, chanVars>>
    BY DEF MainStep, DropSender, JoinWorkers, JoinPoller
  <1>2. CASE JoinPoller
    <2>1. ppc = "dead" \/ settled = sent
      <3> SUFFICES ASSUME ppc = "done" PROVE settled = sent
        BY <1>2 DEF JoinPoller, PollerJoined
      <3>1. chan = <<>> /\ InHand = <<>>
        BY DEF MapInv, StopsInOrder, TypeInv, TypeOK, ProveType, InHand
      <3>2. sent = settled \o <<>> \o <<>> /\ settled \in Seq(Hit)
        BY <3>1 DEF MapInv, NoHitLost, TypeInv, TypeOK, ProveType
      <3> QED BY <3>2, ConcatEmptySeq
    <2>2. Service!Stop
      BY <1>1, <1>2, <2>1 DEF JoinPoller, Service!Stop, workVars, proveVars, chanVars,
         BlocksOf
    <2> QED BY <2>2 DEF Service!Next
  <1>3. CASE DropSender \/ JoinWorkers
    <2>1. mpc # "exited" /\ mpc' # "exited"
      BY <1>3 DEF DropSender, JoinWorkers
    <2> QED BY <1>1, <2>1 DEF Service!svars, workVars, proveVars, chanVars, BlocksOf
  <1> QED BY <1>2, <1>3 DEF MainStep

(* Every step of the process is a step of the service or a stutter.        *)
LEMMA NextRefines ==
  ASSUME DistinctDevices, MapInv, MapInv', [Next]_vars
  PROVE  [Service!Next]_(Service!svars)
  <1>1. CASE (\E p \in Prev : NodeOffers(p)) \/ FetchTemplate \/ PublishTemplate
    <2>1. UNCHANGED <<mined, proveVars, chanVars, mainVars>>
      BY <1>1 DEF NodeOffers, FetchTemplate, PublishTemplate, workVars
    <2> QED BY <2>1 DEF Service!svars, proveVars, chanVars, mainVars, BlocksOf
  <1>2. CASE UNCHANGED vars
    BY <1>2 DEF vars, workVars, proveVars, chanVars, mainVars, Service!svars, BlocksOf
  <1> QED BY <1>1, <1>2, WorkerRefines, HitPollerRefines, MainRefines DEF Next, Exited

(* With distinct devices the threads implement MinerService: what they do  *)
(* to candidates, hits and submissions is a behaviour of the promise.      *)
THEOREM ThreadsKeepThePromise == DistinctDevices => (Spec => ServiceSpec)
  <1> SUFFICES ASSUME DistinctDevices PROVE Spec => ServiceSpec
    OBVIOUS
  <1>1. Init => Service!Init
    BY DEF Init, Service!Init, BlocksOf
  <1>2. MapInv /\ MapInv' /\ [Next]_vars => [Service!Next]_(Service!svars)
    BY NextRefines
  <1>3. Spec => []MapInv
    BY TypeCorrect, HitsCarryTheirJob, HitsAreConserved, OnceAlways, StopsInOrderAlways,
       PTL DEF MapInv
  <1> QED BY <1>1, <1>2, <1>3, PTL DEF Spec, ServiceSpec, Service!Spec

=============================================================================
