----------------------- MODULE WorkerResources_proofs -----------------------
(***************************************************************************)
(* Proofs about WorkerResources, for any number of workers, any devices    *)
(* and any size of the ring.                                               *)
(***************************************************************************)
EXTENDS WorkerResources, SequenceTheorems, TLAPS

Places == Calling \cup {"counted", "drop"}

(* A worker captures only between begin and end, or until the stream of a  *)
(* capture that failed is dropped; what it then calls does not serialise.  *)
CaptureInv ==
  /\ pc \in [Workers -> Places] /\ capturing \in [Workers -> BOOLEAN]
  /\ DOMAIN cause = Workers
  /\ \A w \in Workers :
       /\ capturing[w] => pc[w] \in {"record", "end", "drop"}
       /\ cause[w] # "refused"

(* The calls that the driver may refuse are made outside a capture.        *)
LEMMA NeverRefused ==
  ASSUME CaptureInv, NEW w \in Workers, pc[w] \in Calling, Refusable(w)
  PROVE  ~Refused(w)
  <1>1. SUFFICES ASSUME capturing[w] PROVE FALSE
    BY DEF Refused
  <1>2. pc[w] \in {"record", "end"}
    BY <1>1 DEF CaptureInv, Calling
  <1>3. CallOf(w)[1] = pc[w]
    BY <1>2 DEF CallOf
  <1> QED BY <1>2, <1>3 DEF Refusable, Serialising

(* No worker starts in a capture.                                          *)
LEMMA CaptureInit == Init => CaptureInv
  <1> SUFFICES ASSUME Init PROVE CaptureInv
    OBVIOUS
  <1>1. \A w \in Workers : (IF w \in Early THEN "idle" ELSE "setup") \in Places
    BY DEF Places, Calling
  <1>2. pc \in [Workers -> Places]
    BY <1>1 DEF Init
  <1>3. capturing = [w \in Workers |-> FALSE] /\ cause = [w \in Workers |-> "none"]
    BY DEF Init
  <1> QED BY <1>2, <1>3 DEF CaptureInv

(* What a step does to the three of them.  An action that leaves the       *)
(* capture alone leaves it in another worker, or moves its own between two *)
(* places that allow it.                                                   *)
LEMMA CaptureMove ==
  ASSUME CaptureInv, NEW w \in Workers, NEW l \in Places, Goto(w, l),
         UNCHANGED <<capturing, cause>>,
         capturing[w] => l \in {"record", "end", "drop"}
  PROVE  CaptureInv'
  BY DEF CaptureInv, Goto

(* Every step keeps captures within begin and end.                         *)
LEMMA CaptureStep == CaptureInv /\ [Next]_vars => CaptureInv'
  <1> SUFFICES ASSUME CaptureInv, [Next]_vars PROVE CaptureInv'
    OBVIOUS
  <1>0. CASE UNCHANGED vars
    BY <1>0 DEF CaptureInv, vars
  <1>1. ASSUME NEW w \in Workers, Acquire(w) PROVE CaptureInv'
    <2>1. ~capturing[w] /\ UNCHANGED <<capturing, cause>>
      BY <1>1 DEF CaptureInv, Acquire
    <2>2. \E l \in {"idle", "setup"} : Goto(w, l)
      BY <1>1, Zenon DEF Acquire
    <2> QED BY <2>1, <2>2, CaptureMove DEF Places, Calling
  <1>2. ASSUME NEW w \in Workers, LoadJob(w) PROVE CaptureInv'
    BY <1>2, CaptureMove DEF Places, Calling, CaptureInv, LoadJob
  <1>3. ASSUME NEW w \in Workers, JobLoaded(w) PROVE CaptureInv'
    <2>1. ~capturing[w] /\ UNCHANGED <<capturing, cause>>
      BY <1>3 DEF CaptureInv, JobLoaded
    <2>2. \E l \in {"begin", "replay"} : Goto(w, l)
      BY <1>3, Zenon DEF JobLoaded
    <2> QED BY <2>1, <2>2, CaptureMove DEF Places, Calling
  <1>4. ASSUME NEW w \in Workers, BeginCapture(w) PROVE CaptureInv'
    BY <1>4 DEF CaptureInv, BeginCapture, Goto, Places, Calling
  <1>5. ASSUME NEW w \in Workers, RecordKernels(w) PROVE CaptureInv'
    BY <1>5, CaptureMove DEF Places, Calling, RecordKernels
  <1>6. ASSUME NEW w \in Workers, EndCapture(w) PROVE CaptureInv'
    BY <1>6 DEF CaptureInv, EndCapture, Goto, Places, Calling
  <1>7. ASSUME NEW w \in Workers, Instantiate(w) PROVE CaptureInv'
    BY <1>7, CaptureMove DEF Places, Calling, CaptureInv, Instantiate
  <1>8. ASSUME NEW w \in Workers, FindRandomNode(w) PROVE CaptureInv'
    <2>1. ~capturing[w] /\ UNCHANGED <<capturing, cause>>
      BY <1>8 DEF CaptureInv, FindRandomNode
    <2>2. \E l \in {"begin", "replay"} : Goto(w, l)
      BY <1>8, Zenon DEF FindRandomNode
    <2> QED BY <2>1, <2>2, CaptureMove DEF Places, Calling
  <1>9. ASSUME NEW w \in Workers, Replay(w) PROVE CaptureInv'
    <2>1. ~capturing[w] /\ UNCHANGED <<capturing, cause>>
      BY <1>9 DEF CaptureInv, Replay
    <2>2. \E l \in {"sync", "replay"} : Goto(w, l)
      BY <1>9, Zenon DEF Replay
    <2> QED BY <2>1, <2>2, CaptureMove DEF Places, Calling
  <1>10. ASSUME NEW w \in Workers, Synchronize(w) PROVE CaptureInv'
    <2>1. ~capturing[w] /\ UNCHANGED <<capturing, cause>>
      BY <1>10 DEF CaptureInv, Synchronize
    <2>2. \E l \in {"headers", "counted"} : Goto(w, l)
      BY <1>10, Zenon DEF Synchronize
    <2> QED BY <2>1, <2>2, CaptureMove DEF Places, Calling
  <1>11. ASSUME NEW w \in Workers, NoHit(w) PROVE CaptureInv'
    BY <1>11, CaptureMove DEF Places, Calling, CaptureInv, NoHit
  <1>12. ASSUME NEW w \in Workers, Snapshot(w) PROVE CaptureInv'
    BY <1>12, CaptureMove DEF Places, Calling, CaptureInv, Snapshot
  <1>13. ASSUME NEW w \in Workers, NextBatch(w) PROVE CaptureInv'
    <2>1. ~capturing[w] /\ UNCHANGED <<capturing, cause>>
      BY <1>13 DEF CaptureInv, NextBatch
    <2>2. \E l \in {"idle", "replay"} : Goto(w, l)
      BY <1>13 DEF NextBatch, Goto
    <2> QED BY <2>1, <2>2, CaptureMove DEF Places, Calling
  <1>14. ASSUME NEW w \in Workers, QuotaReached(w) PROVE CaptureInv'
    BY <1>14 DEF CaptureInv, QuotaReached, Goto, Places, Calling
  <1>15. ASSUME NEW w \in Workers, CallFails(w) PROVE CaptureInv'
    <2>1. cause' = [cause EXCEPT ![w] = "driver"]
      BY <1>15, NeverRefused DEF CallFails
    <2>2. pc' = [pc EXCEPT ![w] = "drop"]
      BY <1>15 DEF CallFails, Goto
    <2>3. capturing' = [capturing EXCEPT ![w] = @ /\ pc[w] # "end"]
      BY <1>15 DEF CallFails
    <2> QED BY <2>1, <2>2, <2>3 DEF CaptureInv, Places
  <1>16. ASSUME NEW w \in Workers, Drop(w) PROVE CaptureInv'
    <2>1. UNCHANGED <<pc, cause>>
      BY <1>16 DEF Drop
    <2>2. \E b \in BOOLEAN : capturing' = [capturing EXCEPT ![w] = @ /\ b]
      BY <1>16, Zenon DEF Drop
    <2> QED BY <2>1, <2>2 DEF CaptureInv
  <1> QED BY <1>0, <1>1, <1>2, <1>3, <1>4, <1>5, <1>6, <1>7, <1>8, <1>9, <1>10, <1>11,
             <1>12, <1>13, <1>14, <1>15, <1>16 DEF Next

(* No worker ever ends because the driver refused a call on account of a   *)
(* capture: not its own, since it synchronises and copies before begin,    *)
(* nor another's, since every capture is local to its thread.              *)
THEOREM NobodyDisturbed == Spec => []CaptureDisturbsNobody
  <1>1. CaptureInv => CaptureDisturbsNobody
    BY DEF CaptureInv, CaptureDisturbsNobody
  <1> QED BY <1>1, CaptureInit, CaptureStep, PTL DEF Spec

-----------------------------------------------------------------------------
(* A worker that holds a Triton module could load it.                      *)
Holds(S) == \E o \in S : IsTritonModule(o)
PtxInv ==
  /\ cc \in [Workers -> Nat] /\ DOMAIN live = Workers
  /\ \A w \in Workers : Holds(live[w]) => PickPtx(cc[w]) <= cc[w]

(* The modules of a worker that is set up could be loaded.                 *)
LEMMA PtxInit == Init => PtxInv
  <1> SUFFICES ASSUME Init PROVE PtxInv
    OBVIOUS
  <1>1. cc \in [Workers -> Nat]
    <2>1. DOMAIN cc = Workers /\ cc = [w \in Workers |-> cc[w]]
      BY DEF Init
    <2>2. \A w \in Workers : cc[w] \in Nat
      BY WorkerResourcesAssumption DEF Init, WorkerResourcesAssumption
    <2> QED BY <2>1, <2>2
  <1>2. live = [w \in Workers |-> IF w \in Early THEN Made(Setup) ELSE {}]
    BY Zenon DEF Init
  <1>3. ASSUME NEW w \in Workers, Holds(live[w]) PROVE PickPtx(cc[w]) <= cc[w]
    <2>1. w \in Early /\ Holds(Made(Setup))
      BY <1>2, <1>3 DEF Holds
    <2>2. PICK o \in Range(Setup) : IsTritonModule(o)
      BY <2>1, Zenon DEF Holds, Made
    <2>3. Loadable(w, o)
      BY <2>1, <2>2, Zenon DEF Init
    <2> QED BY <2>2, <2>3 DEF Loadable
  <1>4. DOMAIN live = Workers
    BY <1>2
  <1> QED BY <1>1, <1>3, <1>4 DEF PtxInv

(* A step keeps the property of a worker unless it gives it a module.      *)
LEMMA PtxKept ==
  ASSUME PtxInv, UNCHANGED cc, NEW w \in Workers, NEW S,
         live' = [live EXCEPT ![w] = S], Holds(S) => PickPtx(cc[w]) <= cc[w]
  PROVE  PtxInv'
  <1>1. DOMAIN live' = Workers /\ live'[w] = S
    BY DEF PtxInv
  <1>2. \A v \in Workers \ {w} : live'[v] = live[v]
    BY DEF PtxInv
  <1>3. ASSUME NEW v \in Workers, Holds(live'[v]) PROVE PickPtx(cc[v]) <= cc[v]
    BY <1>1, <1>2, <1>3, Zenon DEF PtxInv
  <1> QED BY <1>1, <1>3 DEF PtxInv, Holds, PickPtx

(* A module is only acquired when it can be loaded.                        *)
LEMMA PtxStep == PtxInv /\ [Next]_vars => PtxInv'
  <1> SUFFICES ASSUME PtxInv, [Next]_vars PROVE PtxInv'
    OBVIOUS
  <1>0. ASSUME UNCHANGED <<cc, live>> PROVE PtxInv'
    BY <1>0 DEF PtxInv, Holds, PickPtx
  <1>1. ASSUME NEW w \in Workers, Acquire(w) PROVE PtxInv'
    <2> DEFINE op == Setup[at[w]]
    <2>1. UNCHANGED cc /\ Loadable(w, op)
      BY <1>1, Zenon DEF Acquire
    <2>2. CASE op[1] \in Object
      <3>1. live' = [live EXCEPT ![w] = live[w] \cup {op}]
        BY <1>1, <2>2, Zenon DEF Acquire, Make
      <3>2. Holds(live[w] \cup {op}) => PickPtx(cc[w]) <= cc[w]
        BY <2>1, Zenon DEF PtxInv, Holds, Loadable
      <3> QED BY <2>1, <3>1, <3>2, PtxKept, Zenon
    <2>3. CASE op[1] \notin Object
      BY <1>0, <1>1, <2>3, Zenon DEF Acquire
    <2> QED BY <2>2, <2>3, Zenon
  <1>2. ASSUME NEW w \in Workers, EndCapture(w) \/ Instantiate(w) PROVE PtxInv'
    <2>1. PICK o : ~IsTritonModule(o) /\ live' = [live EXCEPT ![w] = live[w] \cup {o}]
      <3>1. CASE EndCapture(w)
        <4>1. ~IsTritonModule(<<"graph", "graphs", slot[w]>>)
          BY DEF IsTritonModule
        <4> QED BY <3>1, <4>1, Zenon DEF EndCapture, Make
      <3>2. CASE Instantiate(w)
        <4>1. ~IsTritonModule(<<"exec", "graphs", slot[w]>>)
          BY DEF IsTritonModule
        <4> QED BY <3>2, <4>1, Zenon DEF Instantiate, Make
      <3> QED BY <1>2, <3>1, <3>2
    <2>2. UNCHANGED cc
      BY <1>2 DEF EndCapture, Instantiate
    <2>3. Holds(live[w] \cup {o}) => PickPtx(cc[w]) <= cc[w]
      BY <2>1, Zenon DEF PtxInv, Holds
    <2> QED BY <2>1, <2>2, <2>3, PtxKept, Zenon
  <1>3. ASSUME NEW w \in Workers, Drop(w) PROVE PtxInv'
    <2>1. UNCHANGED cc
      BY <1>3, Zenon DEF Drop
    <2>2. CASE UNCHANGED live
      BY <1>0, <2>1, <2>2
    <2>3. CASE ~UNCHANGED live
      <3>1. PICK gone : live' = [live EXCEPT ![w] = live[w] \ gone]
        BY <1>3, <2>3, Zenon DEF Drop
      <3>2. Holds(live[w] \ gone) => PickPtx(cc[w]) <= cc[w]
        BY Zenon DEF PtxInv, Holds
      <3> QED BY <2>1, <3>1, <3>2, PtxKept, Zenon
    <2> QED BY <2>2, <2>3, Zenon
  <1>4. ASSUME NEW w \in Workers,
               \/ LoadJob(w) \/ JobLoaded(w) \/ BeginCapture(w) \/ RecordKernels(w)
               \/ FindRandomNode(w) \/ Replay(w) \/ Synchronize(w) \/ NoHit(w)
               \/ Snapshot(w) \/ NextBatch(w) \/ QuotaReached(w) \/ CallFails(w)
        PROVE  PtxInv'
    <2>1. UNCHANGED <<cc, live>>
      BY <1>4, Zenon DEF LoadJob, JobLoaded, BeginCapture, RecordKernels, FindRandomNode,
         Replay, Synchronize, NoHit, Snapshot, NextBatch, QuotaReached, CallFails
    <2> QED BY <1>0, <2>1
  <1>5. CASE UNCHANGED vars
    BY <1>0, <1>5 DEF vars
  <1> QED BY <1>1, <1>2, <1>3, <1>4, <1>5 DEF Next

(* Whatever the device, the PTX a worker loaded for it is the newest of    *)
(* the three that the device can run.                                      *)
THEOREM NewestPtxLoaded == Spec => []NewestPtx
  <1>1. PtxInv => NewestPtx
    <2> SUFFICES ASSUME PtxInv, NEW w \in Workers, Holds(live[w])
                 PROVE  /\ PickPtx(cc[w]) \in Archs /\ PickPtx(cc[w]) <= cc[w]
                        /\ \A a \in Archs : a <= cc[w] => a <= PickPtx(cc[w])
      BY Zenon DEF NewestPtx, Holds
    <2>1. cc[w] \in Nat
      BY DEF PtxInv
    <2>2. PickPtx(cc[w]) <= cc[w]
      BY DEF PtxInv
    <2> QED BY <2>1, <2>2 DEF PickPtx, Archs
  <1> QED BY <1>1, PtxInit, PtxStep, PTL DEF Spec
-----------------------------------------------------------------------------
(* The calls of a set-up.  Each that makes something names a field; the    *)
(* context, the stream and the first pool hold one kind of thing; a map    *)
(* follows the allocation of what it maps.                                 *)
CallKind == Object \cup {"map", "copy", "find", "query"}
LocalField == Range(LocalFields)
CallName ==
  LocalField \cup Range(Kernels) \cup {"stream", "cuInit", "cuDeviceGet", "device_name", "cc",
    "random_int8", "tensor_hash", "noising", "search", "postpass"}
Call == CallKind \X CallName \X Nat
TheCtx == <<"ctx", "ctx", 0>>
TheStream == <<"stream", "stream", 0>>
FirstA == <<"dev", "a_pool", 1>>
MakesLocal(c) ==
  c[1] \in Object =>
    /\ c[2] \in LocalField /\ c[1] # "stream" /\ (c[2] = "a_pool" => c[1] = "dev")
    /\ c[1] = "ctx" \/ c[2] = "ctx" => c = TheCtx
Calls(s) ==
  /\ s \in Seq(Call)
  /\ \A i \in 1..Len(s) :
       /\ MakesLocal(s[i])
       /\ s[i][1] = "map" => i > 1 /\ s[i - 1] = <<"host", s[i][2], s[i][3]>>

(* One sequence of calls after another is one again.                       *)
LEMMA CallsJoin == ASSUME NEW s, NEW t, Calls(s), Calls(t) PROVE Calls(s \o t)
  <1> DEFINE u == s \o t
             m == Len(s)
             n == Len(t)
  <1>1. /\ u \in Seq(Call) /\ Len(u) = m + n /\ m \in Nat /\ n \in Nat
        /\ \A i \in 1..(m + n) : u[i] = IF i <= m THEN s[i] ELSE t[i - m]
    BY ConcatProperties, LenProperties DEF Calls
  <1> HIDE DEF u
  <1>2. ASSUME NEW i \in 1..Len(u)
        PROVE  /\ MakesLocal(u[i])
               /\ u[i][1] = "map" => i > 1 /\ u[i - 1] = <<"host", u[i][2], u[i][3]>>
    <2>1. CASE i <= m
      <3>1. i \in 1..m /\ u[i] = s[i] BY <2>1, <1>1
      <3>2. i > 1 => u[i - 1] = s[i - 1] BY <2>1, <1>1
      <3> QED BY <3>1, <3>2 DEF Calls
    <2>2. CASE i > m
      <3>1. i - m \in 1..n /\ u[i] = t[i - m] BY <2>2, <1>1
      <3>2. i - m > 1 => i > 1 /\ u[i - 1] = t[i - m - 1]
        <4> SUFFICES ASSUME i - m > 1 PROVE i > 1 /\ u[i - 1] = t[i - m - 1] OBVIOUS
        <4>1. i - 1 \in 1..(m + n) /\ i - 1 > m /\ i - 1 - m = i - m - 1 BY <1>1
        <4> QED BY <4>1, <1>1
      <3> QED BY <3>1, <3>2 DEF Calls
    <2> QED BY <2>1, <2>2, <1>1
  <1> QED BY <1>1, <1>2 DEF Calls, u

(* A function on 1..N is a sequence of length N.                           *)
LEMMA FunctionIsSeq ==
  ASSUME NEW N \in Nat, NEW S, NEW s \in [1..N -> S]
  PROVE  s \in Seq(S) /\ Len(s) = N
  <1>1. s \in Seq(S) BY SeqDef
  <1> QED BY <1>1, LenProperties

(* A ring of allocations, in device memory and in pinned memory.           *)
LEMMA CallsOfRing ==
  ASSUME NEW f \in LocalField \ {"ctx"}
  PROVE  Calls(Ring(f))
  <1>1. Ring(f) \in Seq(Call) /\ Len(Ring(f)) = RingSize
    <2>1. \A i \in 1..RingSize : <<"dev", f, i>> \in Call BY DEF Call, CallKind, CallName, Object
    <2>2. Ring(f) \in [1..RingSize -> Call] BY <2>1 DEF Ring
    <2> QED BY <2>2, FunctionIsSeq, WorkerResourcesAssumption DEF WorkerResourcesAssumption
  <1>2. ASSUME NEW i \in 1..RingSize
        PROVE  Ring(f)[i][1] = "dev" /\ Ring(f)[i][2] = f
    BY DEF Ring
  <1> QED BY <1>1, <1>2 DEF Calls, MakesLocal, Object

(* A ring of pinned buffers allocates and maps, slot by slot.              *)
LEMMA CallsOfPinnedRing ==
  ASSUME NEW f \in LocalField \ {"ctx", "a_pool"}
  PROVE  Calls(PinnedRing(f))
  <1> DEFINE s == PinnedRing(f)
             N == 2 * RingSize
  <1>0. N \in Nat /\ RingSize \in Nat BY WorkerResourcesAssumption
  <1>1. \A i \in 1..N : (i + 1) \div 2 \in Nat BY <1>0
  <1> HIDE DEF N
  <1>2. s = [i \in 1..N |-> <<IF i % 2 = 1 THEN "host" ELSE "map", f, (i + 1) \div 2>>]
    BY DEF PinnedRing, N
  <1> HIDE DEF s
  <1>3. s \in Seq(Call) /\ Len(s) = N
    <2>1. ASSUME NEW i \in 1..N
          PROVE  <<IF i % 2 = 1 THEN "host" ELSE "map", f, (i + 1) \div 2>> \in Call
      BY <1>1 DEF Call, CallKind, CallName, Object
    <2>2. s \in [1..N -> Call] BY <1>2, <2>1
    <2> QED BY <1>0, <2>2, FunctionIsSeq
  <1>4. ASSUME NEW i \in 1..N
        PROVE  /\ MakesLocal(s[i])
               /\ s[i][1] = "map" => i > 1 /\ s[i - 1] = <<"host", s[i][2], s[i][3]>>
    <2>1. CASE i % 2 = 1
      <3>1. s[i][1] = "host" /\ s[i][2] = f BY <1>2, <2>1
      <3> QED BY <3>1 DEF MakesLocal, Object
    <2>2. CASE i % 2 # 1
      <3>1. s[i] = <<"map", f, (i + 1) \div 2>> BY <1>2, <2>2
      <3>2. i - 1 \in 1..N /\ (i - 1) % 2 = 1 /\ (i - 1 + 1) \div 2 = (i + 1) \div 2
        BY <1>0, <2>2
      <3>3. s[i - 1] = <<"host", f, (i + 1) \div 2>> BY <1>2, <3>2
      <3> QED BY <3>1, <3>2, <3>3 DEF MakesLocal, Object
    <2> QED BY <2>1, <2>2
  <1> QED BY <1>3, <1>4 DEF Calls, s

(* The fields the locals have.                                             *)
LEMMA LocalFieldSet ==
  LocalField = {"ctx", "module", "a_pool", "a_tensor_hash_pool", "commit_a_pool",
    "commit_b_pool", "host_signal_header_pool", "a_snapshot_pool", "commit_a_snapshot_pool",
    "commit_b_snapshot_pool", "b", "b_tensor_hash", "key_tensor", "pow_target_tensor",
    "b_pinned", "seed_tensor", "noise_bufs", "pow_workspace", "seed_label_a", "seed_label_b",
    "scratch", "_noising_mod", "_search_mod", "transcripts"}
  BY DEF LocalField, LocalFields, Range

(* The rest of a set-up is written out call by call.                       *)
LEMMA CallsWritten ==
  /\ Calls(One("dev", <<"b", "b_tensor_hash", "key_tensor", "pow_target_tensor">>))
  /\ Calls(Pinned("b_pinned")) /\ Calls(One("dev", <<"seed_tensor">>))
  /\ Calls(One("dev", SharedBufs)) /\ Calls(One("dev", SeedLabels))
  /\ Calls(One("copy", SeedLabels)) /\ Calls(One("find", <<"random_int8">>))
  /\ Calls(<< <<"dev", "scratch", 0>>, <<"find", "tensor_hash", 0>> >>)
  /\ Calls(One("find", Kernels)) /\ Calls(NewTriton) /\ Calls(NewCtx)
  <1> USE LocalFieldSet DEF Calls, MakesLocal, Object, Call, CallKind, CallName, One, TheCtx
  <1>1. Calls(One("dev", <<"b", "b_tensor_hash", "key_tensor", "pow_target_tensor">>))
    OBVIOUS
  <1>2. Calls(Pinned("b_pinned"))
    BY DEF Pinned
  <1>3. Calls(One("dev", <<"seed_tensor">>))
    OBVIOUS
  <1>4. Calls(One("dev", SharedBufs))
    BY DEF SharedBufs
  <1>5. Calls(One("dev", SeedLabels)) /\ Calls(One("copy", SeedLabels))
    BY DEF SeedLabels
  <1>6. Calls(One("find", <<"random_int8">>))
    OBVIOUS
  <1>7. Calls(<< <<"dev", "scratch", 0>>, <<"find", "tensor_hash", 0>> >>)
    OBVIOUS
  <1>8. Calls(One("find", Kernels))
    BY DEF Kernels, Range
  <1>9. Calls(NewTriton)
    <2>1. CASE path = "CppSearch"
      <3>1. NewTriton = <<>> BY <2>1 DEF NewTriton
      <3> QED BY <3>1
    <2>2. CASE path # "CppSearch"
      <3> DEFINE s == NewTriton
      <3>1. s = << <<"query", "cc", 0>>, <<"module", "_noising_mod", 0>>,
                   <<"module", "_search_mod", 0>>, <<"find", "noising", 0>>,
                   <<"find", "search", 0>>, <<"find", "postpass", 0>>,
                   <<"dev", "transcripts", 0>> >>
        BY <2>2 DEF NewTriton
      <3> HIDE DEF s
      <3>2. s \in Seq(Call) /\ Len(s) = 7 BY <3>1
      <3>3. ASSUME NEW i \in 1..7 PROVE MakesLocal(s[i]) /\ s[i][1] # "map"
        <4>1. i = 1 \/ i = 2 \/ i = 3 \/ i = 4 \/ i = 5 \/ i = 6 \/ i = 7 OBVIOUS
        <4> QED BY <3>1, <4>1
      <3> QED BY <3>2, <3>3 DEF s
    <2> QED BY <2>1, <2>2
  <1>10. Calls(NewCtx)
    BY DEF NewCtx
  <1> QED BY <1>1, <1>2, <1>3, <1>4, <1>5, <1>6, <1>7, <1>8, <1>9, <1>10

(* The calls of MinerBufs::new, the first of which makes the first A.      *)
LEMMA CallsOfBufs ==
  Calls(NewBufs) /\ Len(NewBufs) >= 1 /\ NewBufs[1] = FirstA
  <1> DEFINE Opens(s) == Calls(s) /\ Len(s) \in Nat \ {0} /\ s[1] = FirstA
  <1>1. Opens(Ring("a_pool"))
    <2>1. "a_pool" \in LocalField \ {"ctx"} BY LocalFieldSet
    <2>2. Len(Ring("a_pool")) = RingSize /\ Ring("a_pool")[1] = FirstA
      BY WorkerResourcesAssumption, LenProperties DEF Ring, FirstA
    <2> QED BY <2>1, <2>2, CallsOfRing, WorkerResourcesAssumption
  <1>2. ASSUME NEW s, NEW t, Opens(s), Calls(t) PROVE Opens(s \o t)
    <2>1. Calls(s \o t) BY <1>2, CallsJoin
    <2>2. Len(s) \in Nat \ {0} /\ Len(t) \in Nat /\ s \in Seq(Call) /\ t \in Seq(Call)
      BY <1>2, LenProperties DEF Calls
    <2>3. Len(s \o t) = Len(s) + Len(t) /\ (s \o t)[1] = s[1]
      BY <2>2, ConcatProperties
    <2> QED BY <1>2, <2>1, <2>2, <2>3
  <1>3. /\ Calls(Ring("a_tensor_hash_pool")) /\ Calls(Ring("commit_a_pool"))
        /\ Calls(Ring("commit_b_pool"))
    BY LocalFieldSet, CallsOfRing
  <1>4. /\ Calls(PinnedRing("host_signal_header_pool")) /\ Calls(PinnedRing("a_snapshot_pool"))
        /\ Calls(PinnedRing("commit_a_snapshot_pool"))
        /\ Calls(PinnedRing("commit_b_snapshot_pool"))
    BY LocalFieldSet, CallsOfPinnedRing
  <1>5. Opens(NewBufs)
    <2> HIDE DEF Opens
    <2> QED BY <1>1, <1>2, <1>3, <1>4, CallsWritten, Zenon DEF NewBufs
  <1> QED BY <1>5

(* A set-up: what each of its calls is, and where the context, the first   *)
(* A and the stream are made (worker and MinerBufs::new).                  *)
LEMMA SetupCalls ==
  /\ Len(Setup) \in Nat /\ Len(Setup) >= 7 /\ DOMAIN Setup = 1..Len(Setup)
  /\ Setup[3] = TheCtx /\ Setup[6] = FirstA /\ Setup[Len(Setup)] = TheStream
  /\ \A i \in 1..Len(Setup) : Setup[i] \in Call
  /\ \A i \in 1..(Len(Setup) - 1) :
       /\ MakesLocal(Setup[i])
       /\ Setup[i][1] = "map" => i > 4 /\ Setup[i - 1] = <<"host", Setup[i][2], Setup[i][3]>>
  <1> DEFINE s == NewCtx \o NewBufs
             t == s \o NewTriton
             z == << TheStream >>
  <1>1. Setup = t \o z BY DEF Setup, TheStream
  <1>2. Calls(s) /\ Calls(t) BY CallsOfBufs, CallsWritten, CallsJoin
  <1>3. /\ s \in Seq(Call) /\ t \in Seq(Call) /\ NewCtx \in Seq(Call) /\ NewBufs \in Seq(Call)
        /\ NewTriton \in Seq(Call) /\ z \in Seq(Call) /\ Len(z) = 1 /\ z[1] = TheStream
    <2>1. z \in Seq(Call) BY DEF TheStream, Call, CallKind, CallName, Object
    <2> QED BY <1>2, <2>1, CallsOfBufs, CallsWritten DEF Calls
  <1>4. /\ Len(NewCtx) = 5 /\ NewCtx[3] = TheCtx
        /\ \A i \in 1..5 : NewCtx[i][1] # "map"
    BY DEF NewCtx, TheCtx
  <1>5. /\ Len(s) \in Nat /\ Len(s) >= 6 /\ s[6] = FirstA /\ s[3] = TheCtx
        /\ \A i \in 1..5 : s[i] = NewCtx[i]
    <2>1. Len(NewBufs) \in Nat /\ Len(NewBufs) >= 1 /\ NewBufs[1] = FirstA
      BY CallsOfBufs, <1>3, LenProperties
    <2>2. /\ Len(s) = Len(NewCtx) + Len(NewBufs)
          /\ \A i \in 1..(Len(NewCtx) + Len(NewBufs)) :
               s[i] = IF i <= Len(NewCtx) THEN NewCtx[i] ELSE NewBufs[i - Len(NewCtx)]
      BY <1>3, ConcatProperties
    <2> HIDE DEF s
    <2>3. s[6] = NewBufs[1] /\ \A i \in 1..5 : s[i] = NewCtx[i]
      BY <1>4, <2>1, <2>2
    <2> QED BY <1>4, <2>1, <2>2, <2>3
  <1> HIDE DEF s, z
  <1>6. /\ Len(t) \in Nat /\ Len(t) >= 6 /\ t[6] = FirstA /\ t[3] = TheCtx
        /\ \A i \in 1..5 : t[i] = NewCtx[i]
    <2>1. Len(NewTriton) \in Nat BY <1>3, LenProperties
    <2> QED BY <2>1, <1>3, <1>4, <1>5, ConcatProperties
  <1> HIDE DEF t
  <1>7. /\ Setup \in Seq(Call) /\ Len(Setup) = Len(t) + 1 /\ Setup[Len(t) + 1] = TheStream
        /\ \A i \in 1..Len(t) : Setup[i] = t[i]
    <2>1. /\ Setup \in Seq(Call) /\ Len(Setup) = Len(t) + Len(z)
          /\ \A i \in 1..(Len(t) + Len(z)) : Setup[i] = IF i <= Len(t) THEN t[i] ELSE z[i - Len(t)]
      BY <1>1, <1>3, ConcatProperties
    <2>2. Len(t) + 1 \in 1..(Len(t) + Len(z)) /\ Len(t) + 1 - Len(t) = 1
      BY <1>3, <1>6
    <2>3. PICK n \in Nat : n = Len(t) BY <1>6
    <2>4. ~(n + 1 <= n) /\ \A i \in 1..n : i \in 1..(n + 1) /\ i <= n BY <2>3
    <2>5. /\ Setup \in Seq(Call) /\ Len(Setup) = n + 1
          /\ \A i \in 1..(n + 1) : Setup[i] = IF i <= n THEN t[i] ELSE z[i - n]
      BY <2>1, <2>3, <1>3
    <2>6. n + 1 \in 1..(n + 1) /\ n + 1 - n = 1 OBVIOUS
    <2>7. Setup[n + 1] = TheStream BY <2>4, <2>5, <2>6, <1>3
    <2>8. \A i \in 1..n : Setup[i] = t[i] BY <2>4, <2>5
    <2> QED BY <2>3, <2>5, <2>7, <2>8, Zenon
  <1>8. \A i \in 1..Len(t) : MakesLocal(t[i])
    BY <1>2 DEF Calls
  <1>9. ASSUME NEW i \in 1..Len(t), t[i][1] = "map"
        PROVE  i > 5 /\ Setup[i - 1] = <<"host", t[i][2], t[i][3]>>
    <2>1. i > 5 BY <1>4, <1>6, <1>9
    <2>2. t[i - 1] = <<"host", t[i][2], t[i][3]>> BY <1>2, <1>9 DEF Calls
    <2>3. i - 1 \in 1..Len(t) BY <2>1, <1>6
    <2> QED BY <2>1, <2>2, <2>3, <1>7
  <1> QED BY <1>6, <1>7, <1>8, <1>9, LenProperties

-----------------------------------------------------------------------------
(* The order of drops.  In both orders the context goes last; of a worker  *)
(* with its MinerBufs, the graphs, the stream and the A ring go first.     *)
LEMMA PlaceOfField ==
  ASSUME NEW fields, NEW f \in Range(fields)
  PROVE  PlaceIn(fields)[f] \in DOMAIN fields /\ fields[PlaceIn(fields)[f]] = f
  BY DEF PlaceIn, Range

(* The locals of new go last made first, the context after all.            *)
LEMMA LocalOrder ==
  /\ DOMAIN LocalPlace = LocalField /\ \A f \in LocalField : LocalPlace[f] \in Nat
  /\ \A f \in LocalField \ {"ctx"} : LocalPlace[f] < LocalPlace["ctx"]
  <1> DEFINE R == Reverse(LocalFields)
  <1>1. Len(LocalFields) = 24 /\ LocalFields[1] = "ctx" /\ "ctx" \in LocalField
        /\ \A i \in 2..24 : LocalFields[i] # "ctx"
    BY LocalFieldSet DEF LocalFields
  <1>2. R = [i \in 1..24 |-> LocalFields[24 - i + 1]]
    BY <1>1 DEF Reverse
  <1>3. DOMAIN LocalFields = 1..24 BY DEF LocalFields
  <1> HIDE DEF R
  <1>4. Range(R) = LocalField
    <2>1. ASSUME NEW i \in 1..24 PROVE R[i] \in LocalField
      <3>1. 24 - i + 1 \in 1..24 OBVIOUS
      <3> QED BY <3>1, <1>2, <1>3 DEF LocalField, Range
    <2>2. ASSUME NEW i \in 1..24 PROVE LocalFields[i] \in Range(R)
      <3>1. 24 - i + 1 \in 1..24 /\ 24 - (24 - i + 1) + 1 = i OBVIOUS
      <3>2. R[24 - i + 1] = LocalFields[i] BY <3>1, <1>2
      <3> QED BY <3>1, <3>2, <1>2 DEF Range
    <2> QED BY <2>1, <2>2, <1>2, <1>3 DEF LocalField, Range
  <1>5. LocalPlace = PlaceIn(R) /\ DOMAIN PlaceIn(R) = Range(R) BY DEF LocalPlace, R, PlaceIn
  <1>6. \A f \in LocalField : LocalPlace[f] \in 1..24 /\ R[LocalPlace[f]] = f
    BY <1>2, <1>4, <1>5, PlaceOfField
  <1>7. \A i \in 1..23 : R[i] # "ctx"
    <2> TAKE i \in 1..23
    <2>1. 24 - i + 1 \in 2..24 OBVIOUS
    <2> QED BY <2>1, <1>1, <1>2
  <1>8. LocalPlace["ctx"] = 24
    BY <1>1, <1>6, <1>7
  <1>9. \A f \in LocalField \ {"ctx"} : LocalPlace[f] # 24
    BY <1>1, <1>6, <1>8
  <1>10. \A f \in LocalField \ {"ctx"} : LocalPlace[f] < 24
    BY <1>6, <1>9
  <1>11. DOMAIN LocalPlace = LocalField BY <1>4, <1>5
  <1>12. \A f \in LocalField : LocalPlace[f] \in Nat BY <1>6
  <1> QED BY <1>8, <1>10, <1>11, <1>12

(* The locals of worker and the fields of MinerBufs.                       *)
LEMMA WorkerOrder ==
  /\ DOMAIN WorkerPlace = LocalField \cup {"graphs", "stream"}
  /\ \A f \in DOMAIN WorkerPlace : WorkerPlace[f] \in Nat
  /\ \A f \in DOMAIN WorkerPlace \ {"ctx"} : WorkerPlace[f] < WorkerPlace["ctx"]
  /\ \A f \in DOMAIN WorkerPlace : /\ WorkerPlace["graphs"] <= WorkerPlace[f]
                                   /\ WorkerPlace[f] <= WorkerPlace["graphs"] => f = "graphs"
  /\ \A f \in DOMAIN WorkerPlace : WorkerPlace[f] < WorkerPlace["stream"] => f = "graphs"
  /\ \A f \in DOMAIN WorkerPlace :
       WorkerPlace[f] < WorkerPlace["a_pool"] => f \in {"graphs", "stream"}
  <1> DEFINE F == WorkerFields
             a == <<"graphs", "stream">> \o StructFields
  <1>1. /\ Len(StructFields) = 22 /\ StructFields \in Seq(LocalField)
        /\ StructFields[1] = "a_pool"
        /\ \A i \in 1..22 : StructFields[i] # "ctx"
        /\ LocalField = {StructFields[i] : i \in 1..22} \cup {"module", "ctx"}
    BY LocalFieldSet DEF StructFields
  <1> DEFINE N == LocalField \cup {"graphs", "stream"}
  <1>2. /\ <<"graphs", "stream">> \in Seq(N) /\ <<"module", "ctx">> \in Seq(N)
        /\ StructFields \in Seq(N)
    BY <1>1, LocalFieldSet, SMTT(40)
  <1> HIDE DEF N
  <1>3. /\ a \in Seq(N) /\ Len(a) = 24 /\ a[1] = "graphs" /\ a[2] = "stream"
        /\ \A i \in 3..24 : a[i] = StructFields[i - 2]
    <2>1. /\ a \in Seq(N) /\ Len(a) = Len(<<"graphs", "stream">>) + Len(StructFields)
          /\ \A i \in 1..(Len(<<"graphs", "stream">>) + Len(StructFields)) :
               a[i] = IF i <= Len(<<"graphs", "stream">>) THEN <<"graphs", "stream">>[i]
                      ELSE StructFields[i - Len(<<"graphs", "stream">>)]
      BY <1>2, ConcatProperties
    <2>2. Len(<<"graphs", "stream">>) = 2 OBVIOUS
    <2> HIDE DEF a
    <2> QED BY <1>1, <2>1, <2>2, SMTT(40)
  <1> HIDE DEF a
  <1>4. /\ F \in Seq(N) /\ Len(F) = 26 /\ \A i \in 1..24 : F[i] = a[i]
        /\ F[25] = "module" /\ F[26] = "ctx"
    <2> DEFINE z == <<"module", "ctx">>
    <2>1. F = a \o z BY DEF WorkerFields, a
    <2>2. Len(z) = 2 /\ z[1] = "module" /\ z[2] = "ctx" /\ z \in Seq(N) BY <1>2
    <2> HIDE DEF z, F
    <2>3. /\ F \in Seq(N) /\ Len(F) = Len(a) + Len(z)
          /\ \A i \in 1..(Len(a) + Len(z)) : F[i] = IF i <= Len(a) THEN a[i] ELSE z[i - Len(a)]
      BY <1>3, <2>1, <2>2, ConcatProperties, ZenonT(60)
    <2>4. F \in Seq(N) /\ Len(F) = 26 /\ \A i \in 1..26 : F[i] = IF i <= 24 THEN a[i] ELSE z[i - 24]
      BY <1>3, <2>2, <2>3
    <2>5. F[25] = "module" /\ F[26] = "ctx" BY <2>2, <2>4
    <2> QED BY <2>4, <2>5
  <1> HIDE DEF F
  <1>5. DOMAIN F = 1..26 BY <1>4, LenProperties
  <1>6. /\ F[1] = "graphs" /\ F[2] = "stream" /\ F[3] = "a_pool"
        /\ \A i \in 3..24 : F[i] = StructFields[i - 2]
    BY <1>1, <1>3, <1>4
  <1>7. Range(F) = N
    <2>1. \A i \in 1..22 : i + 2 \in 1..26 /\ F[i + 2] = StructFields[i]
      <3> TAKE i \in 1..22
      <3>1. i + 2 \in 3..24 /\ i + 2 - 2 = i OBVIOUS
      <3> QED BY <3>1, <1>6
    <2>2. \A f \in LocalField : f \in Range(F)
      <3>1. \A i \in 1..22 : StructFields[i] \in Range(F) BY <2>1, <1>5 DEF Range
      <3>2. "module" \in Range(F) /\ "ctx" \in Range(F) BY <1>4, <1>5 DEF Range
      <3> QED BY <3>1, <3>2, <1>1
    <2>3. "graphs" \in Range(F) /\ "stream" \in Range(F) BY <1>5, <1>6 DEF Range
    <2>4. \A i \in 1..26 : F[i] \in N BY <1>4, ElementOfSeq
    <2> QED BY <2>2, <2>3, <2>4, <1>5 DEF N, Range
  <1>8. \A f \in N : WorkerPlace[f] \in 1..26 /\ F[WorkerPlace[f]] = f
    BY <1>5, <1>7, PlaceOfField DEF WorkerPlace, F
  <1>9. DOMAIN WorkerPlace = N BY <1>7 DEF WorkerPlace, PlaceIn, F
  <1>10. {"graphs", "stream", "a_pool", "ctx"} \subseteq N BY LocalFieldSet DEF N
  <1>11. \A i \in 3..25 : F[i] \notin {"graphs", "stream", "ctx"}
    <2> TAKE i \in 3..25
    <2>1. CASE i = 25 BY <2>1, <1>4
    <2>2. CASE i # 25
      <3>1. i \in 3..24 /\ i - 2 \in 1..22 BY <2>2
      <3>2. F[i] = StructFields[i - 2] /\ StructFields[i - 2] \in LocalField \ {"ctx"}
        BY <3>1, <1>1, <1>6
      <3> QED BY <3>2, LocalFieldSet
    <2> QED BY <2>1, <2>2
  <1>12. \A i \in 4..26 : F[i] # "a_pool"
    <2> TAKE i \in 4..26
    <2>1. CASE i \in {25, 26} BY <2>1, <1>4
    <2>2. CASE i \notin {25, 26}
      <3>1. i \in 3..24 /\ i - 2 \in 2..22 BY <2>2
      <3>2. \A k \in 2..22 : StructFields[k] # "a_pool" BY DEF StructFields
      <3> QED BY <3>1, <3>2, <1>6
    <2> QED BY <2>1, <2>2
  <1>13. /\ WorkerPlace["graphs"] = 1 /\ WorkerPlace["stream"] = 2 /\ WorkerPlace["a_pool"] = 3
         /\ WorkerPlace["ctx"] = 26
    <2>1. \A i \in 1..26 : /\ F[i] = "graphs" => i = 1
                           /\ F[i] = "stream" => i = 2
                           /\ F[i] = "a_pool" => i = 3
                           /\ F[i] = "ctx" => i = 26
      <3> TAKE i \in 1..26
      <3>1. CASE i = 1 BY <3>1, <1>6
      <3>2. CASE i = 2 BY <3>2, <1>6
      <3>3. CASE i = 3 BY <3>3, <1>6
      <3>4. CASE i \in 4..25
        <4>1. i \in 3..25 /\ i \in 4..26 BY <3>4
        <4> QED BY <4>1, <1>11, <1>12
      <3>5. CASE i = 26 BY <3>5, <1>4
      <3>6. i = 1 \/ i = 2 \/ i = 3 \/ i \in 4..25 \/ i = 26 OBVIOUS
      <3> QED BY <3>1, <3>2, <3>3, <3>4, <3>5, <3>6
    <2> QED BY <2>1, <1>8, <1>10
  <1> QED
    <2>1. \A f \in N : WorkerPlace[f] = 1 => f = "graphs" BY <1>6, <1>8
    <2>2. \A f \in N : WorkerPlace[f] = 2 => f = "stream" BY <1>6, <1>8
    <2>3. \A f \in N : WorkerPlace[f] = 26 => f = "ctx" BY <1>4, <1>8
    <2> QED BY <2>1, <2>2, <2>3, <1>8, <1>9, <1>13 DEF N

-----------------------------------------------------------------------------
(* What a worker holds, while it works and while it drops.                 *)
Things == Made(Setup) \cup Graphs \cup Execs
UpTo(n) == {o \in {Setup[i] : i \in 1..(n - 1)} : o[1] \in Object}
TheGraph(w) == <<"graph", "graphs", slot[w]>>

Kinded(w) ==
  /\ pc[w] \in Places /\ at[w] \in 1..(Len(Setup) + 1)
  /\ slot[w] \in 1..RingSize /\ batches[w] \in 0..MaxBatches
  /\ live[w] \subseteq Things /\ busy[w] \in BOOLEAN /\ capturing[w] \in BOOLEAN
  /\ cause[w] \in {"none", "quota", "driver", "refused"}

(* A worker that works owns what it has made so far; it keeps the device   *)
(* busy or its stream capturing only between the calls that say so.        *)
Working(w) ==
  pc[w] # "drop" =>
    /\ unowned[w] = {} /\ dropping[w] = {} /\ cause[w] = "none"
    /\ pc[w] = "setup" => at[w] <= Len(Setup) /\ live[w] = UpTo(at[w])
    /\ pc[w] # "setup" => at[w] = Len(Setup) + 1 /\ Made(Setup) \subseteq live[w]
    /\ pc[w] = "instantiate" => TheGraph(w) \in live[w]
    /\ busy[w] => pc[w] \in {"loaded", "replay", "sync", "resync"}
    /\ capturing[w] => pc[w] \in {"record", "end"}

(* A worker that drops: what is live is still to be dropped, or has no     *)
(* owner, and memory without an owner goes with the context; while the     *)
(* device may be busy no buffer has gone, while a graph can be launched    *)
(* nothing has, and a capture ends before what could be refused.           *)
Leaving(w) ==
  pc[w] = "drop" =>
    /\ cause[w] # "none"
    /\ dropping[w] \subseteq live[w] /\ unowned[w] \subseteq live[w]
    /\ live[w] \subseteq dropping[w] \cup unowned[w]
    /\ \A o \in dropping[w] : o[2] \in DOMAIN DropPlace(w)
    /\ unowned[w] \cap Execs = {} /\ unowned[w] \cap Graphs \subseteq {TheGraph(w)}
    /\ unowned[w] # {} => cause[w] = "driver"
    /\ ~(unowned[w] \subseteq Graphs) => TheCtx \in dropping[w]
    /\ busy[w] => HasBufs(w) /\ ~capturing[w] /\ Made(Setup) \ {TheStream} \subseteq dropping[w]
    /\ capturing[w] => HasBufs(w) /\ TheStream \in dropping[w]
    /\ Execs \cap dropping[w] # {} => HasBufs(w) /\ Made(Setup) \subseteq dropping[w]

Domains ==
  /\ DOMAIN pc = Workers /\ DOMAIN at = Workers /\ DOMAIN slot = Workers
  /\ DOMAIN batches = Workers /\ DOMAIN live = Workers /\ DOMAIN unowned = Workers
  /\ DOMAIN dropping = Workers /\ DOMAIN busy = Workers /\ DOMAIN capturing = Workers
  /\ DOMAIN cause = Workers
Held(w) == Kinded(w) /\ Working(w) /\ Leaving(w)
HoldingInv == Domains /\ \A w \in Workers : Held(w)
-----------------------------------------------------------------------------
(* What the things are: the context, the stream, the A ring and the graphs *)
(* are told apart by their fields.                                         *)
LEMMA WhatThingsAre ==
  /\ TheCtx \in Made(Setup) /\ TheStream \in Made(Setup) /\ FirstA \in Made(Setup)
  /\ \A o \in Made(Setup) : o[1] \in Object /\ o[2] \in LocalField \cup {"stream"}
  /\ \A o \in Things :
       /\ o[1] \in Released /\ o[2] \in LocalField \cup {"graphs", "stream"}
       /\ o[1] = "ctx" \/ o[2] = "ctx" => o = TheCtx
       /\ o[1] = "stream" \/ o[2] = "stream" => o = TheStream
       /\ o[2] = "graphs" => o \in Graphs \cup Execs
       /\ o[2] = "a_pool" => o[1] = "dev"
  /\ \A o \in Graphs : o[1] = "graph" /\ o[2] = "graphs"
  /\ \A o \in Execs : o[1] = "exec" /\ o[2] = "graphs"
  /\ Made(Setup) \cap (Graphs \cup Execs) = {}
  <1> DEFINE N == Len(Setup)
  <1>0. /\ N \in Nat /\ N >= 7 /\ DOMAIN Setup = 1..N
        /\ Setup[3] = TheCtx /\ Setup[6] = FirstA /\ Setup[N] = TheStream
        /\ \A i \in 1..(N - 1) : MakesLocal(Setup[i])
    BY SetupCalls
  <1> HIDE DEF N
  <1>1. /\ \A o \in Graphs : o[1] = "graph" /\ o[2] = "graphs"
        /\ \A o \in Execs : o[1] = "exec" /\ o[2] = "graphs"
    BY DEF Graphs, Execs
  <1>2. TheCtx[1] = "ctx" /\ TheStream[1] = "stream" /\ TheStream[2] = "stream" /\ FirstA[1] = "dev"
    BY DEF TheCtx, TheStream, FirstA
  <1>3. \A i \in 1..N : Setup[i][1] \in Object => Setup[i] \in Made(Setup)
    BY <1>0 DEF Made, Range
  <1>4. TheCtx \in Made(Setup) /\ TheStream \in Made(Setup) /\ FirstA \in Made(Setup)
    <2>1. 3 \in 1..N /\ 6 \in 1..N /\ N \in 1..N BY <1>0
    <2> QED BY <1>0, <1>2, <1>3, <2>1 DEF Object
  <1>5. ASSUME NEW o \in Made(Setup)
        PROVE  /\ o[1] \in Object
               /\ o = TheStream \/ (MakesLocal(o) /\ o[1] \in Object)
    <2>1. PICK i \in 1..N : o = Setup[i] BY <1>0 DEF Made, Range
    <2>2. o[1] \in Object BY DEF Made
    <2>3. CASE i = N BY <2>1, <2>2, <2>3, <1>0
    <2>4. CASE i # N
      <3>1. i \in 1..(N - 1) BY <2>4, <1>0
      <3> QED BY <3>1, <2>1, <2>2, <1>0
    <2> QED BY <2>3, <2>4
  <1>6. ASSUME NEW o \in Made(Setup)
        PROVE  /\ o[1] \in Object /\ o[2] \in LocalField \cup {"stream"}
               /\ o[1] = "ctx" \/ o[2] = "ctx" => o = TheCtx
               /\ o[1] = "stream" \/ o[2] = "stream" => o = TheStream
               /\ o[2] = "a_pool" => o[1] = "dev"
    <2>1. "stream" \notin LocalField BY LocalFieldSet
    <2>2. CASE o = TheStream BY <1>2, <1>5, <2>2
    <2>3. CASE MakesLocal(o) /\ o[1] \in Object BY <2>1, <2>3 DEF MakesLocal
    <2> QED BY <1>5, <2>2, <2>3
  <1>7. Made(Setup) \cap (Graphs \cup Execs) = {}
    BY <1>1, <1>6 DEF Object
  <1>8. \A o \in Made(Setup) : o[1] \in Released /\ o[2] # "graphs"
    BY <1>6, LocalFieldSet DEF Object, Released
  <1>9. \A o \in Graphs \cup Execs : o[1] \in Released
    BY <1>1 DEF Released
  <1> QED BY <1>1, <1>4, <1>6, <1>7, <1>8, <1>9 DEF Things

(* What has been made before the call number n.                            *)
LEMMA MadeSoFar ==
  /\ UpTo(1) = {} /\ UpTo(Len(Setup) + 1) = Made(Setup)
  /\ \A n \in 1..Len(Setup) :
       /\ UpTo(n) \subseteq Made(Setup) /\ \A o \in UpTo(n) : o[2] \in LocalField
       /\ UpTo(n + 1) = IF Setup[n][1] \in Object THEN UpTo(n) \cup {Setup[n]} ELSE UpTo(n)
       /\ Setup[n][1] = "map" =>
            TheCtx \in UpTo(n) /\ <<"host", Setup[n][2], Setup[n][3]>> \in UpTo(n)
  <1> DEFINE N == Len(Setup)
  <1>0. /\ N \in Nat /\ N >= 7 /\ DOMAIN Setup = 1..N /\ Setup[3] = TheCtx
        /\ Setup[N] = TheStream
        /\ \A i \in 1..(N - 1) :
             /\ MakesLocal(Setup[i])
             /\ Setup[i][1] = "map" => i > 4 /\ Setup[i - 1] = <<"host", Setup[i][2], Setup[i][3]>>
    BY SetupCalls
  <1> HIDE DEF N
  <1>1. UpTo(1) = {} BY DEF UpTo
  <1>2. UpTo(N + 1) = Made(Setup)
    <2>1. 1..(N + 1 - 1) = 1..N BY <1>0
    <2> QED BY <2>1, <1>0 DEF UpTo, Made, Range
  <1>3. ASSUME NEW n \in 1..N
        PROVE  /\ UpTo(n) \subseteq Made(Setup) /\ \A o \in UpTo(n) : o[2] \in LocalField
               /\ UpTo(n + 1) = IF Setup[n][1] \in Object THEN UpTo(n) \cup {Setup[n]} ELSE UpTo(n)
               /\ Setup[n][1] = "map" =>
                    TheCtx \in UpTo(n) /\ <<"host", Setup[n][2], Setup[n][3]>> \in UpTo(n)
    <2>1. 1..(n - 1) \subseteq 1..(N - 1) /\ 1..(n - 1) \subseteq 1..N BY <1>0
    <2>2. UpTo(n) \subseteq Made(Setup) BY <2>1, <1>0 DEF UpTo, Made, Range
    <2>3. \A o \in UpTo(n) : o[2] \in LocalField
      BY <2>1, <1>0 DEF UpTo, MakesLocal
    <2>4. 1..(n + 1 - 1) = 1..(n - 1) \cup {n} BY <1>0
    <2>5. UpTo(n + 1) = IF Setup[n][1] \in Object THEN UpTo(n) \cup {Setup[n]} ELSE UpTo(n)
      BY <2>4 DEF UpTo
    <2>6. ASSUME Setup[n][1] = "map"
          PROVE  TheCtx \in UpTo(n) /\ <<"host", Setup[n][2], Setup[n][3]>> \in UpTo(n)
      <3>1. n # N BY <1>0, <2>6 DEF TheStream
      <3>2. n \in 1..(N - 1) BY <3>1, <1>0
      <3>3. n > 4 /\ Setup[n - 1] = <<"host", Setup[n][2], Setup[n][3]>> BY <3>2, <2>6, <1>0
      <3>4. n - 1 \in 1..(n - 1) /\ 3 \in 1..(n - 1) BY <3>2, <3>3, <1>0
      <3>5. Setup[n - 1][1] \in Object /\ Setup[3][1] \in Object
        BY <3>3, <1>0 DEF Object, TheCtx
      <3> QED BY <3>3, <3>4, <3>5, <1>0 DEF UpTo
    <2> QED BY <2>2, <2>3, <2>5, <2>6
  <1> QED BY <1>1, <1>2, <1>3 DEF N

-----------------------------------------------------------------------------
(* A step of one worker leaves the others alone.                           *)
Same(v) ==
  /\ pc'[v] = pc[v] /\ at'[v] = at[v] /\ slot'[v] = slot[v] /\ batches'[v] = batches[v]
  /\ live'[v] = live[v] /\ unowned'[v] = unowned[v] /\ dropping'[v] = dropping[v]
  /\ busy'[v] = busy[v] /\ capturing'[v] = capturing[v] /\ cause'[v] = cause[v]
Others(w) == path' = path /\ Domains' /\ \A v \in Workers \ {w} : Same(v)

(* What a set-up calls depends on the path only, which never changes.      *)
LEMMA SetupFixed == ASSUME path' = path PROVE Setup' = Setup
  BY DEF Setup, NewTriton

(* A worker that does not move holds what it held.                         *)
LEMMA SameHeld ==
  ASSUME path' = path, NEW v \in Workers, Same(v), Held(v)
  PROVE  Held(v)'
  <1>1. Setup' = Setup BY SetupFixed
  <1>2. DropPlace(v)' = DropPlace(v) /\ HasBufs(v)' = HasBufs(v)
    BY <1>1 DEF DropPlace, HasBufs, Same
  <1>3. Kinded(v)'
    BY <1>1 DEF Held, Kinded, Same, Things
  <1>4. Working(v)'
    BY <1>1 DEF Held, Working, Same, UpTo, TheGraph
  <1>5. Leaving(v)'
    BY <1>1, <1>2 DEF Held, Leaving, Same, TheGraph
  <1> QED BY <1>3, <1>4, <1>5 DEF Held

(* So a step need only be looked at for the worker that takes it.          *)
LEMMA OneWorker ==
  ASSUME HoldingInv, NEW w \in Workers, Others(w), Held(w)'
  PROVE  HoldingInv'
  <1>1. \A v \in Workers \ {w} : Held(v)'
    BY SameHeld DEF HoldingInv, Others
  <1> QED BY <1>1 DEF HoldingInv, Others

(* What is left to drop, when a worker returns and L has lost its owner.   *)
LEMMA ReturnDrops ==
  ASSUME NEW w \in Workers, Held(w), pc[w] # "drop", NEW L, NEW D, D = ToDrop(w, live[w] \ L)
  PROVE  /\ D = live[w] \ L
         /\ \A o \in D : o[2] \in DOMAIN DropPlace(w)
         /\ at[w] = Len(Setup) + 1 => HasBufs(w)
  <1>1. live[w] \subseteq Things /\ at[w] \in Nat /\ Len(Setup) \in Nat
    BY SetupCalls DEF Held, Kinded
  <1>2. \A o \in live[w] : o[1] \in Released /\ o[2] \in LocalField \cup {"graphs", "stream"}
    BY <1>1, WhatThingsAre
  <1>3. \A o \in live[w] : o[2] \in DOMAIN DropPlace(w)
    <2>1. CASE HasBufs(w)
      BY <2>1, <1>2, WorkerOrder DEF DropPlace
    <2>2. CASE ~HasBufs(w)
      <3>1. pc[w] = "setup" /\ at[w] \in 1..Len(Setup) /\ live[w] = UpTo(at[w])
        BY <2>2, <1>1 DEF Held, Kinded, Working, HasBufs
      <3>2. \A o \in live[w] : o[2] \in LocalField
        BY <3>1, MadeSoFar
      <3> QED BY <2>2, <3>2, LocalOrder DEF DropPlace
    <2> QED BY <2>1, <2>2
  <1>4. at[w] = Len(Setup) + 1 => HasBufs(w)
    BY <1>1 DEF HasBufs
  <1> QED BY <1>2, <1>3, <1>4 DEF ToDrop

(* No worker has anything yet, but those that have set up.                 *)
LEMMA HoldingInit == Init => HoldingInv
  <1> SUFFICES ASSUME Init PROVE HoldingInv
    OBVIOUS
  <1>1. Domains BY DEF Init, Domains
  <1>2. ASSUME NEW w \in Workers PROVE Held(w)
    <2>1. /\ slot[w] = 1 /\ batches[w] = 0 /\ unowned[w] = {} /\ dropping[w] = {}
          /\ busy[w] = FALSE /\ capturing[w] = FALSE /\ cause[w] = "none"
      BY DEF Init
    <2>2. /\ pc[w] = IF w \in Early THEN "idle" ELSE "setup"
          /\ at[w] = IF w \in Early THEN Len(Setup) + 1 ELSE 1
          /\ live[w] = IF w \in Early THEN Made(Setup) ELSE {}
      BY Zenon DEF Init
    <2>3. 1 \in 1..RingSize /\ 0 \in 0..MaxBatches /\ Len(Setup) \in Nat /\ Len(Setup) >= 7
      BY SetupCalls, WorkerResourcesAssumption
    <2>4. Kinded(w)
      <3>1. pc[w] \in Places BY <2>2 DEF Places, Calling
      <3>2. at[w] \in 1..(Len(Setup) + 1) BY <2>2, <2>3
      <3>3. live[w] \subseteq Things BY <2>2 DEF Things
      <3> QED BY <2>1, <2>3, <3>1, <3>2, <3>3 DEF Kinded
    <2>5. Working(w)
      BY <2>1, <2>2, <2>3, MadeSoFar DEF Working
    <2>6. Leaving(w)
      BY <2>2 DEF Leaving
    <2> QED BY <2>4, <2>5, <2>6 DEF Held
  <1> QED BY <1>1, <1>2 DEF HoldingInv

(* A call of the set-up adds what it makes.                                *)
LEMMA HoldingAcquire ==
  ASSUME HoldingInv, NEW w \in Workers, Acquire(w)
  PROVE  HoldingInv'
  <1> DEFINE n == at[w]
             op == Setup[n]
  <1>1. Held(w) /\ Domains /\ pc[w] = "setup" /\ n \in 1..Len(Setup) /\ Len(Setup) \in Nat
    BY SetupCalls DEF HoldingInv, Acquire, Held, Kinded, Working
  <1>2. live[w] = UpTo(n)
    BY <1>1 DEF Held, Working
  <1>3. /\ path' = path /\ UNCHANGED <<slot, batches, unowned, dropping, busy, capturing, cause>>
        /\ at' = [at EXCEPT ![w] = n + 1]
        /\ pc' = [pc EXCEPT ![w] = IF n = Len(Setup) THEN "idle" ELSE "setup"]
    BY Zenon DEF Acquire, Goto
  <1>4. /\ DOMAIN live' = Workers /\ live'[w] = UpTo(n + 1)
        /\ \A v \in Workers \ {w} : live'[v] = live[v]
    <2>1. CASE op[1] \in Object
      <3>1. UpTo(n + 1) = live[w] \cup {op} BY <1>1, <1>2, <2>1, MadeSoFar
      <3>2. live' = [live EXCEPT ![w] = live[w] \cup {op}] BY <2>1, Zenon DEF Acquire, Make
      <3> QED BY <1>1, <3>1, <3>2 DEF Domains
    <2>2. CASE op[1] \notin Object
      <3>1. UpTo(n + 1) = live[w] BY <1>1, <1>2, <2>2, MadeSoFar
      <3>2. live' = live BY <2>2, Zenon DEF Acquire
      <3> QED BY <1>1, <3>1, <3>2 DEF Domains
    <2> QED BY <2>1, <2>2
  <1>5. PICK m : m = n + 1 OBVIOUS
  <1> HIDE DEF n, op
  <1>6. Others(w)
    <2>1. Domains' BY <1>1, <1>3, <1>4 DEF Domains
    <2>2. \A v \in Workers \ {w} : Same(v)
      BY <1>1, <1>3, <1>4 DEF Same, Domains
    <2> QED BY <1>3, <2>1, <2>2 DEF Others
  <1>7. /\ pc'[w] = IF n = Len(Setup) THEN "idle" ELSE "setup"
        /\ at'[w] = m /\ live'[w] = UpTo(m)
    BY <1>1, <1>3, <1>4, <1>5 DEF Domains
  <1>8. Setup' = Setup /\ Made(Setup)' = Made(Setup) BY <1>3, SetupFixed
  <1>9. UpTo(m)' = UpTo(m) BY <1>8 DEF UpTo
  <1>10. UpTo(m) \subseteq Made(Setup)
    <2>1. m \in 1..Len(Setup) \/ m = Len(Setup) + 1 BY <1>1, <1>5
    <2> QED BY <2>1, MadeSoFar
  <1>11. Kinded(w)'
    BY <1>1, <1>3, <1>5, <1>7, <1>8, <1>10 DEF Held, Kinded, Places, Calling, Things
  <1>12. Working(w)'
    <2>1. live'[w] = UpTo(at[w])'
      BY <1>7, <1>9 DEF UpTo
    <2>2. ~busy'[w] /\ ~capturing'[w]
      BY <1>1, <1>3 DEF Held, Working
    <2>3. unowned'[w] = {} /\ dropping'[w] = {} /\ cause'[w] = "none"
      BY <1>1, <1>3 DEF Held, Working
    <2>4. CASE n = Len(Setup)
      <3>1. live'[w] = Made(Setup)' /\ at'[w] = (Len(Setup) + 1)' /\ pc'[w] = "idle"
        BY <2>4, <1>5, <1>7, <1>8, MadeSoFar
      <3> QED BY <2>2, <2>3, <3>1 DEF Working
    <2>5. CASE n # Len(Setup)
      <3>1. at'[w] <= Len(Setup)' /\ pc'[w] = "setup"
        BY <2>5, <1>1, <1>5, <1>7, <1>8
      <3> QED BY <2>1, <2>2, <2>3, <3>1 DEF Working
    <2> QED BY <2>4, <2>5
  <1>13. Leaving(w)' BY <1>7 DEF Leaving
  <1> QED BY <1>6, <1>11, <1>12, <1>13, OneWorker DEF Held

-----------------------------------------------------------------------------
(* A step by which a worker that is set up goes on working.                *)
StillBusy(w) ==
  /\ busy'[w] \in BOOLEAN /\ capturing'[w] \in BOOLEAN
  /\ busy'[w] => pc'[w] \in {"loaded", "replay", "sync", "resync"}
  /\ capturing'[w] => pc'[w] \in {"record", "end"}

(* It may gain a graph or an exec, and nothing it has gets lost.           *)
LEMMA StillWorking ==
  ASSUME HoldingInv, NEW w \in Workers, Others(w), pc[w] \notin {"setup", "drop"},
         at'[w] = at[w], unowned'[w] = unowned[w], dropping'[w] = dropping[w],
         cause'[w] = cause[w],
         pc'[w] \in Places \ {"setup", "drop"}, slot'[w] \in 1..RingSize,
         batches'[w] \in 0..MaxBatches, live[w] \subseteq live'[w],
         live'[w] \subseteq live[w] \cup Graphs \cup Execs,
         pc'[w] = "instantiate" => <<"graph", "graphs", slot'[w]>> \in live'[w],
         StillBusy(w)
  PROVE  HoldingInv'
  <1>1. Held(w) BY DEF HoldingInv
  <1>2. Setup' = Setup /\ Made(Setup)' = Made(Setup) BY SetupFixed DEF Others
  <1>3. Kinded(w)'
    BY <1>1, <1>2 DEF Held, Kinded, Things, StillBusy
  <1>4. Working(w)'
    BY <1>1, <1>2 DEF Held, Working, TheGraph, StillBusy
  <1>5. Leaving(w)' BY DEF Leaving
  <1> QED BY <1>3, <1>4, <1>5, OneWorker DEF Held

(* Loading a job and recording a graph give the worker nothing.            *)
LEMMA HoldingJob ==
  ASSUME HoldingInv, NEW w \in Workers,
         LoadJob(w) \/ JobLoaded(w) \/ BeginCapture(w) \/ RecordKernels(w)
  PROVE  HoldingInv'
  <1>0. Domains /\ Held(w) /\ 1 \in 1..RingSize
    BY WorkerResourcesAssumption DEF HoldingInv
  <1>1. CASE LoadJob(w)
    <2>1. Others(w) BY <1>0, <1>1 DEF LoadJob, Goto, Others, Same, Domains
    <2>2. /\ pc[w] = "idle" /\ pc'[w] = "loaded" /\ busy'[w] = TRUE
          /\ UNCHANGED <<at, slot, batches, live, unowned, dropping, capturing, cause>>
      BY <1>0, <1>1 DEF LoadJob, Goto, Domains
    <2>3. StillBusy(w) /\ "loaded" \in Places \ {"setup", "drop"}
      BY <1>0, <2>2 DEF StillBusy, Held, Kinded, Working, Places, Calling
    <2> QED BY <1>0, <2>1, <2>2, <2>3, StillWorking DEF Held, Kinded
  <1>2. CASE JobLoaded(w)
    <2>1. Others(w) BY <1>0, <1>2 DEF JobLoaded, Goto, Others, Same, Domains
    <2>2. /\ pc[w] = "loaded" /\ pc'[w] \in {"begin", "replay"} /\ busy'[w] = FALSE
          /\ slot'[w] = 1
          /\ UNCHANGED <<at, batches, live, unowned, dropping, capturing, cause>>
      BY <1>0, <1>2 DEF JobLoaded, Goto, Domains
    <2>3. StillBusy(w) /\ pc'[w] \in Places \ {"setup", "drop", "instantiate"}
      BY <1>0, <2>2 DEF StillBusy, Held, Kinded, Working, Places, Calling
    <2> QED BY <1>0, <2>1, <2>2, <2>3, StillWorking DEF Held, Kinded
  <1>3. CASE BeginCapture(w)
    <2>1. Others(w) BY <1>0, <1>3 DEF BeginCapture, Goto, Others, Same, Domains
    <2>2. /\ pc[w] = "begin" /\ pc'[w] = "record" /\ capturing'[w] = TRUE
          /\ UNCHANGED <<at, slot, batches, live, unowned, dropping, busy, cause>>
      BY <1>0, <1>3 DEF BeginCapture, Goto, Domains
    <2>3. StillBusy(w) /\ pc'[w] \in Places \ {"setup", "drop", "instantiate"}
      BY <1>0, <2>2 DEF StillBusy, Held, Kinded, Working, Places, Calling
    <2> QED BY <1>0, <2>1, <2>2, <2>3, StillWorking DEF Held, Kinded
  <1>4. CASE RecordKernels(w)
    <2>1. Others(w) BY <1>0, <1>4 DEF RecordKernels, Goto, Others, Same, Domains
    <2>2. /\ pc[w] = "record" /\ pc'[w] = "end"
          /\ UNCHANGED <<at, slot, batches, live, unowned, dropping, busy, capturing, cause>>
      BY <1>0, <1>4 DEF RecordKernels, Goto, Domains
    <2>3. StillBusy(w) /\ pc'[w] \in Places \ {"setup", "drop", "instantiate"}
      BY <1>0, <2>2 DEF StillBusy, Held, Kinded, Working, Places, Calling
    <2> QED BY <1>0, <2>1, <2>2, <2>3, StillWorking DEF Held, Kinded
  <1> QED BY <1>1, <1>2, <1>3, <1>4

(* What `end` makes of a capture are a graph and its exec.                 *)
LEMMA HoldingGraph ==
  ASSUME HoldingInv, NEW w \in Workers,
         EndCapture(w) \/ Instantiate(w) \/ FindRandomNode(w)
  PROVE  HoldingInv'
  <1>0. Domains /\ Held(w) /\ slot[w] \in 1..RingSize /\ RingSize \in Nat
    BY WorkerResourcesAssumption DEF HoldingInv, Held, Kinded
  <1>1. CASE EndCapture(w)
    <2> DEFINE g == <<"graph", "graphs", slot[w]>>
    <2>1. live' = [live EXCEPT ![w] = live[w] \cup {g}]
      BY <1>1, Zenon DEF EndCapture, Make
    <2>2. g \in Graphs BY <1>0 DEF Graphs
    <2>3. /\ pc[w] = "end" /\ pc'[w] = "instantiate" /\ capturing'[w] = FALSE
          /\ UNCHANGED <<path, at, slot, batches, unowned, dropping, busy, cause>>
      BY <1>0, <1>1 DEF EndCapture, Goto, Domains
    <2>4. Others(w)
      BY <1>0, <1>1, <2>1, <2>3 DEF EndCapture, Goto, Others, Same, Domains
    <2>5. live'[w] = live[w] \cup {g} BY <1>0, <2>1 DEF Domains
    <2>6. StillBusy(w) /\ pc'[w] \in Places \ {"setup", "drop"}
      BY <1>0, <2>3 DEF StillBusy, Held, Kinded, Working, Places, Calling
    <2> QED BY <1>0, <2>2, <2>3, <2>4, <2>5, <2>6, StillWorking DEF Held, Kinded
  <1>2. CASE Instantiate(w)
    <2> DEFINE x == <<"exec", "graphs", slot[w]>>
    <2>1. live' = [live EXCEPT ![w] = live[w] \cup {x}]
      BY <1>2, Zenon DEF Instantiate, Make
    <2>2. x \in Execs BY <1>0 DEF Execs
    <2>3. /\ pc[w] = "instantiate" /\ pc'[w] = "find"
          /\ UNCHANGED <<path, at, slot, batches, unowned, dropping, busy, capturing, cause>>
      BY <1>0, <1>2 DEF Instantiate, Goto, Domains
    <2>4. Others(w)
      BY <1>0, <1>2, <2>1, <2>3 DEF Instantiate, Goto, Others, Same, Domains
    <2>5. live'[w] = live[w] \cup {x} BY <1>0, <2>1 DEF Domains
    <2>6. StillBusy(w) /\ pc'[w] \in Places \ {"setup", "drop", "instantiate"}
      BY <1>0, <2>3 DEF StillBusy, Held, Kinded, Working, Places, Calling
    <2> QED BY <1>0, <2>2, <2>3, <2>4, <2>5, <2>6, StillWorking DEF Held, Kinded
  <1>3. CASE FindRandomNode(w)
    <2>1. Others(w) BY <1>0, <1>3 DEF FindRandomNode, Goto, Others, Same, Domains
    <2>2. /\ pc[w] = "find" /\ pc'[w] \in {"begin", "replay"}
          /\ slot'[w] = IF slot[w] = RingSize THEN 1 ELSE slot[w] + 1
          /\ UNCHANGED <<at, batches, live, unowned, dropping, busy, capturing, cause>>
      BY <1>0, <1>3 DEF FindRandomNode, Goto, Domains
    <2>3. StillBusy(w) /\ pc'[w] \in Places \ {"setup", "drop", "instantiate"}
      BY <1>0, <2>2 DEF StillBusy, Held, Kinded, Working, Places, Calling
    <2>4. slot'[w] \in 1..RingSize BY <1>0, <2>2
    <2> QED BY <1>0, <2>1, <2>2, <2>3, <2>4, StillWorking DEF Held, Kinded
  <1> QED BY <1>1, <1>2, <1>3

(* A batch makes nothing either.                                           *)
LEMMA HoldingBatch ==
  ASSUME HoldingInv, NEW w \in Workers,
         Replay(w) \/ Synchronize(w) \/ NoHit(w) \/ Snapshot(w) \/ NextBatch(w)
  PROVE  HoldingInv'
  <1>0. /\ Domains /\ Held(w) /\ slot[w] \in 1..RingSize /\ RingSize \in Nat
        /\ batches[w] \in 0..MaxBatches /\ MaxBatches \in Nat
    BY WorkerResourcesAssumption DEF HoldingInv, Held, Kinded
  <1>1. CASE Replay(w)
    <2>1. Others(w) BY <1>0, <1>1 DEF Replay, Goto, Others, Same, Domains
    <2>2. /\ pc[w] = "replay" /\ pc'[w] \in {"sync", "replay"} /\ busy'[w] = TRUE
          /\ slot'[w] = IF slot[w] = RingSize THEN 1 ELSE slot[w] + 1
          /\ UNCHANGED <<at, batches, live, unowned, dropping, capturing, cause>>
      BY <1>0, <1>1 DEF Replay, Goto, Domains
    <2>3. StillBusy(w) /\ pc'[w] \in Places \ {"setup", "drop", "instantiate"}
      BY <1>0, <2>2 DEF StillBusy, Held, Kinded, Working, Places, Calling
    <2>4. slot'[w] \in 1..RingSize BY <1>0, <2>2
    <2> QED BY <1>0, <2>1, <2>2, <2>3, <2>4, StillWorking DEF Held, Kinded
  <1>2. CASE Synchronize(w)
    <2>1. Others(w) BY <1>0, <1>2 DEF Synchronize, Goto, Others, Same, Domains
    <2>2. /\ pc[w] \in {"sync", "resync"} /\ pc'[w] \in {"headers", "counted"}
          /\ busy'[w] = FALSE
          /\ UNCHANGED <<at, slot, batches, live, unowned, dropping, capturing, cause>>
      BY <1>0, <1>2 DEF Synchronize, Goto, Domains
    <2>3. StillBusy(w) /\ pc'[w] \in Places \ {"setup", "drop", "instantiate"}
      BY <1>0, <2>2 DEF StillBusy, Held, Kinded, Working, Places, Calling
    <2> QED BY <1>0, <2>1, <2>2, <2>3, StillWorking
  <1>3. CASE NoHit(w)
    <2>1. Others(w) BY <1>0, <1>3 DEF NoHit, Goto, Others, Same, Domains
    <2>2. /\ pc[w] = "headers" /\ pc'[w] = "counted"
          /\ UNCHANGED <<at, slot, batches, live, unowned, dropping, busy, capturing, cause>>
      BY <1>0, <1>3 DEF NoHit, Goto, Domains
    <2>3. StillBusy(w) /\ pc'[w] \in Places \ {"setup", "drop", "instantiate"}
      BY <1>0, <2>2 DEF StillBusy, Held, Kinded, Working, Places, Calling
    <2> QED BY <1>0, <2>1, <2>2, <2>3, StillWorking
  <1>4. CASE Snapshot(w)
    <2>1. Others(w) BY <1>0, <1>4 DEF Snapshot, Goto, Others, Same, Domains
    <2>2. /\ pc[w] = "headers" /\ pc'[w] = "resync" /\ busy'[w] = TRUE
          /\ UNCHANGED <<at, slot, batches, live, unowned, dropping, capturing, cause>>
      BY <1>0, <1>4 DEF Snapshot, Goto, Domains
    <2>3. StillBusy(w) /\ pc'[w] \in Places \ {"setup", "drop", "instantiate"}
      BY <1>0, <2>2 DEF StillBusy, Held, Kinded, Working, Places, Calling
    <2> QED BY <1>0, <2>1, <2>2, <2>3, StillWorking
  <1>5. CASE NextBatch(w)
    <2>1. PICK l \in {"idle", "replay"} : pc' = [pc EXCEPT ![w] = l]
      BY <1>5 DEF NextBatch
    <2>2. Others(w) BY <1>0, <1>5, <2>1 DEF NextBatch, Others, Same, Domains
    <2>3. /\ pc[w] = "counted" /\ pc'[w] = l /\ batches'[w] = batches[w] + 1
          /\ batches[w] + 1 < MaxBatches
          /\ UNCHANGED <<at, slot, live, unowned, dropping, busy, capturing, cause>>
      BY <1>0, <1>5, <2>1 DEF NextBatch, Domains
    <2>4. StillBusy(w) /\ pc'[w] \in Places \ {"setup", "drop", "instantiate"}
      BY <1>0, <2>3 DEF StillBusy, Held, Kinded, Working, Places, Calling
    <2>5. batches'[w] \in 0..MaxBatches BY <1>0, <2>3
    <2> QED BY <1>0, <2>2, <2>3, <2>4, <2>5, StillWorking
  <1> QED BY <1>1, <1>2, <1>3, <1>4, <1>5

-----------------------------------------------------------------------------
(* A worker that returns, having lost the owner of what is in L.           *)
LEMMA HoldingReturn ==
  ASSUME HoldingInv, NEW w \in Workers, pc[w] # "drop", Others(w), NEW L,
         unowned'[w] = L, dropping'[w] = ToDrop(w, live[w] \ L), pc'[w] = "drop",
         live'[w] = live[w], at'[w] = at[w], slot'[w] = slot[w], batches'[w] = batches[w],
         busy'[w] = busy[w], capturing'[w] \in BOOLEAN, capturing'[w] => capturing[w],
         cause'[w] \in {"quota", "driver"}, L # {} => cause'[w] = "driver",
         L \subseteq live[w], L \cap Graphs \subseteq {TheGraph(w)}, L \cap Execs = {},
         pc[w] # "setup" => L \subseteq Graphs,
         L \subseteq Graphs \/ TheCtx \in live[w] \ L
  PROVE  HoldingInv'
  <1>1. Held(w) /\ Others(w) BY DEF HoldingInv
  <1>2. Setup' = Setup /\ Made(Setup)' = Made(Setup) /\ HasBufs(w)' = HasBufs(w)
        /\ DropPlace(w)' = DropPlace(w)
    BY SetupFixed DEF Others, HasBufs, DropPlace
  <1>3. PICK D : D = ToDrop(w, live[w] \ L) OBVIOUS
  <1>4. /\ D = live[w] \ L /\ dropping'[w] = D
        /\ \A o \in D : o[2] \in DOMAIN DropPlace(w)
        /\ at[w] = Len(Setup) + 1 => HasBufs(w)
    BY <1>1, <1>3, ReturnDrops
  <1>5. Kinded(w)'
    BY <1>1, <1>2 DEF Held, Kinded, Places, Things
  <1>6. Working(w)' BY DEF Working
  <1>7. busy[w] \/ capturing[w] => HasBufs(w) /\ Made(Setup) \subseteq live[w] /\ pc[w] # "setup"
    BY <1>1, <1>4 DEF Held, Working
  <1>8. pc[w] # "setup" => Made(Setup) \cap L = {}
    BY WhatThingsAre
  <1>9. Execs \cap live[w] # {} => HasBufs(w) /\ Made(Setup) \subseteq live[w] /\ pc[w] # "setup"
    <2>1. pc[w] = "setup" => live[w] \subseteq Made(Setup)
      <3>1. pc[w] = "setup" => at[w] \in 1..Len(Setup) /\ live[w] = UpTo(at[w])
        BY <1>1, SetupCalls DEF Held, Kinded, Working
      <3> QED BY <3>1, MadeSoFar
    <2> QED BY <2>1, <1>1, <1>4, WhatThingsAre DEF Held, Working
  <1>10. busy'[w] => ~capturing'[w]
    BY <1>1 DEF Held, Working
  <1>11. TheStream \in Made(Setup) BY WhatThingsAre
  <1>12. Leaving(w)'
    BY <1>2, <1>4, <1>7, <1>8, <1>9, <1>10, <1>11 DEF Leaving, TheGraph
  <1> QED BY <1>5, <1>6, <1>12, OneWorker DEF Held

(* At its quota a worker drops all that it has made.                       *)
LEMMA HoldingQuota ==
  ASSUME HoldingInv, NEW w \in Workers, QuotaReached(w)
  PROVE  HoldingInv'
  <1>1. Domains /\ Held(w) /\ unowned[w] = {} /\ pc[w] = "counted"
    BY DEF HoldingInv, Held, Working, QuotaReached
  <1>2. /\ pc' = [pc EXCEPT ![w] = "drop"] /\ cause' = [cause EXCEPT ![w] = "quota"]
        /\ dropping' = [dropping EXCEPT ![w] = ToDrop(w, live[w] \ unowned[w])]
        /\ UNCHANGED <<path, at, slot, batches, live, unowned, busy, capturing>>
    BY Zenon DEF QuotaReached, Goto, Ends
  <1>3. PICK D : D = ToDrop(w, live[w] \ unowned[w]) OBVIOUS
  <1>4. dropping' = [dropping EXCEPT ![w] = D] BY <1>2, <1>3
  <1>5. Others(w) BY <1>1, <1>2, <1>4 DEF Others, Same, Domains
  <1>6. /\ pc'[w] = "drop" /\ cause'[w] = "quota" /\ dropping'[w] = ToDrop(w, live[w] \ {})
        /\ unowned'[w] = {}
    BY <1>1, <1>2, <1>3, <1>4 DEF Domains
  <1>7. capturing'[w] \in BOOLEAN /\ capturing'[w] = capturing[w]
    BY <1>1, <1>2 DEF Held, Kinded
  <1> QED BY <1>1, <1>2, <1>5, <1>6, <1>7, HoldingReturn

(* A failed call loses memory that was to be mapped or the graph that was  *)
(* to be instantiated, and of what it loses the context is not part.       *)
LEMMA HoldingFailure ==
  ASSUME HoldingInv, CaptureInv, NEW w \in Workers, CallFails(w)
  PROVE  HoldingInv'
  <1>0. PICK L : L = Lost(w) OBVIOUS
  <1>1. Domains /\ Held(w) /\ pc[w] # "drop" /\ unowned[w] = {} /\ pc[w] \in Calling
    BY DEF HoldingInv, Held, Working, CallFails, Calling
  <1>2. /\ pc' = [pc EXCEPT ![w] = "drop"] /\ cause' = [cause EXCEPT ![w] = "driver"]
        /\ unowned' = [unowned EXCEPT ![w] = unowned[w] \cup L]
        /\ dropping' = [dropping EXCEPT ![w] = ToDrop(w, live[w] \ unowned'[w])]
        /\ capturing' = [capturing EXCEPT ![w] = capturing[w] /\ pc[w] # "end"]
        /\ UNCHANGED <<path, at, slot, batches, live, busy>>
    <2>1. cause' = [cause EXCEPT ![w] = "driver"]
      BY <1>1, NeverRefused DEF CallFails
    <2> QED BY <1>0, <2>1, Zenon DEF CallFails, Goto
  <1>3. unowned'[w] = L BY <1>1, <1>2 DEF Domains
  <1>4. PICK D : D = ToDrop(w, live[w] \ L) OBVIOUS
  <1>5. dropping' = [dropping EXCEPT ![w] = D] BY <1>2, <1>3, <1>4
  <1>6. PICK c \in BOOLEAN : c = (capturing[w] /\ pc[w] # "end") OBVIOUS
  <1>7. capturing' = [capturing EXCEPT ![w] = c] BY <1>2, <1>6
  <1>8. \/ L = {}
        \/ L = {TheGraph(w)} /\ pc[w] = "instantiate"
        \/ /\ pc[w] = "setup" /\ Setup[at[w]][1] = "map"
           /\ L = {<<"host", Setup[at[w]][2], Setup[at[w]][3]>>}
    <2>1. CASE pc[w] = "setup"
      <3>1. CallOf(w) = Setup[at[w]] BY <2>1, Zenon DEF CallOf
      <3>2. CASE CallOf(w)[1] = "map"
        <4>1. L = {<<"host", CallOf(w)[2], CallOf(w)[3]>>} BY <1>0, <2>1, <3>2 DEF Lost
        <4> QED BY <2>1, <3>1, <3>2, <4>1, Zenon
      <3>3. CASE CallOf(w)[1] # "map"
        <4>1. L = {} BY <1>0, <2>1, <3>3 DEF Lost
        <4> QED BY <4>1
      <3> QED BY <3>2, <3>3
    <2>2. CASE pc[w] # "setup"
      <3>1. CallOf(w)[1] = pc[w] BY <2>2 DEF CallOf
      <3>2. CallOf(w)[1] # "map" BY <3>1, <1>1 DEF Calling
      <3>3. L = IF pc[w] = "instantiate" THEN {TheGraph(w)} ELSE {}
        BY <1>0, <3>2 DEF Lost, TheGraph
      <3> QED BY <3>3
    <2> QED BY <2>1, <2>2
  <1>9. Others(w) BY <1>1, <1>2, <1>5, <1>7 DEF Others, Same, Domains
  <1>10. /\ pc'[w] = "drop" /\ cause'[w] = "driver" /\ dropping'[w] = ToDrop(w, live[w] \ L)
         /\ capturing'[w] \in BOOLEAN
         /\ capturing'[w] => capturing[w]
    BY <1>1, <1>2, <1>4, <1>5, <1>6, <1>7 DEF Domains
  <1>11. /\ L \subseteq live[w] /\ L \cap Graphs \subseteq {TheGraph(w)} /\ L \cap Execs = {}
         /\ pc[w] # "setup" => L \subseteq Graphs
         /\ L \subseteq Graphs \/ TheCtx \in live[w] \ L
    <2>1. CASE L = {} BY <2>1
    <2>2. CASE L = {TheGraph(w)} /\ pc[w] = "instantiate"
      <3>1. TheGraph(w) \in live[w] /\ slot[w] \in 1..RingSize
        BY <2>2, <1>1 DEF Held, Working, Kinded
      <3>2. TheGraph(w) \in Graphs BY <3>1 DEF Graphs, TheGraph
      <3> QED BY <2>2, <3>1, <3>2, WhatThingsAre
    <2>3. CASE /\ pc[w] = "setup" /\ Setup[at[w]][1] = "map"
               /\ L = {<<"host", Setup[at[w]][2], Setup[at[w]][3]>>}
      <3> DEFINE h == <<"host", Setup[at[w]][2], Setup[at[w]][3]>>
      <3>1. at[w] \in 1..Len(Setup) /\ live[w] = UpTo(at[w])
        BY <2>3, <1>1, SetupCalls DEF Held, Kinded, Working
      <3>2. TheCtx \in live[w] /\ h \in live[w]
        BY <2>3, <3>1, MadeSoFar
      <3>3. h[1] = "host" /\ TheCtx[1] = "ctx" BY DEF TheCtx
      <3>4. L = {h} BY <2>3
      <3> HIDE DEF h
      <3>5. h \notin Graphs /\ h \notin Execs /\ h # TheCtx BY <3>3, WhatThingsAre
      <3> QED BY <2>3, <3>2, <3>4, <3>5
    <2> QED BY <1>8, <2>1, <2>2, <2>3
  <1>12. /\ at'[w] = at[w] /\ slot'[w] = slot[w] /\ batches'[w] = batches[w]
         /\ live'[w] = live[w] /\ busy'[w] = busy[w]
         /\ cause'[w] \in {"quota", "driver"}
    BY <1>2, <1>10
  <1> QED BY <1>1, <1>3, <1>9, <1>10, <1>11, <1>12, HoldingReturn

-----------------------------------------------------------------------------
(* The object dropped next, of those that are left: the context is the last *)
(* of them; before the first pool go the graphs and the stream only, and   *)
(* before the stream or an exec only graphs.                               *)
Earliest(w, o) == \A p \in dropping[w] : p = o \/ GoesBefore(DropPlace(w), o, p)

(* What the object that goes first can be.                                 *)
LEMMA WhoGoesFirst ==
  ASSUME NEW w \in Workers, Held(w), pc[w] = "drop", NEW o \in dropping[w], Earliest(w, o)
  PROVE  /\ o[1] = "ctx" => dropping[w] = {TheCtx}
         /\ HasBufs(w) /\ FirstA \in dropping[w] => o[1] = "dev" \/ o = TheStream \/ o[2] = "graphs"
         /\ HasBufs(w) /\ TheStream \in dropping[w] => o = TheStream \/ o[2] = "graphs"
         /\ HasBufs(w) /\ Execs \cap dropping[w] # {} => o[2] = "graphs"
  <1> DEFINE place == DropPlace(w)
  <1>1. /\ dropping[w] \subseteq Things
        /\ \A p \in dropping[w] : p[2] \in DOMAIN place
    BY DEF Held, Kinded, Leaving
  <1>2. /\ \A f \in DOMAIN place : place[f] \in Nat
        /\ "ctx" \in DOMAIN place
        /\ \A f \in DOMAIN place \ {"ctx"} : place[f] < place["ctx"]
    <2>1. "ctx" \in LocalField BY LocalFieldSet
    <2> QED BY <2>1, LocalOrder, WorkerOrder DEF DropPlace
  <1>3. HasBufs(w) => place = WorkerPlace BY DEF DropPlace
  <1> HIDE DEF place
  <1>4. \A p \in dropping[w] : p = o \/ place[o[2]] < place[p[2]] \/ o[2] = p[2]
    BY DEF Earliest, GoesBefore, place
  <1>5. ASSUME o[1] = "ctx" PROVE dropping[w] = {TheCtx}
    <2>1. o = TheCtx /\ o[2] = "ctx" BY <1>1, <1>5, WhatThingsAre DEF TheCtx
    <2>2. ASSUME NEW p \in dropping[w], p # TheCtx PROVE FALSE
      <3>1. p[2] # "ctx" /\ p[2] \in DOMAIN place BY <1>1, <2>2, WhatThingsAre
      <3>2. place[p[2]] < place["ctx"] /\ place[p[2]] \in Nat /\ place["ctx"] \in Nat
        BY <1>2, <3>1
      <3> QED BY <1>4, <2>1, <2>2, <3>1, <3>2
    <2> QED BY <2>1, <2>2
  <1>6. ASSUME HasBufs(w), FirstA \in dropping[w]
        PROVE  o[1] = "dev" \/ o = TheStream \/ o[2] = "graphs"
    <2>1. FirstA[2] = "a_pool" /\ FirstA[1] = "dev" BY DEF FirstA
    <2>2. o[2] \in {"graphs", "stream", "a_pool"} \/ o = FirstA
      BY <1>1, <1>3, <1>4, <1>6, <2>1, WorkerOrder
    <2> QED BY <1>1, <2>1, <2>2, WhatThingsAre
  <1>7. ASSUME HasBufs(w), TheStream \in dropping[w]
        PROVE  o = TheStream \/ o[2] = "graphs"
    <2>1. TheStream[2] = "stream" BY DEF TheStream
    <2>2. o[2] \in {"graphs", "stream"}
      BY <1>1, <1>3, <1>4, <1>7, <2>1, WorkerOrder
    <2> QED BY <1>1, <2>2, WhatThingsAre
  <1>8. ASSUME HasBufs(w), NEW x \in Execs \cap dropping[w] PROVE o[2] = "graphs"
    <2>1. x[2] = "graphs" BY <1>8, WhatThingsAre
    <2>2. "graphs" \in DOMAIN place /\ o[2] \in DOMAIN place BY <1>1, <2>1
    <2>3. place["graphs"] <= place[o[2]] /\ place["graphs"] \in Nat /\ place[o[2]] \in Nat
      BY <1>2, <1>3, <1>8, <2>2, WorkerOrder
    <2> QED BY <1>4, <2>1, <2>3
  <1> QED BY <1>5, <1>6, <1>7, <1>8

(* A drop is never refused, takes away what it drops, and keeps for those  *)
(* that remain what they need.                                             *)
LEMMA HoldingDrop ==
  ASSUME HoldingInv, NEW w \in Workers, Drop(w)
  PROVE  HoldingInv'
  <1>1. Domains /\ Held(w) /\ pc[w] = "drop"
    BY DEF HoldingInv, Drop
  <1>2. PICK o \in dropping[w] :
          LET refused == o[1] \in Serialising /\ Refused(w)
          IN  /\ Earliest(w, o)
              /\ dropping' = [dropping EXCEPT ![w] = @ \ {o}]
              /\ live' = IF refused THEN live ELSE [live EXCEPT ![w] = @ \ GoesWith(w, o)]
              /\ unowned' = [unowned EXCEPT ![w] = @ \cap live'[w]]
              /\ busy' = [busy EXCEPT ![w] = @ /\ (refused \/ o[1] \notin {"dev", "ctx"})]
              /\ capturing' = [capturing EXCEPT ![w] = @ /\ o[1] # "stream"]
              /\ UNCHANGED <<path, cc, pc, at, slot, batches, cause>>
    BY Zenon DEF Drop, Earliest
  <1>3. /\ o[1] = "ctx" => dropping[w] = {TheCtx}
        /\ HasBufs(w) /\ FirstA \in dropping[w] => o[1] = "dev" \/ o = TheStream \/ o[2] = "graphs"
        /\ HasBufs(w) /\ TheStream \in dropping[w] => o = TheStream \/ o[2] = "graphs"
        /\ HasBufs(w) /\ Execs \cap dropping[w] # {} => o[2] = "graphs"
    BY <1>1, <1>2, WhoGoesFirst
  <1>4. /\ live[w] \subseteq Things /\ dropping[w] \subseteq live[w] /\ unowned[w] \subseteq live[w]
        /\ live[w] \subseteq dropping[w] \cup unowned[w] /\ cause[w] # "none"
        /\ busy[w] \in BOOLEAN /\ capturing[w] \in BOOLEAN
    BY <1>1 DEF Held, Kinded, Leaving
  <1>5. o \in Things /\ (o[2] = "graphs" => o \notin Made(Setup) /\ o[1] \notin Serialising \cup {"ctx"})
    <2>1. o \in Things BY <1>4
    <2>2. o[2] = "graphs" => o \in Graphs \cup Execs BY <2>1, WhatThingsAre
    <2> QED BY <2>1, <2>2, WhatThingsAre DEF Serialising
  <1>6. ~(o[1] \in Serialising /\ Refused(w))
    <2> SUFFICES ASSUME capturing[w] PROVE o[1] \notin Serialising
      BY DEF Refused
    <2>1. o = TheStream \/ o[2] = "graphs"
      BY <1>1, <1>3 DEF Held, Leaving
    <2> QED BY <1>5, <2>1 DEF Serialising, TheStream
  <1>7. PICK G : G = GoesWith(w, o) OBVIOUS
  <1>8. live' = [live EXCEPT ![w] = live[w] \ G]
    BY <1>2, <1>6, <1>7
  <1>9. live'[w] = live[w] \ G BY <1>1, <1>8 DEF Domains
  <1>10. unowned' = [unowned EXCEPT ![w] = unowned[w] \ G]
    <2>1. unowned[w] \cap live'[w] = unowned[w] \ G BY <1>4, <1>9
    <2> QED BY <1>2, <2>1
  <1>11. PICK b \in BOOLEAN : b = (busy[w] /\ o[1] \notin {"dev", "ctx"}) OBVIOUS
  <1>12. PICK c \in BOOLEAN : c = (capturing[w] /\ o[1] # "stream") OBVIOUS
  <1>13. /\ busy' = [busy EXCEPT ![w] = b] /\ capturing' = [capturing EXCEPT ![w] = c]
         /\ dropping' = [dropping EXCEPT ![w] = dropping[w] \ {o}]
         /\ UNCHANGED <<path, cc, pc, at, slot, batches, cause>>
    <2>1. busy' = [busy EXCEPT ![w] = b] BY <1>2, <1>6, <1>11
    <2>2. capturing' = [capturing EXCEPT ![w] = c] BY <1>2, <1>12
    <2> QED BY <1>2, <2>1, <2>2
  <1>14. Others(w) BY <1>1, <1>8, <1>10, <1>13 DEF Others, Same, Domains
  <1>15. /\ busy'[w] = b /\ capturing'[w] = c /\ dropping'[w] = dropping[w] \ {o}
         /\ unowned'[w] = unowned[w] \ G
         /\ pc'[w] = "drop" /\ cause'[w] = cause[w]
    BY <1>1, <1>10, <1>13 DEF Domains
  <1>16. /\ Setup' = Setup /\ Made(Setup)' = Made(Setup) /\ HasBufs(w)' = HasBufs(w)
         /\ DropPlace(w)' = DropPlace(w)
    BY <1>13, SetupFixed DEF HasBufs, DropPlace
  <1>17. Kinded(w)'
    <2>1. Things' = Things BY <1>16 DEF Things
    <2> QED BY <1>1, <1>9, <1>13, <1>15, <1>16, <2>1 DEF Held, Kinded
  <1>18. Working(w)' BY <1>15 DEF Working
  <1>19. CASE o[1] = "ctx"
    <2>1. dropping[w] = {TheCtx} /\ o = TheCtx BY <1>3, <1>19
    <2>2. G = live[w] \ Graphs BY <1>7, <1>19 DEF GoesWith
    <2>3. TheCtx \notin Graphs /\ TheStream # TheCtx /\ ~b /\ dropping'[w] = {}
      <3>1. TheCtx[1] = "ctx" /\ TheStream[1] = "stream" BY DEF TheCtx, TheStream
      <3>2. TheCtx \notin Graphs /\ TheStream # TheCtx BY <3>1, WhatThingsAre
      <3>3. ~b BY <1>11, <1>19
      <3> QED BY <1>15, <2>1, <3>2, <3>3
    <2>4. ~c
      <3>1. capturing[w] => TheStream \in dropping[w] BY <1>1 DEF Held, Leaving
      <3> QED BY <1>12, <2>1, <2>3, <3>1
    <2>5. live'[w] \subseteq unowned'[w] /\ unowned'[w] \subseteq Graphs
      BY <1>4, <1>9, <1>15, <2>1, <2>2, <2>3
    <2>6. unowned'[w] \subseteq unowned[w] /\ unowned'[w] \subseteq live'[w]
      BY <1>4, <1>9, <1>15
    <2>7. Leaving(w)'
      BY <1>1, <1>13, <1>15, <1>16, <2>3, <2>4, <2>5, <2>6 DEF Held, Leaving, TheGraph
    <2> QED BY <1>14, <1>17, <1>18, <2>7, OneWorker DEF Held
  <1>20. CASE o[1] # "ctx"
    <2>1. G = {o} BY <1>7, <1>20 DEF GoesWith
    <2>2. o # TheCtx BY <1>20 DEF TheCtx
    <2>3. /\ dropping'[w] \subseteq live'[w] /\ unowned'[w] \subseteq live'[w]
          /\ live'[w] \subseteq dropping'[w] \cup unowned'[w]
          /\ unowned'[w] \subseteq unowned[w] /\ dropping'[w] \subseteq dropping[w]
      BY <1>4, <1>9, <1>15, <2>1
    <2>4. ~(unowned'[w] \subseteq Graphs) => TheCtx \in dropping'[w]
      BY <1>1, <1>15, <2>2, <2>3 DEF Held, Leaving
    <2>5. b => HasBufs(w) /\ ~c /\ Made(Setup) \ {TheStream} \subseteq dropping'[w]
      <3> SUFFICES ASSUME b
                   PROVE  HasBufs(w) /\ ~c /\ Made(Setup) \ {TheStream} \subseteq dropping'[w]
        OBVIOUS
      <3>1. HasBufs(w) /\ ~c /\ Made(Setup) \ {TheStream} \subseteq dropping[w] /\ o[1] # "dev"
        BY <1>1, <1>11, <1>12 DEF Held, Leaving
      <3>2. FirstA \in dropping[w] BY <3>1, WhatThingsAre DEF FirstA, TheStream
      <3>3. o = TheStream \/ o[2] = "graphs" BY <1>3, <3>1, <3>2
      <3>4. o \notin Made(Setup) \ {TheStream} BY <1>5, <3>3
      <3> QED BY <1>15, <3>1, <3>4
    <2>6. c => HasBufs(w) /\ TheStream \in dropping'[w]
      <3>1. capturing[w] => HasBufs(w) /\ TheStream \in dropping[w]
        BY <1>1 DEF Held, Leaving
      <3>2. TheStream[1] = "stream" BY DEF TheStream
      <3>3. c => capturing[w] /\ o # TheStream BY <1>12, <3>2
      <3> QED BY <1>15, <3>1, <3>3
    <2>7. Execs \cap dropping'[w] # {} => HasBufs(w) /\ Made(Setup) \subseteq dropping'[w]
      <3> SUFFICES ASSUME Execs \cap dropping'[w] # {}
                   PROVE  HasBufs(w) /\ Made(Setup) \subseteq dropping'[w]
        OBVIOUS
      <3>1. Execs \cap dropping[w] # {} BY <1>15
      <3>2. HasBufs(w) /\ Made(Setup) \subseteq dropping[w] BY <1>1, <3>1 DEF Held, Leaving
      <3>3. o \notin Made(Setup) BY <1>3, <1>5, <3>1, <3>2
      <3> QED BY <1>15, <3>2, <3>3
    <2>8. Leaving(w)'
      BY <1>1, <1>13, <1>15, <1>16, <2>3, <2>4, <2>5, <2>6, <2>7 DEF Held, Leaving, TheGraph
    <2> QED BY <1>14, <1>17, <1>18, <2>8, OneWorker DEF Held
  <1> QED BY <1>19, <1>20

-----------------------------------------------------------------------------
(* Every step of a worker keeps what it holds in order.                    *)
LEMMA HoldingStep == CaptureInv /\ HoldingInv /\ [Next]_vars => HoldingInv'
  <1> SUFFICES ASSUME CaptureInv, HoldingInv, [Next]_vars PROVE HoldingInv'
    OBVIOUS
  <1>1. CASE UNCHANGED vars
    <2>1. Domains' /\ path' = path BY <1>1 DEF vars, HoldingInv, Domains
    <2>2. \A w \in Workers : Same(w) BY <1>1 DEF vars, Same
    <2>3. \A w \in Workers : Held(w)' BY <2>1, <2>2, SameHeld DEF HoldingInv
    <2> QED BY <2>1, <2>3 DEF HoldingInv
  <1>2. CASE Next
    BY <1>2, HoldingAcquire, HoldingJob, HoldingGraph, HoldingBatch, HoldingQuota,
       HoldingFailure, HoldingDrop DEF Next
  <1> QED BY <1>1, <1>2

(* The inductive invariant holds in every reachable state.                 *)
LEMMA Holding == Spec => []HoldingInv
  BY CaptureInit, CaptureStep, HoldingInit, HoldingStep, PTL DEF Spec

(* The buffers and modules of MinerBufs::new are among what a set-up makes. *)
LEMMA BufsAreMade == BufsMade \subseteq Made(Setup)
  <1> DEFINE s == NewCtx \o NewBufs
             z == << TheStream >>
  <1>1. Setup = (s \o NewTriton) \o z BY DEF Setup, TheStream
  <1>2. /\ Calls(NewCtx) /\ Calls(NewBufs) /\ Calls(NewTriton) /\ Calls(s)
        /\ Calls(s \o NewTriton)
    BY CallsOfBufs, CallsWritten, CallsJoin
  <1>3. z \in Seq(Call) BY DEF TheStream, Call, CallKind, CallName, Object
  <1>4. /\ NewCtx \in Seq(Call) /\ NewBufs \in Seq(Call) /\ NewTriton \in Seq(Call)
        /\ s \in Seq(Call) /\ (s \o NewTriton) \in Seq(Call)
    BY <1>2 DEF Calls
  <1>5. Range(s) = Range(NewCtx) \cup Range(NewBufs)
    BY <1>4, RangeConcatenation
  <1>6. Range(NewBufs \o NewTriton) = Range(NewBufs) \cup Range(NewTriton)
    BY <1>4, RangeConcatenation
  <1> HIDE DEF s, z
  <1>7. Range(s \o NewTriton) = Range(s) \cup Range(NewTriton)
    BY <1>4, RangeConcatenation
  <1>8. Range(Setup) = Range(s \o NewTriton) \cup Range(z)
    <2>1. Range((s \o NewTriton) \o z) = Range(s \o NewTriton) \cup Range(z)
      <3>1. PICK y \in Seq(Call) : y = s \o NewTriton BY <1>4
      <3>2. Range(y \o z) = Range(y) \cup Range(z) BY <1>3, RangeConcatenation
      <3> QED BY <3>1, <3>2, Zenon
    <2> QED BY <1>1, <2>1, Zenon
  <1> QED BY <1>5, <1>6, <1>7, <1>8 DEF BufsMade, Made

(* What a worker, an unowned set and a drop list hold are things the       *)
(* worker's own calls make, whatever fails and wherever it stops.          *)
THEOREM TypesCorrect == Spec => []TypeOK
  <1>1. HoldingInv => TypeOK
    <2> SUFFICES ASSUME HoldingInv, NEW w \in Workers
                 PROVE  /\ Kinded(w) /\ unowned[w] \subseteq live[w] /\ dropping[w] \subseteq live[w]
                        /\ pc[w] = "drop" <=> cause[w] # "none"
      BY DEF TypeOK, Kinded, Things, Places
    <2> QED BY DEF HoldingInv, Held, Working, Leaving
  <1> QED BY <1>1, Holding, PTL

(* Nothing is destroyed before its turn, so in particular not by the end   *)
(* of its context; and an exec that could be launched never outlives the   *)
(* buffers and modules that its nodes name.                                *)
THEOREM ContextGoesLast == Spec => []ContextLast
  <1>1. HoldingInv => ContextLast
    <2> SUFFICES ASSUME HoldingInv, NEW w \in Workers
                 PROVE  /\ dropping[w] \subseteq live[w]
                        /\ Execs \cap live[w] # {} => Made(Setup) \subseteq live[w]
      BY BufsAreMade DEF ContextLast
    <2>1. Held(w) BY DEF HoldingInv
    <2>2. CASE pc[w] = "setup"
      <3>1. at[w] \in 1..Len(Setup) /\ live[w] = UpTo(at[w]) /\ dropping[w] = {}
        BY <2>1, <2>2, SetupCalls DEF Held, Kinded, Working
      <3>2. live[w] \subseteq Made(Setup) BY <3>1, MadeSoFar
      <3>3. Made(Setup) \cap Execs = {} BY WhatThingsAre
      <3> QED BY <3>1, <3>2, <3>3
    <2>3. CASE pc[w] # "setup" BY <2>1, <2>3 DEF Held, Working, Leaving
    <2> QED BY <2>2, <2>3
  <1> QED BY <1>1, Holding, PTL

(* No return path waits for the device, and still no buffer or module is   *)
(* released while the device may be running work that uses it: the graphs  *)
(* and the stream, which do not wait, use none of its memory, and the first *)
(* buffer to go waits for the device.                                      *)
THEOREM WorkKeepsItsBuffers == Spec => []RunningWorkKeepsItsBuffers
  <1>1. HoldingInv => RunningWorkKeepsItsBuffers
    BY DEF HoldingInv, Held, Working, Leaving, RunningWorkKeepsItsBuffers, TheStream
  <1> QED BY <1>1, Holding, PTL

(* A worker that has ended, wherever a call failed, has left nothing in the *)
(* driver but the one graph whose instantiation failed.                    *)
THEOREM EndedHasReleasedAll == Spec => []AllReleased
  <1>1. HoldingInv => AllReleased
    <2> SUFFICES ASSUME HoldingInv, NEW w \in Workers, Ended(w)
                 PROVE  /\ ~capturing[w] /\ ~busy[w] /\ live[w] \subseteq {TheGraph(w)}
                        /\ live[w] # {} => cause[w] = "driver"
      BY DEF AllReleased, TheGraph
    <2>1. Leaving(w) /\ pc[w] = "drop" /\ dropping[w] = {}
      BY DEF HoldingInv, Held, Ended
    <2>2. TheCtx # TheStream /\ TheCtx \in Made(Setup)
      BY WhatThingsAre DEF TheCtx, TheStream
    <2> QED BY <2>1, <2>2 DEF Leaving
  <1> QED BY <1>1, Holding, PTL

=============================================================================
