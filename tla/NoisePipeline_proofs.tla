------------------------ MODULE NoisePipeline_proofs ------------------------
(***************************************************************************)
(* Proofs about NoisePipeline, for matrices of any size, any rank, any     *)
(* launch geometry, any number of jobs and iterations, and any hash whose  *)
(* digests are bytes.                                                      *)
(***************************************************************************)
EXTENDS NoisePipeline, NumberLemmas, SequenceTheorems, FiniteSetTheorems, TLAPS

(* Sums: the recursive definition has a solution.                          *)
Sums(s, f, n) == s = [i \in 0..n |-> IF i = 0 THEN 0 ELSE s[i - 1] + f[i - 1]]

(* The recursion has a solution up to any n.                               *)
LEMMA SumsUpTo ==
  ASSUME NEW f, NEW n \in Nat
  PROVE  \E s : Sums(s, f, n)
  <1> DEFINE S == {m \in Nat : \E s : Sums(s, f, m)}
  <1>1. 0 \in S
    <2> DEFINE s == [i \in 0..0 |-> 0]
    <2>1. s = [i \in 0..0 |-> IF i = 0 THEN 0 ELSE s[i - 1] + f[i - 1]] OBVIOUS
    <2>2. Sums(s, f, 0) BY <2>1 DEF Sums
    <2> QED BY <2>2
  <1>2. ASSUME NEW m \in S PROVE m + 1 \in S
    <2>1. PICK s : Sums(s, f, m) OBVIOUS
    <2>2. m \in Nat OBVIOUS
    <2> DEFINE t == [i \in 0..(m + 1) |-> IF i = m + 1 THEN s[m] + f[m] ELSE s[i]]
               step(i) == IF i = 0 THEN 0 ELSE t[i - 1] + f[i - 1]
    <2>3. ASSUME NEW i \in 0..(m + 1) PROVE t[i] = step(i)
      <3>1. CASE i = m + 1
        <4>1. i - 1 = m /\ m \in 0..(m + 1) /\ i # 0 /\ m # m + 1 BY <3>1, <2>2
        <4>2. t[m] = s[m] BY <4>1
        <4> QED BY <3>1, <4>1, <4>2
      <3>2. CASE i = 0
        <4>1. i \in 0..m /\ i # m + 1 BY <3>2, <2>2
        <4>2. s[i] = 0 BY <2>1, <3>2, <4>1 DEF Sums
        <4> QED BY <3>2, <4>1, <4>2
      <3>3. CASE i # m + 1 /\ i # 0
        <4>1. i \in 0..m /\ i - 1 \in 0..(m + 1) /\ i - 1 # m + 1 BY <3>3, <2>2
        <4>2. s[i] = s[i - 1] + f[i - 1] BY <2>1, <3>3, <4>1 DEF Sums
        <4>3. t[i] = s[i] /\ t[i - 1] = s[i - 1] BY <3>3, <4>1
        <4> QED BY <3>3, <4>2, <4>3
      <3> QED BY <3>1, <3>2, <3>3
    <2>4. t = [i \in 0..(m + 1) |-> step(i)] BY <2>3
    <2>5. Sums(t, f, m + 1) BY <2>4, Zenon DEF Sums
    <2> QED BY <2>2, <2>5
  <1> HIDE DEF S
  <1>3. S = Nat BY <1>1, <1>2, InductionOn DEF S
  <1> QED BY <1>3 DEF S

(* A sum is the last of the sums so far.                                   *)
LEMMA SumSteps ==
  ASSUME NEW f, NEW n \in Nat
  PROVE  \E s : /\ s[0] = 0 /\ \A i \in 0..(n - 1) : s[i + 1] = s[i] + f[i]
                /\ Sum(f, n) = s[n]
  <1> DEFINE s == CHOOSE s : Sums(s, f, n)
  <1>1. Sums(s, f, n) BY SumsUpTo
  <1>2. Sum(f, n) = s[n] BY DEF Sum, Sums
  <1> HIDE DEF s
  <1>3. s[0] = 0 BY <1>1 DEF Sums
  <1>4. ASSUME NEW i \in 0..(n - 1) PROVE s[i + 1] = s[i] + f[i]
    <2>1. i + 1 \in 0..n /\ i + 1 # 0 /\ i + 1 - 1 = i OBVIOUS
    <2> QED BY <1>1, <2>1 DEF Sums
  <1> QED BY <1>2, <1>3, <1>4

(* Whatever starts at 0 and grows as the sums do ends where they end.      *)
LEMMA SumIs ==
  ASSUME NEW f, NEW n \in Nat, NEW t,
         t[0] = 0, \A i \in 0..(n - 1) : t[i + 1] = t[i] + f[i]
  PROVE  Sum(f, n) = t[n]
  <1>1. PICK s : /\ s[0] = 0 /\ \A i \in 0..(n - 1) : s[i + 1] = s[i] + f[i]
                 /\ Sum(f, n) = s[n]
    BY SumSteps
  <1> DEFINE S == {m \in Nat : m <= n => s[m] = t[m]}
  <1>2. 0 \in S BY <1>1
  <1>3. ASSUME NEW m \in S PROVE m + 1 \in S
    <2> SUFFICES ASSUME m + 1 <= n PROVE s[m + 1] = t[m + 1] OBVIOUS
    <2>1. m \in 0..(n - 1) /\ s[m] = t[m] OBVIOUS
    <2> QED BY <2>1, <1>1
  <1> HIDE DEF S
  <1>4. S = Nat BY <1>2, <1>3, InductionOn DEF S
  <1>5. s[n] = t[n] BY <1>4 DEF S
  <1> QED BY <1>1, <1>5

(* A sum with two terms that may not be 0.                                 *)
LEMMA SumOfTwo ==
  ASSUME NEW f, NEW n \in Nat, NEW a \in 0..(n - 1), NEW b \in 0..(n - 1), a # b,
         f[a] \in Int, f[b] \in Int,
         \A i \in 0..(n - 1) : i # a /\ i # b => f[i] = 0
  PROVE  Sum(f, n) = f[a] + f[b]
  <1> DEFINE t == [m \in 0..n |-> (IF a < m THEN f[a] ELSE 0) + (IF b < m THEN f[b] ELSE 0)]
  <1>1. t[0] = 0 OBVIOUS
  <1>2. ASSUME NEW i \in 0..(n - 1) PROVE t[i + 1] = t[i] + f[i]
    <2>1. i \in 0..n /\ i + 1 \in 0..n OBVIOUS
    <2>2. CASE i = a BY <2>1, <2>2
    <2>3. CASE i = b BY <2>1, <2>3
    <2>4. CASE i # a /\ i # b
      <3>1. f[i] = 0 BY <2>4
      <3>2. (a < i <=> a < i + 1) /\ (b < i <=> b < i + 1) BY <2>4
      <3> QED BY <2>1, <3>1, <3>2
    <2> QED BY <2>2, <2>3, <2>4
  <1>3. t[n] = f[a] + f[b] OBVIOUS
  <1> HIDE DEF t
  <1> QED BY <1>1, <1>2, <1>3, SumIs
-----------------------------------------------------------------------------
(* A digest is an array of bytes, whatever was hashed: its type in the     *)
(* code.                                                                   *)
DigestIsBytes ==
  \A s \in Salts : \A key, m : Digest(s, key, m) \in [1..HashBytes -> 0..255]

(* The kernels of an iteration by their place.                             *)
Kernel ==
  {"fill", "hash", "commit", "dense", "fp16", "zero", "sparse", "transpose", "noising",
   "blank", "search", "compare"} \X Side
Last == IF path = "CppSearch" THEN 16 ELSE 18
Place(kernel, s) ==
  CASE kernel = "fill" -> 1
    [] kernel = "hash" -> 2
    [] kernel = "commit" -> 3
    [] kernel = "dense" -> (IF s = "A" THEN 4 ELSE 5)
    [] kernel = "fp16" -> (IF s = "A" THEN 6 ELSE 7)
    [] kernel = "zero" -> (IF s = "A" THEN 8 ELSE 9)
    [] kernel = "sparse" -> (IF s = "A" THEN 10 ELSE 11)
    [] kernel = "transpose" -> (IF s = "A" THEN 12 ELSE 13)
    [] kernel = "noising" -> (IF s = "A" THEN 14 ELSE 15)
    [] kernel = "blank" -> 16
    [] kernel = "search" -> (IF path = "CppSearch" THEN 16 ELSE 17)
    [] kernel = "compare" -> 18

(* The place of the kernel that runs, and the work done so far: all of the *)
(* kernels before it, and of it what is no longer to do.                   *)
Here == Last - Len(stream) + 1
Finished(j, x) == j < Here \/ (j = Here /\ x \notin todo)

Loading == stream = JobKernels \/ stream = << <<"hash", "B">> >>
Iterating ==
  /\ stream # <<>> /\ stream \in Seq(Kernel)
  /\ Len(stream) <= Last
  /\ \A n \in 1..Len(stream) : stream[n] = IterKernels[Here + n - 1]
StreamInv ==
  /\ path \in {"CppSearch", "TritonNorotl"}
  /\ stream = <<>> \/ Loading \/ Iterating
  /\ stream = <<>> => todo = {}

(* Two sequences joined.                                                   *)
LEMMA Joined ==
  ASSUME NEW S, NEW a \in Seq(S), NEW b \in Seq(S)
  PROVE  /\ a \o b \in Seq(S) /\ Len(a \o b) = Len(a) + Len(b)
         /\ \A i \in 1..Len(a) : (a \o b)[i] = a[i]
         /\ \A i \in 1..Len(b) : (a \o b)[Len(a) + i] = b[i]
  <1>1. ASSUME NEW i \in 1..Len(a) PROVE (a \o b)[i] = a[i] BY ConcatProperties
  <1>2. ASSUME NEW i \in 1..Len(b) PROVE (a \o b)[Len(a) + i] = b[i]
    <2>1. /\ Len(a) + i \in 1..(Len(a) + Len(b))
          /\ ~(Len(a) + i <= Len(a)) /\ Len(a) + i - Len(a) = i
      OBVIOUS
    <2> QED BY <2>1, ConcatProperties
  <1> QED BY <1>1, <1>2, ConcatProperties

(* The kernels of an iteration, and the kernel at each place.              *)
LEMMA KernelsSeq ==
  ASSUME path \in {"CppSearch", "TritonNorotl"}
  PROVE  /\ IterKernels \in Seq(Kernel) /\ Len(IterKernels) = Last
         /\ \A i \in 1..15 : IterKernels[i] = NoiseKernels[i]
         /\ \A i \in 1..(Last - 15) : IterKernels[15 + i] = SearchKernels[i]
  <1>1. NoiseKernels \in Seq(Kernel) /\ Len(NoiseKernels) = 15
    BY SMTT(40) DEF NoiseKernels, Kernel, Side
  <1>2. PICK m \in Nat : Last = 15 + m /\ Len(SearchKernels) = m
    BY DEF SearchKernels, Last
  <1>3. SearchKernels \in Seq(Kernel)
    <2>1. CASE path = "CppSearch" BY <2>1 DEF SearchKernels, Kernel, Side
    <2>2. CASE path = "TritonNorotl" BY <2>2 DEF SearchKernels, Kernel, Side
    <2> QED BY <2>1, <2>2
  <1>4. /\ IterKernels \in Seq(Kernel) /\ Len(IterKernels) = 15 + m
        /\ \A i \in 1..15 : IterKernels[i] = NoiseKernels[i]
        /\ \A i \in 1..m : IterKernels[15 + i] = SearchKernels[i]
    <2>1. ASSUME NEW a \in Seq(Kernel), NEW b \in Seq(Kernel), Len(a) = 15, Len(b) = m
          PROVE  /\ a \o b \in Seq(Kernel) /\ Len(a \o b) = 15 + m
                 /\ \A i \in 1..15 : (a \o b)[i] = a[i]
                 /\ \A i \in 1..m : (a \o b)[15 + i] = b[i]
      <3>1. /\ a \o b \in Seq(Kernel) /\ Len(a \o b) = Len(a) + Len(b)
            /\ \A i \in 1..Len(a) : (a \o b)[i] = a[i]
            /\ \A i \in 1..Len(b) : (a \o b)[Len(a) + i] = b[i]
        BY Joined
      <3> QED BY <2>1, <3>1
    <2> QED BY <2>1, <1>1, <1>2, <1>3, Zenon DEF IterKernels
  <1>5. Last - 15 = m BY <1>2
  <1> QED BY <1>2, <1>4, <1>5, Zenon

LEMMA NoiseKernelsAre ==
  ASSUME path \in {"CppSearch", "TritonNorotl"}, NEW n \in 1..15
  PROVE  IterKernels[n] =
           CASE n = 1 -> <<"fill", "A">> [] n = 2 -> <<"hash", "A">> [] n = 3 -> <<"commit", "A">>
             [] n = 4 -> <<"dense", "A">> [] n = 5 -> <<"dense", "B">>
             [] n = 6 -> <<"fp16", "A">> [] n = 7 -> <<"fp16", "B">>
             [] n = 8 -> <<"zero", "A">> [] n = 9 -> <<"zero", "B">>
             [] n = 10 -> <<"sparse", "A">> [] n = 11 -> <<"sparse", "B">>
             [] n = 12 -> <<"transpose", "A">> [] n = 13 -> <<"transpose", "B">>
             [] n = 14 -> <<"noising", "A">> [] n = 15 -> <<"noising", "B">>
  <1>1. IterKernels[n] = NoiseKernels[n] BY KernelsSeq
  <1> QED BY <1>1 DEF NoiseKernels

LEMMA SearchKernelsAre ==
  ASSUME path \in {"CppSearch", "TritonNorotl"}, NEW n \in 16..Last
  PROVE  IterKernels[n] =
           CASE path = "CppSearch" \/ n = 17 -> <<"search", "A">>
             [] path = "TritonNorotl" /\ n = 16 -> <<"blank", "A">>
             [] path = "TritonNorotl" /\ n = 18 -> <<"compare", "A">>
  <1>1. PICK i \in 1..(Last - 15) : n = 15 + i
    <2>1. n - 15 \in 1..(Last - 15) /\ n = 15 + (n - 15) BY DEF Last
    <2> QED BY <2>1
  <1>2. IterKernels[n] = SearchKernels[i] BY <1>1, KernelsSeq
  <1> QED BY <1>1, <1>2 DEF SearchKernels, Last

(* Every kernel of an iteration runs in one place.                         *)
LEMMA PlaceIs ==
  ASSUME path \in {"CppSearch", "TritonNorotl"}, NEW n \in 1..Last, NEW kernel, NEW s,
         IterKernels[n] = <<kernel, s>>
  PROVE  /\ n = Place(kernel, s)
         /\ kernel \in {"fill", "hash", "commit", "blank", "search", "compare"} => s = "A"
         /\ kernel = "blank" => path = "TritonNorotl"
         /\ kernel = "compare" => path = "TritonNorotl"
  <1>1. CASE n \in 1..15
    <2>1. n \in {1, 2, 3, 4, 5, 6, 7, 8, 9, 10, 11, 12, 13, 14, 15} BY <1>1
    <2>2. <<kernel, s>> =
            CASE n = 1 -> <<"fill", "A">> [] n = 2 -> <<"hash", "A">> [] n = 3 -> <<"commit", "A">>
              [] n = 4 -> <<"dense", "A">> [] n = 5 -> <<"dense", "B">>
              [] n = 6 -> <<"fp16", "A">> [] n = 7 -> <<"fp16", "B">>
              [] n = 8 -> <<"zero", "A">> [] n = 9 -> <<"zero", "B">>
              [] n = 10 -> <<"sparse", "A">> [] n = 11 -> <<"sparse", "B">>
              [] n = 12 -> <<"transpose", "A">> [] n = 13 -> <<"transpose", "B">>
              [] n = 14 -> <<"noising", "A">> [] n = 15 -> <<"noising", "B">>
      BY <1>1, NoiseKernelsAre
    <2> QED BY <2>1, <2>2 DEF Place
  <1>2. CASE n \in 16..Last
    <2>1. <<kernel, s>> =
            CASE path = "CppSearch" \/ n = 17 -> <<"search", "A">>
              [] path = "TritonNorotl" /\ n = 16 -> <<"blank", "A">>
              [] path = "TritonNorotl" /\ n = 18 -> <<"compare", "A">>
      BY <1>2, SearchKernelsAre
    <2> QED BY <1>2, <2>1 DEF Place, Last
  <1> QED BY <1>1, <1>2 DEF Last

(* What an action of the stream does to the work that is finished.         *)
Same == UNCHANGED <<path, salt, job>>
Adds(p, x) ==
  /\ Same /\ Here' = p
  /\ \A q, y : Finished(q, y)' <=> Finished(q, y) \/ (q = p /\ y = x)

(* The work of a kernel: what it divides into, where it is in the order.   *)
LEMMA DoIs ==
  ASSUME StreamInv, NEW kernel, NEW s, NEW x, Do(kernel, s, x)
  PROVE  /\ StreamInv' /\ Same /\ x \in todo /\ Here' = Here
         /\ Iterating' <=> Iterating
         /\ Loading /\ ~Iterating => s = "B" /\ kernel \in {"fill", "hash"}
         /\ Iterating =>
              /\ Here = Place(kernel, s) /\ Adds(Place(kernel, s), x)
              /\ kernel \in {"fill", "hash", "commit", "blank", "search", "compare"} => s = "A"
              /\ kernel \in {"blank", "compare"} => path = "TritonNorotl"
  <1>1. /\ stream # <<>> /\ Head(stream) = <<kernel, s>> /\ x \in todo
        /\ todo' = todo \ {x} /\ Same /\ stream' = stream
    BY DEF Do, Running, Same
  <1>2. IterKernels' = IterKernels /\ Last' = Last
    BY <1>1 DEF IterKernels, SearchKernels, Last, Same
  <1>3. Here' = Here BY <1>1, <1>2 DEF Here
  <1>4. Iterating' <=> Iterating BY <1>1, <1>2, <1>3 DEF Iterating
  <1>5. Loading' <=> Loading BY <1>1 DEF Loading
  <1>6. StreamInv' BY <1>1, <1>4, <1>5 DEF StreamInv, Same
  <1>7. Loading => s = "B" /\ kernel \in {"fill", "hash"}
    BY <1>1 DEF Loading, JobKernels
  <1>8. ASSUME Iterating
        PROVE  /\ Here = Place(kernel, s)
               /\ kernel \in {"fill", "hash", "commit", "blank", "search", "compare"} => s = "A"
               /\ kernel \in {"blank", "compare"} => path = "TritonNorotl"
    <2>1. 1 \in 1..Len(stream) /\ Here \in 1..Last /\ Head(stream) = stream[1]
      BY <1>1, <1>8 DEF Iterating, Here, Last
    <2>2. IterKernels[Here] = <<kernel, s>>
      <3>1. Here + 1 - 1 = Here BY <2>1
      <3>2. stream[1] = IterKernels[Here + 1 - 1] BY <1>8, <2>1 DEF Iterating
      <3> QED BY <1>1, <2>1, <3>1, <3>2
    <2> QED BY <2>1, <2>2, PlaceIs DEF StreamInv
  <1>9. ASSUME NEW p, Here = p PROVE Adds(p, x)
    <2>1. ASSUME NEW q, NEW y
          PROVE  Finished(q, y)' <=> Finished(q, y) \/ (q = p /\ y = x)
      BY <1>1, <1>3, <1>9 DEF Finished
    <2> QED BY <1>1, <1>3, <1>9, <2>1, Zenon DEF Adds
  <1> QED BY <1>1, <1>3, <1>4, <1>6, <1>7, <1>8, <1>9

(* The end of a kernel finishes nothing of the next.                       *)
Keeps ==
  /\ Same
  /\ Iterating' =>
       /\ Iterating
       /\ \A q \in 1..Last : \A y \in Work(IterKernels[q]) :
            Finished(q, y)' <=> Finished(q, y)

LEMMA NextKernelIs ==
  ASSUME StreamInv, NextKernel
  PROVE  /\ StreamInv' /\ Keeps /\ todo = {}
         /\ stream' = <<>> => Iterating \/ (Loading /\ Len(stream) = 1)
         /\ Loading' => Loading /\ Len(stream') = 1 /\ todo' = {0}
  <1>1. /\ stream # <<>> /\ todo = {} /\ stream' = Tail(stream) /\ Same
        /\ todo' = IF stream' = <<>> THEN {} ELSE Work(Head(stream'))
    BY DEF NextKernel, Same
  <1>2. /\ IterKernels' = IterKernels /\ Last' = Last
        /\ path \in {"CppSearch", "TritonNorotl"} /\ path' = path
    BY <1>1 DEF IterKernels, SearchKernels, Last, Same, StreamInv
  <1>3. CASE Loading
    <2>1. \/ stream = JobKernels /\ stream' = << <<"hash", "B">> >> /\ todo' = {0}
          \/ Len(stream) = 1 /\ stream' = <<>> /\ todo' = {}
      <3>1. Work(<<"hash", "B">>) = {0} BY DEF Work
      <3>2. CASE stream = JobKernels
        <4>1. stream' = << <<"hash", "B">> >> BY <1>1, <3>2 DEF JobKernels
        <4>2. stream' # <<>> /\ Head(stream') = <<"hash", "B">> BY <4>1
        <4>3. todo' = {0} BY <1>1, <3>1, <4>2
        <4> QED BY <3>2, <4>1, <4>3
      <3>3. CASE stream = << <<"hash", "B">> >>
        <4>1. Len(stream) = 1 /\ stream' = <<>> BY <1>1, <3>3
        <4> QED BY <1>1, <4>1
      <3> QED BY <1>3, <3>2, <3>3 DEF Loading
    <2>2. ASSUME Iterating' PROVE FALSE
      <3>1. stream' = << <<"hash", "B">> >> BY <2>1, <2>2 DEF Iterating
      <3>2. Here' = Last /\ 1 \in 1..Len(stream') /\ Last + 1 - 1 = Last /\ Last \in 1..Last
        BY <1>2, <3>1 DEF Here, Last
      <3>3. IterKernels[Last] = <<"hash", "B">>
        <4>1. stream'[1] = IterKernels[Here' + 1 - 1]
          BY <1>2, <2>2, <3>2 DEF Iterating
        <4> QED BY <3>1, <3>2, <4>1
      <3> QED BY <1>2, <3>2, <3>3, PlaceIs
    <2>3. Loading' <=> stream' # <<>> BY <2>1 DEF Loading, JobKernels
    <2>4. Len(stream') = 1 \/ stream' = <<>> BY <2>1
    <2>5. stream = JobKernels => Len(stream) = 2 BY DEF JobKernels
    <2> QED BY <1>1, <1>2, <1>3, <2>1, <2>2, <2>3, <2>4, <2>5 DEF StreamInv, Keeps
  <1>4. CASE Iterating
    <2>1. /\ stream \in Seq(Kernel) /\ Len(stream) \in 1..Last /\ Last \in Nat
          /\ Here = Last - Len(stream) + 1 /\ Here \in 1..Last
      BY <1>1, <1>4 DEF Iterating, Here, Last
    <2>2. /\ stream' \in Seq(Kernel) /\ Len(stream') = Len(stream) - 1
          /\ \A n \in 1..Len(stream') : stream'[n] = stream[n + 1]
      BY <1>1, <2>1
    <2>3. Here' = Here + 1 BY <1>2, <2>1, <2>2 DEF Here
    <2>4. ASSUME NEW n \in 1..Len(stream') PROVE stream'[n] = IterKernels[Here' + n - 1]
      <3>1. n + 1 \in 1..Len(stream) /\ Here + (n + 1) - 1 = Here' + n - 1
        BY <2>1, <2>2, <2>3
      <3>2. stream[n + 1] = IterKernels[Here + (n + 1) - 1] BY <1>4, <3>1 DEF Iterating
      <3> QED BY <2>2, <3>1, <3>2
    <2>5. stream' # <<>> => Iterating'
      BY <1>2, <2>1, <2>2, <2>4 DEF Iterating
    <2>6. ASSUME Loading' PROVE FALSE
      <3>1. PICK n \in 1..Len(stream') : stream'[n] = <<"hash", "B">>
        <4>1. CASE stream' = << <<"fill", "B">>, <<"hash", "B">> >>
          <5>1. 2 \in 1..Len(stream') /\ stream'[2] = <<"hash", "B">> BY <4>1
          <5> QED BY <5>1
        <4>2. CASE stream' = << <<"hash", "B">> >>
          <5>1. 1 \in 1..Len(stream') /\ stream'[1] = <<"hash", "B">> BY <4>2
          <5> QED BY <5>1
        <4> QED BY <2>6, <4>1, <4>2 DEF Loading, JobKernels
      <3>2. Here' + n - 1 \in 1..Last BY <2>1, <2>2, <2>3
      <3>3. IterKernels[Here' + n - 1] = <<"hash", "B">> BY <2>4, <3>1
      <3> QED BY <1>2, <3>2, <3>3, PlaceIs
    <2>7. StreamInv' BY <1>1, <1>2, <2>5 DEF StreamInv
    <2>8. ASSUME Iterating', NEW q \in 1..Last, NEW y \in Work(IterKernels[q])
          PROVE  Finished(q, y)' <=> Finished(q, y)
      <3>1. stream' # <<>> /\ 1 \in 1..Len(stream') /\ Head(stream') = stream'[1]
        BY <2>2, <2>8 DEF Iterating
      <3>2. Head(stream') = IterKernels[Here + 1]
        <4>1. Here' + 1 - 1 = Here + 1 BY <2>1, <2>3
        <4> QED BY <2>4, <3>1, <4>1
      <3>3. q = Here + 1 => y \in todo' BY <1>1, <3>1, <3>2
      <3>4. Finished(q, y) <=> q <= Here BY <1>1, <2>1 DEF Finished
      <3>5. Finished(q, y)' <=> q <= Here BY <2>1, <2>3, <3>3 DEF Finished
      <3> QED BY <3>4, <3>5
    <2> QED BY <1>1, <1>4, <2>6, <2>7, <2>8, Zenon DEF Keeps
  <1> QED BY <1>1, <1>3, <1>4 DEF StreamInv

(* Enqueueing the kernels of a job or of an iteration: none is done.       *)
Starts ==
  /\ Same /\ Iterating'
  /\ \A q \in 1..Last : \A y \in Work(IterKernels[q]) : ~Finished(q, y)'

LEMMA LoadJobIs ==
  ASSUME StreamInv, LoadJob
  PROVE  /\ StreamInv' /\ Loading' /\ ~Iterating' /\ path' = path
         /\ Len(stream') # 1 /\ stream' # <<>>
  <1>1. stream' = JobKernels /\ path' = path BY DEF LoadJob, Enqueue
  <1>2. /\ IterKernels' = IterKernels /\ Last' = Last
        /\ path \in {"CppSearch", "TritonNorotl"}
    BY <1>1 DEF IterKernels, SearchKernels, Last, StreamInv
  <1>3. ASSUME Iterating' PROVE FALSE
    <2>1. Len(stream') = 2 /\ stream'[2] = <<"hash", "B">> BY <1>1 DEF JobKernels
    <2>2. Here' = Last - 1 /\ 2 \in 1..Len(stream') /\ Here' + 2 - 1 = Last /\ Last \in 1..Last
      BY <1>2, <2>1 DEF Here, Last
    <2>3. stream'[2] = IterKernels[Here' + 2 - 1] BY <1>2, <1>3, <2>2 DEF Iterating
    <2>4. IterKernels[Last] = <<"hash", "B">> BY <2>1, <2>2, <2>3
    <2> QED BY <1>2, <2>2, <2>4, PlaceIs
  <1>4. Loading' /\ Len(stream') # 1 /\ stream' # <<>> BY <1>1 DEF Loading, JobKernels
  <1>5. StreamInv' BY <1>1, <1>2, <1>4 DEF StreamInv
  <1> QED BY <1>1, <1>3, <1>4, <1>5

LEMMA IterateIs ==
  ASSUME StreamInv, Iterate
  PROVE  StreamInv' /\ Starts /\ ~Loading' /\ stream' # <<>>
  <1>1. /\ stream' = IterKernels /\ todo' = Work(Head(IterKernels))
        /\ UNCHANGED <<path, salt, job>>
    BY DEF Iterate, Enqueue
  <1>2. /\ IterKernels' = IterKernels /\ Last' = Last
        /\ path \in {"CppSearch", "TritonNorotl"} /\ Last \in Nat /\ Last > 15
    BY <1>1 DEF IterKernels, SearchKernels, Last, StreamInv
  <1>3. IterKernels \in Seq(Kernel) /\ Len(IterKernels) = Last BY <1>2, KernelsSeq
  <1>4. Here' = 1 BY <1>1, <1>2, <1>3 DEF Here
  <1>5. Iterating'
    <2>1. \A n \in 1..Last : Here' + n - 1 = n BY <1>2, <1>4
    <2> QED BY <1>1, <1>2, <1>3, <2>1 DEF Iterating
  <1>6. ASSUME NEW q \in 1..Last, NEW y \in Work(IterKernels[q]) PROVE ~Finished(q, y)'
    <2>1. Head(IterKernels) = IterKernels[1] BY <1>2, <1>3
    <2>2. q = 1 => y \in todo' BY <1>1, <2>1
    <2> QED BY <1>4, <2>2 DEF Finished
  <1>7. ~Loading' /\ stream' # <<>>
    <2>1. ASSUME Loading' PROVE Len(stream') <= 2
      <3>1. CASE stream' = JobKernels BY <3>1 DEF JobKernels
      <3>2. CASE stream' = << <<"hash", "B">> >> BY <3>2
      <3> QED BY <2>1, <3>1, <3>2 DEF Loading
    <2>2. Len(stream') > 2 /\ stream' # <<>> BY <1>1, <1>2, <1>3
    <2> QED BY <2>1, <2>2
  <1>8. StreamInv' BY <1>1, <1>2, <1>5, <1>7 DEF StreamInv
  <1> QED BY <1>1, <1>5, <1>6, <1>7, <1>8 DEF Starts, Same
-----------------------------------------------------------------------------
(* What the launches divide into covers every cell.                        *)

(* The sizes of the assumption, for the path taken.                        *)
LEMMA Sizes ==
  ASSUME path \in Paths
  PROVE  /\ path \in {"CppSearch", "TritonNorotl"}
         /\ R \in Nat \ {0} /\ R > 1 /\ HashWords \in Nat \ {0} /\ WordBytes \in Nat \ {0}
         /\ HashBytes \in Nat \ {0} /\ R % HashBytes = 0
         /\ BlockX \in Nat \ {0} /\ TransposeTile \in Nat \ {0} /\ JackpotSize \in Nat \ {0}
         /\ K \in Nat /\ K % R = 0
         /\ \A s \in Side : Rows[s] \in Nat \ {0}
         /\ NoisingTile[path][1] \in Nat \ {0} /\ NoisingTile[path][2] \in Nat \ {0}
         /\ path = "CppSearch" =>
              K % NoisingTile[path][2] = 0 /\ \A s \in Side : Rows[s] % NoisingTile[path][1] = 0
         /\ path = "TritonNorotl" => K = R * JackpotSize
  <1>1. /\ {R, HashWords, WordBytes, JackpotSize, TransposeTile, BlockX} \subseteq Nat \ {0}
        /\ R > 1 /\ R % HashBytes = 0 /\ \A s \in Side : Rows[s] \in Nat \ {0}
    BY NoisePipelineAssumption
  <1>2. HashBytes \in Nat \ {0}
    <2>1. HashWords \in Nat \ {0} /\ WordBytes \in Nat \ {0} BY <1>1
    <2> QED BY <2>1 DEF HashBytes
  <1>3. path \in {"CppSearch", "TritonNorotl"} BY NoisePipelineAssumption
  <1>4. K \in Nat /\ K % R = 0 BY NoisePipelineAssumption DEF K
  <1>5. NoisingTile[path][1] \in Nat \ {0} /\ NoisingTile[path][2] \in Nat \ {0}
    BY NoisePipelineAssumption
  <1>6. path = "CppSearch" =>
          K % NoisingTile[path][2] = 0 /\ \A s \in Side : Rows[s] % NoisingTile[path][1] = 0
    BY NoisePipelineAssumption DEF K
  <1>7. path = "TritonNorotl" => K = R * JackpotSize
    BY NoisePipelineAssumption DEF K
  <1> QED BY <1>1, <1>2, <1>3, <1>4, <1>5, <1>6, <1>7

(* Dividing by b what is below n gives less than n divided and rounded up, *)
(* and rounding does nothing when b divides n.                             *)
LEMMA CeilCovers ==
  ASSUME NEW n \in Nat, NEW b \in Nat \ {0}
  PROVE  /\ Ceil(n, b) \in Nat /\ n <= Ceil(n, b) * b
         /\ \A i \in Below(n) : i \div b \in Below(Ceil(n, b))
         /\ n % b = 0 => \A i \in Below(n) : i \div b \in Below(n \div b)
  <1>1. PICK m \in Nat : m = n + b - 1 OBVIOUS
  <1>2. PICK c \in Nat : c = Ceil(n, b) /\ c * b <= m /\ m < (c + 1) * b
    BY <1>1, DivIs DEF Ceil
  <1>3. PICK p \in Nat : p = c * b /\ (c + 1) * b = p + b
    <2>1. c * b \in Nat /\ (c + 1) * b = c * b + b BY <1>2
    <2> QED BY <2>1
  <1>4. n <= p BY <1>1, <1>2, <1>3
  <1>5. ASSUME NEW i \in Below(n), NEW d \in Nat, n <= d * b PROVE i \div b \in Below(d)
    <2>1. i \in Nat /\ i < n BY DEF Below
    <2>2. PICK q \in Nat : q = i \div b /\ q * b <= i BY <2>1, DivIs
    <2>3. q * b \in Nat /\ d * b \in Nat BY <2>2
    <2>4. q * b < d * b BY <1>5, <2>1, <2>2, <2>3
    <2>5. q < d BY <2>2, <2>4, TimesLess
    <2> QED BY <2>2, <2>5 DEF Below
  <1>6. ASSUME n % b = 0 PROVE n \div b \in Nat /\ n <= (n \div b) * b
    BY <1>6, DivIs
  <1> QED BY <1>2, <1>3, <1>4, <1>5, <1>6

(* What b divides is a multiple of b.                                      *)
LEMMA Exact ==
  ASSUME NEW n \in Nat, NEW b \in Nat \ {0}, n % b = 0
  PROVE  \E h \in Nat : h = n \div b /\ n = h * b
  <1>1. PICK h \in Nat : h = n \div b BY DivMod
  <1>2. PICK p \in Nat : p = h * b BY <1>1
  <1>3. n = p + 0 BY <1>1, <1>2, DivIs
  <1> QED BY <1>1, <1>2, <1>3

(* Every piece of work of a grid has a thread.                             *)
LEMMA ThreadsAre ==
  ASSUME path \in Paths, NEW n \in Nat
  PROVE  Threads(n) = Below(n)
  <1>1. BlockX \in Nat \ {0} BY Sizes
  <1>2. PICK g \in Nat : g = Grid(n) /\ n <= g * BlockX BY <1>1, CeilCovers DEF Grid
  <1>3. g * BlockX \in Nat BY <1>1, <1>2
  <1> QED BY <1>2, <1>3 DEF Threads, Below

(* Cells of an array stored row by row.                                    *)
LEMMA CellOf ==
  ASSUME NEW a \in Nat, NEW b \in Nat, NEW q \in 0..(a - 1), NEW r \in 0..(b - 1)
  PROVE  /\ q * b + r \in Below(a * b)
         /\ (q * b + r) \div b = q /\ (q * b + r) % b = r
  <1>1. b \in Nat \ {0} /\ q \in Nat /\ a \in Nat \ {0} OBVIOUS
  <1>2. (q * b + r) \div b = q /\ (q * b + r) % b = r BY <1>1, SplitIs
  <1>3. PICK d \in Nat : a = (q + 1) + d
    <2>1. a - (q + 1) \in Nat /\ a = (q + 1) + (a - (q + 1)) OBVIOUS
    <2> QED BY <2>1
  <1>4. PICK p \in Nat : p = q * b BY <1>1
  <1>5. a * b = p + b + d * b /\ d * b \in Nat BY <1>1, <1>3, <1>4
  <1>6. p + r \in Below(a * b)
    <2>1. PICK e \in Nat : e = d * b BY <1>5
    <2> QED BY <1>1, <1>4, <1>5, <2>1 DEF Below
  <1> QED BY <1>2, <1>4, <1>6

LEMMA CellIs ==
  ASSUME NEW a \in Nat, NEW b \in Nat, NEW i \in Below(a * b)
  PROVE  /\ b \in Nat \ {0} /\ i \in Nat
         /\ i \div b \in Below(a) /\ i % b \in Below(b) /\ i = (i \div b) * b + (i % b)
  <1>1. PICK p \in Nat : p = a * b /\ i \in 0..(p - 1) BY DEF Below
  <1>2. b # 0
    <2> SUFFICES ASSUME b = 0 PROVE FALSE OBVIOUS
    <2>1. a * b = 0 OBVIOUS
    <2> QED BY <1>1, <2>1
  <1>3. i \in Nat /\ b \in Nat \ {0} BY <1>1, <1>2
  <1>4. PICK q \in Nat : q = i \div b /\ q * b <= i BY <1>3, DivIs
  <1>5. i % b \in 0..(b - 1) /\ i = (i \div b) * b + (i % b) BY <1>3, DivIs
  <1>6. q * b < a * b
    <2>1. q * b \in Nat BY <1>3, <1>4
    <2> QED BY <1>1, <1>4, <2>1
  <1>7. q < a BY <1>3, <1>4, <1>6, TimesLess
  <1> QED BY <1>3, <1>4, <1>5, <1>7 DEF Below

(* Every cell belongs to the work of the kernel that writes it.            *)
LEMMA WorkCovers ==
  ASSUME path \in Paths, NEW s \in Side
  PROVE  /\ \A i \in Below(Rows[s] * R) : \A k \in {"dense", "fp16"} :
              i \div HashBytes \in Work(<<k, s>>)
         /\ \A i \in Below(K * R) : (i \div R) \div HashWords \in Work(<<"sparse", s>>)
         /\ \A i \in Below(K * R) :
              <<(i % K) \div TransposeTile, (i \div K) \div TransposeTile>>
                \in Work(<<"transpose", s>>)
         /\ \A i \in Below(Rows[s] * K) :
              <<(i \div K) \div NoisingTile[path][1], (i % K) \div NoisingTile[path][2]>>
                \in Work(<<"noising", s>>)
  <1>1. ASSUME NEW i \in Below(Rows[s] * R), NEW k \in {"dense", "fp16"}
        PROVE  i \div HashBytes \in Work(<<k, s>>)
    <2>1. PICK n \in Nat : n = Rows[s] * R BY Sizes
    <2>2. n % HashBytes = 0
      <3>2. PICK b \in Nat \ {0} : b = HashBytes /\ R % b = 0 BY Sizes
      <3>1. PICK h \in Nat : R = h * b
        <4>1. R \in Nat BY Sizes
        <4> QED BY <3>2, <4>1, Exact
      <3>3. PICK r \in Nat : r = Rows[s] BY Sizes
      <3>4. r * (h * b) = (r * h) * b /\ r * h \in Nat BY <3>1, <3>2, <3>3
      <3>5. PICK q \in Nat : q = r * h /\ n = q * b BY <2>1, <3>1, <3>3, <3>4
      <3>6. (q * b + 0) % b = 0 /\ q * b + 0 = q * b BY <3>2, <3>5, SplitIs
      <3> QED BY <3>2, <3>5, <3>6
    <2>3. i \div HashBytes \in Below(n \div HashBytes) BY <2>1, <2>2, Sizes, CeilCovers
    <2>4. n \div HashBytes \in Nat BY <2>1, Sizes, DivMod
    <2>5. Work(<<k, s>>) = Chunks(n) BY <1>1, <2>1 DEF Work
    <2> QED BY <2>3, <2>4, <2>5, ThreadsAre DEF Chunks
  <1>2. ASSUME NEW i \in Below(K * R) PROVE (i \div R) \div HashWords \in Work(<<"sparse", s>>)
    <2>1. i \div R \in Below(K) BY Sizes, CellIs
    <2>2. /\ Ceil(K, HashWords) \in Nat
          /\ (i \div R) \div HashWords \in Below(Ceil(K, HashWords))
      BY <2>1, Sizes, CeilCovers
    <2>3. Work(<<"sparse", s>>) = Threads(Ceil(K, HashWords)) BY DEF Work
    <2> QED BY <2>2, <2>3, ThreadsAre
  <1>3. ASSUME NEW i \in Below(K * R)
        PROVE  <<(i % K) \div TransposeTile, (i \div K) \div TransposeTile>>
                 \in Work(<<"transpose", s>>)
    <2>1. K * R = R * K BY Sizes
    <2>2. i \div K \in Below(R) /\ i % K \in Below(K) BY <2>1, Sizes, CellIs
    <2>3. /\ (i % K) \div TransposeTile \in Below(Ceil(K, TransposeTile))
          /\ (i \div K) \div TransposeTile \in Below(Ceil(R, TransposeTile))
      BY <2>2, Sizes, CeilCovers
    <2>4. Work(<<"transpose", s>>)
            = Below(Ceil(K, TransposeTile)) \X Below(Ceil(R, TransposeTile))
      BY DEF Work
    <2> QED BY <2>3, <2>4
  <1>4. ASSUME NEW i \in Below(Rows[s] * K)
        PROVE  <<(i \div K) \div NoisingTile[path][1], (i % K) \div NoisingTile[path][2]>>
                 \in Work(<<"noising", s>>)
    <2>1. i \div K \in Below(Rows[s]) /\ i % K \in Below(K) BY Sizes, CellIs
    <2>2. ASSUME NEW n \in Nat, NEW b \in Nat \ {0}, NEW x \in Below(n),
                 path = "CppSearch" => n % b = 0
          PROVE  x \div b \in Blocks(n, b)
      BY <2>2, Sizes, CeilCovers DEF Blocks
    <2>3. /\ (i \div K) \div NoisingTile[path][1] \in Blocks(Rows[s], NoisingTile[path][1])
          /\ (i % K) \div NoisingTile[path][2] \in Blocks(K, NoisingTile[path][2])
      BY <2>1, <2>2, Sizes
    <2>4. Work(<<"noising", s>>)
            = Blocks(Rows[s], NoisingTile[path][1]) \X Blocks(K, NoisingTile[path][2])
      BY DEF Work, Tiles
    <2> QED BY <2>3, <2>4
  <1> QED BY <1>1, <1>2, <1>3, <1>4
-----------------------------------------------------------------------------
(* Types: the ranges of the matrices, and the size of every buffer.        *)
TypeInv ==
  /\ path \in Paths /\ salt \in Salts /\ job \in Jobs \cup {0}
  /\ DOMAIN matrix = Side /\ DOMAIN root = Side /\ DOMAIN dense = Side /\ DOMAIN fp16 = Side
  /\ DOMAIN sparse = Side /\ DOMAIN kmajor = Side /\ DOMAIN noised = Side
  /\ \A s \in Side :
       /\ matrix[s] \in [Below(Rows[s] * K) -> (-63)..63]
       /\ dense[s] \in [Below(Rows[s] * R) -> (-32)..31]
       /\ fp16[s] \in [Below(Rows[s] * R) -> (-32)..31]
       /\ sparse[s] \in [Below(K * R) -> {-1, 0, 1}]
       /\ kmajor[s] \in [Below(K * R) -> {-1, 0, 1}]
       /\ DOMAIN noised[s] = Below(Rows[s] * K)
  /\ DOMAIN transcript = Candidates[path] /\ DOMAIN hashed = Candidates[path]
TodoInv == stream # <<>> => todo \subseteq Work(Head(stream))

(* A value of a noise factor: of the dense one, and of the sparse one.     *)
DenseValue(s, i) ==
  LET c == i \div HashBytes IN DenseByte(Bytes(s, 0, c)[i - c * HashBytes + 1])
RowWord(s, l) ==
  LET c == l \div HashWords IN Word(Bytes(s, 1, c), l - c * HashWords)
SparseValue(s, i) ==
  LET u == RowWord(s, i \div R)
  IN  IF i % R = K1(u) THEN -1 ELSE IF i % R = K0(u) THEN 1 ELSE 0

(* What each kernel of the iteration leaves, as far as it has run.         *)
JobHashed ==
  Iterating \/ (stream = <<>> /\ job # 0) \/ (Loading /\ Len(stream) = 1 /\ todo = {})
    => root["B"] = Root(salt, job, matrix["B"])
RootDone == Iterating /\ Finished(2, 0) => root["A"] = Root(salt, job, matrix["A"])
CommitDone == Iterating /\ Finished(3, 0) => commit = [A |-> ANoiseSeed, B |-> BNoiseSeed]
DenseDone(s) ==
  Iterating => \A i \in Below(Rows[s] * R) :
    Finished(Place("dense", s), i \div HashBytes) => dense[s][i] = DenseValue(s, i)
Fp16Done(s) ==
  Iterating => \A i \in Below(Rows[s] * R) :
    Finished(Place("fp16", s), i \div HashBytes) => fp16[s][i] = DenseValue(s, i)
SparseDone(s) ==
  Iterating /\ Finished(Place("zero", s), 0) => \A i \in Below(K * R) :
    sparse[s][i] = IF Finished(Place("sparse", s), (i \div R) \div HashWords)
                   THEN SparseValue(s, i) ELSE 0
TransposeDone(s) ==
  Iterating => \A i \in Below(K * R) :
    Finished(Place("transpose", s), <<(i % K) \div TransposeTile, (i \div K) \div TransposeTile>>)
      => kmajor[s][i] = sparse[s][(i % K) * R + i \div K]
NoisingDone(s) ==
  Iterating => \A i \in Below(Rows[s] * K) :
    Finished(Place("noising", s),
             <<(i \div K) \div NoisingTile[path][1], (i % K) \div NoisingTile[path][2]>>)
      => noised[s][i] = Wrap8(matrix[s][i] + Dot(dense[s], i \div K, sparse[s], i % K))
SearchDone ==
  Iterating => \A c \in Candidates[path] :
    Finished(Place("search", "A"), c) =>
      IF path = "CppSearch" THEN hashed[c] = <<PowKey, SearchTranscript(c)>>
      ELSE transcript[c] = SearchTranscript(c)
CompareDone ==
  Iterating /\ path = "TritonNorotl" => \A c \in Candidates[path] :
    Finished(Place("compare", "A"), c) => hashed[c] = <<PowKey, transcript[c]>>

SideDone(s) ==
  DenseDone(s) /\ Fp16Done(s) /\ SparseDone(s) /\ TransposeDone(s) /\ NoisingDone(s)
Inv ==
  /\ TypeInv /\ StreamInv /\ TodoInv
  /\ JobHashed /\ RootDone /\ CommitDone
  /\ \A s \in Side : SideDone(s)
  /\ SearchDone /\ CompareDone
-----------------------------------------------------------------------------
(* A stage is kept by whatever keeps its buffers and finishes none of its  *)
(* work, and says nothing while its kernel is ahead.                       *)
Kept(q) ==
  (Iterating' => Iterating)
    /\ \A y \in Work(IterKernels[q]) : Finished(q, y)' <=> Finished(q, y)
Ahead(q) == \A y \in Work(IterKernels[q]) : ~Finished(q, y)'

(* The kernel at the place of a kernel.                                    *)
LEMMA AtPlace ==
  ASSUME path \in Paths, NEW s \in Side
  PROVE  /\ \A k \in {"dense", "fp16", "zero", "sparse", "transpose", "noising"} :
              IterKernels[Place(k, s)] = <<k, s>> /\ Place(k, s) \in 4..15
         /\ IterKernels[2] = <<"hash", "A">> /\ IterKernels[3] = <<"commit", "A">>
         /\ IterKernels[Place("search", "A")] = <<"search", "A">>
         /\ path = "TritonNorotl" => IterKernels[Place("compare", "A")] = <<"compare", "A">>
  <1>1. path \in {"CppSearch", "TritonNorotl"} BY Sizes
  <1>2. s = "A" \/ s = "B" BY DEF Side
  <1>3. ASSUME NEW k \in {"dense", "fp16", "zero", "sparse", "transpose", "noising"}
        PROVE  IterKernels[Place(k, s)] = <<k, s>> /\ Place(k, s) \in 4..15
    <2>1. Place(k, s) \in 4..15 BY <1>2 DEF Place
    <2>2. PICK n \in 1..15 : n = Place(k, s) BY <2>1
    <2>3. \/ k = "dense" /\ n = (IF s = "A" THEN 4 ELSE 5)
          \/ k = "fp16" /\ n = (IF s = "A" THEN 6 ELSE 7)
          \/ k = "zero" /\ n = (IF s = "A" THEN 8 ELSE 9)
          \/ k = "sparse" /\ n = (IF s = "A" THEN 10 ELSE 11)
          \/ k = "transpose" /\ n = (IF s = "A" THEN 12 ELSE 13)
          \/ k = "noising" /\ n = (IF s = "A" THEN 14 ELSE 15)
      BY <2>2 DEF Place
    <2>4. IterKernels[n] = <<k, s>> BY <1>1, <1>2, <2>3, NoiseKernelsAre
    <2> QED BY <2>1, <2>2, <2>4
  <1>4. IterKernels[2] = <<"hash", "A">> /\ IterKernels[3] = <<"commit", "A">>
    BY <1>1, NoiseKernelsAre
  <1>5. IterKernels[Place("search", "A")] = <<"search", "A">>
    BY <1>1, SearchKernelsAre DEF Place, Last
  <1>6. path = "TritonNorotl" => IterKernels[Place("compare", "A")] = <<"compare", "A">>
    BY <1>1, SearchKernelsAre DEF Place, Last
  <1> QED BY <1>3, <1>4, <1>5, <1>6

(* The noise values and the transcripts are functions of what they read.   *)
LEMMA ValuesKept ==
  ASSUME Same, commit' = commit
  PROVE  /\ \A s, i : DenseValue(s, i)' = DenseValue(s, i)
         /\ \A s, i : SparseValue(s, i)' = SparseValue(s, i)
  BY DEF Same, DenseValue, SparseValue, RowWord, Bytes

LEMMA TranscriptKept ==
  ASSUME Same, noised' = noised, NEW c
  PROVE  SearchTranscript(c)' = SearchTranscript(c)
  BY DEF Same, SearchTranscript, SearchWord, XorTile, Accumulator, K, Rotated, TileSlots

LEMMA DenseKept ==
  ASSUME TypeInv, Same, NEW s \in Side,
         \/ Ahead(Place("dense", s))
         \/ Kept(Place("dense", s)) /\ DenseDone(s) /\ commit' = commit /\ dense'[s] = dense[s]
  PROVE  DenseDone(s)'
  <1> SUFFICES ASSUME Iterating', NEW i \in Below(Rows[s] * R),
                      Finished(Place("dense", s), i \div HashBytes)'
               PROVE  dense'[s][i] = DenseValue(s, i)'
    BY DEF DenseDone
  <1>1. i \div HashBytes \in Work(IterKernels[Place("dense", s)])
    BY AtPlace, WorkCovers DEF TypeInv
  <1>2. Place("dense", s)' = Place("dense", s) BY DEF Place
  <1>3. ~Ahead(Place("dense", s)) BY <1>1, <1>2 DEF Ahead
  <1>4. Iterating /\ Finished(Place("dense", s), i \div HashBytes)
    BY <1>1, <1>2, <1>3 DEF Kept
  <1>5. dense[s][i] = DenseValue(s, i) BY <1>3, <1>4 DEF DenseDone
  <1> QED BY <1>3, <1>5, ValuesKept

LEMMA Fp16Kept ==
  ASSUME TypeInv, Same, NEW s \in Side,
         \/ Ahead(Place("fp16", s))
         \/ Kept(Place("fp16", s)) /\ Fp16Done(s) /\ commit' = commit /\ fp16'[s] = fp16[s]
  PROVE  Fp16Done(s)'
  <1> SUFFICES ASSUME Iterating', NEW i \in Below(Rows[s] * R),
                      Finished(Place("fp16", s), i \div HashBytes)'
               PROVE  fp16'[s][i] = DenseValue(s, i)'
    BY DEF Fp16Done
  <1>1. i \div HashBytes \in Work(IterKernels[Place("fp16", s)])
    BY AtPlace, WorkCovers DEF TypeInv
  <1>2. Place("fp16", s)' = Place("fp16", s) BY DEF Place
  <1>3. ~Ahead(Place("fp16", s)) BY <1>1, <1>2 DEF Ahead
  <1>4. Iterating /\ Finished(Place("fp16", s), i \div HashBytes)
    BY <1>1, <1>2, <1>3 DEF Kept
  <1>5. fp16[s][i] = DenseValue(s, i) BY <1>3, <1>4 DEF Fp16Done
  <1> QED BY <1>3, <1>5, ValuesKept

LEMMA SparseKept ==
  ASSUME TypeInv, Same, NEW s \in Side,
         \/ Ahead(Place("zero", s))
         \/ /\ Kept(Place("zero", s)) /\ Kept(Place("sparse", s)) /\ SparseDone(s)
            /\ commit' = commit /\ sparse'[s] = sparse[s]
  PROVE  SparseDone(s)'
  <1>1. K' = K BY DEF K, Same
  <1>2. Place("zero", s)' = Place("zero", s) /\ Place("sparse", s)' = Place("sparse", s)
    BY DEF Place
  <1> SUFFICES ASSUME Iterating', Finished(Place("zero", s), 0)', NEW i \in Below(K * R)
               PROVE  sparse'[s][i] = IF Finished(Place("sparse", s), (i \div R) \div HashWords)'
                                      THEN SparseValue(s, i)' ELSE 0
    BY <1>1 DEF SparseDone
  <1>3. 0 \in Work(IterKernels[Place("zero", s)])
    <2>1. IterKernels[Place("zero", s)] = <<"zero", s>> /\ path \in Paths BY AtPlace DEF TypeInv
    <2> QED BY <2>1 DEF Work
  <1>4. (i \div R) \div HashWords \in Work(IterKernels[Place("sparse", s)])
    BY AtPlace, WorkCovers DEF TypeInv
  <1>5. ~Ahead(Place("zero", s)) BY <1>2, <1>3 DEF Ahead
  <1>6. /\ Iterating /\ Finished(Place("zero", s), 0)
        /\ Finished(Place("sparse", s), (i \div R) \div HashWords)'
              <=> Finished(Place("sparse", s), (i \div R) \div HashWords)
    BY <1>2, <1>3, <1>4, <1>5 DEF Kept
  <1>7. sparse[s][i] = IF Finished(Place("sparse", s), (i \div R) \div HashWords)
                       THEN SparseValue(s, i) ELSE 0
    BY <1>5, <1>6 DEF SparseDone
  <1> QED BY <1>5, <1>6, <1>7, ValuesKept

LEMMA TransposeKept ==
  ASSUME TypeInv, Same, NEW s \in Side,
         \/ Ahead(Place("transpose", s))
         \/ /\ Kept(Place("transpose", s)) /\ TransposeDone(s)
            /\ kmajor'[s] = kmajor[s] /\ sparse'[s] = sparse[s]
  PROVE  TransposeDone(s)'
  <1>1. K' = K /\ Place("transpose", s)' = Place("transpose", s) BY DEF K, Same, Place
  <1> DEFINE block(i) == <<(i % K) \div TransposeTile, (i \div K) \div TransposeTile>>
  <1> SUFFICES ASSUME Iterating', NEW i \in Below(K * R),
                      Finished(Place("transpose", s), block(i))'
               PROVE  kmajor'[s][i] = sparse'[s][(i % K) * R + i \div K]
    BY <1>1 DEF TransposeDone
  <1>2. block(i) \in Work(IterKernels[Place("transpose", s)])
    BY AtPlace, WorkCovers DEF TypeInv
  <1>3. ~Ahead(Place("transpose", s)) BY <1>1, <1>2 DEF Ahead
  <1>4. Iterating /\ Finished(Place("transpose", s), block(i))
    BY <1>1, <1>2, <1>3 DEF Kept
  <1>5. kmajor[s][i] = sparse[s][(i % K) * R + i \div K] BY <1>3, <1>4 DEF TransposeDone
  <1> QED BY <1>3, <1>5

LEMMA NoisingKept ==
  ASSUME TypeInv, Same, NEW s \in Side,
         \/ Ahead(Place("noising", s))
         \/ /\ Kept(Place("noising", s)) /\ NoisingDone(s) /\ noised'[s] = noised[s]
            /\ matrix'[s] = matrix[s] /\ dense'[s] = dense[s] /\ sparse'[s] = sparse[s]
  PROVE  NoisingDone(s)'
  <1>1. K' = K /\ path' = path /\ Place("noising", s)' = Place("noising", s)
    BY DEF K, Same, Place
  <1> DEFINE tile(i) == <<(i \div K) \div NoisingTile[path][1], (i % K) \div NoisingTile[path][2]>>
  <1> SUFFICES ASSUME Iterating', NEW i \in Below(Rows[s] * K),
                      Finished(Place("noising", s), tile(i))'
               PROVE  noised'[s][i]
                        = Wrap8(matrix'[s][i] + Dot(dense'[s], i \div K, sparse'[s], i % K))
    BY <1>1 DEF NoisingDone, Dot
  <1>2. tile(i) \in Work(IterKernels[Place("noising", s)])
    BY AtPlace, WorkCovers DEF TypeInv
  <1>3. ~Ahead(Place("noising", s)) BY <1>1, <1>2 DEF Ahead
  <1>4. Iterating /\ Finished(Place("noising", s), tile(i))
    BY <1>1, <1>2, <1>3 DEF Kept
  <1>5. noised[s][i] = Wrap8(matrix[s][i] + Dot(dense[s], i \div K, sparse[s], i % K))
    BY <1>3, <1>4 DEF NoisingDone
  <1> QED BY <1>3, <1>5

LEMMA RootKept ==
  ASSUME TypeInv, Same,
         \/ Ahead(2)
         \/ /\ Kept(2) /\ RootDone
            /\ root'["A"] = root["A"] /\ matrix'["A"] = matrix["A"]
  PROVE  RootDone'
  <1>1. 0 \in Work(IterKernels[2])
    <2>1. "A" \in Side /\ path \in Paths BY DEF Side, TypeInv
    <2>2. IterKernels[2] = <<"hash", "A">> BY <2>1, AtPlace
    <2> QED BY <2>2 DEF Work
  <1> SUFFICES ASSUME Iterating', Finished(2, 0)'
               PROVE  root'["A"] = Root(salt', job', matrix'["A"])
    BY DEF RootDone
  <1>2. ~Ahead(2) BY <1>1 DEF Ahead
  <1>3. Iterating /\ Finished(2, 0) BY <1>1, <1>2 DEF Kept
  <1> QED BY <1>2, <1>3 DEF RootDone, Same

LEMMA CommitKept ==
  ASSUME TypeInv, Same,
         Ahead(3) \/ (Kept(3) /\ CommitDone /\ commit' = commit /\ matrix' = matrix)
  PROVE  CommitDone'
  <1>1. 0 \in Work(IterKernels[3])
    <2>1. "A" \in Side /\ path \in Paths BY DEF Side, TypeInv
    <2>2. IterKernels[3] = <<"commit", "A">> BY <2>1, AtPlace
    <2> QED BY <2>2 DEF Work
  <1> SUFFICES ASSUME Iterating', Finished(3, 0)'
               PROVE  commit' = [A |-> ANoiseSeed', B |-> BNoiseSeed']
    BY DEF CommitDone
  <1>2. ~Ahead(3) BY <1>1 DEF Ahead
  <1>3. Iterating /\ Finished(3, 0) BY <1>1, <1>2 DEF Kept
  <1>4. commit = [A |-> ANoiseSeed, B |-> BNoiseSeed] BY <1>2, <1>3 DEF CommitDone
  <1>5. ANoiseSeed' = ANoiseSeed /\ BNoiseSeed' = BNoiseSeed
    BY <1>2 DEF ANoiseSeed, BNoiseSeed, Same
  <1> QED BY <1>2, <1>4, <1>5

LEMMA SearchKept ==
  ASSUME TypeInv, Same,
         \/ Ahead(Place("search", "A"))
         \/ /\ Kept(Place("search", "A")) /\ SearchDone
            /\ commit' = commit /\ noised' = noised
            /\ IF path = "CppSearch" THEN hashed' = hashed ELSE transcript' = transcript
  PROVE  SearchDone'
  <1>1. path' = path /\ Place("search", "A")' = Place("search", "A") BY DEF Same, Place
  <1> SUFFICES ASSUME Iterating', NEW c \in Candidates[path],
                      Finished(Place("search", "A"), c)'
               PROVE  IF path = "CppSearch" THEN hashed'[c] = <<PowKey', SearchTranscript(c)'>>
                      ELSE transcript'[c] = SearchTranscript(c)'
    BY <1>1 DEF SearchDone
  <1>2. c \in Work(IterKernels[Place("search", "A")])
    <2>1. "A" \in Side /\ path \in Paths BY DEF Side, TypeInv
    <2>2. IterKernels[Place("search", "A")] = <<"search", "A">> BY <2>1, AtPlace
    <2> QED BY <2>2 DEF Work
  <1>3. ~Ahead(Place("search", "A")) BY <1>1, <1>2 DEF Ahead
  <1>4. Iterating /\ Finished(Place("search", "A"), c) BY <1>1, <1>2, <1>3 DEF Kept
  <1>5. IF path = "CppSearch" THEN hashed[c] = <<PowKey, SearchTranscript(c)>>
        ELSE transcript[c] = SearchTranscript(c)
    BY <1>3, <1>4 DEF SearchDone
  <1>6. PowKey' = PowKey BY <1>3 DEF PowKey
  <1>7. SearchTranscript(c)' = SearchTranscript(c) BY <1>3, TranscriptKept
  <1> QED BY <1>3, <1>5, <1>6, <1>7

LEMMA CompareKept ==
  ASSUME TypeInv, Same,
         \/ path = "TritonNorotl" => Ahead(18)
         \/ /\ Kept(18) /\ CompareDone /\ commit' = commit
            /\ hashed' = hashed /\ transcript' = transcript
  PROVE  CompareDone'
  <1>1. path' = path /\ Place("compare", "A")' = 18 /\ Place("compare", "A") = 18
    BY DEF Same, Place
  <1> SUFFICES ASSUME Iterating', path = "TritonNorotl", NEW c \in Candidates[path],
                      Finished(18, c)'
               PROVE  hashed'[c] = <<PowKey', transcript'[c]>>
    BY <1>1 DEF CompareDone
  <1>2. c \in Work(IterKernels[18])
    <2>1. "A" \in Side /\ path \in Paths BY DEF Side, TypeInv
    <2>2. IterKernels[18] = <<"compare", "A">> BY <1>1, <2>1, AtPlace
    <2> QED BY <2>2 DEF Work
  <1>3. ~Ahead(18) BY <1>2 DEF Ahead
  <1>4. Iterating /\ Finished(18, c) BY <1>2, <1>3 DEF Kept
  <1>5. hashed[c] = <<PowKey, transcript[c]>> BY <1>1, <1>3, <1>4 DEF CompareDone
  <1>6. PowKey' = PowKey BY <1>3 DEF PowKey
  <1> QED BY <1>3, <1>5, <1>6

(* What is established of the job's matrix stays while it is not touched.  *)
JobLoaded == Iterating \/ (stream = <<>> /\ job # 0) \/ (Loading /\ Len(stream) = 1 /\ todo = {})
LEMMA JobKept ==
  ASSUME JobHashed, UNCHANGED <<salt, job>>, JobLoaded' => JobLoaded,
         matrix'["B"] = matrix["B"], root'["B"] = root["B"]
  PROVE  JobHashed'
  BY DEF JobHashed, JobLoaded
-----------------------------------------------------------------------------
(* A kernel writes the buffer of its own stage only.                       *)
Writes(p) ==
  /\ matrix'["B"] = matrix["B"] /\ root'["B"] = root["B"]
  /\ p # 1 => matrix' = matrix
  /\ p # 2 => root' = root
  /\ p # 3 => commit' = commit
  /\ \A t \in Side :
       /\ p # Place("dense", t) => dense'[t] = dense[t]
       /\ p # Place("fp16", t) => fp16'[t] = fp16[t]
       /\ p # Place("zero", t) /\ p # Place("sparse", t) => sparse'[t] = sparse[t]
       /\ p # Place("transpose", t) => kmajor'[t] = kmajor[t]
       /\ p # Place("noising", t) => noised'[t] = noised[t]
  /\ p > 15 => noised' = noised
  /\ p = 18 => transcript' = transcript

(* It keeps every other stage: those before it are done and not written,   *)
(* those after it have done nothing.                                       *)
LEMMA OthersKept ==
  ASSUME Inv, NEW p \in 1..Last, NEW x, Adds(p, x), Iterating, Here = p, Writes(p)
  PROVE  /\ JobHashed'
         /\ p # 2 => RootDone'
         /\ p # 3 => CommitDone'
         /\ \A s \in Side :
              /\ p # Place("dense", s) => DenseDone(s)'
              /\ p # Place("fp16", s) => Fp16Done(s)'
              /\ p \notin {Place("zero", s), Place("sparse", s)} => SparseDone(s)'
              /\ p # Place("transpose", s) => TransposeDone(s)'
              /\ p # Place("noising", s) => NoisingDone(s)'
         /\ p # Place("search", "A") => SearchDone'
         /\ p # 18 => CompareDone'
  <1>1. Same /\ TypeInv /\ path \in {"CppSearch", "TritonNorotl"} BY Sizes DEF Adds, Inv, TypeInv
  <1>2. ASSUME NEW q \in Nat, q # p PROVE Kept(q) /\ (q > p => Ahead(q))
    <2>1. \A y : Finished(q, y)' <=> Finished(q, y) BY <1>2 DEF Adds
    <2>2. ASSUME q > p, NEW y PROVE ~Finished(q, y)
      BY <1>2, <2>2 DEF Finished
    <2> QED BY <2>1, <2>2 DEF Kept, Ahead
  <1>3. JobHashed'
    <2>1. JobLoaded BY DEF JobLoaded
    <2> QED BY <1>1, <2>1, JobKept DEF Same, Writes, Inv
  <1>4. ASSUME p # 2 PROVE RootDone'
    <2>1. p > 2 => matrix' = matrix /\ root' = root BY DEF Writes
    <2>2. Ahead(2) \/ (Kept(2) /\ matrix' = matrix /\ root' = root) BY <1>2, <1>4, <2>1
    <2> QED BY <1>1, <2>2, RootKept DEF Inv
  <1>5. ASSUME p # 3 PROVE CommitDone'
    <2>1. p > 3 => matrix' = matrix /\ commit' = commit BY DEF Writes
    <2>2. Ahead(3) \/ (Kept(3) /\ matrix' = matrix /\ commit' = commit) BY <1>2, <1>5, <2>1
    <2> QED BY <1>1, <2>2, CommitKept DEF Inv
  <1>6. ASSUME NEW s \in Side
        PROVE  /\ p # Place("dense", s) => DenseDone(s)'
               /\ p # Place("fp16", s) => Fp16Done(s)'
               /\ p \notin {Place("zero", s), Place("sparse", s)} => SparseDone(s)'
               /\ p # Place("transpose", s) => TransposeDone(s)'
               /\ p # Place("noising", s) => NoisingDone(s)'
    <2>1. SideDone(s) BY DEF Inv
    <2>2. ASSUME p # Place("dense", s) PROVE DenseDone(s)'
      <3>1. Place("dense", s) \in Nat /\ Place("dense", s) > 3 BY DEF Place
      <3>2. p > 3 => commit' = commit BY DEF Writes
      <3>3. dense'[s] = dense[s] BY <2>2 DEF Writes
      <3>4. Ahead(Place("dense", s)) \/ (Kept(Place("dense", s)) /\ commit' = commit)
        BY <1>2, <2>2, <3>1, <3>2
      <3> QED BY <1>1, <2>1, <3>3, <3>4, DenseKept DEF SideDone
    <2>3. ASSUME p # Place("fp16", s) PROVE Fp16Done(s)'
      <3>1. Place("fp16", s) \in Nat /\ Place("fp16", s) > 3 BY DEF Place
      <3>2. p > 3 => commit' = commit BY DEF Writes
      <3>3. fp16'[s] = fp16[s] BY <2>3 DEF Writes
      <3>4. Ahead(Place("fp16", s)) \/ (Kept(Place("fp16", s)) /\ commit' = commit)
        BY <1>2, <2>3, <3>1, <3>2
      <3> QED BY <1>1, <2>1, <3>3, <3>4, Fp16Kept DEF SideDone
    <2>4. ASSUME p \notin {Place("zero", s), Place("sparse", s)} PROVE SparseDone(s)'
      <3>1. /\ Place("zero", s) \in Nat /\ Place("zero", s) > 3 /\ Place("sparse", s) \in Nat
        BY DEF Place
      <3>2. p > 3 => commit' = commit BY DEF Writes
      <3>3. sparse'[s] = sparse[s] BY <2>4 DEF Writes
      <3>4. \/ Ahead(Place("zero", s))
            \/ Kept(Place("zero", s)) /\ Kept(Place("sparse", s)) /\ commit' = commit
        BY <1>2, <2>4, <3>1, <3>2
      <3> QED BY <1>1, <2>1, <3>3, <3>4, SparseKept DEF SideDone
    <2>5. ASSUME p # Place("transpose", s) PROVE TransposeDone(s)'
      <3>1. Place("transpose", s) \in Nat /\ Place("transpose", s) > 11 BY DEF Place
      <3>2. p > 11 => sparse'[s] = sparse[s]
        <4>1. p > 11 => p # Place("zero", s) /\ p # Place("sparse", s) BY DEF Place
        <4> QED BY <4>1 DEF Writes
      <3>3. kmajor'[s] = kmajor[s] BY <2>5 DEF Writes
      <3>4. Ahead(Place("transpose", s)) \/ (Kept(Place("transpose", s)) /\ sparse'[s] = sparse[s])
        BY <1>2, <2>5, <3>1, <3>2
      <3> QED BY <1>1, <2>1, <3>3, <3>4, TransposeKept DEF SideDone
    <2>6. ASSUME p # Place("noising", s) PROVE NoisingDone(s)'
      <3>1. Place("noising", s) \in Nat /\ Place("noising", s) > 13 BY DEF Place
      <3>2. p > 13 => sparse'[s] = sparse[s] /\ dense'[s] = dense[s] /\ matrix'[s] = matrix[s]
        <4>1. p > 13 => /\ p # Place("zero", s) /\ p # Place("sparse", s)
                        /\ p # Place("dense", s) /\ p # 1
          BY DEF Place
        <4> QED BY <4>1 DEF Writes
      <3>3. noised'[s] = noised[s] BY <2>6 DEF Writes
      <3>4. \/ Ahead(Place("noising", s))
            \/ /\ Kept(Place("noising", s)) /\ sparse'[s] = sparse[s] /\ dense'[s] = dense[s]
               /\ matrix'[s] = matrix[s]
        BY <1>2, <2>6, <3>1, <3>2
      <3> QED BY <1>1, <2>1, <3>3, <3>4, NoisingKept DEF SideDone
    <2> QED BY <2>2, <2>3, <2>4, <2>5, <2>6
  <1>7. ASSUME p # Place("search", "A") PROVE SearchDone'
    <2>1. Place("search", "A") = (IF path = "CppSearch" THEN 16 ELSE 17) BY DEF Place
    <2>2. p > Place("search", "A") => p = 18 /\ path = "TritonNorotl"
      BY <1>1, <2>1 DEF Last
    <2>3. p = 18 => commit' = commit /\ noised' = noised /\ transcript' = transcript
      BY DEF Writes
    <2>4. \/ Ahead(Place("search", "A"))
          \/ /\ Kept(Place("search", "A")) /\ commit' = commit /\ noised' = noised
             /\ path = "TritonNorotl" /\ transcript' = transcript
      BY <1>2, <1>7, <2>1, <2>2, <2>3
    <2> QED BY <1>1, <2>4, SearchKept DEF Inv
  <1>8. ASSUME p # 18 PROVE CompareDone'
    <2>1. p < 18 BY <1>8 DEF Last
    <2>2. Ahead(18) BY <1>2, <2>1
    <2> QED BY <1>1, <2>2, CompareKept
  <1> QED BY <1>3, <1>4, <1>5, <1>6, <1>7, <1>8
-----------------------------------------------------------------------------
(* What the steps of the kernels share.                                    *)
LEMMA WorkSame ==
  ASSUME path' = path, NEW k
  PROVE  Work(k)' = Work(k)
  BY DEF Work, Chunks, Threads, Tiles, Blocks, K

LEMMA DoTakes ==
  ASSUME TypeInv, StreamInv, TodoInv, NEW kernel, NEW s, NEW x, Do(kernel, s, x)
  PROVE  /\ TodoInv' /\ x \in Work(<<kernel, s>>) /\ K' = K /\ UNCHANGED <<path, salt, job>>
         /\ kernel \notin {"fill", "hash"} => Iterating
         /\ Iterating => ~Finished(Here, x) /\ Here \in 1..Last
  <1>1. /\ stream # <<>> /\ Head(stream) = <<kernel, s>> /\ x \in todo
        /\ todo' \subseteq todo /\ stream' = stream /\ UNCHANGED <<path, salt, job>>
    BY DEF Do, Running
  <1>2. x \in Work(<<kernel, s>>) BY <1>1 DEF TodoInv
  <1>3. TodoInv' BY <1>1, WorkSame DEF TodoInv
  <1>4. kernel \notin {"fill", "hash"} => Iterating BY <1>1, DoIs DEF StreamInv
  <1>5. Iterating => ~Finished(Here, x) /\ Here \in 1..Last
    BY <1>1 DEF Iterating, Finished, Here, Last
  <1> QED BY <1>1, <1>2, <1>3, <1>4, <1>5 DEF K

LEMMA NotIterating ==
  ASSUME ~Iterating'
  PROVE  /\ RootDone' /\ CommitDone' /\ SearchDone' /\ CompareDone'
         /\ \A s \in Side : SideDone(s)'
  BY DEF RootDone, CommitDone, SearchDone, CompareDone, SideDone, DenseDone, Fp16Done,
         SparseDone, TransposeDone, NoisingDone

LEMMA OverlayIn ==
  ASSUME NEW D, NEW T, NEW f \in [D -> T], NEW g, \A i \in D \cap DOMAIN g : g[i] \in T
  PROVE  Overlay(f, g) \in [D -> T]
  BY DEF Overlay

(* The cells of a chunk, and the bytes of its hash.                        *)
LEMMA ChunkIs ==
  ASSUME path \in Paths, NEW c \in Nat, NEW i \in Nat
  PROVE  /\ i \in ChunkCells(c) <=> i \div HashBytes = c
         /\ i \in ChunkCells(c) => i - c * HashBytes + 1 \in 1..HashBytes
  <1>1. PICK b \in Nat \ {0} : b = HashBytes BY Sizes
  <1>2. PICK p \in Nat : p = c * b BY <1>1
  <1>3. i \in ChunkCells(c) <=> p <= i /\ i <= p + b - 1 BY <1>1, <1>2 DEF ChunkCells
  <1>4. ASSUME p <= i, i <= p + b - 1 PROVE i \div b = c
    <2>1. PICK r \in 0..(b - 1) : i = p + r
      <3>1. i - p \in 0..(b - 1) /\ i = p + (i - p) BY <1>4, <1>1
      <3> QED BY <3>1
    <2> QED BY <1>1, <1>2, <2>1, SplitIs
  <1>5. ASSUME i \div b = c PROVE p <= i /\ i <= p + b - 1
    <2>1. i % b \in 0..(b - 1) /\ i = (i \div b) * b + (i % b) BY <1>1, DivIs
    <2> QED BY <1>1, <1>2, <1>5, <2>1
  <1> QED BY <1>1, <1>2, <1>3, <1>4, <1>5

LEMMA ByteIs ==
  ASSUME DigestIsBytes, TypeInv, NEW c \in Nat, NEW i \in ChunkCells(c), NEW key, NEW m
  PROVE  /\ Digest(salt, key, m)[i - c * HashBytes + 1] \in 0..255
         /\ FillByte(Digest(salt, key, m)[i - c * HashBytes + 1]) \in (-63)..63
         /\ DenseByte(Digest(salt, key, m)[i - c * HashBytes + 1]) \in (-32)..31
  <1>1. i \in Nat
    <2>1. c * HashBytes \in Nat BY Sizes DEF TypeInv
    <2> QED BY <2>1 DEF ChunkCells
  <1>2. i - c * HashBytes + 1 \in 1..HashBytes BY <1>1, ChunkIs DEF TypeInv
  <1>3. PICK b \in 0..255 : b = Digest(salt, key, m)[i - c * HashBytes + 1]
    <2>1. salt \in Salts BY DEF TypeInv
    <2>2. Digest(salt, key, m) \in [1..HashBytes -> 0..255] BY <2>1, Zenon DEF DigestIsBytes
    <2> QED BY <1>2, <2>2
  <1>4. FillByte(b) \in (-63)..63 BY DEF FillByte
  <1>5. DenseByte(b) \in (-32)..31 BY DEF DenseByte, Signed
  <1> QED BY <1>3, <1>4, <1>5

LEMMA ChunkIsNat ==
  ASSUME path \in Paths, NEW s, NEW k \in {"fill", "dense", "fp16", "sparse"},
         NEW x \in Work(<<k, s>>)
  PROVE  x \in Nat
  <1>1. ASSUME NEW n, x \in Threads(n) PROVE x \in Nat BY <1>1 DEF Threads, Below
  <1> QED BY <1>1 DEF Work, Chunks

LEMMA FillStep ==
  ASSUME DigestIsBytes, Inv, NEW s \in Side, NEW x, FillChunk(s, x)
  PROVE  Inv'
  <1>1. TypeInv /\ StreamInv /\ TodoInv /\ Do("fill", s, x) BY DEF Inv, FillChunk
  <1>2. /\ TodoInv' /\ StreamInv' /\ Same /\ K' = K /\ x \in Work(<<"fill", s>>)
        /\ UNCHANGED <<path, salt, job>>
    BY <1>1, DoIs, DoTakes
  <1>3. x \in Nat BY <1>1, <1>2, ChunkIsNat DEF TypeInv
  <1> DEFINE bytes == Digest(salt, Unkeyed, FillMessage(s, x))
             g == [i \in ChunkCells(x) |-> FillByte(bytes[i - x * HashBytes + 1])]
  <1>4. /\ matrix' = [matrix EXCEPT ![s] = Overlay(matrix[s], g)]
        /\ UNCHANGED <<root, commit, dense, fp16, sparse, kmajor, noised, transcript, hashed>>
    BY DEF FillChunk
  <1>5. Overlay(matrix[s], g) \in [Below(Rows[s] * K) -> (-63)..63]
    <2>1. \A i \in ChunkCells(x) : g[i] \in (-63)..63 BY <1>1, <1>3, ByteIs
    <2>2. matrix[s] \in [Below(Rows[s] * K) -> (-63)..63] BY <1>1 DEF TypeInv
    <2> HIDE DEF g
    <2>3. DOMAIN g = ChunkCells(x) BY DEF g
    <2> QED BY <2>1, <2>2, <2>3, OverlayIn
  <1> HIDE DEF g
  <1>6. TypeInv' BY <1>1, <1>2, <1>4, <1>5 DEF TypeInv
  <1>7. CASE Iterating
    <2>1. s = "A" /\ Adds(1, x) /\ Here = 1 BY <1>1, <1>7, DoIs DEF Place
    <2>2. matrix'["B"] = matrix["B"] BY <1>4, <2>1
    <2>3. Writes(1) BY <1>4, <2>2 DEF Writes
    <2>4. 1 \in 1..Last BY DEF Last
    <2>5. \A t \in Side : \A k \in {"dense", "fp16", "zero", "sparse", "transpose", "noising"} :
            1 # Place(k, t)
      BY DEF Place
    <2>6. 1 # Place("search", "A") BY DEF Place
    <2> QED BY <1>2, <1>6, <1>7, <2>1, <2>3, <2>4, <2>5, <2>6, OthersKept DEF Inv, SideDone
  <1>8. CASE ~Iterating
    <2>1. ~Iterating' BY <1>1, <1>8, DoIs
    <2>2. stream' # <<>> /\ Head(stream') = <<"fill", "B">>
      BY <1>1, <1>8, DoIs DEF Do, Running, StreamInv
    <2>3. stream' # << <<"hash", "B">> >> BY <2>2
    <2>4. stream' = JobKernels => Len(stream') = 2 BY DEF JobKernels
    <2>5. JobHashed' BY <2>1, <2>2, <2>3, <2>4 DEF JobHashed, Loading
    <2> QED BY <1>2, <1>6, <2>1, <2>5, NotIterating DEF Inv
  <1> QED BY <1>7, <1>8

LEMMA HashStep ==
  ASSUME Inv, NEW s \in Side, HashMatrix(s)
  PROVE  Inv'
  <1>1. TypeInv /\ StreamInv /\ TodoInv /\ Do("hash", s, 0) BY DEF Inv, HashMatrix
  <1>2. TodoInv' /\ StreamInv' /\ Same /\ K' = K /\ UNCHANGED <<path, salt, job>>
    BY <1>1, DoIs, DoTakes
  <1>3. /\ root' = [root EXCEPT ![s] = Root(salt, job, matrix[s])]
        /\ UNCHANGED <<matrix, commit, dense, fp16, sparse, kmajor, noised, transcript, hashed>>
    BY DEF HashMatrix
  <1>4. root'[s] = Root(salt', job', matrix'[s]) BY <1>1, <1>2, <1>3 DEF TypeInv
  <1>5. TypeInv' BY <1>1, <1>2, <1>3 DEF TypeInv
  <1>6. CASE Iterating
    <2>1. s = "A" /\ Adds(2, 0) /\ Here = 2 BY <1>1, <1>6, DoIs DEF Place
    <2>2. Writes(2)
      <3>1. root'["B"] = root["B"] BY <1>3, <2>1
      <3> QED BY <1>3, <3>1 DEF Writes
    <2>3. 2 \in 1..Last BY DEF Last
    <2>4. \A t \in Side : \A k \in {"dense", "fp16", "zero", "sparse", "transpose", "noising"} :
            2 # Place(k, t)
      BY DEF Place
    <2>5. 2 # Place("search", "A") BY DEF Place
    <2>6. RootDone' BY <1>4, <2>1 DEF RootDone
    <2> QED BY <1>2, <1>5, <1>6, <2>1, <2>2, <2>3, <2>4, <2>5, <2>6, OthersKept
            DEF Inv, SideDone
  <1>7. CASE ~Iterating
    <2>1. ~Iterating' /\ s = "B" BY <1>1, <1>7, DoIs DEF StreamInv, Do, Running
    <2>2. JobHashed' BY <1>4, <2>1 DEF JobHashed
    <2> QED BY <1>2, <1>5, <2>1, <2>2, NotIterating DEF Inv
  <1> QED BY <1>6, <1>7

LEMMA CommitStep ==
  ASSUME Inv, Commit
  PROVE  Inv'
  <1>1. TypeInv /\ StreamInv /\ TodoInv /\ Do("commit", "A", 0) BY DEF Inv, Commit
  <1>2. TodoInv' /\ StreamInv' /\ Iterating /\ K' = K /\ UNCHANGED <<path, salt, job>>
    <2>1. TodoInv' /\ K' = K /\ UNCHANGED <<path, salt, job>> BY <1>1, DoTakes
    <2>2. Iterating
      <3>1. "commit" \notin {"fill", "hash"} OBVIOUS
      <3> QED BY <1>1, <3>1, DoTakes
    <2>3. StreamInv' BY <1>1, DoIs
    <2> QED BY <2>1, <2>2, <2>3
  <1>3. Adds(3, 0) /\ Here = 3 BY <1>1, <1>2, DoIs DEF Place
  <1>4. UNCHANGED <<matrix, root, dense, fp16, sparse, kmajor, noised, transcript, hashed>>
    BY DEF Commit
  <1>5. TypeInv' BY <1>1, <1>2, <1>4 DEF TypeInv
  <1>6. Writes(3) BY <1>4 DEF Writes
  <1>7. CommitDone'
    <2>1. RootDone /\ JobHashed BY DEF Inv
    <2>2. root["A"] = Root(salt, job, matrix["A"]) /\ root["B"] = Root(salt, job, matrix["B"])
      BY <1>2, <1>3, <2>1 DEF RootDone, JobHashed, Finished
    <2>3. ANoiseSeed' = ANoiseSeed /\ BNoiseSeed' = BNoiseSeed
      BY <1>2, <1>4 DEF ANoiseSeed, BNoiseSeed
    <2>4. commit' = [A |-> ANoiseSeed, B |-> BNoiseSeed]
      BY <2>2 DEF Commit, ANoiseSeed, BNoiseSeed
    <2> QED BY <2>3, <2>4 DEF CommitDone
  <1>8. /\ 3 \in 1..Last /\ 3 # Place("search", "A")
        /\ \A t \in Side : \A k \in {"dense", "fp16", "zero", "sparse", "transpose", "noising"} :
             3 # Place(k, t)
    BY DEF Last, Place
  <1> QED BY <1>2, <1>3, <1>5, <1>6, <1>7, <1>8, OthersKept DEF Inv, SideDone

(* A kernel of the iteration but the first two.                            *)
Runs(kernel, s, p, x) ==
  /\ TypeInv /\ path \in Paths /\ TodoInv' /\ StreamInv' /\ Iterating /\ Iterating'
  /\ K' = K /\ UNCHANGED <<path, salt, job>>
  /\ Here = p /\ Adds(p, x) /\ p \in 1..Last
  /\ x \in Work(<<kernel, s>>) /\ ~Finished(p, x)
  /\ \A y : Finished(p, y)' <=> Finished(p, y) \/ y = x
  /\ kernel \in {"blank", "compare"} => path = "TritonNorotl"

LEMMA KernelIs ==
  ASSUME Inv, NEW kernel, kernel # "fill", kernel # "hash", NEW s, NEW x, Do(kernel, s, x),
         NEW p, p = Place(kernel, s)
  PROVE  Runs(kernel, s, p, x)
  <1>1. TypeInv /\ StreamInv /\ TodoInv /\ path \in Paths BY DEF Inv, TypeInv
  <1>2. /\ TodoInv' /\ x \in Work(<<kernel, s>>) /\ K' = K /\ UNCHANGED <<path, salt, job>>
        /\ Iterating /\ ~Finished(Here, x) /\ Here \in 1..Last
    BY <1>1, DoTakes
  <1>3. /\ StreamInv' /\ Iterating' /\ Here = p /\ Adds(p, x)
        /\ kernel \in {"blank", "compare"} => path = "TritonNorotl"
    BY <1>1, <1>2, DoIs
  <1>4. \A y : Finished(p, y)' <=> Finished(p, y) \/ y = x BY <1>3 DEF Adds
  <1> QED BY <1>1, <1>2, <1>3, <1>4 DEF Runs

(* No two of these kernels share a place.                                  *)
Stages == {"dense", "fp16", "zero", "sparse", "transpose", "noising"}
LEMMA PlacesDiffer ==
  ASSUME NEW k \in Stages, NEW s \in Side
  PROVE  /\ \A j \in Stages, t \in Side : Place(k, s) = Place(j, t) <=> k = j /\ s = t
         /\ Place(k, s) \in 4..15 /\ Place(k, s) # Place("search", "A")
         /\ Place("zero", s) < Place("sparse", s)
  <1>1. ASSUME NEW j \in Stages, NEW t \in Side
        PROVE  /\ \/ j = "dense" /\ t = "A" /\ Place(j, t) = 4
                  \/ j = "dense" /\ t = "B" /\ Place(j, t) = 5
                  \/ j = "fp16" /\ t = "A" /\ Place(j, t) = 6
                  \/ j = "fp16" /\ t = "B" /\ Place(j, t) = 7
                  \/ j = "zero" /\ t = "A" /\ Place(j, t) = 8
                  \/ j = "zero" /\ t = "B" /\ Place(j, t) = 9
                  \/ j = "sparse" /\ t = "A" /\ Place(j, t) = 10
                  \/ j = "sparse" /\ t = "B" /\ Place(j, t) = 11
                  \/ j = "transpose" /\ t = "A" /\ Place(j, t) = 12
                  \/ j = "transpose" /\ t = "B" /\ Place(j, t) = 13
                  \/ j = "noising" /\ t = "A" /\ Place(j, t) = 14
                  \/ j = "noising" /\ t = "B" /\ Place(j, t) = 15
               /\ Place(j, t) \in 4..15
    <2>1. j \in {"dense", "fp16", "zero", "sparse", "transpose", "noising"} /\ (t = "A" \/ t = "B")
      BY DEF Stages, Side
    <2> QED BY <2>1 DEF Place
  <1>2. ASSUME NEW j \in Stages, NEW t \in Side
        PROVE  Place(k, s) = Place(j, t) <=> k = j /\ s = t
    <2>1. PICK n : n = Place(k, s) OBVIOUS
    <2>2. PICK m : m = Place(j, t) OBVIOUS
    <2> QED BY <1>1, <2>1, <2>2
  <1>3. Place("search", "A") \in {16, 17} BY DEF Place
  <1>4. Place("zero", s) < Place("sparse", s) BY DEF Place
  <1> QED BY <1>1, <1>2, <1>3, <1>4

(* What the chunks of the dense kernels write.                             *)
LEMMA DenseCellsAre ==
  ASSUME DigestIsBytes, TypeInv, NEW s \in Side, NEW x \in Nat,
         NEW f \in [Below(Rows[s] * R) -> (-32)..31]
  PROVE  /\ Overlay(f, DenseCells(s, x)) \in [Below(Rows[s] * R) -> (-32)..31]
         /\ \A i \in Below(Rows[s] * R) :
              Overlay(f, DenseCells(s, x))[i]
                = IF i \div HashBytes = x THEN DenseValue(s, i) ELSE f[i]
  <1> DEFINE g == DenseCells(s, x)
  <1>1. DOMAIN g = ChunkCells(x) BY DEF DenseCells
  <1>2. ASSUME NEW i \in ChunkCells(x)
        PROVE  /\ g[i] = DenseByte(Bytes(s, 0, x)[i - x * HashBytes + 1])
               /\ g[i] \in (-32)..31
    <2>1. g[i] = DenseByte(Bytes(s, 0, x)[i - x * HashBytes + 1]) BY DEF DenseCells
    <2>2. Bytes(s, 0, x) = Digest(salt, commit[s], <<0, x + 1, Label(s)>>) BY Zenon DEF Bytes
    <2>3. DenseByte(Bytes(s, 0, x)[i - x * HashBytes + 1]) \in (-32)..31 BY <2>2, ByteIs
    <2> QED BY <2>1, <2>3
  <1> HIDE DEF g
  <1>3. Overlay(f, g) \in [Below(Rows[s] * R) -> (-32)..31]
    <2>1. \A i \in Below(Rows[s] * R) \cap DOMAIN g : g[i] \in (-32)..31 BY <1>1, <1>2
    <2> QED BY <2>1, OverlayIn
  <1>4. ASSUME NEW i \in Below(Rows[s] * R)
        PROVE  Overlay(f, g)[i] = IF i \div HashBytes = x THEN DenseValue(s, i) ELSE f[i]
    <2>1. i \in Nat BY DEF Below
    <2>2. i \in ChunkCells(x) <=> i \div HashBytes = x BY <2>1, ChunkIs DEF TypeInv
    <2>3. Overlay(f, g)[i] = IF i \in DOMAIN g THEN g[i] ELSE f[i] BY DEF Overlay
    <2>4. i \div HashBytes = x => DenseValue(s, i) = DenseByte(Bytes(s, 0, x)[i - x * HashBytes + 1])
      BY DEF DenseValue
    <2> QED BY <1>1, <1>2, <2>2, <2>3, <2>4
  <1> QED BY <1>3, <1>4 DEF g

LEMMA DenseStep ==
  ASSUME DigestIsBytes, Inv, NEW s \in Side, NEW x, DenseChunk(s, x)
  PROVE  Inv'
  <1>1. PICK p : p = Place("dense", s) OBVIOUS
  <1>2. /\ TypeInv /\ path \in Paths /\ TodoInv' /\ StreamInv' /\ Iterating /\ Iterating'
        /\ K' = K /\ UNCHANGED <<path, salt, job>>
        /\ Here = p /\ Adds(p, x) /\ p \in 1..Last
        /\ x \in Work(<<"dense", s>>) /\ ~Finished(p, x)
        /\ \A y : Finished(p, y)' <=> Finished(p, y) \/ y = x
    <2>1. Do("dense", s, x) BY DEF DenseChunk
    <2>2. "dense" # "fill" /\ "dense" # "hash" OBVIOUS
    <2>3. Runs("dense", s, p, x) BY <1>1, <2>1, <2>2, KernelIs, Zenon
    <2> QED BY <2>3 DEF Runs
  <1>3. x \in Nat BY <1>2, ChunkIsNat
  <1>4. /\ dense' = [dense EXCEPT ![s] = Overlay(dense[s], DenseCells(s, x))]
        /\ UNCHANGED <<matrix, root, commit, fp16, sparse, kmajor, noised, transcript, hashed>>
    BY DEF DenseChunk
  <1>5. dense[s] \in [Below(Rows[s] * R) -> (-32)..31] BY <1>2 DEF TypeInv
  <1>6. dense'[s] = Overlay(dense[s], DenseCells(s, x)) BY <1>2, <1>4 DEF TypeInv
  <1>7. TypeInv'
    <2>1. Overlay(dense[s], DenseCells(s, x)) \in [Below(Rows[s] * R) -> (-32)..31]
      BY <1>2, <1>3, <1>5, DenseCellsAre
    <2> QED BY <1>2, <1>4, <2>1 DEF TypeInv
  <1>8. DenseDone(s)'
    <2> SUFFICES ASSUME NEW i \in Below(Rows[s] * R),
                        Finished(Place("dense", s), i \div HashBytes)'
                 PROVE  dense'[s][i] = DenseValue(s, i)'
      BY DEF DenseDone
    <2>1. Finished(p, i \div HashBytes)' BY <1>1, <1>2 DEF Place
    <2>2. Finished(p, i \div HashBytes) \/ i \div HashBytes = x BY <1>2, <2>1
    <2>3. dense'[s][i] = IF i \div HashBytes = x THEN DenseValue(s, i) ELSE dense[s][i]
      BY <1>2, <1>3, <1>5, <1>6, DenseCellsAre
    <2>4. Finished(p, i \div HashBytes) => dense[s][i] = DenseValue(s, i)
      BY <1>1, <1>2 DEF Inv, SideDone, DenseDone
    <2>5. DenseValue(s, i)' = DenseValue(s, i) BY <1>2, <1>4, ValuesKept DEF Same
    <2> QED BY <2>2, <2>3, <2>4, <2>5
  <1>9. /\ \A t \in Side : t # s => p # Place("dense", t)
        /\ \A t \in Side : \A j \in {"fp16", "zero", "sparse", "transpose", "noising"} :
             p # Place(j, t)
        /\ p \in 4..15 /\ p # Place("search", "A")
    BY <1>1, PlacesDiffer DEF Stages
  <1>10. Writes(p) BY <1>1, <1>2, <1>4, <1>9 DEF Writes, TypeInv
  <1> QED BY <1>2, <1>7, <1>8, <1>9, <1>10, OthersKept DEF Inv, SideDone

LEMMA Fp16Step ==
  ASSUME DigestIsBytes, Inv, NEW s \in Side, NEW x, Fp16Chunk(s, x)
  PROVE  Inv'
  <1>1. PICK p : p = Place("fp16", s) OBVIOUS
  <1>2. /\ TypeInv /\ path \in Paths /\ TodoInv' /\ StreamInv' /\ Iterating /\ Iterating'
        /\ K' = K /\ UNCHANGED <<path, salt, job>>
        /\ Here = p /\ Adds(p, x) /\ p \in 1..Last
        /\ x \in Work(<<"fp16", s>>) /\ ~Finished(p, x)
        /\ \A y : Finished(p, y)' <=> Finished(p, y) \/ y = x
    <2>1. Do("fp16", s, x) BY DEF Fp16Chunk
    <2>2. "fp16" # "fill" /\ "fp16" # "hash" OBVIOUS
    <2>3. Runs("fp16", s, p, x) BY <1>1, <2>1, <2>2, KernelIs, Zenon
    <2> QED BY <2>3 DEF Runs
  <1>3. x \in Nat BY <1>2, ChunkIsNat
  <1>4. /\ fp16' = [fp16 EXCEPT ![s] = Overlay(fp16[s], DenseCells(s, x))]
        /\ UNCHANGED <<matrix, root, commit, dense, sparse, kmajor, noised, transcript, hashed>>
    BY DEF Fp16Chunk
  <1>5. fp16[s] \in [Below(Rows[s] * R) -> (-32)..31] BY <1>2 DEF TypeInv
  <1>6. fp16'[s] = Overlay(fp16[s], DenseCells(s, x)) BY <1>2, <1>4 DEF TypeInv
  <1>7. TypeInv'
    <2>1. Overlay(fp16[s], DenseCells(s, x)) \in [Below(Rows[s] * R) -> (-32)..31]
      BY <1>2, <1>3, <1>5, DenseCellsAre
    <2> QED BY <1>2, <1>4, <2>1 DEF TypeInv
  <1>8. Fp16Done(s)'
    <2> SUFFICES ASSUME NEW i \in Below(Rows[s] * R),
                        Finished(Place("fp16", s), i \div HashBytes)'
                 PROVE  fp16'[s][i] = DenseValue(s, i)'
      BY DEF Fp16Done
    <2>1. Finished(p, i \div HashBytes)' BY <1>1, <1>2 DEF Place
    <2>2. Finished(p, i \div HashBytes) \/ i \div HashBytes = x BY <1>2, <2>1
    <2>3. fp16'[s][i] = IF i \div HashBytes = x THEN DenseValue(s, i) ELSE fp16[s][i]
      BY <1>2, <1>3, <1>5, <1>6, DenseCellsAre
    <2>4. Finished(p, i \div HashBytes) => fp16[s][i] = DenseValue(s, i)
      BY <1>1, <1>2 DEF Inv, SideDone, Fp16Done
    <2>5. DenseValue(s, i)' = DenseValue(s, i) BY <1>2, <1>4, ValuesKept DEF Same
    <2> QED BY <2>2, <2>3, <2>4, <2>5
  <1>9. /\ \A t \in Side : t # s => p # Place("fp16", t)
        /\ \A t \in Side : \A j \in {"dense", "zero", "sparse", "transpose", "noising"} :
             p # Place(j, t)
        /\ p \in 4..15 /\ p # Place("search", "A")
    BY <1>1, PlacesDiffer DEF Stages
  <1>10. Writes(p) BY <1>1, <1>2, <1>4, <1>9 DEF Writes, TypeInv
  <1> QED BY <1>2, <1>7, <1>8, <1>9, <1>10, OthersKept DEF Inv, SideDone

LEMMA ZeroStep ==
  ASSUME Inv, NEW s \in Side, Zero(s)
  PROVE  Inv'
  <1>1. PICK p : p = Place("zero", s) OBVIOUS
  <1>2. /\ TypeInv /\ path \in Paths /\ TodoInv' /\ StreamInv' /\ Iterating /\ Iterating'
        /\ K' = K /\ UNCHANGED <<path, salt, job>>
        /\ Here = p /\ Adds(p, 0) /\ p \in 1..Last
        /\ 0 \in Work(<<"zero", s>>) /\ ~Finished(p, 0)
    <2>1. Do("zero", s, 0) BY DEF Zero
    <2>2. "zero" # "fill" /\ "zero" # "hash" OBVIOUS
    <2>3. Runs("zero", s, p, 0) BY <1>1, <2>1, <2>2, KernelIs, Zenon
    <2> QED BY <2>3 DEF Runs
  <1>3. /\ sparse' = [sparse EXCEPT ![s] = [i \in DOMAIN sparse[s] |-> 0]]
        /\ UNCHANGED <<matrix, root, commit, dense, fp16, kmajor, noised, transcript, hashed>>
    BY DEF Zero, Cleared
  <1>4. sparse'[s] = [i \in Below(K * R) |-> 0] BY <1>2, <1>3 DEF TypeInv
  <1>5. TypeInv' BY <1>2, <1>3, <1>4 DEF TypeInv
  <1>6. SparseDone(s)'
    <2> SUFFICES ASSUME NEW i \in Below(K * R)
                 PROVE  /\ sparse'[s][i] = 0
                        /\ ~Finished(Place("sparse", s), (i \div R) \div HashWords)'
      BY <1>2 DEF SparseDone
    <2>1. sparse'[s][i] = 0 BY <1>4
    <2>2. Here' = p BY <1>2 DEF Adds
    <2>3. Place("sparse", s)' > p /\ Place("sparse", s)' \in Nat /\ p \in Nat
      BY <1>1 DEF Place
    <2> QED BY <2>1, <2>2, <2>3 DEF Finished
  <1>7. /\ \A t \in Side : t # s => p # Place("zero", t)
        /\ \A t \in Side : \A j \in {"dense", "fp16", "sparse", "transpose", "noising"} :
             p # Place(j, t)
        /\ p \in 4..15 /\ p # Place("search", "A")
    BY <1>1, PlacesDiffer DEF Stages
  <1>8. Writes(p) BY <1>1, <1>2, <1>3, <1>7 DEF Writes, TypeInv
  <1> QED BY <1>2, <1>5, <1>6, <1>7, <1>8, OthersKept DEF Inv, SideDone

LEMMA SparseStep ==
  ASSUME Inv, NEW s \in Side, NEW x, SparseChunk(s, x)
  PROVE  Inv'
  <1>1. PICK p : p = Place("sparse", s) OBVIOUS
  <1>2. /\ TypeInv /\ path \in Paths /\ TodoInv' /\ StreamInv' /\ Iterating /\ Iterating'
        /\ K' = K /\ UNCHANGED <<path, salt, job>>
        /\ Here = p /\ Adds(p, x) /\ p \in 1..Last
        /\ x \in Work(<<"sparse", s>>) /\ ~Finished(p, x)
        /\ \A y : Finished(p, y)' <=> Finished(p, y) \/ y = x
    <2>1. Do("sparse", s, x) BY DEF SparseChunk
    <2>2. "sparse" # "fill" /\ "sparse" # "hash" OBVIOUS
    <2>3. Runs("sparse", s, p, x) BY <1>1, <2>1, <2>2, KernelIs, Zenon
    <2> QED BY <2>3 DEF Runs
  <1>3. x \in Nat BY <1>2, ChunkIsNat
  <1> DEFINE u(l) == Word(Bytes(s, 1, x), l - x * HashWords)
             cell(i) == IF i \div R \notin RowsOfChunk(x) THEN sparse[s][i]
                        ELSE IF i % R = K1(u(i \div R)) THEN -1
                        ELSE IF i % R = K0(u(i \div R)) THEN 1
                        ELSE sparse[s][i]
  <1>4. /\ sparse' = [sparse EXCEPT ![s] = [i \in DOMAIN sparse[s] |-> cell(i)]]
        /\ UNCHANGED <<matrix, root, commit, dense, fp16, kmajor, noised, transcript, hashed>>
    BY DEF SparseChunk
  <1>5. sparse[s] \in [Below(K * R) -> {-1, 0, 1}] BY <1>2 DEF TypeInv
  <1>6. sparse'[s] = [i \in Below(K * R) |-> cell(i)] BY <1>2, <1>4, <1>5 DEF TypeInv
  <1>7. \A i \in Below(K * R) : cell(i) \in {-1, 0, 1} BY <1>5
  <1>8. ASSUME NEW i \in Below(K * R)
        PROVE  /\ i \div R \notin RowsOfChunk(x) <=> (i \div R) \div HashWords # x
               /\ (i \div R) \div HashWords = x /\ sparse[s][i] = 0 => cell(i) = SparseValue(s, i)
               /\ (i \div R) \div HashWords # x => cell(i) = sparse[s][i]
    <2>1. PICK l \in Nat : l = i \div R /\ l < K
      <3>1. i \div R \in Below(K) BY <1>2, Sizes, CellIs
      <3>2. K \in Nat BY <1>2, Sizes
      <3> QED BY <3>1, <3>2 DEF Below
    <2>2. l \in RowsOfChunk(x) <=> l \div HashWords = x
      <3>1. PICK b \in Nat \ {0} : b = HashWords BY <1>2, Sizes
      <3>2. PICK q \in Nat : q = x * b BY <1>3, <3>1
      <3>3. l \in RowsOfChunk(x) <=> q <= l /\ l <= q + b - 1
        BY <2>1, <3>1, <3>2 DEF RowsOfChunk
      <3>4. ASSUME q <= l, l <= q + b - 1 PROVE l \div b = x
        <4>1. PICK r \in 0..(b - 1) : l = q + r
          <5>1. l - q \in 0..(b - 1) /\ l = q + (l - q) BY <3>4
          <5> QED BY <5>1
        <4> QED BY <1>3, <3>1, <3>2, <4>1, SplitIs
      <3>5. ASSUME l \div b = x PROVE q <= l /\ l <= q + b - 1
        <4>1. l % b \in 0..(b - 1) /\ l = (l \div b) * b + (l % b) BY <3>1, DivIs
        <4> QED BY <3>1, <3>2, <3>5, <4>1
      <3> QED BY <3>1, <3>3, <3>4, <3>5
    <2>3. l \div HashWords = x => RowWord(s, l) = u(l) BY DEF RowWord
    <2> HIDE DEF u
    <2>4. l \div HashWords = x /\ sparse[s][i] = 0 => cell(i) = SparseValue(s, i)
      BY <2>1, <2>2, <2>3 DEF SparseValue
    <2> QED BY <2>1, <2>2, <2>4
  <1> HIDE DEF cell
  <1>9. TypeInv' BY <1>2, <1>4, <1>6, <1>7 DEF TypeInv
  <1>10. SparseDone(s)'
    <2> DEFINE chunk(i) == (i \div R) \div HashWords
    <2> SUFFICES ASSUME NEW i \in Below(K * R)
                 PROVE  sparse'[s][i] = IF Finished(Place("sparse", s), chunk(i))'
                                        THEN SparseValue(s, i)' ELSE 0
      BY <1>2 DEF SparseDone
    <2>1. Finished(Place("sparse", s), chunk(i))' <=> Finished(p, chunk(i)) \/ chunk(i) = x
      <3>1. Place("sparse", s)' = p BY <1>1 DEF Place
      <3> QED BY <1>2, <3>1
    <2>2. Finished(Place("zero", s), 0)
      <3>1. Place("zero", s) < p BY <1>1 DEF Place
      <3> QED BY <1>2, <3>1 DEF Finished
    <2>3. sparse[s][i] = IF Finished(p, chunk(i)) THEN SparseValue(s, i) ELSE 0
      BY <1>1, <1>2, <2>2 DEF Inv, SideDone, SparseDone
    <2>4. SparseValue(s, i)' = SparseValue(s, i) BY <1>2, <1>4, ValuesKept DEF Same
    <2>5. sparse'[s][i] = cell(i) BY <1>6
    <2>6. CASE chunk(i) = x
      <3>1. ~Finished(p, chunk(i)) BY <1>2, <2>6
      <3>2. sparse'[s][i] = SparseValue(s, i) BY <1>8, <2>3, <2>5, <2>6, <3>1
      <3> QED BY <2>1, <2>4, <2>6, <3>2
    <2>7. CASE chunk(i) # x
      <3>1. sparse'[s][i] = sparse[s][i] BY <1>8, <2>5, <2>7
      <3> QED BY <2>1, <2>3, <2>4, <2>7, <3>1
    <2> QED BY <2>6, <2>7
  <1>11. /\ \A t \in Side : t # s => p # Place("sparse", t)
         /\ \A t \in Side : \A j \in {"dense", "fp16", "zero", "transpose", "noising"} :
              p # Place(j, t)
         /\ p \in 4..15 /\ p # Place("search", "A")
    BY <1>1, PlacesDiffer DEF Stages
  <1>12. Writes(p) BY <1>1, <1>2, <1>4, <1>11 DEF Writes, TypeInv
  <1> QED BY <1>2, <1>9, <1>10, <1>11, <1>12, OthersKept DEF Inv, SideDone

LEMMA TransposeStep ==
  ASSUME Inv, NEW s \in Side, NEW x, TransposeBlock(s, x)
  PROVE  Inv'
  <1>1. PICK p : p = Place("transpose", s) OBVIOUS
  <1>2. /\ TypeInv /\ path \in Paths /\ TodoInv' /\ StreamInv' /\ Iterating /\ Iterating'
        /\ K' = K /\ UNCHANGED <<path, salt, job>>
        /\ Here = p /\ Adds(p, x) /\ p \in 1..Last
        /\ x \in Work(<<"transpose", s>>) /\ ~Finished(p, x)
        /\ \A y : Finished(p, y)' <=> Finished(p, y) \/ y = x
    <2>1. Do("transpose", s, x) BY DEF TransposeBlock
    <2>2. "transpose" # "fill" /\ "transpose" # "hash" OBVIOUS
    <2>3. Runs("transpose", s, p, x) BY <1>1, <2>1, <2>2, KernelIs, Zenon
    <2> QED BY <2>3 DEF Runs
  <1> DEFINE block(i) == <<(i % K) \div TransposeTile, (i \div K) \div TransposeTile>>
             cell(i) == IF block(i) = x THEN sparse[s][(i % K) * R + i \div K] ELSE kmajor[s][i]
  <1>3. /\ kmajor' = [kmajor EXCEPT ![s] = [i \in DOMAIN kmajor[s] |-> cell(i)]]
        /\ UNCHANGED <<matrix, root, commit, dense, fp16, sparse, noised, transcript, hashed>>
    BY DEF TransposeBlock
  <1>4. kmajor[s] \in [Below(K * R) -> {-1, 0, 1}] /\ sparse[s] \in [Below(K * R) -> {-1, 0, 1}]
    BY <1>2 DEF TypeInv
  <1>5. kmajor'[s] = [i \in Below(K * R) |-> cell(i)] BY <1>2, <1>3, <1>4 DEF TypeInv
  <1>6. ASSUME NEW i \in Below(K * R) PROVE cell(i) \in {-1, 0, 1}
    <2>1. K * R = R * K /\ K \in Nat /\ R \in Nat BY <1>2, Sizes
    <2>2. i \div K \in Below(R) /\ i % K \in Below(K) BY <2>1, CellIs
    <2>3. (i % K) * R + i \div K \in Below(K * R) BY <2>1, <2>2, CellOf DEF Below
    <2> QED BY <1>4, <2>3
  <1> HIDE DEF cell
  <1>7. TypeInv' BY <1>2, <1>3, <1>5, <1>6 DEF TypeInv
  <1>8. TransposeDone(s)'
    <2> SUFFICES ASSUME NEW i \in Below(K * R), Finished(Place("transpose", s), block(i))'
                 PROVE  kmajor'[s][i] = sparse'[s][(i % K) * R + i \div K]
      BY <1>2 DEF TransposeDone
    <2>1. Finished(p, block(i)) \/ block(i) = x
      <3>1. Place("transpose", s)' = p BY <1>1 DEF Place
      <3> QED BY <1>2, <3>1
    <2>2. Finished(p, block(i)) => kmajor[s][i] = sparse[s][(i % K) * R + i \div K]
      BY <1>1, <1>2 DEF Inv, SideDone, TransposeDone
    <2>3. kmajor'[s][i] = cell(i) BY <1>5
    <2> QED BY <1>3, <2>1, <2>2, <2>3 DEF cell
  <1>9. /\ \A t \in Side : t # s => p # Place("transpose", t)
        /\ \A t \in Side : \A j \in {"dense", "fp16", "zero", "sparse", "noising"} :
             p # Place(j, t)
        /\ p \in 4..15 /\ p # Place("search", "A")
    BY <1>1, PlacesDiffer DEF Stages
  <1>10. Writes(p) BY <1>1, <1>2, <1>3, <1>9 DEF Writes, TypeInv
  <1> QED BY <1>2, <1>7, <1>8, <1>9, <1>10, OthersKept DEF Inv, SideDone

LEMMA NoisingStep ==
  ASSUME Inv, NEW s \in Side, NEW x, NoisingBlock(s, x)
  PROVE  Inv'
  <1>1. PICK p : p = Place("noising", s) OBVIOUS
  <1>2. /\ TypeInv /\ path \in Paths /\ TodoInv' /\ StreamInv' /\ Iterating /\ Iterating'
        /\ K' = K /\ UNCHANGED <<path, salt, job>>
        /\ Here = p /\ Adds(p, x) /\ p \in 1..Last
        /\ x \in Work(<<"noising", s>>) /\ ~Finished(p, x)
        /\ \A y : Finished(p, y)' <=> Finished(p, y) \/ y = x
    <2>1. Do("noising", s, x) BY DEF NoisingBlock
    <2>2. "noising" # "fill" /\ "noising" # "hash" OBVIOUS
    <2>3. Runs("noising", s, p, x) BY <1>1, <2>1, <2>2, KernelIs, Zenon
    <2> QED BY <2>3 DEF Runs
  <1> DEFINE tile(i) == <<(i \div K) \div NoisingTile[path][1], (i % K) \div NoisingTile[path][2]>>
             value(i) == Wrap8(matrix[s][i] + Dot(dense[s], i \div K, sparse[s], i % K))
             cell(i) == IF tile(i) = x THEN value(i) ELSE noised[s][i]
  <1>3. /\ noised' = [noised EXCEPT ![s] = [i \in DOMAIN noised[s] |-> cell(i)]]
        /\ UNCHANGED <<matrix, root, commit, dense, fp16, sparse, kmajor, transcript, hashed>>
    BY DEF NoisingBlock
  <1>4. noised'[s] = [i \in Below(Rows[s] * K) |-> cell(i)] BY <1>2, <1>3 DEF TypeInv
  <1> HIDE DEF cell
  <1>5. TypeInv' BY <1>2, <1>3, <1>4 DEF TypeInv
  <1>6. NoisingDone(s)'
    <2> SUFFICES ASSUME NEW i \in Below(Rows[s] * K), Finished(Place("noising", s), tile(i))'
                 PROVE  noised'[s][i] = value(i)
      BY <1>2, <1>3 DEF NoisingDone, Dot
    <2>1. Finished(p, tile(i)) \/ tile(i) = x
      <3>1. Place("noising", s)' = p BY <1>1 DEF Place
      <3> QED BY <1>2, <3>1
    <2>2. Finished(p, tile(i)) => noised[s][i] = value(i)
      BY <1>1, <1>2 DEF Inv, SideDone, NoisingDone
    <2>3. noised'[s][i] = cell(i) BY <1>4
    <2> QED BY <2>1, <2>2, <2>3 DEF cell
  <1>7. /\ \A t \in Side : t # s => p # Place("noising", t)
        /\ \A t \in Side : \A j \in {"dense", "fp16", "zero", "sparse", "transpose"} :
             p # Place(j, t)
        /\ p \in 4..15 /\ p # Place("search", "A")
    BY <1>1, PlacesDiffer DEF Stages
  <1>8. Writes(p) BY <1>1, <1>2, <1>3, <1>7 DEF Writes, TypeInv
  <1> QED BY <1>2, <1>5, <1>6, <1>7, <1>8, OthersKept DEF Inv, SideDone

(* The kernels of the search come after all of those.                      *)
LEMMA SearchPlaces ==
  ASSUME NEW p \in {16, 17, 18}
  PROVE  /\ \A t \in Side :
              \A j \in {"dense", "fp16", "zero", "sparse", "transpose", "noising"} : p # Place(j, t)
         /\ p # 2 /\ p # 3
  <1>1. ASSUME NEW t \in Side, NEW j \in Stages PROVE p # Place(j, t)
    <2>1. Place(j, t) \in 4..15 BY PlacesDiffer
    <2> QED BY <2>1
  <1> QED BY <1>1 DEF Stages

LEMMA BlankStep ==
  ASSUME Inv, Blank
  PROVE  Inv'
  <1>1. PICK p : p = Place("blank", "A") OBVIOUS
  <1>2. /\ TypeInv /\ path \in Paths /\ TodoInv' /\ StreamInv' /\ Iterating /\ Iterating'
        /\ K' = K /\ UNCHANGED <<path, salt, job>>
        /\ Here = p /\ Adds(p, 0) /\ p \in 1..Last
        /\ 0 \in Work(<<"blank", "A">>) /\ ~Finished(p, 0) /\ path = "TritonNorotl"
    <2>1. Do("blank", "A", 0) BY DEF Blank
    <2>2. "blank" # "fill" /\ "blank" # "hash" OBVIOUS
    <2>3. Runs("blank", "A", p, 0) BY <1>1, <2>1, <2>2, KernelIs, Zenon
    <2> QED BY <2>3 DEF Runs
  <1>3. /\ transcript' = [c \in DOMAIN transcript |-> NoTranscript]
        /\ UNCHANGED <<matrix, root, commit, dense, fp16, sparse, kmajor, noised, hashed>>
    BY DEF Blank
  <1>4. TypeInv' BY <1>2, <1>3 DEF TypeInv
  <1>5. p = 16 /\ p # Place("search", "A")
    <2>1. Place("blank", "A") = 16 BY DEF Place
    <2>2. path # "CppSearch" BY <1>2
    <2>3. Place("search", "A") = 17 BY <2>2 DEF Place
    <2> QED BY <1>1, <2>1, <2>3
  <1>6. Writes(p) BY <1>3, <1>5 DEF Writes
  <1> QED BY <1>2, <1>4, <1>5, <1>6, SearchPlaces, OthersKept DEF Inv, SideDone

(* The Triton search has as many tiles as a transcript has words.          *)
LEMMA EveryWordStored ==
  ASSUME path \in Paths, path = "TritonNorotl", NEW c
  PROVE  Stored(c) = SearchTranscript(c)
  <1>1. K = R * JackpotSize /\ R \in Nat \ {0} /\ JackpotSize \in Nat \ {0} BY Sizes
  <1>2. K \div R = JackpotSize
    <2>1. (JackpotSize * R + 0) \div R = JackpotSize /\ JackpotSize * R + 0 = R * JackpotSize
      BY <1>1, SplitIs
    <2> QED BY <1>1, <2>1
  <1>3. ASSUME NEW w \in Below(JackpotSize) PROVE TileSlots(w) # {}
    <2>1. w \in Nat /\ w + 1 \in 1..JackpotSize /\ w + 1 - 1 = w BY <1>1, <1>3 DEF Below
    <2>2. w % JackpotSize = w
      <3>1. w \in 0..(JackpotSize - 1) /\ 0 * JackpotSize + w = w BY <1>1, <2>1
      <3> QED BY <1>1, <3>1, SplitIs
    <2>3. w + 1 \in TileSlots(w) BY <1>2, <2>1, <2>2 DEF TileSlots
    <2> QED BY <2>3
  <1> QED BY <1>3 DEF Stored, SearchTranscript

LEMMA SearchStep ==
  ASSUME Inv, NEW x, SearchCandidate(x)
  PROVE  Inv'
  <1>1. PICK p : p = Place("search", "A") OBVIOUS
  <1>2. /\ TypeInv /\ path \in Paths /\ TodoInv' /\ StreamInv' /\ Iterating /\ Iterating'
        /\ K' = K /\ UNCHANGED <<path, salt, job>>
        /\ Here = p /\ Adds(p, x) /\ p \in 1..Last
        /\ x \in Work(<<"search", "A">>) /\ ~Finished(p, x)
        /\ \A y : Finished(p, y)' <=> Finished(p, y) \/ y = x
    <2>1. Do("search", "A", x) BY DEF SearchCandidate
    <2>2. "search" # "fill" /\ "search" # "hash" OBVIOUS
    <2>3. Runs("search", "A", p, x) BY <1>1, <2>1, <2>2, KernelIs, Zenon
    <2> QED BY <2>3 DEF Runs
  <1>3. /\ IF path = "CppSearch"
           THEN /\ hashed' = [hashed EXCEPT ![x] = <<PowKey, SearchTranscript(x)>>]
                /\ transcript' = transcript
           ELSE /\ transcript' = [transcript EXCEPT ![x] = SearchTranscript(x)]
                /\ hashed' = hashed
        /\ UNCHANGED <<matrix, root, commit, dense, fp16, sparse, kmajor, noised>>
    <2>1. path = "TritonNorotl" => Stored(x) = SearchTranscript(x) BY <1>2, EveryWordStored
    <2>2. path = "CppSearch" \/ path = "TritonNorotl" BY <1>2, Sizes
    <2> QED BY <2>1, <2>2 DEF SearchCandidate
  <1>4. TypeInv'
    <2>1. DOMAIN hashed' = DOMAIN hashed /\ DOMAIN transcript' = DOMAIN transcript BY <1>3
    <2> QED BY <1>2, <1>3, <2>1 DEF TypeInv
  <1>5. SearchDone'
    <2> SUFFICES ASSUME NEW c \in Candidates[path], Finished(Place("search", "A"), c)'
                 PROVE  IF path = "CppSearch" THEN hashed'[c] = <<PowKey', SearchTranscript(c)'>>
                        ELSE transcript'[c] = SearchTranscript(c)'
      BY <1>2 DEF SearchDone
    <2>1. Finished(p, c) \/ c = x
      <3>1. Place("search", "A")' = p BY <1>1, <1>2 DEF Place
      <3> QED BY <1>2, <3>1
    <2>2. Finished(p, c) =>
            IF path = "CppSearch" THEN hashed[c] = <<PowKey, SearchTranscript(c)>>
            ELSE transcript[c] = SearchTranscript(c)
      BY <1>1, <1>2 DEF Inv, SearchDone
    <2>3. PowKey' = PowKey /\ SearchTranscript(c)' = SearchTranscript(c)
      BY <1>2, <1>3, TranscriptKept DEF PowKey, Same
    <2>4. c \in DOMAIN hashed /\ c \in DOMAIN transcript BY <1>2 DEF TypeInv
    <2> QED BY <1>3, <2>1, <2>2, <2>3, <2>4
  <1>6. p \in {16, 17} BY <1>1 DEF Place
  <1>7. Writes(p) BY <1>3, <1>6 DEF Writes
  <1> QED BY <1>2, <1>4, <1>5, <1>6, <1>7, SearchPlaces, OthersKept DEF Inv, SideDone

LEMMA CompareStep ==
  ASSUME Inv, NEW x, CompareCandidate(x)
  PROVE  Inv'
  <1>1. PICK p : p = Place("compare", "A") OBVIOUS
  <1>2. /\ TypeInv /\ path \in Paths /\ TodoInv' /\ StreamInv' /\ Iterating /\ Iterating'
        /\ K' = K /\ UNCHANGED <<path, salt, job>>
        /\ Here = p /\ Adds(p, x) /\ p \in 1..Last
        /\ x \in Work(<<"compare", "A">>) /\ ~Finished(p, x) /\ path = "TritonNorotl"
        /\ \A y : Finished(p, y)' <=> Finished(p, y) \/ y = x
    <2>1. Do("compare", "A", x) BY DEF CompareCandidate
    <2>2. "compare" # "fill" /\ "compare" # "hash" OBVIOUS
    <2>3. Runs("compare", "A", p, x) BY <1>1, <2>1, <2>2, KernelIs, Zenon
    <2> QED BY <2>3 DEF Runs
  <1>3. /\ hashed' = [hashed EXCEPT ![x] = <<PowKey, transcript[x]>>]
        /\ UNCHANGED <<matrix, root, commit, dense, fp16, sparse, kmajor, noised, transcript>>
    BY DEF CompareCandidate
  <1>4. TypeInv'
    <2>1. DOMAIN hashed' = DOMAIN hashed BY <1>3
    <2> QED BY <1>2, <1>3, <2>1 DEF TypeInv
  <1>5. CompareDone'
    <2> SUFFICES ASSUME NEW c \in Candidates[path], Finished(Place("compare", "A"), c)'
                 PROVE  hashed'[c] = <<PowKey', transcript'[c]>>
      BY <1>2 DEF CompareDone
    <2>1. Finished(p, c) \/ c = x
      <3>1. Place("compare", "A")' = p BY <1>1 DEF Place
      <3> QED BY <1>2, <3>1
    <2>2. Finished(p, c) => hashed[c] = <<PowKey, transcript[c]>>
      BY <1>1, <1>2 DEF Inv, CompareDone
    <2>3. PowKey' = PowKey BY <1>3 DEF PowKey
    <2>4. c \in DOMAIN hashed BY <1>2 DEF TypeInv
    <2> QED BY <1>3, <2>1, <2>2, <2>3, <2>4
  <1>6. p = 18 /\ p # Place("search", "A")
    <2>1. Place("compare", "A") = 18 /\ Place("search", "A") \in {16, 17} BY DEF Place
    <2> QED BY <1>1, <2>1
  <1>7. Writes(p) BY <1>3, <1>6 DEF Writes
  <1> QED BY <1>2, <1>4, <1>5, <1>6, <1>7, SearchPlaces, OthersKept DEF Inv, SideDone
-----------------------------------------------------------------------------
(* The invariant: what every finished piece of work of the iteration left  *)
(* is still there, and the matrices have their sizes and ranges.           *)
LEMMA NextKernelStep ==
  ASSUME Inv, NextKernel
  PROVE  Inv'
  <1>1. TypeInv /\ StreamInv /\ path \in Paths BY DEF Inv, TypeInv
  <1>2. /\ StreamInv' /\ Keeps /\ todo = {}
        /\ stream' = <<>> => Iterating \/ (Loading /\ Len(stream) = 1)
        /\ Loading' => Len(stream') = 1 /\ todo' = {0}
    BY <1>1, NextKernelIs
  <1>3. Same /\ K' = K BY <1>2 DEF Keeps, Same, K
  <1>4. UNCHANGED <<matrix, root, commit, dense, fp16, sparse, kmajor, noised, transcript, hashed>>
    BY DEF NextKernel
  <1>5. TypeInv' BY <1>1, <1>3, <1>4 DEF TypeInv, Same
  <1>6. TodoInv'
    <2>1. stream' # <<>> => todo' = Work(Head(stream')) BY DEF NextKernel
    <2> QED BY <1>3, <2>1, WorkSame DEF TodoInv, Same
  <1>7. JobHashed'
    <2>1. JobLoaded' => JobLoaded
      <3>1. Iterating' => Iterating BY <1>2 DEF Keeps
      <3>2. ~(Loading' /\ Len(stream') = 1 /\ todo' = {})
        <4>1. {0} # {} OBVIOUS
        <4> QED BY <1>2, <4>1
      <3> QED BY <1>2, <3>1, <3>2 DEF JobLoaded
    <2>2. JobHashed BY DEF Inv
    <2> QED BY <1>3, <1>4, <2>1, <2>2, JobKept DEF Same
  <1>8. CASE ~Iterating' BY <1>2, <1>5, <1>6, <1>7, <1>8, NotIterating DEF Inv
  <1>9. CASE Iterating'
    <2>1. ASSUME NEW q \in 1..Last PROVE Kept(q) BY <1>2, <1>9, <2>1 DEF Keeps, Kept
    <2>2. 2 \in 1..Last /\ 3 \in 1..Last BY DEF Last
    <2>3. RootDone' /\ CommitDone'
      BY <1>1, <1>3, <1>4, <2>1, <2>2, RootKept, CommitKept DEF Inv
    <2>4. ASSUME NEW s \in Side PROVE SideDone(s)'
      <3>1. ASSUME NEW k \in Stages PROVE Kept(Place(k, s))
        <4>1. Place(k, s) \in 1..Last
          <5>1. Place(k, s) \in 4..15 BY PlacesDiffer
          <5> QED BY <5>1 DEF Last
        <4> QED BY <2>1, <4>1
      <3>2. /\ Kept(Place("dense", s)) /\ Kept(Place("fp16", s)) /\ Kept(Place("zero", s))
            /\ Kept(Place("sparse", s)) /\ Kept(Place("transpose", s)) /\ Kept(Place("noising", s))
        BY <3>1 DEF Stages
      <3>3. SideDone(s) BY DEF Inv
      <3>4. DenseDone(s)' BY <1>1, <1>3, <1>4, <3>2, <3>3, DenseKept DEF SideDone
      <3>5. Fp16Done(s)' BY <1>1, <1>3, <1>4, <3>2, <3>3, Fp16Kept DEF SideDone
      <3>6. SparseDone(s)' BY <1>1, <1>3, <1>4, <3>2, <3>3, SparseKept DEF SideDone
      <3>7. TransposeDone(s)' BY <1>1, <1>3, <1>4, <3>2, <3>3, TransposeKept DEF SideDone
      <3>8. NoisingDone(s)' BY <1>1, <1>3, <1>4, <3>2, <3>3, NoisingKept DEF SideDone
      <3> QED BY <3>4, <3>5, <3>6, <3>7, <3>8 DEF SideDone
    <2>5. SearchDone'
      <3>1. Place("search", "A") \in 1..Last
        <4>1. Place("search", "A") = (IF path = "CppSearch" THEN 16 ELSE 17) BY DEF Place
        <4> QED BY <4>1 DEF Last
      <3>2. Kept(Place("search", "A")) BY <2>1, <3>1
      <3> QED BY <1>1, <1>3, <1>4, <3>2, SearchKept DEF Inv
    <2>6. CompareDone'
      <3>1. path = "TritonNorotl" => Last = 18 BY DEF Last
      <3>2. path = "TritonNorotl" => Kept(18) BY <2>1, <3>1
      <3>3. path # "TritonNorotl" => CompareDone' BY <1>3 DEF CompareDone, Same
      <3> QED BY <1>1, <1>3, <1>4, <3>2, <3>3, CompareKept DEF Inv
    <2> QED BY <1>2, <1>5, <1>6, <1>7, <2>3, <2>4, <2>5, <2>6 DEF Inv
  <1> QED BY <1>8, <1>9

LEMMA LoadJobStep ==
  ASSUME Inv, LoadJob
  PROVE  Inv'
  <1>1. TypeInv /\ StreamInv BY DEF Inv
  <1>2. /\ StreamInv' /\ ~Iterating' /\ path' = path
        /\ Len(stream') # 1 /\ stream' # <<>>
    BY <1>1, LoadJobIs
  <1>3. /\ job' \in Jobs
        /\ UNCHANGED <<path, salt, matrix, root, commit, dense, fp16, sparse, kmajor, noised,
                       transcript, hashed>>
    BY DEF LoadJob, Buffers
  <1>4. K' = K BY <1>2 DEF K
  <1>5. TypeInv' BY <1>1, <1>3, <1>4 DEF TypeInv
  <1>6. TodoInv'
    <2>1. todo' = Work(Head(stream')) BY DEF LoadJob, Enqueue
    <2> QED BY <1>2, <2>1, WorkSame DEF TodoInv
  <1>7. JobHashed' BY <1>2 DEF JobHashed
  <1> QED BY <1>2, <1>5, <1>6, <1>7, NotIterating DEF Inv

LEMMA IterateStep ==
  ASSUME Inv, Iterate
  PROVE  Inv'
  <1>1. TypeInv /\ StreamInv /\ path \in Paths BY DEF Inv, TypeInv
  <1>2. StreamInv' /\ Starts /\ ~Loading' /\ stream' # <<>> BY <1>1, IterateIs
  <1>3. Same /\ K' = K BY <1>2 DEF Starts, Same, K
  <1>4. /\ stream = <<>> /\ job \in Jobs
        /\ UNCHANGED <<matrix, root, commit, dense, fp16, sparse, kmajor, noised, transcript, hashed>>
    BY DEF Iterate, Buffers
  <1>5. TypeInv' BY <1>1, <1>3, <1>4 DEF TypeInv, Same
  <1>6. TodoInv'
    <2>1. todo' = Work(Head(stream')) BY DEF Iterate, Enqueue
    <2> QED BY <1>3, <2>1, WorkSame DEF TodoInv, Same
  <1>7. JobHashed'
    <2>1. JobLoaded
      <3>1. job # 0 BY <1>4, NoisePipelineAssumption
      <3> QED BY <1>4, <3>1 DEF JobLoaded
    <2>2. JobHashed BY DEF Inv
    <2> QED BY <1>3, <1>4, <2>1, <2>2, JobKept DEF Same
  <1>8. ASSUME NEW q \in 1..Last PROVE Ahead(q) BY <1>2 DEF Starts, Ahead
  <1>9. RootDone' /\ CommitDone'
    <2>1. 2 \in 1..Last /\ 3 \in 1..Last BY DEF Last
    <2> QED BY <1>1, <1>3, <1>8, <2>1, RootKept, CommitKept
  <1>10. ASSUME NEW s \in Side PROVE SideDone(s)'
    <2>1. ASSUME NEW k \in Stages PROVE Ahead(Place(k, s))
      <3>1. Place(k, s) \in 1..Last
        <4>1. Place(k, s) \in 4..15 BY PlacesDiffer
        <4> QED BY <4>1 DEF Last
      <3> QED BY <1>8, <3>1
    <2>2. /\ Ahead(Place("dense", s)) /\ Ahead(Place("fp16", s)) /\ Ahead(Place("zero", s))
          /\ Ahead(Place("transpose", s)) /\ Ahead(Place("noising", s))
      BY <2>1 DEF Stages
    <2>3. DenseDone(s)' /\ Fp16Done(s)' BY <1>1, <1>3, <2>2, DenseKept, Fp16Kept
    <2>4. SparseDone(s)' BY <1>1, <1>3, <2>2, SparseKept
    <2>5. TransposeDone(s)' /\ NoisingDone(s)'
      BY <1>1, <1>3, <2>2, TransposeKept, NoisingKept
    <2> QED BY <2>3, <2>4, <2>5 DEF SideDone
  <1>11. SearchDone'
    <2>1. Place("search", "A") \in 1..Last
      <3>1. Place("search", "A") = (IF path = "CppSearch" THEN 16 ELSE 17) BY DEF Place
      <3> QED BY <3>1 DEF Last
    <2>2. Ahead(Place("search", "A")) BY <1>8, <2>1
    <2> QED BY <1>1, <1>3, <2>2, SearchKept
  <1>12. CompareDone'
    <2>1. path = "TritonNorotl" => Last = 18 BY DEF Last
    <2>2. path = "TritonNorotl" => Ahead(18) BY <1>8, <2>1
    <2> QED BY <1>1, <1>3, <2>2, CompareKept
  <1> QED BY <1>2, <1>5, <1>6, <1>7, <1>9, <1>10, <1>11, <1>12 DEF Inv

LEMMA InitInv == Init => Inv
  <1> SUFFICES ASSUME Init PROVE Inv OBVIOUS
  <1>1. /\ stream = <<>> /\ todo = {} /\ job = 0 /\ path \in Paths /\ salt \in Salts
        /\ path \in {"CppSearch", "TritonNorotl"}
    BY NoisePipelineAssumption DEF Init
  <1>2. ~Iterating /\ ~Loading
    <2>1. ~Iterating BY <1>1 DEF Iterating
    <2>2. JobKernels # <<>> /\ << <<"hash", "B">> >> # <<>> BY DEF JobKernels
    <2> QED BY <1>1, <2>1, <2>2 DEF Loading
  <1>3. TypeInv
    <2>1. ASSUME NEW n
          PROVE  /\ Zeros(n) \in [Below(n) -> (-63)..63] /\ Zeros(n) \in [Below(n) -> (-32)..31]
                 /\ Zeros(n) \in [Below(n) -> {-1, 0, 1}]
      BY DEF Zeros, Below
    <2>2. ASSUME NEW s \in Side
          PROVE  /\ matrix[s] = Zeros(Rows[s] * K) /\ noised[s] = Zeros(Rows[s] * K)
                 /\ dense[s] = Zeros(Rows[s] * R) /\ fp16[s] = Zeros(Rows[s] * R)
                 /\ sparse[s] = Zeros(K * R) /\ kmajor[s] = Zeros(K * R)
      BY DEF Init
    <2>3. ASSUME NEW s \in Side
          PROVE  /\ matrix[s] \in [Below(Rows[s] * K) -> (-63)..63]
                 /\ dense[s] \in [Below(Rows[s] * R) -> (-32)..31]
                 /\ fp16[s] \in [Below(Rows[s] * R) -> (-32)..31]
                 /\ sparse[s] \in [Below(K * R) -> {-1, 0, 1}]
                 /\ kmajor[s] \in [Below(K * R) -> {-1, 0, 1}]
                 /\ DOMAIN noised[s] = Below(Rows[s] * K)
      <3>1. DOMAIN noised[s] = Below(Rows[s] * K)
        <4>1. PICK n : n = Rows[s] * K OBVIOUS
        <4>2. DOMAIN Zeros(n) = Below(n) BY Zenon DEF Zeros, Below
        <4> QED BY <2>2, <4>1, <4>2
      <3> QED BY <2>1, <2>2, <3>1
    <2>4. /\ DOMAIN matrix = Side /\ DOMAIN root = Side /\ DOMAIN dense = Side
          /\ DOMAIN fp16 = Side /\ DOMAIN sparse = Side /\ DOMAIN kmajor = Side
          /\ DOMAIN noised = Side
          /\ DOMAIN transcript = Candidates[path] /\ DOMAIN hashed = Candidates[path]
      BY DEF Init
    <2> QED BY <1>1, <2>3, <2>4 DEF TypeInv
  <1>4. StreamInv /\ TodoInv BY <1>1 DEF StreamInv, TodoInv
  <1>5. JobHashed BY <1>1, <1>2 DEF JobHashed
  <1>6. RootDone /\ CommitDone /\ SearchDone /\ CompareDone /\ \A s \in Side : SideDone(s)
    BY <1>2 DEF RootDone, CommitDone, SearchDone, CompareDone, SideDone, DenseDone, Fp16Done,
                SparseDone, TransposeDone, NoisingDone
  <1> QED BY <1>3, <1>4, <1>5, <1>6 DEF Inv

LEMMA StutterStep ==
  ASSUME Inv, UNCHANGED vars
  PROVE  Inv'
  <1>1. /\ UNCHANGED <<path, salt, job, stream, todo, matrix, root, commit, dense, fp16,
                       sparse, kmajor, noised, transcript, hashed>>
    BY DEF vars
  <1>2. IterKernels' = IterKernels /\ Last' = Last BY <1>1 DEF IterKernels, SearchKernels, Last
  <1>3. Here' = Here BY <1>1, <1>2 DEF Here
  <1>4. Iterating' <=> Iterating BY <1>1, <1>2, <1>3 DEF Iterating
  <1>5. Same /\ K' = K /\ (Loading' <=> Loading) BY <1>1 DEF Same, K, Loading
  <1>6. TypeInv' /\ TypeInv BY <1>1, <1>5 DEF Inv, TypeInv
  <1>7. StreamInv' BY <1>1, <1>4, <1>5 DEF Inv, StreamInv
  <1>8. TodoInv' BY <1>1, WorkSame DEF Inv, TodoInv
  <1>9. \A q : Kept(q) BY <1>1, <1>3, <1>4 DEF Kept, Finished
  <1>10. JobHashed' BY <1>1, <1>4, <1>5, JobKept DEF Inv, JobLoaded
  <1>11. RootDone' /\ CommitDone' BY <1>1, <1>5, <1>6, <1>9, RootKept, CommitKept DEF Inv
  <1>12. ASSUME NEW s \in Side PROVE SideDone(s)'
    <2>1. SideDone(s) BY DEF Inv
    <2>2. DenseDone(s)' /\ Fp16Done(s)'
      BY <1>1, <1>5, <1>6, <1>9, <2>1, DenseKept, Fp16Kept DEF SideDone
    <2>3. SparseDone(s)' BY <1>1, <1>5, <1>6, <1>9, <2>1, SparseKept DEF SideDone
    <2>4. TransposeDone(s)' /\ NoisingDone(s)'
      BY <1>1, <1>5, <1>6, <1>9, <2>1, TransposeKept, NoisingKept DEF SideDone
    <2> QED BY <2>2, <2>3, <2>4 DEF SideDone
  <1>13. SearchDone' /\ CompareDone'
    BY <1>1, <1>5, <1>6, <1>9, SearchKept, CompareKept DEF Inv
  <1> QED BY <1>6, <1>7, <1>8, <1>10, <1>11, <1>12, <1>13 DEF Inv

LEMMA NextInv ==
  ASSUME DigestIsBytes, Inv, [Next]_vars
  PROVE  Inv'
  <1>1. CASE LoadJob BY <1>1, LoadJobStep
  <1>2. CASE Iterate BY <1>2, IterateStep
  <1>3. CASE NextKernel BY <1>3, NextKernelStep
  <1>4. ASSUME NEW s \in Side, NEW x \in todo,
               \/ FillChunk(s, x) \/ DenseChunk(s, x) \/ Fp16Chunk(s, x)
               \/ SparseChunk(s, x) \/ TransposeBlock(s, x) \/ NoisingBlock(s, x)
        PROVE  Inv'
    BY <1>4, FillStep, DenseStep, Fp16Step, SparseStep, TransposeStep, NoisingStep
  <1>5. ASSUME NEW s \in Side, HashMatrix(s) \/ Zero(s) PROVE Inv'
    BY <1>5, HashStep, ZeroStep
  <1>6. CASE Commit BY <1>6, CommitStep
  <1>7. CASE Blank BY <1>7, BlankStep
  <1>8. ASSUME NEW c \in todo, SearchCandidate(c) \/ CompareCandidate(c) PROVE Inv'
    BY <1>8, SearchStep, CompareStep
  <1>9. CASE UNCHANGED vars BY <1>9, StutterStep
  <1> QED BY <1>1, <1>2, <1>3, <1>4, <1>5, <1>6, <1>7, <1>8, <1>9 DEF Next

(* Every buffer keeps its size and its range, and the work a kernel has    *)
(* done stands: nothing that comes later in the iteration writes over it.  *)
THEOREM Invariant == DigestIsBytes => (Spec => []Inv)
  <1> SUFFICES ASSUME DigestIsBytes PROVE Spec => []Inv OBVIOUS
  <1>1. Inv /\ [Next]_vars => Inv' BY NextInv
  <1> QED BY <1>1, InitInv, PTL DEF Spec
-----------------------------------------------------------------------------
(* The words of a hash, and the columns drawn from one.                    *)
LEMMA Pow2Byte == \A e \in Nat : Pow2[e + 8] = 256 * Pow2[e]
  <1> SUFFICES ASSUME NEW e \in Nat PROVE Pow2[e + 8] = 256 * Pow2[e] OBVIOUS
  <1>1. /\ Pow2[e + 1] = 2 * Pow2[e] /\ Pow2[(e + 1) + 1] = 2 * Pow2[e + 1]
        /\ Pow2[(e + 2) + 1] = 2 * Pow2[e + 2] /\ Pow2[(e + 3) + 1] = 2 * Pow2[e + 3]
        /\ Pow2[(e + 4) + 1] = 2 * Pow2[e + 4] /\ Pow2[(e + 5) + 1] = 2 * Pow2[e + 5]
        /\ Pow2[(e + 6) + 1] = 2 * Pow2[e + 6] /\ Pow2[(e + 7) + 1] = 2 * Pow2[e + 7]
    BY Pow2Def
  <1>2. /\ (e + 1) + 1 = e + 2 /\ (e + 2) + 1 = e + 3 /\ (e + 3) + 1 = e + 4
        /\ (e + 4) + 1 = e + 5 /\ (e + 5) + 1 = e + 6 /\ (e + 6) + 1 = e + 7
        /\ (e + 7) + 1 = e + 8
    OBVIOUS
  <1>3. Pow2[e] \in Nat BY Pow2Def
  <1> QED BY <1>1, <1>2, <1>3

LEMMA WordIs ==
  ASSUME path \in Paths, NEW bytes \in [1..HashBytes -> 0..255], NEW j \in Below(HashWords)
  PROVE  WordRange \in Nat \ {0} /\ Word(bytes, j) \in 0..(WordRange - 1)
  <1>1. PICK n \in Nat \ {0} : n = WordBytes BY Sizes
  <1> DEFINE f == [b \in Below(WordBytes) |-> bytes[j * WordBytes + b + 1] * Pow2[8 * b]]
  <1>2. ASSUME NEW b \in 0..(n - 1)
        PROVE  \E d \in 0..255 : \E p \in Nat : p = Pow2[8 * b] /\ f[b] = d * p
    <2>1. HashWords \in Nat \ {0} /\ HashBytes = HashWords * n BY <1>1, Sizes DEF HashBytes
    <2>2. j * n + b \in Below(HashWords * n)
      <3>1. j \in 0..(HashWords - 1) BY DEF Below
      <3> QED BY <1>1, <2>1, <3>1, CellOf
    <2>3. PICK x \in Nat : x = j * n + b /\ x < HashBytes BY <1>1, <2>1, <2>2 DEF Below
    <2>4. x + 1 \in 1..HashBytes
      <3>1. HashBytes \in Nat BY Sizes
      <3> QED BY <2>3, <3>1
    <2>5. PICK d \in 0..255 : d = bytes[x + 1] BY <2>4
    <2>6. PICK p \in Nat : p = Pow2[8 * b]
      <3>1. 8 * b \in Nat OBVIOUS
      <3> QED BY <3>1, Pow2Def
    <2>7. b \in Below(WordBytes) BY <1>1 DEF Below
    <2>8. f[b] = d * p BY <1>1, <2>3, <2>5, <2>6, <2>7
    <2> QED BY <2>6, <2>8
  <1> HIDE DEF f
  <1>3. PICK s : /\ s[0] = 0 /\ \A i \in 0..(n - 1) : s[i + 1] = s[i] + f[i]
                 /\ Sum(f, n) = s[n]
    BY SumSteps
  <1> DEFINE S == {m \in Nat : m <= n => s[m] \in 0..(Pow2[8 * m] - 1)}
  <1>4. 0 \in S
    <2>1. 8 * 0 = 0 /\ Pow2[0] = 1 BY Pow2Def
    <2> QED BY <1>3, <2>1
  <1>5. ASSUME NEW m \in S PROVE m + 1 \in S
    <2>1. m \in Nat /\ (m <= n => s[m] \in 0..(Pow2[8 * m] - 1)) OBVIOUS
    <2> SUFFICES m + 1 <= n => s[m + 1] \in 0..(Pow2[8 * (m + 1)] - 1) BY <2>1
    <2> HIDE DEF S
    <2> SUFFICES ASSUME m + 1 <= n PROVE s[m + 1] \in 0..(Pow2[8 * (m + 1)] - 1) OBVIOUS
    <2>2. m \in 0..(n - 1) /\ s[m] \in 0..(Pow2[8 * m] - 1) BY <2>1
    <2>3. PICK d \in 0..255, p \in Nat : p = Pow2[8 * m] /\ f[m] = d * p BY <1>2, <2>2
    <2>4. PICK w \in Nat : w = Pow2[8 * (m + 1)] /\ w = 256 * p
      <3>1. 8 * m \in Nat /\ 8 * (m + 1) = 8 * m + 8 BY <2>1
      <3>2. Pow2[8 * (m + 1)] = 256 * p BY <2>3, <3>1, Pow2Byte
      <3>3. 256 * p \in Nat OBVIOUS
      <3> QED BY <3>2, <3>3
    <2>5. PICK g \in Nat : g = d * p /\ g <= 255 * p
      <3>1. d \in Nat /\ 255 \in Nat /\ d <= 255 OBVIOUS
      <3>2. d * p \in Nat BY <3>1
      <3>3. d * p <= 255 * p BY <3>1, TimesMonotone
      <3> QED BY <3>2, <3>3
    <2>6. PICK a \in Nat : a = s[m] /\ a <= p - 1 BY <2>2, <2>3
    <2>7. s[m + 1] = a + g
      <3>1. s[m + 1] = s[m] + f[m] BY <1>3, <2>2
      <3> QED BY <2>3, <2>5, <2>6, <3>1
    <2>8. a + g \in 0..(w - 1)
      <3>1. a + g \in Nat /\ a + g <= p - 1 + 255 * p BY <2>5, <2>6
      <3>2. p - 1 + 255 * p = w - 1 BY <2>4
      <3> QED BY <2>4, <3>1, <3>2
    <2> QED BY <2>4, <2>7, <2>8
  <1> HIDE DEF S
  <1>6. S = Nat BY <1>4, <1>5, InductionOn DEF S
  <1>7. Sum(f, n) \in 0..(Pow2[8 * n] - 1) BY <1>3, <1>6 DEF S
  <1>8. Pow2[8 * n] \in Nat \ {0}
    <2>1. 8 * n \in Nat OBVIOUS
    <2> QED BY <2>1, Pow2Positive
  <1> QED BY <1>1, <1>7, <1>8 DEF Word, WordRange, f

(* The two columns of a row of a sparse factor are two.                    *)
LEMMA ColumnsAre ==
  ASSUME path \in Paths, WordRange \in Nat \ {0}, NEW u \in 0..(WordRange - 1)
  PROVE  /\ K0(u) \in Below(R) /\ K1(u) \in Below(R) /\ K0(u) # K1(u)
         /\ K1(u) = BitXor(u % R, 1 + MulHi(R - 1, u))
  <1>1. PICK a \in Nat \ {0} : R = a + 1
    <2>1. R - 1 \in Nat \ {0} /\ R = (R - 1) + 1 BY Sizes
    <2> QED BY <2>1
  <1>2. PICK w \in Nat \ {0} : w = WordRange OBVIOUS
  <1>3. MulHi(R - 1, u) \in 0..(R - 2)
    <2>1. u \in Nat /\ R - 1 = a BY <1>1, <1>2
    <2>2. PICK m \in Nat : m = a * u BY <2>1
    <2>3. PICK q \in Nat : q = m \div w /\ q * w <= m BY <1>2, <2>2, DivIs
    <2>4. m < a * w
      <3>1. PICK d \in Nat : w = u + 1 + d
        <4>1. w - (u + 1) \in Nat /\ w = u + 1 + (w - (u + 1)) BY <1>2, <2>1
        <4> QED BY <4>1
      <3>2. a * w = a * u + a + a * d /\ a * d \in Nat BY <1>1, <2>1, <3>1
      <3>3. PICK e \in Nat : e = a * d BY <3>2
      <3> QED BY <1>1, <2>2, <3>2, <3>3
    <2>5. q < a
      <3>1. q * w \in Nat /\ a * w \in Nat BY <1>1, <1>2, <2>3
      <3>2. q * w < a * w BY <2>2, <2>3, <2>4, <3>1
      <3> QED BY <1>1, <1>2, <2>3, <3>2, TimesLess
    <2> QED BY <1>1, <1>2, <2>1, <2>2, <2>3, <2>5 DEF MulHi
  <1>4. PICK d \in 1..(R - 1) : d = 1 + MulHi(R - 1, u) BY <1>1, <1>3
  <1>5. u \in Nat /\ R \in Nat \ {0} BY <1>1, <1>2
  <1>6. PICK k \in 0..(R - 1) : k = u % R BY <1>5, DivIs
  <1>7. PICK y \in (0..(R - 1)) \ {k} : y = BitXor(k, d) BY XorAssumption
  <1>8. y % R = y
    <2>1. (0 * R + y) % R = y /\ 0 * R + y = y BY <1>5, SplitIs
    <2> QED BY <2>1
  <1> QED BY <1>4, <1>6, <1>7, <1>8 DEF K0, K1, Below

LEMMA RowWordIs ==
  ASSUME DigestIsBytes, TypeInv, NEW s \in Side, NEW l \in Below(K)
  PROVE  /\ WordRange \in Nat \ {0} /\ RowWord(s, l) \in 0..(WordRange - 1)
         /\ l - (l \div HashWords) * HashWords = l % HashWords
  <1>1. path \in Paths /\ l \in Nat /\ HashWords \in Nat \ {0} BY Sizes DEF TypeInv, Below
  <1>2. PICK c \in Nat : c = l \div HashWords BY <1>1, DivIs
  <1>3. PICK b \in Nat \ {0} : b = HashWords BY <1>1
  <1>4. l % b \in 0..(b - 1) /\ l = c * b + (l % b) BY <1>1, <1>2, <1>3, DivIs
  <1>5. PICK m \in Nat : m = c * b BY <1>2, <1>3
  <1>6. l - c * b = l % b BY <1>1, <1>4, <1>5
  <1>7. l % HashWords \in Below(HashWords) BY <1>3, <1>4 DEF Below
  <1>8. Bytes(s, 1, c) \in [1..HashBytes -> 0..255]
    <2>1. salt \in Salts BY DEF TypeInv
    <2> QED BY <2>1, Zenon DEF DigestIsBytes, Bytes
  <1>9. RowWord(s, l) = Word(Bytes(s, 1, c), l % HashWords)
    BY <1>2, <1>3, <1>6 DEF RowWord
  <1> QED BY <1>1, <1>2, <1>3, <1>6, <1>7, <1>8, <1>9, WordIs

(* Where the iteration is when the noising or the search runs.             *)
LEMMA Reached ==
  ASSUME Inv, stream # <<>>, Head(stream)[1] \in {"noising", "blank", "search", "compare"}
  PROVE  /\ Iterating /\ Here \in 14..Last
         /\ Head(stream) = IterKernels[Here]
         /\ Head(stream)[1] # "noising" => Here \in 16..Last
  <1>1. StreamInv /\ path \in {"CppSearch", "TritonNorotl"} BY DEF Inv, StreamInv
  <1>2. Iterating
    <2>1. Head(<< <<"fill", "B">>, <<"hash", "B">> >>)[1] = "fill" OBVIOUS
    <2>2. Head(<< <<"hash", "B">> >>)[1] = "hash" OBVIOUS
    <2>3. ~Loading BY <2>1, <2>2 DEF Loading, JobKernels
    <2> QED BY <1>1, <2>3 DEF StreamInv
  <1>3. Here \in 1..Last /\ Head(stream) = IterKernels[Here]
    <2>1. 1 \in 1..Len(stream) /\ Here \in 1..Last /\ Head(stream) = stream[1]
      BY <1>2 DEF Iterating, Here, Last
    <2>2. stream[1] = IterKernels[Here + 1 - 1] /\ Here + 1 - 1 = Here
      BY <1>2, <2>1 DEF Iterating
    <2> QED BY <2>1, <2>2
  <1>4. ASSUME Here \in 1..15
        PROVE  Here \in 14..15 /\ IterKernels[Here][1] = "noising"
    <2>1. PICK n \in 1..15 : n = Here BY <1>4
    <2>2. n \in {1, 2, 3, 4, 5, 6, 7, 8, 9, 10, 11, 12, 13, 14, 15} BY <2>1
    <2>3. IterKernels[n][1] \in {"noising", "blank", "search", "compare"} BY <1>3, <2>1
    <2>4. /\ n \in 1..3 => IterKernels[n][1] \in {"fill", "hash", "commit"}
          /\ n \in 4..7 => IterKernels[n][1] \in {"dense", "fp16"}
          /\ n \in 8..11 => IterKernels[n][1] \in {"zero", "sparse"}
          /\ n \in 12..13 => IterKernels[n][1] = "transpose"
          /\ n \in 14..15 => IterKernels[n][1] = "noising"
      BY <1>1, <2>2, NoiseKernelsAre
    <2> QED BY <2>1, <2>2, <2>3, <2>4
  <1>5. Here \in 1..15 \/ Here \in 16..Last BY <1>3 DEF Last
  <1>6. Last > 15 /\ Last \in Nat BY DEF Last
  <1> QED BY <1>2, <1>3, <1>4, <1>5, <1>6

(* What the noise kernels left, once the noising has started.              *)
LEMMA FactorsAre ==
  ASSUME DigestIsBytes, Inv, Iterating, Here \in 14..Last, NEW s \in Side
  PROVE  /\ \A i \in Below(Rows[s] * R) : dense[s][i] = DenseValue(s, i) /\ fp16[s][i] = DenseValue(s, i)
         /\ \A l \in Below(K), r \in Below(R) :
              /\ sparse[s][l * R + r] = IF r = K1(RowWord(s, l)) THEN -1
                                        ELSE IF r = K0(RowWord(s, l)) THEN 1 ELSE 0
              /\ kmajor[s][r * K + l] = sparse[s][l * R + r]
  <1>1. TypeInv /\ SideDone(s) /\ K \in Nat /\ R \in Nat \ {0} /\ path \in Paths
    BY Sizes DEF Inv, TypeInv
  <1>2. ASSUME NEW k \in Stages, k # "noising", NEW y PROVE Finished(Place(k, s), y)
    <2>1. Place(k, s) \in 4..13
      <3>1. s = "A" \/ s = "B" BY DEF Side
      <3> QED BY <1>2, <3>1 DEF Stages, Place
    <2> QED BY <2>1 DEF Finished
  <1>3. \A y : /\ Finished(Place("dense", s), y) /\ Finished(Place("fp16", s), y)
               /\ Finished(Place("zero", s), y) /\ Finished(Place("sparse", s), y)
               /\ Finished(Place("transpose", s), y)
    BY <1>2 DEF Stages
  <1>4. \A i \in Below(Rows[s] * R) : dense[s][i] = DenseValue(s, i) /\ fp16[s][i] = DenseValue(s, i)
    BY <1>1, <1>3 DEF SideDone, DenseDone, Fp16Done
  <1>5. \A i \in Below(K * R) : sparse[s][i] = SparseValue(s, i)
    BY <1>1, <1>3 DEF SideDone, SparseDone
  <1>6. \A i \in Below(K * R) : kmajor[s][i] = sparse[s][(i % K) * R + i \div K]
    BY <1>1, <1>3 DEF SideDone, TransposeDone
  <1>7. ASSUME NEW l \in Below(K), NEW r \in Below(R)
        PROVE  /\ sparse[s][l * R + r] = IF r = K1(RowWord(s, l)) THEN -1
                                         ELSE IF r = K0(RowWord(s, l)) THEN 1 ELSE 0
               /\ kmajor[s][r * K + l] = sparse[s][l * R + r]
    <2>1. /\ l * R + r \in Below(K * R)
          /\ (l * R + r) \div R = l /\ (l * R + r) % R = r
      BY <1>1, CellOf DEF Below
    <2>2. PICK i \in Below(K * R) : i = l * R + r BY <2>1
    <2>3. SparseValue(s, i) = IF r = K1(RowWord(s, l)) THEN -1
                              ELSE IF r = K0(RowWord(s, l)) THEN 1 ELSE 0
      BY <2>1, <2>2 DEF SparseValue
    <2>4. /\ r * K + l \in Below(R * K)
          /\ (r * K + l) \div K = r /\ (r * K + l) % K = l
      BY <1>1, CellOf DEF Below
    <2>5. R * K = K * R BY <1>1
    <2>6. PICK c \in Below(K * R) : c = r * K + l /\ c \div K = r /\ c % K = l BY <2>4, <2>5
    <2>7. kmajor[s][c] = sparse[s][l * R + r] BY <1>6, <2>6
    <2> QED BY <1>5, <2>2, <2>3, <2>6, <2>7
  <1> QED BY <1>4, <1>7

LEMMA FactorsFromInv ==
  ASSUME DigestIsBytes, Inv
  PROVE  FactorsDrawn
  <1> SUFFICES ASSUME Drawn, NEW s \in Side
               PROVE  /\ fp16[s] = dense[s]
                      /\ \A l \in Below(K) :
                           /\ \A v \in {1, -1} :
                                Cardinality({r \in Below(R) : sparse[s][l * R + r] = v}) = 1
                           /\ \A r \in Below(R) : kmajor[s][r * K + l] = sparse[s][l * R + r]
    BY DEF FactorsDrawn
  <1>1. Iterating /\ Here \in 14..Last BY Reached DEF Drawn
  <1>2. TypeInv /\ path \in Paths BY DEF Inv, TypeInv
  <1>3. fp16[s] = dense[s]
    <2>1. /\ dense[s] \in [Below(Rows[s] * R) -> (-32)..31]
          /\ fp16[s] \in [Below(Rows[s] * R) -> (-32)..31]
      BY <1>2 DEF TypeInv
    <2>2. \A i \in Below(Rows[s] * R) : dense[s][i] = fp16[s][i] BY <1>1, FactorsAre
    <2> QED BY <2>1, <2>2
  <1>4. ASSUME NEW l \in Below(K)
        PROVE  /\ \A v \in {1, -1} :
                    Cardinality({r \in Below(R) : sparse[s][l * R + r] = v}) = 1
               /\ \A r \in Below(R) : kmajor[s][r * K + l] = sparse[s][l * R + r]
    <2>1. PICK u : u = RowWord(s, l) OBVIOUS
    <2>2. K0(u) \in Below(R) /\ K1(u) \in Below(R) /\ K0(u) # K1(u)
      BY <1>2, <2>1, RowWordIs, ColumnsAre
    <2>3. \A r \in Below(R) :
            /\ sparse[s][l * R + r] = IF r = K1(u) THEN -1 ELSE IF r = K0(u) THEN 1 ELSE 0
            /\ kmajor[s][r * K + l] = sparse[s][l * R + r]
      BY <1>1, <2>1, FactorsAre
    <2>4. {r \in Below(R) : sparse[s][l * R + r] = 1} = {K0(u)} BY <2>2, <2>3
    <2>5. {r \in Below(R) : sparse[s][l * R + r] = -1} = {K1(u)} BY <2>2, <2>3
    <2>6. \A x : Cardinality({x}) = 1 BY FS_Singleton
    <2>7. ASSUME NEW v \in {1, -1}
          PROVE  Cardinality({r \in Below(R) : sparse[s][l * R + r] = v}) = 1
      <3>1. CASE v = 1
        <4>1. {r \in Below(R) : sparse[s][l * R + r] = v} = {K0(u)} BY <2>4, <3>1
        <4> QED BY <2>6, <4>1
      <3>2. CASE v = -1
        <4>1. {r \in Below(R) : sparse[s][l * R + r] = v} = {K1(u)} BY <2>5, <3>2
        <4> QED BY <2>6, <4>1
      <3> QED BY <2>7, <3>1, <3>2
    <2> QED BY <2>3, <2>7
  <1> QED BY <1>3, <1>4
-----------------------------------------------------------------------------
(* The noise drawn is the verifier's: the commitments are its seeds.       *)
LEMMA SeedsAre ==
  ASSUME Inv, Iterating, Here \in 14..Last, NEW s \in Side
  PROVE  \A slot : \A c \in Nat : Bytes(s, slot, c) = RandomHash(s, slot, c)
  <1>1. Finished(3, 0) BY DEF Finished
  <1>2. commit = [A |-> ANoiseSeed, B |-> BNoiseSeed] BY <1>1 DEF Inv, CommitDone
  <1>3. commit[s] = NoiseSeed(s) BY <1>2 DEF NoiseSeed, Side
  <1>4. ASSUME NEW slot, NEW c \in Nat PROVE Bytes(s, slot, c) = RandomHash(s, slot, c)
    <2>1. c + 1 = 1 + c OBVIOUS
    <2> QED BY <1>3, <2>1, Zenon DEF Bytes, RandomHash
  <1> QED BY <1>4

LEMMA UniformIs ==
  ASSUME DigestIsBytes, Inv, Iterating, Here \in 14..Last, NEW s \in Side,
         NEW i \in Below(Rows[s]), NEW j \in Below(R)
  PROVE  /\ i * R + j \in Below(Rows[s] * R)
         /\ Uniform(s)[i][j] = DenseValue(s, i * R + j)
  <1>1. TypeInv /\ path \in Paths BY DEF Inv, TypeInv
  <1>2. Rows[s] \in Nat /\ R \in Nat \ {0} BY <1>1, Sizes
  <1>3. i * R + j \in Below(Rows[s] * R) BY <1>2, CellOf DEF Below
  <1>4. PICK n \in Nat : n = Rows[s] * R BY <1>2
  <1>5. PICK x \in Nat : x = i * R + j /\ x \in Below(n) BY <1>3, <1>4 DEF Below
  <1>6. PICK b \in Nat \ {0} : b = HashBytes BY <1>1, Sizes
  <1>7. PICK c \in Nat : c = x \div b /\ x = c * b + (x % b) /\ x % b \in 0..(b - 1)
    <2>1. x \div b \in Nat /\ x = (x \div b) * b + (x % b) /\ x % b \in 0..(b - 1)
      BY <1>5, <1>6, DivIs
    <2> QED BY <2>1, Zenon
  <1>8. c \in Below(n \div HashBytes)
    <2>1. x \div HashBytes \in Work(<<"dense", s>>) BY <1>1, <1>4, <1>5, WorkCovers
    <2>2. Work(<<"dense", s>>) = Chunks(n) BY <1>4 DEF Work
    <2>3. n \div HashBytes \in Nat BY <1>4, <1>6, DivMod
    <2> QED BY <1>1, <1>6, <1>7, <2>1, <2>2, <2>3, ThreadsAre DEF Chunks
  <1>9. x - c * b = x % b
    <2>1. PICK m \in Nat : m = c * b BY <1>6, <1>7
    <2> QED BY <1>5, <1>7, <2>1
  <1>10. (x % b) + 1 \in 1..HashBytes BY <1>6, <1>7
  <1>11. PICK y \in 0..255 : y = RandomHash(s, 0, c)[(x % b) + 1]
    <2>1. salt \in Salts BY <1>1 DEF TypeInv
    <2>2. RandomHash(s, 0, c) \in [1..HashBytes -> 0..255]
      BY <2>1, Zenon DEF DigestIsBytes, RandomHash
    <2> QED BY <1>10, <2>2
  <1>12. DenseValue(s, x) = DenseByte(y)
    BY <1>6, <1>7, <1>9, <1>11, SeedsAre DEF DenseValue
  <1>13. DenseByte(y) = (y % 64) - 32 BY DEF DenseByte, Signed
  <1>14. Uniform(s)[i][j] = (RandomHash(s, 0, c)[(x % b) + 1] % 64) - 32
    <2> DEFINE hash == [d \in Below((Rows[s] * R) \div HashBytes) |-> RandomHash(s, 0, d)]
    <2>1. hash[c] = RandomHash(s, 0, c) BY <1>4, <1>8
    <2>2. Uniform(s)[i][j]
            = (hash[(i * R + j) \div HashBytes][((i * R + j) % HashBytes) + 1] % 64) - 32
      BY DEF Uniform
    <2> HIDE DEF hash
    <2> QED BY <1>5, <1>6, <1>7, <2>1, <2>2
  <1> QED BY <1>3, <1>5, <1>11, <1>12, <1>13, <1>14

LEMMA PermutationIs ==
  ASSUME DigestIsBytes, Inv, Iterating, Here \in 14..Last, NEW s \in Side, NEW l \in Below(K)
  PROVE  Permutation(s)[l] = <<K0(RowWord(s, l)), K1(RowWord(s, l))>>
  <1>1. TypeInv /\ path \in Paths /\ l \in Nat /\ K \in Nat
    <2>1. TypeInv /\ path \in Paths BY DEF Inv, TypeInv
    <2>2. K \in Nat BY <2>1, Sizes
    <2>3. l \in Nat BY <2>2 DEF Below
    <2> QED BY <2>1, <2>2, <2>3
  <1>2. PICK c \in Nat : c = l \div HashWords /\ c \in Below(Ceil(K, HashWords))
    <2>1. l \div HashWords \in Below(Ceil(K, HashWords)) BY <1>1, Sizes, CeilCovers
    <2>2. l \div HashWords \in Nat BY <1>1, Sizes, DivMod
    <2> QED BY <2>1, <2>2
  <1>3. PICK u : u = RowWord(s, l) OBVIOUS
  <1>4. u = Word(RandomHash(s, 1, c), l % HashWords)
    <2>1. l - c * HashWords = l % HashWords BY <1>1, <1>2, RowWordIs
    <2> QED BY <1>2, <1>3, <2>1, SeedsAre DEF RowWord
  <1>5. Permutation(s)[l] = <<u % R, BitXor(u % R, 1 + MulHi(R - 1, u))>>
    <2> DEFINE hash == [d \in Below(Ceil(K, HashWords)) |-> RandomHash(s, 1, d)]
    <2>1. hash[c] = RandomHash(s, 1, c) BY <1>2
    <2>2. Permutation(s)[l]
            = LET w == Word(hash[l \div HashWords], l % HashWords)
              IN  <<w % R, BitXor(w % R, 1 + MulHi(R - 1, w))>>
      BY DEF Permutation
    <2> HIDE DEF hash
    <2> QED BY <1>2, <1>4, <2>1, <2>2
  <1>6. K1(u) = BitXor(u % R, 1 + MulHi(R - 1, u)) BY <1>1, <1>3, RowWordIs, ColumnsAre
  <1> QED BY <1>3, <1>5, <1>6 DEF K0

(* The noise of a cell: the difference of two values of its row.           *)
StripCell(s, i, l) ==
  \E k0 \in Below(R), k1 \in Below(R), a \in (-32)..31, b \in (-32)..31 :
    /\ k0 # k1 /\ a = dense[s][i * R + k0] /\ b = dense[s][i * R + k1]
    /\ \A r \in Below(R) :
         sparse[s][l * R + r] = IF r = k1 THEN -1 ELSE IF r = k0 THEN 1 ELSE 0
    /\ Strip(s)[i][l] = matrix[s][i * K + l] + (a - b)

LEMMA StripIs ==
  ASSUME DigestIsBytes, Inv, Iterating, Here \in 14..Last, NEW s \in Side,
         NEW i \in Below(Rows[s]), NEW l \in Below(K)
  PROVE  StripCell(s, i, l)
  <1>1. TypeInv /\ path \in Paths BY DEF Inv, TypeInv
  <1>2. PICK u : u = RowWord(s, l) OBVIOUS
  <1>3. PICK k0 \in Below(R), k1 \in Below(R) : k0 = K0(u) /\ k1 = K1(u) /\ k0 # k1
    BY <1>1, <1>2, RowWordIs, ColumnsAre
  <1>4. \A r \in Below(R) :
          sparse[s][l * R + r] = IF r = k1 THEN -1 ELSE IF r = k0 THEN 1 ELSE 0
    BY <1>2, <1>3, FactorsAre
  <1>5. ASSUME NEW k \in Below(R)
        PROVE  Uniform(s)[i][k] = dense[s][i * R + k] /\ dense[s][i * R + k] \in (-32)..31
    <2>1. /\ i * R + k \in Below(Rows[s] * R)
          /\ Uniform(s)[i][k] = DenseValue(s, i * R + k)
      BY UniformIs
    <2>2. PICK x \in Below(Rows[s] * R) : x = i * R + k BY <2>1
    <2>3. dense[s][x] = DenseValue(s, x) BY FactorsAre
    <2>4. dense[s][x] \in (-32)..31 BY <1>1 DEF TypeInv
    <2> QED BY <2>1, <2>2, <2>3, <2>4
  <1>6. PICK a \in (-32)..31, b \in (-32)..31 :
          a = dense[s][i * R + k0] /\ b = dense[s][i * R + k1]
    BY <1>5
  <1>7. Permutation(s)[l] = <<k0, k1>> BY <1>2, <1>3, PermutationIs
  <1>8. Noise(s)[i][l] = a - b
    <2> DEFINE v == Uniform(s)   perm == Permutation(s)
    <2>1. v[i][k0] = a /\ v[i][k1] = b BY <1>5, <1>6
    <2>2. perm[l][1] = k0 /\ perm[l][2] = k1 BY <1>7
    <2> HIDE DEF v, perm
    <2>3. Noise(s) = [x \in Below(Rows[s]) |-> [y \in Below(K) |-> v[x][perm[y][1]] - v[x][perm[y][2]]]]
      BY DEF Noise, v, perm
    <2>4. Noise(s)[i][l] = v[i][perm[l][1]] - v[i][perm[l][2]] BY <2>3
    <2>5. v[i][perm[l][1]] = a /\ v[i][perm[l][2]] = b BY <2>1, <2>2, Zenon
    <2> QED BY <2>4, <2>5
  <1>9. Strip(s)[i][l] = matrix[s][i * K + l] + (a - b)
    <2> DEFINE noise == Noise(s)
    <2>1. noise[i][l] = a - b BY <1>8
    <2> HIDE DEF noise
    <2>2. Strip(s) = [x \in Below(Rows[s]) |-> [y \in Below(K) |-> matrix[s][x * K + y] + noise[x][y]]]
      BY DEF Strip, noise
    <2> QED BY <2>1, <2>2
  <1> QED BY <1>3, <1>4, <1>6, <1>9 DEF StripCell

(* What the noising leaves is the verifier's operand: it never wraps.      *)
LEMMA NoisedIs ==
  ASSUME DigestIsBytes, Inv, Iterating, Here \in 16..Last, NEW s \in Side,
         NEW i \in Below(Rows[s]), NEW l \in Below(K)
  PROVE  /\ noised[s][i * K + l] = Strip(s)[i][l] /\ matrix[s][i * K + l] \in (-63)..63
         /\ i * K + l \in Below(Rows[s] * K)
  <1>1. TypeInv /\ path \in Paths /\ Here \in 14..Last BY DEF Inv, TypeInv
  <1>2. Rows[s] \in Nat /\ K \in Nat /\ R \in Nat \ {0} BY <1>1, Sizes
  <1>3. /\ i * K + l \in Below(Rows[s] * K)
        /\ (i * K + l) \div K = i /\ (i * K + l) % K = l
    BY <1>2, CellOf DEF Below
  <1>4. PICK c \in Below(Rows[s] * K) : c = i * K + l /\ c \div K = i /\ c % K = l BY <1>3
  <1>5. PICK m \in (-63)..63 : m = matrix[s][c] BY <1>1, <1>4 DEF TypeInv
  <1>6. noised[s][c] = Wrap8(m + Dot(dense[s], i, sparse[s], l))
    <2>1. \A y : Finished(Place("noising", s), y)
      <3>1. Place("noising", s) \in 14..15
        <4>1. s = "A" \/ s = "B" BY DEF Side
        <4> QED BY <4>1 DEF Place
      <3> QED BY <3>1 DEF Finished
    <2>2. NoisingDone(s) BY DEF Inv, SideDone
    <2> QED BY <1>4, <1>5, <2>1, <2>2 DEF NoisingDone
  <1>7. PICK k0 \in Below(R), k1 \in Below(R), a \in (-32)..31, b \in (-32)..31 :
          /\ k0 # k1 /\ a = dense[s][i * R + k0] /\ b = dense[s][i * R + k1]
          /\ \A r \in Below(R) :
               sparse[s][l * R + r] = IF r = k1 THEN -1 ELSE IF r = k0 THEN 1 ELSE 0
          /\ Strip(s)[i][l] = matrix[s][i * K + l] + (a - b)
    <2>1. StripCell(s, i, l) BY <1>1, StripIs
    <2> QED BY <2>1, Zenon DEF StripCell
  <1>8. Dot(dense[s], i, sparse[s], l) = a - b
    <2> DEFINE f == [r \in Below(R) |-> dense[s][i * R + r] * sparse[s][l * R + r]]
    <2>1. f[k0] = a /\ f[k1] = -b
      <3>1. a * 1 = a /\ b * (-1) = -b OBVIOUS
      <3> QED BY <1>7, <3>1
    <2>2. ASSUME NEW r \in 0..(R - 1), r # k0, r # k1 PROVE f[r] = 0
      <3>1. r \in Below(R) BY DEF Below
      <3>2. sparse[s][l * R + r] = 0 BY <1>7, <2>2, <3>1
      <3>3. PICK d \in (-32)..31 : d = dense[s][i * R + r]
        <4>1. i * R + r \in Below(Rows[s] * R) BY <1>2, CellOf DEF Below
        <4>2. dense[s] \in [Below(Rows[s] * R) -> (-32)..31] BY <1>1 DEF TypeInv
        <4> QED BY <4>1, <4>2
      <3>4. d * 0 = 0 OBVIOUS
      <3> QED BY <3>1, <3>2, <3>3, <3>4
    <2> HIDE DEF f
    <2>3. R \in Nat /\ k0 \in 0..(R - 1) /\ k1 \in 0..(R - 1) BY <1>2 DEF Below
    <2>4. Sum(f, R) = f[k0] + f[k1]
      <3>1. f[k0] \in Int /\ f[k1] \in Int BY <2>1
      <3> QED BY <1>7, <2>2, <2>3, <3>1, SumOfTwo
    <2> QED BY <2>1, <2>4 DEF Dot, f
  <1>9. Wrap8(m + (a - b)) = m + (a - b)
    <2>1. PICK e \in 0..255 : e = m + (a - b) + 128 OBVIOUS
    <2>2. e % 256 = e OBVIOUS
    <2> QED BY <2>1, <2>2 DEF Wrap8
  <1> QED BY <1>3, <1>4, <1>5, <1>6, <1>7, <1>8, <1>9

LEMMA OperandsFromInv ==
  ASSUME DigestIsBytes, Inv
  PROVE  OperandsAreTheVerifiers
  <1> SUFFICES ASSUME Searching, NEW s \in Side, NEW i \in Below(Rows[s]), NEW l \in Below(K)
               PROVE  /\ noised[s][i * K + l] = Strip(s)[i][l]
                      /\ matrix[s][i * K + l] \in (-64)..64
    BY DEF OperandsAreTheVerifiers
  <1>1. Iterating /\ Here \in 16..Last BY Reached DEF Searching
  <1>2. noised[s][i * K + l] = Strip(s)[i][l] /\ matrix[s][i * K + l] \in (-63)..63
    BY <1>1, NoisedIs
  <1> QED BY <1>2
-----------------------------------------------------------------------------
(* The transcripts: what the recursive definitions of the search and of    *)
(* the verifier compute, step by step.                                     *)
Words(f, c, w, n) ==
  f = [t \in 0..n |-> IF t = 0 THEN 0
                      ELSE IF t \in TileSlots(w) THEN BitXor(Rotated(f[t - 1]), XorTile(c, t * R))
                      ELSE f[t - 1]]
JackpotTile(c, upTo) ==
  XorAll([ij \in c[1] \X c[2] |->
            Sum([l \in Below(upTo) |-> Strip("A")[ij[1]][l] * Strip("B")[ij[2]][l]], upTo)
              % AccRange])
Messages(m, c, n) ==
  m = [t \in 0..n |-> IF t = 0 THEN NoTranscript
                      ELSE [m[t - 1] EXCEPT ![(t - 1) % JackpotSize]
                                              = BitXor(Rotl(@, Lrot), JackpotTile(c, t * R))]]

LEMMA WordsUpTo ==
  ASSUME NEW c, NEW w, NEW n \in Nat
  PROVE  \E f : Words(f, c, w, n)
  <1> DEFINE S == {m \in Nat : \E f : Words(f, c, w, m)}
  <1>1. 0 \in S
    <2> DEFINE f == [t \in 0..0 |-> 0]
    <2>1. f = [t \in 0..0 |-> IF t = 0 THEN 0
                ELSE IF t \in TileSlots(w) THEN BitXor(Rotated(f[t - 1]), XorTile(c, t * R))
                ELSE f[t - 1]]
      OBVIOUS
    <2>2. Words(f, c, w, 0) BY <2>1 DEF Words
    <2> QED BY <2>2
  <1>2. ASSUME NEW m \in S PROVE m + 1 \in S
    <2>1. PICK f : Words(f, c, w, m) OBVIOUS
    <2>2. m \in Nat OBVIOUS
    <2> DEFINE F(g, t) ==
                 IF t = 0 THEN 0
                 ELSE IF t \in TileSlots(w) THEN BitXor(Rotated(g[t - 1]), XorTile(c, t * R))
                 ELSE g[t - 1]
               h == [t \in 0..(m + 1) |-> IF t = m + 1 THEN F(f, t) ELSE f[t]]
    <2>3. ASSUME NEW t \in 0..(m + 1) PROVE h[t] = F(h, t)
      <3>1. CASE t = 0
        <4>1. t \in 0..m /\ t # m + 1 BY <3>1, <2>2
        <4>2. f[t] = 0 BY <2>1, <3>1, <4>1 DEF Words
        <4> QED BY <3>1, <4>1, <4>2
      <3>2. CASE t # 0
        <4>1. t - 1 \in 0..m /\ t - 1 \in 0..(m + 1) /\ t - 1 # m + 1 BY <3>2, <2>2
        <4>2. h[t - 1] = f[t - 1] BY <4>1
        <4>3. F(h, t) = F(f, t) BY <3>2, <4>2
        <4>4. t # m + 1 => f[t] = F(f, t)
          <5> SUFFICES ASSUME t # m + 1 PROVE f[t] = F(f, t) OBVIOUS
          <5>1. t \in 0..m BY <2>2
          <5> QED BY <2>1, <5>1 DEF Words
        <4> QED BY <4>3, <4>4
      <3> QED BY <3>1, <3>2
    <2>4. h = [t \in 0..(m + 1) |-> F(h, t)] BY <2>3
    <2>5. Words(h, c, w, m + 1) BY <2>4, Zenon DEF Words
    <2> QED BY <2>2, <2>5
  <1> HIDE DEF S
  <1>3. S = Nat BY <1>1, <1>2, InductionOn DEF S
  <1> QED BY <1>3 DEF S

LEMMA MessagesUpTo ==
  ASSUME NEW c, NEW n \in Nat
  PROVE  \E m : Messages(m, c, n)
  <1> DEFINE S == {k \in Nat : \E m : Messages(m, c, k)}
  <1>1. 0 \in S
    <2> DEFINE m == [t \in 0..0 |-> NoTranscript]
    <2>1. m = [t \in 0..0 |-> IF t = 0 THEN NoTranscript
                ELSE [m[t - 1] EXCEPT ![(t - 1) % JackpotSize]
                                        = BitXor(Rotl(@, Lrot), JackpotTile(c, t * R))]]
      OBVIOUS
    <2>2. Messages(m, c, 0) BY <2>1 DEF Messages
    <2> QED BY <2>2
  <1>2. ASSUME NEW k \in S PROVE k + 1 \in S
    <2>1. PICK m : Messages(m, c, k) OBVIOUS
    <2>2. k \in Nat OBVIOUS
    <2> DEFINE G(x, t) ==
                 [x EXCEPT ![(t - 1) % JackpotSize] = BitXor(Rotl(@, Lrot), JackpotTile(c, t * R))]
               F(g, t) == IF t = 0 THEN NoTranscript ELSE G(g[t - 1], t)
               h == [t \in 0..(k + 1) |-> IF t = k + 1 THEN F(m, t) ELSE m[t]]
    <2>3. ASSUME NEW t \in 0..(k + 1) PROVE h[t] = F(h, t)
      <3>1. CASE t = 0
        <4>1. t \in 0..k /\ t # k + 1 BY <3>1, <2>2
        <4>2. m[t] = NoTranscript BY <2>1, <3>1, <4>1 DEF Messages
        <4> QED BY <3>1, <4>1, <4>2
      <3>2. CASE t # 0
        <4>1. t - 1 \in 0..k /\ t - 1 \in 0..(k + 1) /\ t - 1 # k + 1 BY <3>2, <2>2
        <4>2. h[t - 1] = m[t - 1] BY <4>1
        <4>3. F(h, t) = F(m, t)
          <5> HIDE DEF G, h
          <5> QED BY <3>2, <4>2
        <4>4. t # k + 1 => m[t] = F(m, t)
          <5> SUFFICES ASSUME t # k + 1 PROVE m[t] = F(m, t) OBVIOUS
          <5>1. t \in 0..k BY <2>2
          <5> QED BY <2>1, <5>1 DEF Messages
        <4> QED BY <4>3, <4>4
      <3> QED BY <3>1, <3>2
    <2>4. h = [t \in 0..(k + 1) |-> F(h, t)] BY <2>3
    <2>5. Messages(h, c, k + 1) BY <2>4, Zenon DEF Messages
    <2> QED BY <2>2, <2>5
  <1> HIDE DEF S
  <1>3. S = Nat BY <1>1, <1>2, InductionOn DEF S
  <1> QED BY <1>3 DEF S

(* The search's word after each tile, from the word before it.             *)
WordFollows(f, c, w, n) ==
  /\ f[0] = 0 /\ SearchWord(c, w) = f[n]
  /\ \A t \in 0..(n - 1) :
       f[t + 1] = IF t + 1 \in TileSlots(w)
                  THEN BitXor(Rotated(f[t]), XorTile(c, (t + 1) * R)) ELSE f[t]

LEMMA SearchWordSteps ==
  ASSUME NEW c, NEW w, NEW n \in Nat, n = K \div R
  PROVE  \E f : WordFollows(f, c, w, n)
  <1> DEFINE f == CHOOSE f : Words(f, c, w, n)
  <1>1. Words(f, c, w, n) BY WordsUpTo
  <1>2. SearchWord(c, w) = f[n] BY DEF SearchWord, Words
  <1> HIDE DEF f
  <1>3. f[0] = 0 BY <1>1 DEF Words
  <1>4. ASSUME NEW t \in 0..(n - 1)
        PROVE  f[t + 1] = IF t + 1 \in TileSlots(w)
                          THEN BitXor(Rotated(f[t]), XorTile(c, (t + 1) * R)) ELSE f[t]
    <2>1. PICK u \in 0..n : u = t + 1 /\ u # 0 /\ u - 1 = t OBVIOUS
    <2>2. f[u] = IF u \in TileSlots(w)
                 THEN BitXor(Rotated(f[u - 1]), XorTile(c, u * R)) ELSE f[u - 1]
      BY <1>1, <2>1 DEF Words
    <2> QED BY <2>1, <2>2
  <1>5. WordFollows(f, c, w, n) BY <1>2, <1>3, <1>4 DEF WordFollows
  <1> QED BY <1>5

LEMMA SlotIs ==
  ASSUME NEW w, NEW n \in Nat, n = K \div R, NEW t \in 0..(n - 1)
  PROVE  t + 1 \in TileSlots(w) <=> t % JackpotSize = w
  <1>1. PICK u : u = t + 1 /\ u \in 1..n /\ u - 1 = t OBVIOUS
  <1>2. u \in TileSlots(w) <=> (u - 1) % JackpotSize = w BY <1>1, Zenon DEF TileSlots
  <1> QED BY <1>1, <1>2

LEMMA JackpotSteps ==
  ASSUME NEW c, NEW n \in Nat, n = K \div R
  PROVE  \E m : /\ m[0] = NoTranscript /\ Jackpot(c) = m[n]
                /\ \A t \in 0..(n - 1) :
                     m[t + 1] = [m[t] EXCEPT ![t % JackpotSize]
                                   = BitXor(Rotl(@, Lrot), JackpotTile(c, (t + 1) * R))]
  <1> DEFINE m == CHOOSE m : Messages(m, c, n)
  <1>1. Messages(m, c, n) BY MessagesUpTo
  <1>2. Jackpot(c) = m[n] BY DEF Jackpot, Messages, JackpotTile
  <1> HIDE DEF m
  <1>3. m[0] = NoTranscript BY <1>1 DEF Messages
  <1>4. ASSUME NEW t \in 0..(n - 1)
        PROVE  m[t + 1] = [m[t] EXCEPT ![t % JackpotSize]
                             = BitXor(Rotl(@, Lrot), JackpotTile(c, (t + 1) * R))]
    <2>1. PICK u \in 0..n : u = t + 1 /\ u # 0 /\ u - 1 = t OBVIOUS
    <2>2. m[u] = [m[u - 1] EXCEPT ![(u - 1) % JackpotSize]
                                    = BitXor(Rotl(@, Lrot), JackpotTile(c, u * R))]
      BY <1>1, <2>1 DEF Messages
    <2> QED BY <2>1, <2>2
  <1> QED BY <1>2, <1>3, <1>4

(* The tiles of the search are the verifier's.                             *)
LEMMA TilesAre ==
  ASSUME DigestIsBytes, Inv, Iterating, Here \in 16..Last, NEW c \in Candidates[path],
         NEW n \in Nat, n <= K
  PROVE  XorTile(c, n) = JackpotTile(c, n)
  <1>1. /\ path \in Paths /\ K \in Nat /\ "A" \in Side /\ "B" \in Side
    BY Sizes DEF Inv, TypeInv, Side
  <1>2. c[1] \subseteq Below(Rows["A"]) /\ c[2] \subseteq Below(Rows["B"])
    <2>1. c \in (SUBSET (0..(Rows["A"] - 1))) \X (SUBSET (0..(Rows["B"] - 1)))
      BY <1>1, NoisePipelineAssumption
    <2> QED BY <2>1 DEF Below
  <1>3. ASSUME NEW i \in c[1], NEW j \in c[2]
        PROVE  Accumulator(i, j, n)
                 = Sum([l \in Below(n) |-> Strip("A")[i][l] * Strip("B")[j][l]], n) % AccRange
    <2>1. \A l \in Below(n) : l \in Below(K) BY <1>1 DEF Below
    <2>2. \A l \in Below(n) : /\ noised["A"][i * K + l] = Strip("A")[i][l]
                              /\ noised["B"][j * K + l] = Strip("B")[j][l]
      BY <1>1, <1>2, <2>1, NoisedIs
    <2>3. [l \in Below(n) |-> noised["A"][i * K + l] * noised["B"][j * K + l]]
            = [l \in Below(n) |-> Strip("A")[i][l] * Strip("B")[j][l]]
      BY <2>2
    <2> QED BY <2>3 DEF Accumulator
  <1>4. \A ij \in c[1] \X c[2] :
          Accumulator(ij[1], ij[2], n)
            = Sum([l \in Below(n) |-> Strip("A")[ij[1]][l] * Strip("B")[ij[2]][l]], n) % AccRange
    <2> SUFFICES ASSUME NEW ij \in c[1] \X c[2]
                 PROVE  Accumulator(ij[1], ij[2], n)
                          = Sum([l \in Below(n) |-> Strip("A")[ij[1]][l] * Strip("B")[ij[2]][l]], n)
                              % AccRange
      OBVIOUS
    <2>1. ij[1] \in c[1] /\ ij[2] \in c[2] OBVIOUS
    <2> QED BY <1>3, <2>1, Zenon
  <1>5. [ij \in c[1] \X c[2] |-> Accumulator(ij[1], ij[2], n)]
          = [ij \in c[1] \X c[2] |->
               Sum([l \in Below(n) |-> Strip("A")[ij[1]][l] * Strip("B")[ij[2]][l]], n) % AccRange]
    BY <1>4, Zenon
  <1> QED BY <1>5, Zenon DEF XorTile, JackpotTile

(* Each word of a transcript is the verifier's: where the Triton search    *)
(* does not rotate, the word is still zero.                                *)
LEMMA TranscriptIs ==
  ASSUME DigestIsBytes, Inv, Iterating, Here \in 16..Last, NEW c \in Candidates[path]
  PROVE  SearchTranscript(c) = Jackpot(c)
  <1>1. path \in Paths /\ path \in {"CppSearch", "TritonNorotl"} BY Sizes DEF Inv, TypeInv
  <1>2. /\ K \in Nat /\ R \in Nat \ {0} /\ K % R = 0 /\ JackpotSize \in Nat \ {0}
        /\ path = "TritonNorotl" => K = R * JackpotSize
    BY <1>1, Sizes
  <1>3. PICK n \in Nat : n = K \div R /\ K = n * R BY <1>2, Exact
  <1>4. PICK J \in Nat \ {0} : J = JackpotSize BY <1>2
  <1>5. path = "TritonNorotl" => n = J
    <2> SUFFICES ASSUME K = R * J PROVE n = J BY <1>2, <1>4
    <2>1. (J * R + 0) \div R = J /\ J * R + 0 = R * J BY <1>2, <1>4, SplitIs
    <2> QED BY <1>3, <2>1
  <1>6. PICK m : /\ m[0] = NoTranscript /\ Jackpot(c) = m[n]
                 /\ \A t \in 0..(n - 1) :
                      m[t + 1] = [m[t] EXCEPT ![t % JackpotSize]
                                    = BitXor(Rotl(@, Lrot), JackpotTile(c, (t + 1) * R))]
    BY <1>3, JackpotSteps
  <1>7. \A t \in 0..(n - 1) : XorTile(c, (t + 1) * R) = JackpotTile(c, (t + 1) * R)
    <2> SUFFICES ASSUME NEW t \in 0..(n - 1)
                 PROVE  XorTile(c, (t + 1) * R) = JackpotTile(c, (t + 1) * R)
      OBVIOUS
    <2>1. t + 1 \in Nat /\ t + 1 <= n OBVIOUS
    <2>2. (t + 1) * R <= n * R BY <1>2, <2>1, TimesMonotone
    <2>3. (t + 1) * R \in Nat BY <1>2, <2>1
    <2>4. PICK u \in Nat : u = (t + 1) * R /\ u <= K BY <1>3, <2>2, <2>3
    <2> QED BY <2>4, TilesAre
  <1>8. Rotl(0, Lrot) = 0
    <2>1. Lrot \in Nat /\ AccBits \in Nat /\ AccBits - Lrot \in Nat BY NoisePipelineAssumption
    <2>2. PICK p \in Nat, q \in Nat \ {0}, a \in Nat \ {0} :
            p = Pow2[Lrot] /\ q = Pow2[AccBits - Lrot] /\ a = AccRange
      BY <2>1, Pow2Positive DEF AccRange
    <2>3. 0 * p = 0 /\ 0 % a = 0 /\ 0 \div q = 0
      <3>1. (0 * a + 0) % a = 0 /\ (0 * q + 0) \div q = 0 BY <2>2, SplitIs
      <3> QED BY <2>2, <3>1
    <2> QED BY <2>2, <2>3 DEF Rotl
  <1>9. \A t \in 0..n : m[t] = [x \in Below(JackpotSize) |-> m[t][x]]
    <2> DEFINE S == {t \in Nat : t <= n => m[t] = [x \in Below(JackpotSize) |-> m[t][x]]}
    <2>1. 0 \in S BY <1>6 DEF NoTranscript
    <2>2. ASSUME NEW t \in S PROVE t + 1 \in S
      <3>1. t \in Nat /\ (t <= n => m[t] = [x \in Below(JackpotSize) |-> m[t][x]]) OBVIOUS
      <3> SUFFICES ASSUME t + 1 <= n PROVE m[t + 1] = [x \in Below(JackpotSize) |-> m[t + 1][x]]
        BY <3>1
      <3> HIDE DEF S
      <3>2. t \in 0..(n - 1) /\ DOMAIN m[t] = Below(JackpotSize)
        <4>1. m[t] = [x \in Below(JackpotSize) |-> m[t][x]] BY <3>1
        <4> QED BY <3>1, <4>1
      <3> QED BY <1>6, <3>2
    <2> HIDE DEF S
    <2>3. S = Nat BY <2>1, <2>2, InductionOn DEF S
    <2> QED BY <2>3 DEF S
  <1>10. ASSUME NEW w \in Below(JackpotSize) PROVE m[n][w] = SearchWord(c, w)
    <2>1. n \in Nat /\ n = K \div R BY <1>3
    <2>2. PICK f : /\ f[0] = 0 /\ SearchWord(c, w) = f[n]
                   /\ \A t \in 0..(n - 1) :
                        f[t + 1] = IF t + 1 \in TileSlots(w)
                                   THEN BitXor(Rotated(f[t]), XorTile(c, (t + 1) * R)) ELSE f[t]
      <3>1. \E f : WordFollows(f, c, w, n) BY <2>1, SearchWordSteps
      <3> QED BY <3>1 DEF WordFollows
    <2> DEFINE Good(t) == m[t][w] = f[t] /\ (path = "TritonNorotl" /\ t <= w => f[t] = 0)
               S == {t \in Nat : t <= n => Good(t)}
    <2>3. 0 \in S BY <1>6, <2>2 DEF NoTranscript
    <2>4. ASSUME NEW t \in S PROVE t + 1 \in S
      <3>1. t \in Nat /\ (t <= n => Good(t)) OBVIOUS
      <3> SUFFICES ASSUME t + 1 <= n PROVE Good(t + 1) BY <3>1
      <3> HIDE DEF S
      <3>2. t \in 0..(n - 1) /\ Good(t) BY <3>1
      <3>3. PICK v : v = JackpotTile(c, (t + 1) * R) /\ v = XorTile(c, (t + 1) * R)
        BY <1>7, <3>2
      <3>4. PICK k \in Below(JackpotSize) : k = t % JackpotSize
        <4>1. t % J \in 0..(J - 1) BY <1>4, <3>1, DivIs
        <4> QED BY <1>4, <4>1 DEF Below
      <3>5. m[t + 1] = [m[t] EXCEPT ![k] = BitXor(Rotl(m[t][k], Lrot), v)]
        BY <1>6, <3>2, <3>3, <3>4
      <3>6. t + 1 \in TileSlots(w) <=> k = w
        <4>1. t \in 0..((K \div R) - 1) BY <1>3, <3>2
        <4>2. t + 1 \in TileSlots(w) <=> t % JackpotSize = w BY <1>3, <4>1, SlotIs
        <4> QED BY <3>4, <4>2
      <3>7. f[t + 1] = IF k = w THEN BitXor(Rotated(f[t]), v) ELSE f[t]
        BY <2>2, <3>2, <3>3, <3>6
      <3>8. path = "TritonNorotl" => k = t
        <4> SUFFICES ASSUME path = "TritonNorotl" PROVE k = t OBVIOUS
        <4>1. t \in 0..(J - 1) BY <1>5, <3>2
        <4>2. (0 * J + t) % J = t /\ 0 * J + t = t BY <1>4, <4>1, SplitIs
        <4> QED BY <1>4, <3>4, <4>2
      <3>9. k = w => Rotated(f[t]) = Rotl(f[t], Lrot)
        <4>1. CASE path = "CppSearch" BY <4>1 DEF Rotated
        <4>2. CASE path = "TritonNorotl" /\ k = w
          <5>1. f[t] = 0
            <6>1. t = w /\ t <= w BY <3>1, <3>8, <4>2
            <6> QED BY <3>2, <4>2, <6>1
          <5>2. path # "CppSearch" BY <4>2
          <5> QED BY <1>8, <5>1, <5>2 DEF Rotated
        <4> QED BY <1>1, <4>1, <4>2
      <3>10. m[t + 1][w] = f[t + 1]
        <4>1. m[t] = [x \in Below(JackpotSize) |-> m[t][x]] BY <1>9, <3>2
        <4>2. DOMAIN m[t] = Below(JackpotSize) BY <4>1
        <4>3. m[t + 1][w] = IF k = w THEN BitXor(Rotl(m[t][w], Lrot), v) ELSE m[t][w]
          BY <3>5, <4>2
        <4> QED BY <3>2, <3>7, <3>9, <4>3
      <3>11. path = "TritonNorotl" /\ t + 1 <= w => f[t + 1] = 0
        <4> SUFFICES ASSUME path = "TritonNorotl", t + 1 <= w PROVE f[t + 1] = 0 OBVIOUS
        <4>1. w \in Nat /\ t <= w /\ t # w BY <1>4, <3>1 DEF Below
        <4> QED BY <3>2, <3>7, <3>8, <4>1
      <3> QED BY <3>10, <3>11
    <2> HIDE DEF S
    <2>5. S = Nat BY <2>3, <2>4, InductionOn DEF S
    <2>6. Good(n) BY <2>5 DEF S
    <2> QED BY <2>2, <2>6
  <1>11. m[n] = [w \in Below(JackpotSize) |-> SearchWord(c, w)]
    <2>1. m[n] = [w \in Below(JackpotSize) |-> m[n][w]] BY <1>9
    <2> QED BY <1>10, <2>1
  <1> QED BY <1>6, <1>11 DEF SearchTranscript

LEMMA JackpotsFromInv ==
  ASSUME DigestIsBytes, Inv
  PROVE  JackpotsAreTheVerifiers
  <1> SUFFICES ASSUME Ended, NEW c \in Candidates[path]
               PROVE  hashed[c] = <<ANoiseSeed, Jackpot(c)>>
    BY DEF JackpotsAreTheVerifiers
  <1>1. path \in {"CppSearch", "TritonNorotl"} /\ TypeInv BY DEF Inv, StreamInv
  <1>2. Len(IterKernels) = Last /\ Last \in 16..18 BY <1>1, KernelsSeq DEF Last
  <1>3. /\ stream = << IterKernels[Last] >> /\ todo = {} /\ stream # <<>> /\ Len(stream) = 1
        /\ Head(stream) = IterKernels[Last]
    BY <1>2 DEF Ended
  <1>4. IterKernels[Last][1] \in {"search", "compare"}
    <2>1. Last \in 16..Last BY <1>2
    <2> QED BY <1>1, <2>1, SearchKernelsAre DEF Last
  <1>5. Iterating
    <2>1. Head(stream)[1] \in {"noising", "blank", "search", "compare"} BY <1>3, <1>4
    <2> QED BY <1>3, <2>1, Reached
  <1>6. Here = Last BY <1>2, <1>3 DEF Here
  <1>7. \A q \in 1..Last : \A y : Finished(q, y) BY <1>2, <1>3, <1>6 DEF Finished
  <1>8. PowKey = ANoiseSeed
    <2>1. Finished(3, 0) BY <1>2, <1>7
    <2>2. commit = [A |-> ANoiseSeed, B |-> BNoiseSeed] BY <1>5, <2>1 DEF Inv, CommitDone
    <2> QED BY <2>2 DEF PowKey
  <1>9. SearchTranscript(c) = Jackpot(c)
    <2>1. Here \in 16..Last BY <1>2, <1>6
    <2> QED BY <1>5, <2>1, TranscriptIs
  <1>10. IF path = "CppSearch" THEN hashed[c] = <<PowKey, SearchTranscript(c)>>
         ELSE transcript[c] = SearchTranscript(c)
    <2>1. Place("search", "A") = (IF path = "CppSearch" THEN 16 ELSE 17) BY DEF Place
    <2>2. Place("search", "A") \in 1..Last BY <1>1, <2>1 DEF Last
    <2>3. Finished(Place("search", "A"), c) BY <1>7, <2>2
    <2> QED BY <1>5, <2>3 DEF Inv, SearchDone
  <1>11. path = "TritonNorotl" => hashed[c] = <<PowKey, transcript[c]>>
    <2> SUFFICES ASSUME path = "TritonNorotl" PROVE hashed[c] = <<PowKey, transcript[c]>> OBVIOUS
    <2>1. Place("compare", "A") = 18 BY DEF Place
    <2>2. Last = 18
      <3>1. path # "CppSearch" OBVIOUS
      <3> QED BY <3>1 DEF Last
    <2>3. Finished(Place("compare", "A"), c) BY <1>7, <2>1, <2>2
    <2> QED BY <1>5, <2>3 DEF Inv, CompareDone
  <1> QED BY <1>1, <1>8, <1>9, <1>10, <1>11
-----------------------------------------------------------------------------
(* Every row of a sparse factor has one +1 and one -1, and the copies in   *)
(* the other layouts are the same factors, once the noising runs: whatever *)
(* the buffers held, and in whatever order the threads ran.                *)
THEOREM FactorsAreDrawn == DigestIsBytes => (Spec => []FactorsDrawn)
  <1> SUFFICES ASSUME DigestIsBytes PROVE Spec => []FactorsDrawn OBVIOUS
  <1>1. Inv => FactorsDrawn BY FactorsFromInv
  <1>2. Spec => []Inv BY Invariant
  <1> QED BY <1>1, <1>2, PTL

(* The search works on this job's and iteration's matrices plus the noise  *)
(* the verifier draws, cell by cell, with nothing wrapped in int8.         *)
THEOREM OperandsAreVerified == DigestIsBytes => (Spec => []OperandsAreTheVerifiers)
  <1> SUFFICES ASSUME DigestIsBytes PROVE Spec => []OperandsAreTheVerifiers OBVIOUS
  <1>1. Inv => OperandsAreTheVerifiers BY OperandsFromInv
  <1>2. Spec => []Inv BY Invariant
  <1> QED BY <1>1, <1>2, PTL

(* Every candidate is hashed from the key and the block the verifier       *)
(* recomputes, by the search that rotates and by the one that does not.    *)
THEOREM JackpotsAreVerified == DigestIsBytes => (Spec => []JackpotsAreTheVerifiers)
  <1> SUFFICES ASSUME DigestIsBytes PROVE Spec => []JackpotsAreTheVerifiers OBVIOUS
  <1>1. Inv => JackpotsAreTheVerifiers BY JackpotsFromInv
  <1>2. Spec => []Inv BY Invariant
  <1> QED BY <1>1, <1>2, PTL
=============================================================================
