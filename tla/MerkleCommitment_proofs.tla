---------------------- MODULE MerkleCommitment_proofs ----------------------
(***************************************************************************)
(* Proofs about MerkleCommitment, for matrices of any number of chunks.    *)
(***************************************************************************)
EXTENDS MerkleCommitment, FiniteSetTheorems, SequenceTheorems, NumberLemmas, TLAPS

(* The left part of a subtree.                                             *)
LEMMA LeftSizeIs ==
  ASSUME NEW n \in Nat, NEW e \in Nat, Pow2[e] < n, n <= 2 * Pow2[e]
  PROVE  LeftSize(n) = Pow2[e]
  <1> DEFINE F == {Pow2[x] : x \in 0..n}
  <1>1. Pow2[e] \in F BY Pow2Positive
  <1>2. ASSUME NEW p \in F, p < n, n <= 2 * p PROVE p = Pow2[e]
    <2>1. PICK x \in Nat : p = Pow2[x] OBVIOUS
    <2>2. Pow2[x] \in Nat /\ Pow2[e] \in Nat BY Pow2Def
    <2>3. ~(x < e) /\ ~(e < x) BY <1>2, <2>1, <2>2, Pow2Monotone
    <2> QED BY <2>1, <2>3
  <1> HIDE DEF F
  <1>3. \E p \in F : p < n /\ n <= 2 * p BY <1>1
  <1>4. LeftSize(n) = CHOOSE p \in F : p < n /\ n <= 2 * p BY DEF LeftSize, F
  <1> QED BY <1>2, <1>3, <1>4

(* Every size above one has a left part.                                   *)
LEMMA LeftSizeExists ==
  ASSUME NEW n \in Nat, n > 1
  PROVE  \E e \in Nat : Pow2[e] < n /\ n <= 2 * Pow2[e] /\ LeftSize(n) = Pow2[e]
  <1> DEFINE S == {m \in Nat : \E e \in Nat : Pow2[e] < m + 2 /\ m + 2 <= 2 * Pow2[e]}
  <1>1. 0 \in S BY Pow2Def
  <1>2. ASSUME NEW m \in S PROVE m + 1 \in S
    <2>1. PICK e \in Nat : Pow2[e] < m + 2 /\ m + 2 <= 2 * Pow2[e] OBVIOUS
    <2>2. Pow2[e] \in Nat /\ Pow2[e + 1] = 2 * Pow2[e] BY Pow2Def
    <2>3. CASE m + 3 <= 2 * Pow2[e] BY <2>1, <2>2, <2>3
    <2>4. CASE m + 3 > 2 * Pow2[e]
      <3>1. e + 1 \in Nat /\ Pow2[e + 1] < (m + 1) + 2 /\ (m + 1) + 2 <= 2 * Pow2[e + 1]
        BY <2>1, <2>2, <2>4
      <3> QED BY <3>1
    <2> QED BY <2>2, <2>3, <2>4
  <1> HIDE DEF S
  <1>3. S = Nat BY <1>1, <1>2, InductionOn DEF S
  <1>4. n - 2 \in S /\ n - 2 + 2 = n BY <1>3
  <1>5. PICK e \in Nat : Pow2[e] < n /\ n <= 2 * Pow2[e] BY <1>4 DEF S
  <1> QED BY <1>5, LeftSizeIs

(* Both parts of a subtree are smaller than it, and not empty.             *)
LEMMA LeftSizeWithin ==
  ASSUME NEW n \in Nat, n > 1
  PROVE  LeftSize(n) \in 1..(n - 1) /\ n - LeftSize(n) \in 1..(n - 1)
  BY LeftSizeExists, Pow2Positive
-----------------------------------------------------------------------------
(* BLAKE3's trees: again the recursive definition has a solution.          *)
SubtreeStep(f, n) ==
  [lo \in Nat |->
     IF n = 1 THEN Chunk(lo)
     ELSE Parent(f[LeftSize(n)][lo], f[n - LeftSize(n)][lo + LeftSize(n)])]
IsSubtree(f, n) == \A m \in 1..n : f[m] = SubtreeStep(f, m)

(* A tree of n chunks depends on trees of fewer.                           *)
LEMMA StepDependsBelow ==
  ASSUME NEW f, NEW g, NEW n \in Nat \ {0}, \A m \in 1..(n - 1) : f[m] = g[m]
  PROVE  SubtreeStep(f, n) = SubtreeStep(g, n)
  <1>1. CASE n = 1 BY <1>1 DEF SubtreeStep
  <1>2. CASE n # 1
    <2>1. PICK p : p = LeftSize(n) OBVIOUS
    <2>2. p \in 1..(n - 1) /\ n - p \in 1..(n - 1) BY <1>2, <2>1, LeftSizeWithin
    <2>3. f[p] = g[p] /\ f[n - p] = g[n - p] BY <2>2
    <2> QED BY <2>1, <2>3 DEF SubtreeStep
  <1> QED BY <1>1, <1>2

(* Two solutions of the recursion agree where both are defined.            *)
LEMMA SubtreeUnique ==
  ASSUME NEW f, NEW g, NEW n \in Nat, NEW m \in Nat, n <= m, IsSubtree(f, n), IsSubtree(g, m)
  PROVE  \A x \in 1..n : f[x] = g[x]
  <1> DEFINE S == {x \in Nat : x \in 1..n => f[x] = g[x]}
  <1>1. ASSUME NEW x \in Nat, \A y \in 0..(x - 1) : y \in S PROVE x \in S
    <2> SUFFICES ASSUME x \in 1..n PROVE f[x] = g[x] OBVIOUS
    <2>1. f[x] = SubtreeStep(f, x) /\ g[x] = SubtreeStep(g, x)
      BY DEF IsSubtree
    <2>2. \A y \in 1..(x - 1) : f[y] = g[y]
      <3> SUFFICES ASSUME NEW y \in 1..(x - 1) PROVE f[y] = g[y] OBVIOUS
      <3>1. y \in 0..(x - 1) /\ y \in 1..n OBVIOUS
      <3> QED BY <3>1, <1>1
    <2> QED BY <2>1, <2>2, StepDependsBelow
  <1> HIDE DEF S
  <1>2. S = Nat
    <2>1. S \in SUBSET Nat BY DEF S
    <2> QED BY <1>1, <2>1, CompleteInductionOn
  <1>3. \A x \in 1..n : x \in Nat OBVIOUS
  <1> QED BY <1>2, <1>3 DEF S

(* The recursion has a solution up to any size.                            *)
LEMMA SubtreeUpTo == \A n \in Nat : \E f : IsSubtree(f, n)
  <1> DEFINE S == {n \in Nat : \E f : IsSubtree(f, n)}
  <1>1. 0 \in S
    <2>1. \A f : IsSubtree(f, 0) BY DEF IsSubtree
    <2> QED BY <2>1
  <1>2. ASSUME NEW n \in S PROVE n + 1 \in S
    <2>1. PICK f : IsSubtree(f, n) OBVIOUS
    <2>2. PICK last : last = SubtreeStep(f, n + 1) OBVIOUS
    <2> DEFINE g == [x \in 1..(n + 1) |-> IF x = n + 1 THEN last ELSE f[x]]
    <2>3. g[n + 1] = last /\ \A x \in 1..n : g[x] = f[x]
      <3>1. n + 1 \in 1..(n + 1) /\ \A x \in 1..n : x \in 1..(n + 1) /\ x # n + 1 OBVIOUS
      <3> QED BY <3>1
    <2> HIDE DEF g
    <2>4. ASSUME NEW m \in 1..(n + 1) PROVE g[m] = SubtreeStep(g, m)
      <3>1. \A y \in 1..(m - 1) : g[y] = f[y]
        <4>1. \A y \in 1..(m - 1) : y \in 1..n OBVIOUS
        <4> QED BY <4>1, <2>3
      <3>2. SubtreeStep(g, m) = SubtreeStep(f, m) BY <3>1, StepDependsBelow
      <3>3. CASE m = n + 1 BY <3>2, <3>3, <2>2, <2>3
      <3>4. CASE m # n + 1
        <4>1. m \in 1..n BY <3>4
        <4> QED BY <4>1, <3>2, <2>1, <2>3 DEF IsSubtree
      <3> QED BY <3>3, <3>4
    <2>5. IsSubtree(g, n + 1) BY <2>4, Zenon DEF IsSubtree
    <2> QED BY <2>5
  <1> HIDE DEF S
  <1>3. S = Nat BY <1>1, <1>2, InductionOn DEF S
  <1> QED BY <1>3 DEF S

(* Subtree is that solution.                                               *)
LEMMA SubtreeDef ==
  \A n \in Nat \ {0}, lo \in Nat :
    Subtree[n][lo] = IF n = 1 THEN Chunk(lo)
                     ELSE Parent(Subtree[LeftSize(n)][lo],
                                 Subtree[n - LeftSize(n)][lo + LeftSize(n)])
  <1> DEFINE G(n) == CHOOSE f : IsSubtree(f, n)
             P == [n \in Nat \ {0} |-> G(n)[n]]
  <1>1. \A n \in Nat : IsSubtree(G(n), n) BY SubtreeUpTo
  <1> HIDE DEF G
  <1>2. ASSUME NEW n \in Nat \ {0} PROVE P[n] = SubtreeStep(P, n)
    <2>1. P[n] = SubtreeStep(G(n), n)
      <3>1. n \in 1..n OBVIOUS
      <3> QED BY <3>1, <1>1 DEF IsSubtree
    <2>2. ASSUME NEW m \in 1..(n - 1) PROVE G(n)[m] = P[m]
      <3>1. m \in Nat \ {0} /\ m <= n /\ m \in 1..m OBVIOUS
      <3>2. G(m)[m] = G(n)[m] BY <3>1, <1>1, SubtreeUnique
      <3> QED BY <3>1, <3>2
    <2> HIDE DEF P
    <2>3. SubtreeStep(G(n), n) = SubtreeStep(P, n) BY <2>2, StepDependsBelow
    <2> QED BY <2>1, <2>3
  <1>3. P = [n \in Nat \ {0} |-> SubtreeStep(P, n)]
    BY <1>2
  <1> HIDE DEF P
  <1>4. Subtree = [n \in Nat \ {0} |-> SubtreeStep(Subtree, n)]
    BY <1>3, Zenon DEF Subtree, SubtreeStep
  <1>5. \A n \in Nat \ {0} : Subtree[n] = SubtreeStep(Subtree, n)
    BY <1>4
  <1> QED BY <1>5 DEF SubtreeStep

-----------------------------------------------------------------------------
(* Layers.  Node i of a layer whose nodes cover s chunks each is the       *)
(* subtree over the chunks it covers, the last node over fewer; n nodes of *)
(* 2^e chunks make a layer of a matrix of m chunks.                        *)
CoverLen(m, i, s) == IF (i + 1) * s <= m THEN s ELSE m - i * s
NodeOf(m, i, s) == Subtree[CoverLen(m, i, s)][i * s]
IsLayer(m, n, e) == (n - 1) * Pow2[e] < m /\ m <= n * Pow2[e]

(* A pair of nodes is the node above it, an orphan is the node above it.   *)
LEMMA PairNode ==
  ASSUME NEW m \in Nat, NEW e \in Nat, NEW i \in Nat, (2 * i + 1) * Pow2[e] < m
  PROVE  NodeOf(m, i, Pow2[e + 1])
           = Parent(NodeOf(m, 2 * i, Pow2[e]), NodeOf(m, 2 * i + 1, Pow2[e]))
  <1>1. PICK s \in Nat \ {0} : s = Pow2[e] /\ Pow2[e + 1] = 2 * s
    BY Pow2Def, Pow2Positive
  <1>2. PICK q \in Nat : q = i * s BY <1>1
  <1>3. /\ i * (2 * s) = 2 * q /\ (i + 1) * (2 * s) = 2 * q + 2 * s
        /\ (2 * i) * s = 2 * q /\ (2 * i + 1) * s = 2 * q + s
        /\ (2 * i + 1 + 1) * s = 2 * q + 2 * s
    BY <1>1, <1>2
  <1>4. 2 * q + s < m BY <1>1, <1>3
  <1>5. PICK n : n = CoverLen(m, i, 2 * s) OBVIOUS
  <1>6. n \in Nat \ {0} /\ s < n /\ n <= 2 * s /\ n # 1
    <2>1. n = IF 2 * q + 2 * s <= m THEN 2 * s ELSE m - 2 * q
      BY <1>3, <1>5, Zenon DEF CoverLen
    <2> QED BY <1>1, <1>4, <2>1
  <1>7. CoverLen(m, 2 * i, s) = s BY <1>1, <1>3, <1>4 DEF CoverLen
  <1>8. CoverLen(m, 2 * i + 1, s) = n - s BY <1>1, <1>3, <1>4, <1>5 DEF CoverLen
  <1>9. LeftSize(n) = s BY <1>1, <1>6, LeftSizeIs
  <1>10. Subtree[n][2 * q] = Parent(Subtree[s][2 * q], Subtree[n - s][2 * q + s])
    <2>1. 2 * q \in Nat BY <1>2
    <2> QED BY <1>6, <1>9, <2>1, SubtreeDef
  <1>11. NodeOf(m, i, 2 * s) = Subtree[n][2 * q] BY <1>3, <1>5 DEF NodeOf
  <1>12. NodeOf(m, 2 * i, s) = Subtree[s][2 * q] BY <1>3, <1>7 DEF NodeOf
  <1>13. NodeOf(m, 2 * i + 1, s) = Subtree[n - s][2 * q + s] BY <1>3, <1>8 DEF NodeOf
  <1> QED BY <1>1, <1>10, <1>11, <1>12, <1>13

(* An orphan is carried up as it is.                                       *)
LEMMA OrphanNode ==
  ASSUME NEW m \in Nat, NEW e \in Nat, NEW i \in Nat,
         (2 * i) * Pow2[e] < m, m <= (2 * i + 1) * Pow2[e]
  PROVE  NodeOf(m, i, Pow2[e + 1]) = NodeOf(m, 2 * i, Pow2[e])
  <1>1. PICK s \in Nat \ {0} : s = Pow2[e] /\ Pow2[e + 1] = 2 * s
    BY Pow2Def, Pow2Positive
  <1>2. PICK q \in Nat : q = i * s BY <1>1
  <1>3. /\ i * (2 * s) = 2 * q /\ (i + 1) * (2 * s) = 2 * q + 2 * s
        /\ (2 * i) * s = 2 * q /\ (2 * i + 1) * s = 2 * q + s
        /\ (2 * i + 1 + 1) * s = 2 * q + 2 * s
    BY <1>1, <1>2
  <1>4. 2 * q < m /\ m <= 2 * q + s BY <1>1, <1>3
  <1>5. CoverLen(m, i, 2 * s) = m - 2 * q
    <2>1. CoverLen(m, i, 2 * s) = IF 2 * q + 2 * s <= m THEN 2 * s ELSE m - 2 * q
      BY <1>3, Zenon DEF CoverLen
    <2> QED BY <1>1, <1>4, <2>1
  <1>6. CoverLen(m, 2 * i, s) = m - 2 * q
    <2>1. CoverLen(m, 2 * i, s) = IF 2 * q + s <= m THEN s ELSE m - 2 * q
      BY <1>3, Zenon DEF CoverLen
    <2> QED BY <1>1, <1>4, <2>1
  <1> QED BY <1>1, <1>3, <1>5, <1>6 DEF NodeOf

(* From a layer to the next, and to the root.                              *)
LEMMA LayerUp ==
  ASSUME NEW m \in Nat, NEW e \in Nat, NEW n \in Nat, n > 1, IsLayer(m, n, e)
  PROVE  /\ Half(n) \in 1..(n - 1) /\ IsLayer(m, Half(n), e + 1)
         /\ \A i \in 0..(Half(n) - 1) :
              NodeOf(m, i, Pow2[e + 1]) =
                IF 2 * i + 1 < n
                THEN Parent(NodeOf(m, 2 * i, Pow2[e]), NodeOf(m, 2 * i + 1, Pow2[e]))
                ELSE NodeOf(m, 2 * i, Pow2[e])
  <1>1. PICK s \in Nat \ {0} : s = Pow2[e] /\ Pow2[e + 1] = 2 * s
    BY Pow2Def, Pow2Positive
  <1>2. PICK h \in 1..(n - 1) : h = Half(n) /\ (n = 2 * h \/ n = 2 * h - 1)
    BY DEF Half
  <1>3. (n - 1) * s < m /\ m <= n * s BY <1>1 DEF IsLayer
  <1>4. IsLayer(m, h, e + 1)
    <2>1. PICK p \in Nat : p = h * s BY <1>1
    <2>2. h * (2 * s) = 2 * p /\ (h - 1) * (2 * s) = 2 * p - 2 * s BY <1>1, <2>1
    <2>3. CASE n = 2 * h
      <3>1. n * s = 2 * p /\ (n - 1) * s = 2 * p - s BY <1>1, <2>1, <2>3
      <3> QED BY <1>1, <1>3, <2>1, <2>2, <3>1 DEF IsLayer
    <2>4. CASE n = 2 * h - 1
      <3>1. n * s = 2 * p - s /\ (n - 1) * s = 2 * p - 2 * s BY <1>1, <2>1, <2>4
      <3> QED BY <1>1, <1>3, <2>1, <2>2, <3>1 DEF IsLayer
    <2> QED BY <1>2, <2>3, <2>4
  <1>5. ASSUME NEW i \in 0..(h - 1), 2 * i + 1 < n PROVE (2 * i + 1) * s < m
    <2>1. PICK d \in Nat : n - 1 = (2 * i + 1) + d BY <1>5
    <2>2. (n - 1) * s = (2 * i + 1) * s + d * s /\ d * s \in Nat /\ (2 * i + 1) * s \in Nat
      BY <1>1, <2>1
    <2> QED BY <1>3, <2>2
  <1>6. ASSUME NEW i \in 0..(h - 1), ~(2 * i + 1 < n)
        PROVE  (2 * i) * s < m /\ m <= (2 * i + 1) * s
    <2>1. n = 2 * i + 1 BY <1>2, <1>6
    <2> QED BY <1>3, <2>1
  <1>7. ASSUME NEW i \in 0..(h - 1)
        PROVE  NodeOf(m, i, Pow2[e + 1]) =
                IF 2 * i + 1 < n
                THEN Parent(NodeOf(m, 2 * i, Pow2[e]), NodeOf(m, 2 * i + 1, Pow2[e]))
                ELSE NodeOf(m, 2 * i, Pow2[e])
    <2>1. i \in Nat OBVIOUS
    <2>2. CASE 2 * i + 1 < n BY <1>1, <1>5, <2>1, <2>2, PairNode
    <2>3. CASE ~(2 * i + 1 < n) BY <1>1, <1>6, <2>1, <2>3, OrphanNode
    <2> QED BY <2>2, <2>3
  <1> QED BY <1>2, <1>4, <1>7

(* The two nodes of a layer of two make the root of the matrix.            *)
LEMMA TopNode ==
  ASSUME leaves \in Nat, NEW e \in Nat, IsLayer(leaves, 2, e)
  PROVE  Root(NodeOf(leaves, 0, Pow2[e]), NodeOf(leaves, 1, Pow2[e])) = Blake3Root
  <1>1. PICK s \in Nat \ {0} : s = Pow2[e] BY Pow2Positive
  <1>2. s < leaves /\ leaves <= 2 * s BY <1>1 DEF IsLayer
  <1>3. LeftSize(leaves) = s BY <1>1, <1>2, LeftSizeIs
  <1>4. CoverLen(leaves, 0, s) = s /\ CoverLen(leaves, 1, s) = leaves - s
    BY <1>1, <1>2 DEF CoverLen
  <1>5. 0 * s = 0 /\ 1 * s = s BY <1>1
  <1> QED BY <1>1, <1>2, <1>3, <1>4, <1>5 DEF Blake3Root, NodeOf

(* The chunks are the layer at the bottom.                                 *)
LEMMA BottomLayer ==
  ASSUME NEW m \in Nat \ {0}
  PROVE  IsLayer(m, m, 0) /\ \A i \in 0..(m - 1) : NodeOf(m, i, Pow2[0]) = Chunk(i)
  <1>1. Pow2[0] = 1 BY Pow2Def
  <1>2. IsLayer(m, m, 0) BY <1>1 DEF IsLayer
  <1>3. ASSUME NEW i \in 0..(m - 1) PROVE NodeOf(m, i, 1) = Chunk(i)
    <2>1. CoverLen(m, i, 1) = 1 /\ i * 1 = i BY DEF CoverLen
    <2> QED BY <2>1, SubtreeDef DEF NodeOf
  <1> QED BY <1>1, <1>2, <1>3

-----------------------------------------------------------------------------
(* The device.  Between two launches the buffer that is read holds a       *)
(* layer; during one the buffer that is written holds what the threads     *)
(* that have run made of it.                                               *)
Later == {"tree", "hit", "prove", "verify", "ranges", "done"}
LayerRead(e) ==
  /\ size \in Nat /\ 1 < size /\ size <= leaves /\ IsLayer(leaves, size, e)
  /\ \A i \in 0..(size - 1) : buf[inBuf][i] = NodeOf(leaves, i, Pow2[e])
  /\ pc = "threads" =>
       /\ 2 < size /\ todo \subseteq 0..(Half(size) - 1)
       /\ \A t \in (0..(Half(size) - 1)) \ todo :
            buf[OutBuf][t] = NodeOf(leaves, t, Pow2[e + 1])
DeviceInv ==
  /\ leaves \in Nat \ {0} /\ inBuf \in {"A", "B"}
  /\ DOMAIN buf = {"A", "B"} /\ \A b \in {"A", "B"} : DOMAIN buf[b] = Node
  /\ pc \in {"launch", "layer", "threads", "panicked"} \cup Later
  /\ pc = "launch" => size = leaves /\ inBuf = "A"
  /\ pc \in {"layer", "threads"} => \E e \in Nat : LayerRead(e)
  /\ devRoot = IF pc \in Later THEN Blake3Root ELSE None

(* The device starts with nothing hashed.                                  *)
LEMMA DeviceInit == Init => DeviceInv
  BY MerkleCommitmentAssumption DEF Init, DeviceInv, Later, MerkleCommitmentAssumption

(* The threads of a launch read only what is not written.                  *)
LEMMA DeviceThread ==
  ASSUME DeviceInv, NEW t \in todo, LayerThread(t)
  PROVE  DeviceInv'
  <1>1. PICK e \in Nat : LayerRead(e) BY DEF DeviceInv, LayerThread
  <1>2. PICK out : out = OutBuf OBVIOUS
  <1>3. PICK v : v = IF t < size \div 2
                     THEN Parent(buf[inBuf][2 * t], buf[inBuf][2 * t + 1])
                     ELSE buf[inBuf][size - 1]
    OBVIOUS
  <1>4. /\ pc = "threads" /\ pc' = pc /\ leaves' = leaves /\ inBuf' = inBuf /\ size' = size
        /\ devRoot' = devRoot /\ todo' = todo \ {t}
        /\ buf' = [buf EXCEPT ![out][t] = v]
    BY <1>2, <1>3, Zenon DEF LayerThread, inputs
  <1>5. out \in {"A", "B"} /\ out # inBuf /\ inBuf \in {"A", "B"} /\ OutBuf' = out
    BY <1>2, <1>4 DEF DeviceInv, OutBuf
  <1>6. /\ size \in Nat /\ 2 < size /\ size <= leaves /\ IsLayer(leaves, size, e)
        /\ todo \subseteq 0..(Half(size) - 1) /\ leaves \in Nat
        /\ \A i \in 0..(size - 1) : buf[inBuf][i] = NodeOf(leaves, i, Pow2[e])
        /\ \A x \in (0..(Half(size) - 1)) \ todo :
             buf[out][x] = NodeOf(leaves, x, Pow2[e + 1])
    BY <1>1, <1>2, <1>4 DEF LayerRead, DeviceInv
  <1>7. v = NodeOf(leaves, t, Pow2[e + 1])
    <2>1. t \in 0..(Half(size) - 1) BY <1>6
    <2>2. NodeOf(leaves, t, Pow2[e + 1]) =
            IF 2 * t + 1 < size
            THEN Parent(NodeOf(leaves, 2 * t, Pow2[e]), NodeOf(leaves, 2 * t + 1, Pow2[e]))
            ELSE NodeOf(leaves, 2 * t, Pow2[e])
      BY <1>6, <2>1, LayerUp
    <2>3. CASE t < size \div 2
      <3>1. 2 * t + 1 < size /\ 2 * t \in 0..(size - 1) /\ 2 * t + 1 \in 0..(size - 1)
        BY <1>6, <2>1, <2>3
      <3> QED BY <1>3, <1>6, <2>2, <2>3, <3>1
    <2>4. CASE ~(t < size \div 2)
      <3>1. size - 1 = 2 * t /\ ~(2 * t + 1 < size) /\ size - 1 \in 0..(size - 1)
        BY <1>6, <2>1, <2>4 DEF Half
      <3> QED BY <1>3, <1>6, <2>2, <2>4, <3>1
    <2> QED BY <2>3, <2>4
  <1>8. t \in Node
    BY <1>6 DEF Half, Node
  <1>9. /\ DOMAIN buf' = {"A", "B"} /\ \A b \in {"A", "B"} : DOMAIN buf'[b] = Node
        /\ buf'[inBuf] = buf[inBuf] /\ buf'[out][t] = v
        /\ \A x \in Node \ {t} : buf'[out][x] = buf[out][x]
    BY <1>4, <1>5, <1>8 DEF DeviceInv
  <1>10. \A x \in (0..(Half(size) - 1)) \ todo' : buf'[out][x] = NodeOf(leaves, x, Pow2[e + 1])
    <2>1. 0..(Half(size) - 1) \subseteq Node BY <1>6 DEF Half, Node
    <2> QED BY <2>1, <1>4, <1>6, <1>7, <1>9
  <1>11. LayerRead(e)'
    BY <1>4, <1>5, <1>6, <1>9, <1>10 DEF LayerRead
  <1>12. Node' = Node BY <1>4 DEF Node
  <1> QED BY <1>4, <1>5, <1>9, <1>11, <1>12 DEF DeviceInv, Later

(* Every step keeps the buffers right.                                     *)
LEMMA DeviceStep == DeviceInv /\ [Next]_vars => DeviceInv'
  <1> SUFFICES ASSUME DeviceInv, [Next]_vars PROVE DeviceInv'
    OBVIOUS
  <1>0. ASSUME UNCHANGED <<leaves, buf, inBuf, size, todo, devRoot>>,
               pc' = pc \/ (pc \in Later /\ pc' \in Later)
        PROVE  DeviceInv'
    <2>1. Node' = Node /\ Blake3Root' = Blake3Root BY <1>0 DEF Node, Blake3Root
    <2>2. ASSUME NEW e \in Nat, pc' = pc, LayerRead(e) PROVE LayerRead(e)'
      BY <1>0, <2>2 DEF LayerRead, OutBuf
    <2> QED BY <1>0, <2>1, <2>2 DEF DeviceInv, Later
  <1>1. CASE ScratchTooSmall
    <2>1. Node' = Node BY <1>1 DEF ScratchTooSmall, inputs, Node
    <2> QED BY <1>1, <2>1 DEF ScratchTooSmall, DeviceInv, inputs, device, Later
  <1>2. CASE HashChunks
    <2>1. /\ leaves' = leaves /\ inBuf' = inBuf /\ size' = size /\ pc = "launch"
          /\ size = leaves /\ inBuf = "A" /\ leaves \in Nat \ {0} /\ Node' = Node
      BY <1>2 DEF HashChunks, DeviceInv, inputs, Node
    <2>2. CASE leaves = 1
      <3>1. devRoot' = RootChunk /\ pc' = "tree" /\ buf' = buf
        BY <1>2, <2>2, Zenon DEF HashChunks
      <3>2. Blake3Root' = RootChunk BY <2>1, <2>2 DEF Blake3Root
      <3> QED BY <2>1, <3>1, <3>2 DEF DeviceInv, Later
    <2>3. CASE leaves # 1
      <3>1. /\ buf' = [buf EXCEPT !["A"] = [i \in Node |-> Chunk(i)]]
            /\ pc' = "layer" /\ devRoot' = devRoot
        BY <1>2, <2>3, Zenon DEF HashChunks
      <3>2. /\ DOMAIN buf' = {"A", "B"} /\ \A b \in {"A", "B"} : DOMAIN buf'[b] = Node
            /\ \A i \in Node : buf'["A"][i] = Chunk(i)
        BY <3>1 DEF DeviceInv
      <3>3. LayerRead(0)'
        <4>1. Node = 0..(leaves - 1) BY DEF Node
        <4>2. \A i \in 0..(leaves - 1) : buf'["A"][i] = NodeOf(leaves, i, Pow2[0])
          BY <2>1, <3>2, <4>1, BottomLayer
        <4>3. IsLayer(leaves, leaves, 0) BY <2>1, BottomLayer
        <4> QED BY <2>1, <2>3, <3>1, <4>2, <4>3 DEF LayerRead
      <3> QED BY <2>1, <3>1, <3>2, <3>3 DEF DeviceInv, Later
    <2> QED BY <2>2, <2>3
  <1>3. CASE LaunchLayer
    <2>1. PICK e \in Nat : LayerRead(e) BY <1>3 DEF LaunchLayer, DeviceInv
    <2>2. /\ leaves' = leaves /\ inBuf' = inBuf /\ size' = size /\ buf' = buf
          /\ devRoot' = devRoot /\ pc = "layer" /\ pc' = "threads" /\ 2 < size
          /\ todo' = 0..(Half(size) - 1) /\ size \in Nat
      BY <1>3, <2>1 DEF LaunchLayer, inputs, LayerRead
    <2>3. LayerRead(e)' BY <2>1, <2>2 DEF LayerRead
    <2>4. Node' = Node BY <2>2 DEF Node
    <2> QED BY <2>2, <2>3, <2>4 DEF DeviceInv, Later
  <1>4. CASE \E t \in todo : LayerThread(t)
    BY <1>4, DeviceThread
  <1>5. CASE SwapBuffers
    <2>1. PICK e \in Nat : LayerRead(e) BY <1>5 DEF SwapBuffers, DeviceInv
    <2>2. PICK out : out = OutBuf OBVIOUS
    <2>3. /\ leaves' = leaves /\ inBuf' = out /\ size' = NextSize /\ buf' = buf
          /\ devRoot' = devRoot /\ pc = "threads" /\ pc' = "layer" /\ todo = {}
      BY <1>5, <2>2 DEF SwapBuffers, inputs
    <2>4. /\ size \in Nat /\ 2 < size /\ size <= leaves /\ IsLayer(leaves, size, e)
          /\ leaves \in Nat
          /\ \A x \in 0..(Half(size) - 1) : buf[out][x] = NodeOf(leaves, x, Pow2[e + 1])
      BY <2>1, <2>2, <2>3 DEF LayerRead, DeviceInv
    <2>5. NextSize = Half(size) /\ Half(size) > 1 /\ Half(size) \in 1..(size - 1)
      BY <2>4 DEF NextSize, Half
    <2>6. IsLayer(leaves, Half(size), e + 1) BY <2>4, LayerUp
    <2>7. LayerRead(e + 1)'
      BY <2>3, <2>4, <2>5, <2>6 DEF LayerRead
    <2>8. out \in {"A", "B"} /\ Node' = Node BY <2>2, <2>3 DEF OutBuf, Node
    <2>9. e + 1 \in Nat OBVIOUS
    <2> QED BY <2>3, <2>7, <2>8, <2>9 DEF DeviceInv, Later
  <1>6. CASE LaunchTop
    <2>1. PICK e \in Nat : LayerRead(e) BY <1>6 DEF LaunchTop, DeviceInv
    <2>2. /\ leaves' = leaves /\ inBuf' = inBuf /\ size' = size /\ buf' = buf
          /\ pc = "layer" /\ pc' = "tree" /\ size = 2
          /\ devRoot' = Root(buf[inBuf][0], buf[inBuf][1])
      BY <1>6 DEF LaunchTop, inputs
    <2>3. devRoot' = Blake3Root
      <3>1. /\ buf[inBuf][0] = NodeOf(leaves, 0, Pow2[e])
            /\ buf[inBuf][1] = NodeOf(leaves, 1, Pow2[e])
        BY <2>1, <2>2 DEF LayerRead
      <3> QED BY <2>1, <2>2, <3>1, TopNode DEF LayerRead, DeviceInv
    <2>4. Node' = Node /\ Blake3Root' = Blake3Root BY <2>2 DEF Node, Blake3Root
    <2> QED BY <2>2, <2>3, <2>4 DEF DeviceInv, Later
  <1>7. ASSUME BuildTree \/ ProveLevel \/ VerifyLevel \/ VerifyTop \/ RangeLevel \/ Finished
        PROVE  DeviceInv'
    <2>1. UNCHANGED <<leaves, buf, inBuf, size, todo, devRoot>>
      BY <1>7, Zenon DEF BuildTree, ProveLevel, VerifyLevel, VerifyTop, RangeLevel, Finished, inputs,
         device, vars
    <2>2. pc' = pc \/ (pc \in Later /\ pc' \in Later)
      BY <1>7 DEF BuildTree, ProveLevel, VerifyLevel, VerifyTop, RangeLevel, Finished, vars, Later
    <2> QED BY <1>0, <2>1, <2>2
  <1>8. ASSUME NEW R, StartProof(R) PROVE DeviceInv'
    BY <1>0, <1>8 DEF StartProof, inputs, device, Later
  <1>9. CASE UNCHANGED vars
    BY <1>0, <1>9 DEF vars, inputs, device
  <1> QED BY <1>1, <1>2, <1>3, <1>4, <1>5, <1>6, <1>7, <1>8, <1>9 DEF Next

(* For a matrix of any number of chunks, and in whatever order the threads *)
(* of each launch of pearl_merkle_layer_kernel run, the root the device    *)
(* commits to is the BLAKE3 root of the matrix.                            *)
THEOREM DeviceComputesBlake3 == Spec => []DeviceRootIsBlake3
  <1>1. DeviceInv => DeviceRootIsBlake3 BY DEF DeviceInv, DeviceRootIsBlake3
  <1> QED BY <1>1, DeviceInit, DeviceStep, PTL DEF Spec

-----------------------------------------------------------------------------
(* The host's tree.  A layer of 2^e chunks a node has one possible length. *)
LEMMA LayerUnique ==
  ASSUME NEW m \in Nat, NEW e \in Nat, NEW n \in Nat, NEW p \in Nat,
         IsLayer(m, n, e), IsLayer(m, p, e)
  PROVE  n = p
  <1>1. PICK s \in Nat \ {0} : s = Pow2[e] BY Pow2Positive
  <1>2. ASSUME NEW x \in Nat, NEW y \in Nat, x < y, m <= x * s, (y - 1) * s < m PROVE FALSE
    <2>1. PICK d \in Nat : y - 1 = x + d BY <1>2
    <2>2. (y - 1) * s = x * s + d * s /\ d * s \in Nat /\ x * s \in Nat BY <1>1, <2>1
    <2> QED BY <1>2, <2>2
  <1>3. (n - 1) * s < m /\ m <= n * s /\ (p - 1) * s < m /\ m <= p * s
    BY <1>1 DEF IsLayer
  <1>4. ~(n < p) /\ ~(p < n) BY <1>2, <1>3
  <1> QED BY <1>4

(* The layers of MerkleTree::new, bottom first; the last has one node.     *)
Built(l, m, e) ==
  \E n \in 1..m :
    /\ IsLayer(m, n, e) /\ DOMAIN l = 0..(n - 1)
    /\ \A i \in 0..(n - 1) : n > 1 => l[i] = NodeOf(m, i, Pow2[e])
    /\ n = 1 => l[0] = Blake3Root
BuiltUpTo(T) ==
  /\ \E S : T \in Seq(S)
  /\ \A j \in 1..Len(T) : Built(T[j], leaves, j - 1)
TreeInv ==
  /\ BuiltUpTo(layers)
  /\ pc \notin Later => layers = <<>>
  /\ pc \in Later \ {"tree"} => layers # <<>> /\ DOMAIN Last(layers) = {0}

(* A sequence grows by an element at its end, the rest is kept.            *)
LEMMA AppendKeeps ==
  ASSUME NEW T, NEW x, \E S : T \in Seq(S)
  PROVE  /\ \E S : Append(T, x) \in Seq(S)
         /\ Append(T, x) # <<>> /\ Len(T) \in Nat /\ Len(Append(T, x)) = Len(T) + 1
         /\ \A j \in 1..Len(T) : Append(T, x)[j] = T[j]
         /\ Append(T, x)[Len(T) + 1] = x
  <1>1. PICK S : T \in Seq(S) OBVIOUS
  <1>2. T \in Seq(S \cup {x}) /\ x \in S \cup {x} BY <1>1
  <1> QED BY <1>2, AppendProperties

(* A layer of the right level may be appended.                             *)
LEMMA BuiltGrows ==
  ASSUME NEW T, NEW x, BuiltUpTo(T), Built(x, leaves, Len(T))
  PROVE  BuiltUpTo(Append(T, x))
  <1>1. \E S : T \in Seq(S) BY DEF BuiltUpTo
  <1>2. /\ \E S : Append(T, x) \in Seq(S)
        /\ Len(T) \in Nat /\ Len(Append(T, x)) = Len(T) + 1
        /\ \A j \in 1..Len(T) : Append(T, x)[j] = T[j]
        /\ Append(T, x)[Len(T) + 1] = x
    BY <1>1, AppendKeeps, ZenonT(40)
  <1>3. ASSUME NEW j \in 1..(Len(T) + 1) PROVE Built(Append(T, x)[j], leaves, j - 1)
    <2>1. CASE j = Len(T) + 1
      <3>1. j - 1 = Len(T) BY <2>1, <1>2
      <3> QED BY <2>1, <1>2, <3>1
    <2>2. CASE j # Len(T) + 1
      <3>1. j \in 1..Len(T) BY <2>2, <1>2
      <3> QED BY <3>1, <1>2 DEF BuiltUpTo
    <2> QED BY <2>1, <2>2
  <1> QED BY <1>2, <1>3 DEF BuiltUpTo

(* What BuildTree makes of a layer of more than one node.                  *)
LEMMA BuildsNext ==
  ASSUME DeviceInv, TreeInv, BuildTree, layers # <<>>, Cardinality(DOMAIN Last(layers)) # 1
  PROVE  \E x : layers' = Append(layers, x) /\ pc' = "tree" /\ Built(x, leaves, Len(layers))
  <1>1. leaves \in Nat \ {0} BY DEF DeviceInv
  <1>2. PICK T : T = layers OBVIOUS
  <1>3. PICK S : T \in Seq(S) BY <1>2 DEF TreeInv, BuiltUpTo
  <1>4. Len(T) \in Nat \ {0} BY <1>2, <1>3
  <1>5. PICK e \in Nat : Len(T) = e + 1 /\ e = Len(T) - 1 /\ Len(T) \in 1..Len(T) BY <1>4
  <1>6. PICK top : top = Last(T) /\ top = T[Len(T)] BY DEF Last
  <1>7. Built(top, leaves, e)
    <2>1. Built(T[Len(T)], leaves, Len(T) - 1) BY <1>2, <1>5 DEF TreeInv, BuiltUpTo
    <2> QED BY <2>1, <1>5, <1>6
  <1>8. PICK n \in 1..leaves :
          /\ IsLayer(leaves, n, e) /\ DOMAIN top = 0..(n - 1)
          /\ \A i \in 0..(n - 1) : n > 1 => top[i] = NodeOf(leaves, i, Pow2[e])
    BY <1>7 DEF Built
  <1>9. Cardinality(DOMAIN top) = n
    <2>1. n \in Nat /\ 0 \in Int /\ n - 1 \in Int /\ ~(0 > n - 1) /\ n - 1 - 0 + 1 = n
      BY <1>1, <1>8
    <2>2. Cardinality(0..(n - 1)) = n - 1 - 0 + 1 BY <2>1, FS_Interval
    <2> QED BY <1>8, <2>1, <2>2
  <1>10. n > 1 /\ n \in Nat BY <1>1, <1>2, <1>6, <1>8, <1>9
  <1>11. CASE n = 2
    <2>1. layers' = Append(T, [i \in {0} |-> Root(top[0], top[1])]) /\ pc' = "tree"
      BY <1>2, <1>6, <1>9, <1>11 DEF BuildTree
    <2>2. top[0] = NodeOf(leaves, 0, Pow2[e]) /\ top[1] = NodeOf(leaves, 1, Pow2[e])
      BY <1>8, <1>11
    <2>3. Root(top[0], top[1]) = Blake3Root BY <1>1, <1>8, <1>11, <2>2, TopNode
    <2>4. IsLayer(leaves, 1, e + 1)
      <3>1. Half(2) = 1 BY DEF Half
      <3> QED BY <1>1, <1>8, <1>11, <3>1, LayerUp
    <2>5. PICK x : x = [i \in {0} |-> Root(top[0], top[1])] OBVIOUS
    <2>6. DOMAIN x = {0} /\ x[0] = Blake3Root BY <2>3, <2>5
    <2>7. 0..(1 - 1) = {0} /\ 1 \in 1..leaves BY <1>1
    <2>8. Built(x, leaves, e + 1) BY <2>4, <2>6, <2>7 DEF Built
    <2> QED BY <1>2, <1>5, <2>1, <2>5, <2>8
  <1>12. CASE n # 2
    <2>1. n > 2 BY <1>10, <1>12
    <2>2. layers' = Append(T, Combine(top)) /\ pc' = "tree"
      <3>1. ~(n = 1) BY <1>10
      <3> QED BY <1>2, <1>6, <1>9, <1>12, <3>1 DEF BuildTree
    <2>3. /\ Half(n) \in 1..(n - 1) /\ IsLayer(leaves, Half(n), e + 1)
          /\ \A i \in 0..(Half(n) - 1) :
               NodeOf(leaves, i, Pow2[e + 1]) =
                 IF 2 * i + 1 < n
                 THEN Parent(NodeOf(leaves, 2 * i, Pow2[e]), NodeOf(leaves, 2 * i + 1, Pow2[e]))
                 ELSE NodeOf(leaves, 2 * i, Pow2[e])
      BY <1>1, <1>8, <1>10, LayerUp
    <2>4. Half(n) > 1 /\ Half(n) \in 1..leaves BY <2>1, <2>3, <1>1, <1>8 DEF Half
    <2>5. Combine(top) = [i \in 0..(Half(n) - 1) |->
             IF 2 * i + 1 < n THEN Parent(top[2 * i], top[2 * i + 1]) ELSE top[2 * i]]
      BY <1>9 DEF Combine
    <2>6. ASSUME NEW i \in 0..(Half(n) - 1)
          PROVE  Combine(top)[i] = NodeOf(leaves, i, Pow2[e + 1])
      <3>1. 2 * i \in 0..(n - 1) /\ (2 * i + 1 < n => 2 * i + 1 \in 0..(n - 1))
        BY <2>4, <1>10 DEF Half
      <3>2. Combine(top)[i] =
              IF 2 * i + 1 < n THEN Parent(top[2 * i], top[2 * i + 1]) ELSE top[2 * i]
        BY <2>5
      <3> QED BY <3>1, <3>2, <2>3, <1>8, <1>10
    <2>7. PICK x : x = Combine(top) OBVIOUS
    <2>8. DOMAIN x = 0..(Half(n) - 1) BY <2>5, <2>7
    <2>9. Half(n) # 1 BY <2>4
    <2>10. Built(x, leaves, e + 1) BY <2>3, <2>4, <2>6, <2>7, <2>8, <2>9 DEF Built
    <2> QED BY <1>2, <1>5, <2>2, <2>7, <2>10
  <1> QED BY <1>11, <1>12

(* Before the snapshot is hashed there are no layers.                      *)
LEMMA TreeInit == Init => TreeInv
  <1> SUFFICES ASSUME Init PROVE TreeInv OBVIOUS
  <1>1. layers = <<>> /\ pc = "launch" BY DEF Init
  <1>2. layers \in Seq({}) /\ Len(layers) = 0 BY <1>1
  <1> QED BY <1>1, <1>2 DEF TreeInv, BuiltUpTo, Later

(* Every step keeps the layers right.                                      *)
LEMMA TreeStep == DeviceInv /\ TreeInv /\ [Next]_vars => TreeInv'
  <1> SUFFICES ASSUME DeviceInv, TreeInv, [Next]_vars PROVE TreeInv'
    OBVIOUS
  <1>1. leaves \in Nat \ {0} BY DEF DeviceInv
  <1>2. ASSUME leaves' = leaves PROVE \A T : BuiltUpTo(T)' <=> BuiltUpTo(T)
    BY <1>2 DEF BuiltUpTo, Built, Blake3Root
  <1>3. ASSUME UNCHANGED <<leaves, layers>>,
               \/ pc' = pc
               \/ pc \notin Later /\ pc' \notin Later \ {"tree"}
               \/ pc \in Later \ {"tree"} /\ pc' \in Later \ {"tree"}
        PROVE  TreeInv'
    BY <1>2, <1>3 DEF TreeInv, Later
  <1>4. CASE ScratchTooSmall \/ HashChunks \/ LaunchLayer \/ SwapBuffers \/ LaunchTop
             \/ (\E t \in todo : LayerThread(t))
    <2>1. UNCHANGED <<leaves, layers>> /\ pc' \notin Later \ {"tree"} /\ pc \notin Later
      BY <1>4 DEF ScratchTooSmall, HashChunks, LaunchLayer, SwapBuffers, LaunchTop, LayerThread,
         inputs, Later
    <2> QED BY <1>3, <2>1
  <1>5. CASE BuildTree
    <2>1. leaves' = leaves /\ pc = "tree" BY <1>5 DEF BuildTree, inputs
    <2>2. CASE layers = <<>>
      <3>1. layers' = <<LeafLayer>> /\ pc' = "tree" BY <1>5, <2>2 DEF BuildTree
      <3>2. PICK x : x = LeafLayer OBVIOUS
      <3>3. DOMAIN x = 0..(leaves - 1)
            /\ \A i \in 0..(leaves - 1) : x[i] = IF leaves = 1 THEN RootChunk ELSE Chunk(i)
        BY <3>2 DEF LeafLayer, Node
      <3>4. Built(x, leaves, 0)
        <4>1. IsLayer(leaves, leaves, 0)
              /\ \A i \in 0..(leaves - 1) : NodeOf(leaves, i, Pow2[0]) = Chunk(i)
          BY <1>1, BottomLayer
        <4>2. leaves = 1 => x[0] = Blake3Root BY <3>3 DEF Blake3Root
        <4>3. leaves \in 1..leaves BY <1>1
        <4>4. \A i \in 0..(leaves - 1) : leaves > 1 => x[i] = NodeOf(leaves, i, Pow2[0])
          BY <1>1, <3>3, <4>1
        <4> QED BY <3>3, <4>1, <4>2, <4>3, <4>4 DEF Built
      <3>5. BuiltUpTo(layers')
        <4>1. layers' \in Seq({x}) /\ Len(layers') = 1 /\ layers'[1] = x BY <3>1, <3>2
        <4>2. \A j \in 1..1 : j = 1 /\ j - 1 = 0 OBVIOUS
        <4> QED BY <3>4, <4>1, <4>2 DEF BuiltUpTo
      <3> QED BY <1>2, <2>1, <3>1, <3>5 DEF TreeInv, Later
    <2>3. CASE layers # <<>> /\ Cardinality(DOMAIN Last(layers)) # 1
      <3>1. PICK x : layers' = Append(layers, x) /\ pc' = "tree" /\ Built(x, leaves, Len(layers))
        BY <1>5, <2>3, BuildsNext
      <3>2. BuiltUpTo(layers') BY <3>1, BuiltGrows DEF TreeInv
      <3> QED BY <1>2, <2>1, <3>1, <3>2 DEF TreeInv, Later
    <2>4. CASE layers # <<>> /\ Cardinality(DOMAIN Last(layers)) = 1
      <3>1. layers' = layers /\ pc' = "hit" BY <1>5, <2>4 DEF BuildTree
      <3>2. DOMAIN Last(layers) = {0}
        <4>1. PICK S : layers \in Seq(S) BY DEF TreeInv, BuiltUpTo
        <4>2. Len(layers) \in 1..Len(layers) BY <2>4, <4>1
        <4>3. Built(Last(layers), leaves, Len(layers) - 1)
          BY <4>2 DEF TreeInv, BuiltUpTo, Last
        <4>4. PICK n \in 1..leaves : DOMAIN Last(layers) = 0..(n - 1) BY <4>3 DEF Built
        <4>5. n \in Nat /\ 0 \in Int /\ n - 1 \in Int /\ ~(0 > n - 1) /\ n - 1 - 0 + 1 = n
          BY <1>1, <4>4
        <4>6. Cardinality(0..(n - 1)) = n - 1 - 0 + 1 BY <4>5, FS_Interval
        <4>7. n = 1 BY <2>4, <4>4, <4>5, <4>6
        <4> QED BY <4>4, <4>7
      <3> QED BY <1>2, <2>1, <2>4, <3>1, <3>2 DEF TreeInv, Later
    <2> QED BY <2>2, <2>3, <2>4
  <1>6. CASE ProveLevel \/ VerifyLevel \/ VerifyTop \/ RangeLevel \/ (\E R : StartProof(R))
    <2>1. UNCHANGED <<leaves, layers>>
      BY <1>6, Zenon DEF ProveLevel, VerifyLevel, VerifyTop, RangeLevel, StartProof, inputs
    <2>2. pc \in Later \ {"tree"} /\ pc' \in Later \ {"tree"}
      BY <1>6 DEF ProveLevel, VerifyLevel, VerifyTop, RangeLevel, StartProof, Later
    <2> QED BY <1>3, <2>1, <2>2
  <1>7. CASE UNCHANGED vars
    BY <1>3, <1>7 DEF vars, inputs
  <1>8. CASE Finished
    BY <1>7, <1>8 DEF Finished
  <1> QED BY <1>4, <1>5, <1>6, <1>7, <1>8 DEF Next

(* The tree MerkleTree::new builds over the snapshot, with an orphan       *)
(* carried up unhashed, ends in the root the device committed to, for a    *)
(* matrix of any number of chunks.                                         *)
THEOREM HostTreeIsTheDevices == Spec => []HostTreeAgrees
  <1>1. DeviceInv /\ TreeInv => HostTreeAgrees
    <2> SUFFICES ASSUME DeviceInv, TreeInv, pc \in Later \ {"tree"} PROVE Last(layers)[0] = devRoot
      BY DEF HostTreeAgrees, DeviceInv, Later
    <2>1. devRoot = Blake3Root BY DEF DeviceInv
    <2>2. layers # <<>> /\ DOMAIN Last(layers) = {0} BY DEF TreeInv
    <2>3. PICK S : layers \in Seq(S) BY DEF TreeInv, BuiltUpTo
    <2>4. Len(layers) \in 1..Len(layers) BY <2>2, <2>3
    <2>5. Built(Last(layers), leaves, Len(layers) - 1) BY <2>4 DEF TreeInv, BuiltUpTo, Last
    <2>6. PICK n \in 1..leaves : DOMAIN Last(layers) = 0..(n - 1)
                                 /\ (n = 1 => Last(layers)[0] = Blake3Root)
      BY <2>5 DEF Built
    <2>7. n = 1
      <3>1. leaves \in Nat BY DEF DeviceInv
      <3>2. n - 1 \in 0..(n - 1) BY <3>1, <2>6
      <3>3. n - 1 = 0 BY <3>2, <2>2, <2>6
      <3> QED BY <3>1, <3>3, <2>6
    <2> QED BY <2>1, <2>6, <2>7
  <1> QED BY <1>1, DeviceInit, DeviceStep, TreeInit, TreeStep, PTL DEF Spec

-----------------------------------------------------------------------------
(* Ascending lists every element of a finite set of numbers once.          *)
Rank(S, x) == Cardinality({y \in S : y < x}) + 1

(* The rank of an element is its place, and grows with it.                 *)
LEMMA RankGrows ==
  ASSUME NEW S \in SUBSET Nat, IsFiniteSet(S)
  PROVE  /\ \A x \in S : Rank(S, x) \in 1..Cardinality(S)
         /\ \A x, y \in S : x < y => Rank(S, x) < Rank(S, y)
  <1>1. ASSUME NEW x \in S, NEW U \in SUBSET S, {y \in S : y < x} \cup {x} \subseteq U
        PROVE  Rank(S, x) \in Nat /\ Rank(S, x) >= 1 /\ Rank(S, x) <= Cardinality(U)
    <2> DEFINE B == {y \in S : y < x}
    <2>1. IsFiniteSet(B) /\ IsFiniteSet(U) BY FS_Subset
    <2>2. x \notin B OBVIOUS
    <2>3. B \cup {x} \in SUBSET U BY <1>1
    <2> HIDE DEF B
    <2>4. IsFiniteSet(B \cup {x}) /\ Cardinality(B \cup {x}) = Cardinality(B) + 1
      BY <2>1, <2>2, FS_AddElement
    <2>5. Cardinality(B \cup {x}) <= Cardinality(U) BY <2>1, <2>3, FS_Subset
    <2>6. Cardinality(B) \in Nat /\ Cardinality(U) \in Nat BY <2>1, FS_CardinalityType
    <2>7. Rank(S, x) = Cardinality(B) + 1 BY DEF Rank, B
    <2> QED BY <2>4, <2>5, <2>6, <2>7
  <1>2. ASSUME NEW x \in S PROVE Rank(S, x) \in 1..Cardinality(S)
    <2>1. {y \in S : y < x} \cup {x} \subseteq S OBVIOUS
    <2>2. Cardinality(S) \in Nat BY FS_CardinalityType
    <2> QED BY <1>1, <2>1, <2>2
  <1>3. ASSUME NEW x \in S, NEW y \in S, x < y PROVE Rank(S, x) < Rank(S, y)
    <2> DEFINE U == {z \in S : z < y}
    <2>1. {z \in S : z < x} \cup {x} \subseteq U
      <3>1. \A z \in S : z \in Nat OBVIOUS
      <3>2. x \in U BY <1>3
      <3>3. \A z \in S : z < x => z < y BY <1>3, <3>1
      <3> QED BY <3>2, <3>3
    <2>2. Rank(S, y) = Cardinality(U) + 1 BY DEF Rank
    <2>3. IsFiniteSet(U) BY FS_Subset
    <2>4. Cardinality(U) \in Nat BY <2>3, FS_CardinalityType
    <2>5. U \in SUBSET S OBVIOUS
    <2> HIDE DEF U
    <2>6. Rank(S, x) \in Nat /\ Rank(S, x) <= Cardinality(U) BY <1>1, <2>1, <2>5
    <2> QED BY <2>2, <2>4, <2>6
  <1> QED BY <1>2, <1>3

(* Ascending(S) holds the elements of S, each at one place.                *)
LEMMA AscendingLists ==
  ASSUME NEW S \in SUBSET Nat, IsFiniteSet(S)
  PROVE  /\ Ascending(S) \in Seq(S) /\ Len(Ascending(S)) = Cardinality(S)
         /\ Cardinality(S) \in Nat
         /\ \A x \in S : \E n \in 1..Len(Ascending(S)) : Ascending(S)[n] = x
         /\ \A n, p \in 1..Len(Ascending(S)) : Ascending(S)[n] = Ascending(S)[p] => n = p
  <1>1. PICK c : c = Cardinality(S) OBVIOUS
  <1>2. c \in Nat BY <1>1, FS_CardinalityType
  <1>3. /\ \A x \in S : Rank(S, x) \in 1..c
        /\ \A x, y \in S : x < y => Rank(S, x) < Rank(S, y)
    BY <1>1, RankGrows
  <1>4. \A x, y \in S : Rank(S, x) = Rank(S, y) => x = y
    <2> SUFFICES ASSUME NEW x \in S, NEW y \in S, Rank(S, x) = Rank(S, y) PROVE x = y
      OBVIOUS
    <2>1. x \in Nat /\ y \in Nat OBVIOUS
    <2>2. Rank(S, x) \in Nat BY <1>2, <1>3
    <2>3. ~(x < y) /\ ~(y < x) BY <1>3, <2>2
    <2> QED BY <2>1, <2>3
  <1>5. \A n \in 1..c : \E x \in S : Rank(S, x) = n
    <2> DEFINE f == [x \in S |-> Rank(S, x)]
    <2>1. f \in Injection(S, 1..c) BY <1>3, <1>4 DEF Injection, IsInjective
    <2>2. IsFiniteSet(1..c) /\ Cardinality(1..c) = c
      <3>1. 1 \in Int /\ c \in Int BY <1>2
      <3>2. IsFiniteSet(1..c) /\ Cardinality(1..c) = IF 1 > c THEN 0 ELSE c - 1 + 1
        BY <3>1, FS_Interval
      <3> QED BY <1>2, <3>2
    <2> HIDE DEF f
    <2>3. f \in Surjection(S, 1..c) BY <1>1, <2>1, <2>2, FS_Injection
    <2> QED BY <2>3 DEF Surjection, f
  <1>6. \A x \in S, n \in 1..c : Cardinality({y \in S : y < x}) = n - 1 <=> Rank(S, x) = n
    <2> SUFFICES ASSUME NEW x \in S, NEW n \in 1..c
                 PROVE Cardinality({y \in S : y < x}) = n - 1 <=> Rank(S, x) = n
      OBVIOUS
    <2>1. PICK b : b = Cardinality({y \in S : y < x}) OBVIOUS
    <2>2. {y \in S : y < x} \in SUBSET S OBVIOUS
    <2>3. IsFiniteSet({y \in S : y < x}) BY <2>2, FS_Subset
    <2>4. b \in Nat BY <2>1, <2>3, FS_CardinalityType
    <2>5. Rank(S, x) = b + 1 BY <2>1 DEF Rank
    <2> QED BY <2>1, <2>4, <2>5, <1>2
  <1>7. PICK s : s = Ascending(S) OBVIOUS
  <1>8. /\ DOMAIN s = 1..c /\ s = [n \in 1..c |-> s[n]]
        /\ \A n \in 1..c : s[n] \in S /\ Rank(S, s[n]) = n
    <2> DEFINE g(n) == CHOOSE x \in S : Cardinality({y \in S : y < x}) = n - 1
    <2>1. s = [n \in 1..c |-> g(n)]
      BY <1>1, <1>7 DEF Ascending
    <2>2. ASSUME NEW n \in 1..c PROVE s[n] \in S /\ Rank(S, s[n]) = n
      <3>1. s[n] = g(n) BY <2>1
      <3>2. \E x \in S : Cardinality({y \in S : y < x}) = n - 1 BY <1>5, <1>6
      <3>3. s[n] \in S /\ Cardinality({y \in S : y < s[n]}) = n - 1 BY <3>1, <3>2
      <3> QED BY <3>3, <1>6
    <2> HIDE DEF g
    <2>3. DOMAIN s = 1..c /\ s = [n \in 1..c |-> s[n]] BY <2>1
    <2> QED BY <2>2, <2>3
  <1>9. DOMAIN s = 1..c /\ s \in Seq(S) /\ Len(s) = c
    <2>1. s \in [1..c -> S] BY <1>8
    <2> QED BY <1>2, <1>8, <2>1
  <1>10. \A x \in S : \E n \in 1..c : s[n] = x
    <2> SUFFICES ASSUME NEW x \in S PROVE \E n \in 1..c : s[n] = x OBVIOUS
    <2>1. Rank(S, x) \in 1..c BY <1>3
    <2>2. s[Rank(S, x)] \in S /\ Rank(S, s[Rank(S, x)]) = Rank(S, x) BY <1>8, <2>1
    <2> QED BY <2>1, <2>2, <1>4
  <1>11. \A n, p \in 1..c : s[n] = s[p] => n = p BY <1>8
  <1> QED BY <1>1, <1>2, <1>7, <1>9, <1>10, <1>11

-----------------------------------------------------------------------------
(* The walk up the tree, as a function of the leaves it starts from: the   *)
(* nodes above them and the length of each layer, and the nodes that want  *)
(* a sibling.                                                              *)
Up(I, e) == {i \div Pow2[e] : i \in I}
LenAt(m, e) == CHOOSE n \in Nat : IsLayer(m, n, e)
Alone(m, I, e) ==
  {i \in Up(I, e) : Sibling(i) \notin Up(I, e) /\ Sibling(i) < LenAt(m, e)}
LoneAt(m, I, e) == Ascending(Alone(m, I, e))

(* The length of a layer is the one that IsLayer allows.                   *)
LEMMA LenAtIs ==
  ASSUME NEW m \in Nat, NEW e \in Nat, NEW n \in Nat, IsLayer(m, n, e)
  PROVE  LenAt(m, e) = n
  BY LayerUnique DEF LenAt

(* The next layer has half the nodes, rounded up.                          *)
LEMMA LenAtUp ==
  ASSUME NEW m \in Nat, NEW e \in Nat, NEW n \in Nat, n > 1, IsLayer(m, n, e)
  PROVE  IsLayer(m, Half(n), e + 1) /\ LenAt(m, e + 1) = Half(n) /\ Half(n) \in 1..(n - 1)
  <1>1. IsLayer(m, Half(n), e + 1) /\ Half(n) \in 1..(n - 1) BY LayerUp
  <1>2. Half(n) \in Nat /\ e + 1 \in Nat BY <1>1
  <1> QED BY <1>1, <1>2, LenAtIs

(* At the bottom the walk is at its leaves.                                *)
LEMMA UpBottom ==
  ASSUME NEW I \in SUBSET Nat
  PROVE  Up(I, 0) = I
  <1>1. Pow2[0] = 1 BY Pow2Def
  <1>2. \A i \in I : i \div 1 = i OBVIOUS
  <1> QED BY <1>1, <1>2 DEF Up

(* Halving the indices of a level gives those of the next.                 *)
LEMMA UpStep ==
  ASSUME NEW I \in SUBSET Nat, NEW e \in Nat
  PROVE  {i \div 2 : i \in Up(I, e)} = Up(I, e + 1)
  <1>1. PICK s \in Nat \ {0} : s = Pow2[e] /\ Pow2[e + 1] = 2 * s
    BY Pow2Def, Pow2Positive
  <1>2. \A i \in I : (i \div s) \div 2 = i \div (2 * s) BY DivTwice
  <1>3. Up(I, e) = {i \div s : i \in I} /\ Up(I, e + 1) = {i \div (2 * s) : i \in I}
    BY <1>1 DEF Up
  <1>4. \A x : x \in {y \div 2 : y \in Up(I, e)} <=> x \in Up(I, e + 1)
    <2>1. ASSUME NEW x, x \in {y \div 2 : y \in Up(I, e)} PROVE x \in Up(I, e + 1)
      <3>1. PICK y \in Up(I, e) : x = y \div 2 BY <2>1
      <3>2. PICK i \in I : y = i \div s BY <1>3
      <3>3. x = i \div (2 * s) BY <1>2, <3>1, <3>2
      <3> QED BY <1>3, <3>3
    <2>2. ASSUME NEW x \in Up(I, e + 1) PROVE x \in {y \div 2 : y \in Up(I, e)}
      <3>1. PICK i \in I : x = i \div (2 * s) BY <1>3
      <3>2. i \div s \in Up(I, e) BY <1>3
      <3> QED BY <1>2, <3>1, <3>2
    <2> QED BY <2>1, <2>2
  <1> QED BY <1>4

(* A node of the walk is a node of its layer.                              *)
LEMMA UpWithin ==
  ASSUME NEW m \in Nat, NEW I \in SUBSET (0..(m - 1)), NEW e \in Nat,
         NEW n \in Nat, IsLayer(m, n, e)
  PROVE  /\ Up(I, e) \in SUBSET (0..(n - 1)) /\ IsFiniteSet(Up(I, e))
         /\ I # {} => Up(I, e) # {}
  <1>1. PICK s \in Nat \ {0} : s = Pow2[e] BY Pow2Positive
  <1>2. m <= n * s BY <1>1 DEF IsLayer
  <1>3. ASSUME NEW i \in I PROVE i \div s \in 0..(n - 1)
    <2>1. i \in Nat /\ i < m OBVIOUS
    <2>2. PICK q \in Nat : q = i \div s /\ q * s <= i BY <2>1, DivIs
    <2>3. q < n
      <3> SUFFICES ASSUME q >= n PROVE FALSE OBVIOUS
      <3>1. PICK d \in Nat : q = n + d OBVIOUS
      <3>2. q * s = n * s + d * s /\ d * s \in Nat /\ n * s \in Nat BY <3>1
      <3> QED BY <1>2, <2>1, <2>2, <3>2
    <2> QED BY <2>2, <2>3
  <1>4. Up(I, e) \in SUBSET (0..(n - 1)) BY <1>1, <1>3 DEF Up
  <1>5. IsFiniteSet(0..(n - 1)) BY FS_Interval
  <1>6. IsFiniteSet(Up(I, e)) BY <1>4, <1>5, FS_Subset
  <1> QED BY <1>4, <1>6 DEF Up

(* Siblings come in pairs, and share the node above them.                  *)
LEMMA SiblingPairs ==
  ASSUME NEW i \in Nat
  PROVE  /\ Sibling(i) \in Nat /\ Sibling(Sibling(i)) = i /\ Sibling(i) # i
         /\ Sibling(i) \div 2 = i \div 2
         /\ \A j \in Nat : j # i /\ j \div 2 = i \div 2 => j = Sibling(i)
  BY DEF Sibling

(* The nodes that want a sibling are listed once each.                     *)
LEMMA LoneLists ==
  ASSUME NEW m \in Nat, NEW I \in SUBSET (0..(m - 1)), NEW e \in Nat,
         NEW n \in Nat, IsLayer(m, n, e)
  PROVE  /\ LoneAt(m, I, e) \in Seq(Alone(m, I, e)) /\ Len(LoneAt(m, I, e)) \in Nat
         /\ DOMAIN LoneAt(m, I, e) = 1..Len(LoneAt(m, I, e))
         /\ \A x \in Alone(m, I, e) :
              \E a \in 1..Len(LoneAt(m, I, e)) : LoneAt(m, I, e)[a] = x
         /\ \A a \in 1..Len(LoneAt(m, I, e)) : LoneAt(m, I, e)[a] \in Alone(m, I, e)
         /\ \A a, b \in 1..Len(LoneAt(m, I, e)) :
              LoneAt(m, I, e)[a] = LoneAt(m, I, e)[b] => a = b
  <1>1. PICK S : S = Alone(m, I, e) OBVIOUS
  <1>2. S \in SUBSET Nat /\ IsFiniteSet(S)
    <2>1. S \in SUBSET Up(I, e) BY <1>1 DEF Alone
    <2>2. Up(I, e) \in SUBSET (0..(n - 1)) /\ IsFiniteSet(Up(I, e)) BY UpWithin
    <2> QED BY <2>1, <2>2, FS_Subset
  <1>3. PICK L : L = Ascending(S) OBVIOUS
  <1>4. /\ L \in Seq(S) /\ Len(L) \in Nat
        /\ \A x \in S : \E a \in 1..Len(L) : L[a] = x
        /\ \A a, b \in 1..Len(L) : L[a] = L[b] => a = b
    BY <1>2, <1>3, AscendingLists
  <1>5. DOMAIN L = 1..Len(L) /\ \A a \in 1..Len(L) : L[a] \in S BY <1>4
  <1> QED BY <1>1, <1>3, <1>4, <1>5 DEF LoneAt

(* Each of them has a place in the list.                                   *)
LEMMA LoneFinds ==
  ASSUME NEW m \in Nat, NEW I \in SUBSET (0..(m - 1)), NEW e \in Nat,
         NEW n \in Nat, IsLayer(m, n, e), NEW x \in Alone(m, I, e)
  PROVE  \E a \in 1..Len(LoneAt(m, I, e)) : LoneAt(m, I, e)[a] = x
  <1>1. PICK L : L = LoneAt(m, I, e) OBVIOUS
  <1>2. PICK S : S = Alone(m, I, e) OBVIOUS
  <1>3. \A y \in S : \E a \in 1..Len(L) : L[a] = y
    <2>1. S \in SUBSET Up(I, e) BY <1>2 DEF Alone
    <2>2. Up(I, e) \in SUBSET (0..(n - 1)) /\ IsFiniteSet(Up(I, e)) BY UpWithin
    <2>3. S \in SUBSET Nat /\ IsFiniteSet(S) BY <2>1, <2>2, FS_Subset
    <2>4. L = Ascending(S) BY <1>1, <1>2 DEF LoneAt
    <2> QED BY <2>3, <2>4, AscendingLists
  <1> QED BY <1>1, <1>2, <1>3
-----------------------------------------------------------------------------
(* The siblings of a proof, level after level: those of level j are kept   *)
(* from place off[j] on.                                                   *)
Trail(m, I, sib, off, e) ==
  /\ off \in [0..e -> Nat] /\ off[0] = 0
  /\ \A j \in 0..(e - 1) :
       /\ \E n \in Nat : n > 1 /\ IsLayer(m, n, j)
       /\ off[j + 1] = off[j] + Len(LoneAt(m, I, j))
       /\ \A a \in 1..Len(LoneAt(m, I, j)) :
            sib[off[j] + a] = NodeOf(m, Sibling(LoneAt(m, I, j)[a]), Pow2[j])
  /\ (\E S : sib \in Seq(S)) /\ Len(sib) = off[e]

(* A function on 1..p is a sequence of length p.                           *)
LEMMA ListIsSeq ==
  ASSUME NEW p \in Nat, NEW f, DOMAIN f = 1..p, f = [a \in 1..p |-> f[a]]
  PROVE  (\E S : f \in Seq(S)) /\ Len(f) = p
  <1>1. f \in Seq({f[a] : a \in 1..p}) OBVIOUS
  <1>2. Len(f) = p OBVIOUS
  <1> QED BY <1>1, <1>2

(* A sequence is extended by another at its end, the rest is kept.         *)
LEMMA ConcatKeeps ==
  ASSUME NEW S, NEW R, NEW T \in Seq(S), NEW f \in Seq(R)
  PROVE  /\ T \o f \in Seq(S \cup R)
         /\ Len(T) \in Nat /\ Len(T \o f) = Len(T) + Len(f)
         /\ \A i \in 1..Len(T) : (T \o f)[i] = T[i]
         /\ \A a \in 1..Len(f) : (T \o f)[Len(T) + a] = f[a]
  <1>3. PICK U : U = S \cup R OBVIOUS
  <1>4. T \in Seq(U) /\ f \in Seq(U) BY <1>3
  <1>5. PICK p \in Nat : p = Len(f) OBVIOUS
  <1>6. PICK q \in Nat : q = Len(T) OBVIOUS
  <1>7. /\ T \o f \in Seq(U) /\ Len(T \o f) = q + p
        /\ \A i \in 1..(q + p) : (T \o f)[i] = IF i <= q THEN T[i] ELSE f[i - q]
    BY <1>4, <1>5, <1>6, ConcatProperties
  <1>8. \A i \in 1..q : (T \o f)[i] = T[i]
    <2>1. \A i \in 1..q : i \in 1..(q + p) /\ i <= q OBVIOUS
    <2> QED BY <1>7, <2>1
  <1>9. \A a \in 1..p : (T \o f)[q + a] = f[a]
    <2>1. \A a \in 1..p : q + a \in 1..(q + p) /\ ~(q + a <= q) /\ q + a - q = a OBVIOUS
    <2> QED BY <1>7, <2>1
  <1>10. T \o f \in Seq(S \cup R) BY <1>3, <1>7
  <1>11. Len(T) \in Nat /\ Len(T \o f) = Len(T) + Len(f) BY <1>5, <1>6, <1>7
  <1>12. \A i \in 1..Len(T) : (T \o f)[i] = T[i] BY <1>6, <1>8
  <1>13. \A a \in 1..Len(f) : (T \o f)[Len(T) + a] = f[a] BY <1>5, <1>6, <1>9
  <1> QED BY <1>10, <1>11, <1>12, <1>13

(* A level of a trail has a number of siblings.                            *)
LEMMA LoneIsFinite ==
  ASSUME NEW m, NEW I \in SUBSET (0..(m - 1)), m \in Nat, NEW sib, NEW off, NEW e \in Nat,
         Trail(m, I, sib, off, e), NEW j \in 0..(e - 1)
  PROVE  Len(LoneAt(m, I, j)) \in Nat
  <1>1. PICK n \in Nat : n > 1 /\ IsLayer(m, n, j) BY DEF Trail
  <1>2. j \in Nat OBVIOUS
  <1> QED BY <1>1, <1>2, LoneLists

(* The places of the levels are in order.                                  *)
LEMMA OffGrows ==
  ASSUME NEW m \in Nat, NEW I \in SUBSET (0..(m - 1)), NEW sib, NEW off, NEW e \in Nat,
         Trail(m, I, sib, off, e)
  PROVE  \A i, j \in 0..e : i <= j => off[i] <= off[j]
  <1> DEFINE S == {d \in Nat : \A i \in 0..e : i + d <= e => off[i] <= off[i + d]}
  <1>1. 0 \in S BY DEF Trail
  <1>2. ASSUME NEW d \in S PROVE d + 1 \in S
    <2> SUFFICES ASSUME NEW i \in 0..e, i + (d + 1) <= e PROVE off[i] <= off[i + (d + 1)]
      OBVIOUS
    <2>1. d \in Nat /\ off[i] <= off[i + d] OBVIOUS
    <2>2. PICK j \in 0..(e - 1) : j = i + d /\ j \in 0..e /\ j + 1 \in 0..e /\ i + (d + 1) = j + 1
      BY <2>1
    <2>3. off[j + 1] = off[j] + Len(LoneAt(m, I, j)) BY DEF Trail
    <2>4. Len(LoneAt(m, I, j)) \in Nat BY LoneIsFinite
    <2>5. off[i] \in Nat /\ off[j] \in Nat BY <2>2 DEF Trail
    <2> QED BY <2>1, <2>2, <2>3, <2>4, <2>5
  <1> HIDE DEF S
  <1>3. S = Nat
    <2>1. S \in SUBSET Nat BY DEF S
    <2> QED BY <1>1, <1>2, <2>1, InductionOn
  <1>4. ASSUME NEW i \in 0..e, NEW j \in 0..e, i <= j PROVE off[i] <= off[j]
    <2>1. j - i \in S /\ i + (j - i) = j BY <1>3, <1>4
    <2> QED BY <2>1 DEF S
  <1> QED BY <1>4

(* Every place in the siblings is one of a level.                          *)
LEMMA OffCovers ==
  ASSUME NEW m \in Nat, NEW I \in SUBSET (0..(m - 1)), NEW sib, NEW off, NEW e \in Nat,
         Trail(m, I, sib, off, e), NEW l \in 0..e, NEW x \in 1..off[l]
  PROVE  \E j \in 0..(l - 1) : \E a \in 1..Len(LoneAt(m, I, j)) : x = off[j] + a
  <1> DEFINE P(p) == \A y \in 1..off[p] :
                       \E j \in 0..(p - 1) : \E a \in 1..Len(LoneAt(m, I, j)) : y = off[j] + a
             S == {p \in Nat : p <= e => P(p)}
  <1>1. 0 \in S
    <2>1. 1..off[0] = {} BY DEF Trail
    <2> QED BY <2>1
  <1>2. ASSUME NEW p \in S PROVE p + 1 \in S
    <2> SUFFICES ASSUME p + 1 <= e, NEW y \in 1..off[p + 1]
                 PROVE \E j \in 0..(p + 1 - 1) : \E a \in 1..Len(LoneAt(m, I, j)) : y = off[j] + a
      OBVIOUS
    <2>1. p \in Nat /\ p \in 0..(e - 1) /\ p + 1 - 1 = p /\ p \in 0..e OBVIOUS
    <2>2. PICK w \in Nat : w = Len(LoneAt(m, I, p)) BY <2>1, LoneIsFinite
    <2>3. off[p + 1] = off[p] + w /\ off[p] \in Nat BY <2>1, <2>2 DEF Trail
    <2>4. CASE y <= off[p]
      <3>1. y \in 1..off[p] /\ p <= e BY <2>1, <2>3, <2>4
      <3>2. PICK j \in 0..(p - 1) : \E a \in 1..Len(LoneAt(m, I, j)) : y = off[j] + a
        BY <3>1, <2>1
      <3>3. j \in 0..p BY <2>1
      <3> QED BY <3>2, <3>3, <2>1
    <2>5. CASE y > off[p]
      <3>1. y - off[p] \in 1..w /\ y = off[p] + (y - off[p]) BY <2>3, <2>5
      <3>2. p \in 0..p BY <2>1
      <3> QED BY <3>1, <3>2, <2>1, <2>2
    <2>6. y \in Nat /\ off[p] \in Nat BY <2>3
    <2> QED BY <2>4, <2>5, <2>6
  <1> HIDE DEF S
  <1>3. S = Nat
    <2>1. S \in SUBSET Nat BY DEF S
    <2> QED BY <1>1, <1>2, <2>1, InductionOn
  <1>4. l \in S /\ l <= e BY <1>3
  <1> QED BY <1>4 DEF S

(* One more level of siblings.                                             *)
LEMMA TrailGrows ==
  ASSUME NEW m \in Nat, NEW I \in SUBSET (0..(m - 1)), NEW sib, NEW off, NEW e \in Nat,
         Trail(m, I, sib, off, e), NEW n \in Nat, n > 1, IsLayer(m, n, e),
         NEW f, f = [a \in 1..Len(LoneAt(m, I, e)) |->
                       NodeOf(m, Sibling(LoneAt(m, I, e)[a]), Pow2[e])]
  PROVE  \E o : Trail(m, I, sib \o f, o, e + 1)
  <1>1. PICK w \in Nat : w = Len(LoneAt(m, I, e)) BY LoneLists
  <1>2. f = [a \in 1..w |-> f[a]]
        /\ \A a \in 1..w : f[a] = NodeOf(m, Sibling(LoneAt(m, I, e)[a]), Pow2[e])
    BY <1>1
  <1>3. \E S : sib \in Seq(S) BY DEF Trail
  <1>4. PICK T : T = sib \o f OBVIOUS
  <1>5. /\ \E S : T \in Seq(S)
        /\ Len(sib) \in Nat /\ Len(T) = Len(sib) + w
        /\ \A i \in 1..Len(sib) : T[i] = sib[i]
        /\ \A a \in 1..w : T[Len(sib) + a] = f[a]
    <2>1. DOMAIN f = 1..w BY <1>1
    <2>2. (\E S : f \in Seq(S)) /\ Len(f) = w BY <1>2, <2>1, ListIsSeq
    <2>3. PICK S : sib \in Seq(S) BY <1>3
    <2>4. PICK R : f \in Seq(R) BY <2>2
    <2>5. /\ sib \o f \in Seq(S \cup R)
          /\ Len(sib) \in Nat /\ Len(sib \o f) = Len(sib) + Len(f)
          /\ \A i \in 1..Len(sib) : (sib \o f)[i] = sib[i]
          /\ \A a \in 1..Len(f) : (sib \o f)[Len(sib) + a] = f[a]
      BY <2>3, <2>4, ConcatKeeps
    <2> QED BY <1>4, <2>2, <2>5
  <1>6. off[e] = Len(sib) BY DEF Trail
  <1>7. PICK o : o = [j \in 0..(e + 1) |-> IF j = e + 1 THEN off[e] + w ELSE off[j]] OBVIOUS
  <1>8. \A j \in 0..e : o[j] = off[j] /\ off[j] \in Nat
    <2>1. \A j \in 0..e : j \in 0..(e + 1) /\ j # e + 1 OBVIOUS
    <2> QED BY <1>7, <2>1 DEF Trail
  <1>9. o[e + 1] = off[e] + w
    <2>1. e + 1 \in 0..(e + 1) OBVIOUS
    <2> QED BY <1>7, <2>1
  <1>10. e \in 0..e /\ 0 \in 0..e OBVIOUS
  <1>11. o \in [0..(e + 1) -> Nat] /\ o[0] = 0
    <2>1. ASSUME NEW j \in 0..(e + 1) PROVE o[j] \in Nat
      <3>1. CASE j = e + 1 BY <3>1, <1>1, <1>8, <1>9, <1>10
      <3>2. CASE j # e + 1
        <4>1. j \in 0..e BY <3>2
        <4> QED BY <4>1, <1>8
      <3> QED BY <3>1, <3>2
    <2>2. DOMAIN o = 0..(e + 1) /\ o = [j \in 0..(e + 1) |-> o[j]] BY <1>7
    <2>3. o[0] = 0 BY <1>8, <1>10 DEF Trail
    <2> QED BY <2>1, <2>2, <2>3
  <1>12. ASSUME NEW j \in 0..e
         PROVE  /\ \E x \in Nat : x > 1 /\ IsLayer(m, x, j)
                /\ o[j + 1] = o[j] + Len(LoneAt(m, I, j))
                /\ \A a \in 1..Len(LoneAt(m, I, j)) :
                     T[o[j] + a] = NodeOf(m, Sibling(LoneAt(m, I, j)[a]), Pow2[j])
    <2>1. CASE j = e
      <3>1. \E x \in Nat : x > 1 /\ IsLayer(m, x, e) OBVIOUS
      <3>2. o[e + 1] = o[e] + w BY <1>8, <1>9, <1>10
      <3>3. \A a \in 1..w : T[o[e] + a] = NodeOf(m, Sibling(LoneAt(m, I, e)[a]), Pow2[e])
        BY <1>2, <1>5, <1>6, <1>8, <1>10
      <3> QED BY <2>1, <3>1, <3>2, <3>3, <1>1
    <2>2. CASE j # e
      <3>1. j \in 0..(e - 1) /\ j + 1 \in 0..e /\ j \in 0..e BY <2>2
      <3>2. PICK v \in Nat : v = Len(LoneAt(m, I, j)) BY <3>1, LoneIsFinite
      <3>3. /\ \E x \in Nat : x > 1 /\ IsLayer(m, x, j)
            /\ off[j + 1] = off[j] + v
            /\ \A a \in 1..v :
                 sib[off[j] + a] = NodeOf(m, Sibling(LoneAt(m, I, j)[a]), Pow2[j])
        BY <3>1, <3>2 DEF Trail
      <3>4. off[j + 1] <= Len(sib)
        <4>1. \A x, y \in 0..e : x <= y => off[x] <= off[y] BY OffGrows
        <4> QED BY <4>1, <3>1, <1>6, <1>10
      <3>5. \A a \in 1..v : off[j] + a \in 1..Len(sib)
        <4>1. PICK x \in Nat, y \in Nat : x = off[j] /\ y = Len(sib) BY <3>1, <1>5, <1>8
        <4>2. x + v <= y BY <3>3, <3>4, <4>1
        <4>3. \A a \in 1..v : x + a \in 1..y BY <4>2
        <4> QED BY <4>1, <4>3, Zenon
      <3>6. o[j] = off[j] /\ o[j + 1] = off[j + 1] BY <3>1, <1>8
      <3> QED BY <3>2, <3>3, <3>5, <3>6, <1>5
    <2> QED BY <2>1, <2>2
  <1>13. e + 1 - 1 = e /\ Len(T) = o[e + 1] BY <1>5, <1>6, <1>9
  <1>14. Trail(m, I, T, o, e + 1)
    <2> DEFINE At(j) == /\ \E x \in Nat : x > 1 /\ IsLayer(m, x, j)
                        /\ o[j + 1] = o[j] + Len(LoneAt(m, I, j))
                        /\ \A a \in 1..Len(LoneAt(m, I, j)) :
                             T[o[j] + a] = NodeOf(m, Sibling(LoneAt(m, I, j)[a]), Pow2[j])
    <2>1. \A j \in 0..(e + 1 - 1) : At(j) BY <1>12, <1>13
    <2>2. \E S : T \in Seq(S) BY <1>5
    <2>3. Trail(m, I, T, o, e + 1) <=>
            /\ o \in [0..(e + 1) -> Nat] /\ o[0] = 0
            /\ \A j \in 0..(e + 1 - 1) : At(j)
            /\ (\E S : T \in Seq(S)) /\ Len(T) = o[e + 1]
      BY DEF Trail
    <2> HIDE DEF At
    <2> QED BY <1>11, <1>13, <2>1, <2>2, <2>3
  <1> QED BY <1>4, <1>14

-----------------------------------------------------------------------------
(* The proof and its verification.  The prover, compute_root and           *)
(* compute_sibling_ranges climb from the same leaves: each is at a level,  *)
(* with the siblings of the levels below behind it.                        *)
Walking == {"prove", "verify", "ranges", "done"}
AtLevel(e) == set = Up(index, e) /\ len \in Nat \ {0} /\ IsLayer(leaves, len, e)
RowsIn == \A r \in rows : \A b \in (r * k)..((r + 1) * k - 1) : b \div ChunkLen \in index
RangeAt(m, x, j) ==
  [start |-> x * (ChunkLen * Pow2[j]),
   end |-> Min({(x + 1) * (ChunkLen * Pow2[j]), m * ChunkLen}),
   cv |-> NodeOf(m, x, Pow2[j])]
Labelled(m, I, rng, off, e) ==
  /\ (\E S : rng \in Seq(S)) /\ Len(rng) = off[e]
  /\ \A j \in 0..(e - 1) : \A a \in 1..Len(LoneAt(m, I, j)) :
       rng[off[j] + a] = RangeAt(m, Sibling(LoneAt(m, I, j)[a]), j)

Proving == level \in Nat /\ AtLevel(level) /\ \E off : Trail(leaves, index, siblings, off, level)
Verifying(off, E) ==
  \E e \in 0..E :
    /\ AtLevel(e) /\ used = off[e] /\ (leaves > 1 => len > 1)
    /\ \A i \in set : cv[i] = NodeOf(leaves, i, Pow2[e])
Ranging(off, E) ==
  /\ level \in 0..E /\ AtLevel(level) /\ used = off[level]
  /\ Labelled(leaves, index, ranges, off, level)
  /\ pc = "done" => off[level] = off[E]
WalkInv ==
  /\ k \in Nat \ {0}
  /\ pc \notin Walking => siblings = <<>>
  /\ pc \notin Walking \ {"prove"} => used = 0
  /\ ~Verified => ranges = <<>>
  /\ pc \in Walking => index \in SUBSET Node /\ index # {} /\ RowsIn
  /\ pc = "prove" => Proving
  /\ pc \in Walking \ {"prove"} =>
       \E E \in Nat : \E off :
         /\ Trail(leaves, index, siblings, off, E) /\ IsLayer(leaves, 1, E)
         /\ pc = "verify" => Verifying(off, E)
         /\ Verified => Ranging(off, E)
  /\ Verified /\ leaves > 1 => verdict = Blake3Root

(* The leaves of a row hold its bytes and are leaves of the matrix.        *)
LEMMA LeavesOfRowHold ==
  ASSUME leaves \in Nat \ {0}, k \in Nat \ {0}, NEW r \in 0..(Bytes \div k - 1)
  PROVE  /\ LeavesOfRow(r) \in SUBSET Node /\ LeavesOfRow(r) # {}
         /\ \A b \in (r * k)..((r + 1) * k - 1) : b \div ChunkLen \in LeavesOfRow(r)
  <1>1. PICK c \in Nat \ {0} : c = ChunkLen BY MerkleCommitmentAssumption DEF MerkleCommitmentAssumption
  <1>2. PICK y \in Nat : y = leaves * c OBVIOUS
  <1>3. PICK w \in Nat : w = Bytes \div k /\ w * k <= y /\ r \in 0..(w - 1)
    <2>1. Bytes = y BY <1>1, <1>2 DEF Bytes
    <2> QED BY <2>1, DivIs
  <1>4. PICK lo \in Nat : lo = r * k BY <1>3
  <1>5. PICK hi \in Nat : hi = (r + 1) * k - 1 /\ lo <= hi /\ hi < y
    <2>1. (r + 1) * k = lo + k BY <1>3, <1>4
    <2>2. PICK d \in Nat : d = w - 1 - r /\ w = r + 1 + d BY <1>3
    <2>3. w * k = (r + 1) * k + d * k /\ d * k \in Nat BY <1>3, <2>2
    <2> QED BY <1>3, <1>4, <2>1, <2>3
  <1>6. ASSUME NEW b \in lo..hi
        PROVE  b \div c \in Nat /\ lo \div c <= b \div c /\ b \div c <= hi \div c
    <2>1. b \in Nat /\ lo <= b /\ b <= hi BY <1>4, <1>5
    <2> QED BY <2>1, <1>4, <1>5, DivIs, DivGrows
  <1>7. hi \div c \in Nat /\ hi \div c < leaves /\ lo \div c \in Nat
    <2>1. PICK q \in Nat : q = hi \div c /\ q * c <= hi BY <1>5, DivIs
    <2>2. q * c < leaves * c
      <3>1. q * c \in Nat OBVIOUS
      <3> QED BY <1>2, <1>5, <2>1, <3>1
    <2>3. q < leaves BY <2>2, TimesLess
    <2> QED BY <1>4, <2>1, <2>3, DivIs
  <1>8. LeavesOfRow(r) = (lo \div c)..(hi \div c) BY <1>1, <1>4, <1>5 DEF LeavesOfRow
  <1>9. lo \div c <= hi \div c BY <1>4, <1>5, DivGrows
  <1>10. LeavesOfRow(r) \in SUBSET Node BY <1>7, <1>8 DEF Node
  <1>11. lo \div c \in LeavesOfRow(r) BY <1>7, <1>8, <1>9
  <1>12. \A b \in lo..hi : b \div c \in LeavesOfRow(r) BY <1>6, <1>7, <1>8
  <1> QED BY <1>1, <1>4, <1>5, <1>10, <1>11, <1>12

(* The siblings that a level of any of the walks wants.                    *)
LEMMA LoneIs ==
  ASSUME leaves \in Nat \ {0}, NEW e \in Nat, AtLevel(e)
  PROVE  Lone = LoneAt(leaves, index, e)
  <1>1. LenAt(leaves, e) = len BY LenAtIs DEF AtLevel
  <1> QED BY <1>1 DEF Lone, Lonely, LoneAt, Alone, AtLevel

(* The prover reads its siblings in the layer of their level.              *)
LEMMA LayerOfLevel ==
  ASSUME TreeInv, leaves \in Nat \ {0}, pc \in Later \ {"tree"}, NEW e \in Nat, NEW n \in Nat,
         IsLayer(leaves, n, e), \A j \in 0..e : \E x \in Nat : x > 1 /\ IsLayer(leaves, x, j)
  PROVE  \A i \in 0..(n - 1) : layers[e + 1][i] = NodeOf(leaves, i, Pow2[e])
  <1>1. PICK S : layers \in Seq(S) BY DEF TreeInv, BuiltUpTo
  <1>2. layers # <<>> /\ DOMAIN Last(layers) = {0} BY DEF TreeInv
  <1>3. PICK h \in Nat : Len(layers) = h + 1 /\ Len(layers) \in 1..Len(layers)
                         /\ Len(layers) - 1 = h
    <2>1. Len(layers) \in Nat \ {0} BY <1>1, <1>2
    <2> QED BY <2>1
  <1>4. Built(Last(layers), leaves, h) BY <1>3 DEF TreeInv, BuiltUpTo, Last
  <1>5. IsLayer(leaves, 1, h)
    <2>1. PICK x \in 1..leaves : IsLayer(leaves, x, h) /\ DOMAIN Last(layers) = 0..(x - 1)
      BY <1>4 DEF Built
    <2>2. x - 1 \in 0..(x - 1) OBVIOUS
    <2>3. x - 1 = 0 BY <1>2, <2>1, <2>2
    <2>4. x = 1 BY <2>3
    <2> QED BY <2>1, <2>4
  <1>6. ~(h <= e)
    <2> SUFFICES ASSUME h <= e PROVE FALSE OBVIOUS
    <2>1. PICK x \in Nat : x > 1 /\ IsLayer(leaves, x, h) BY <1>3
    <2>2. x = 1 BY <2>1, <1>3, <1>5, LayerUnique
    <2> QED BY <2>1, <2>2
  <1>7. e + 1 \in 1..Len(layers) /\ e + 1 - 1 = e BY <1>3, <1>6
  <1>8. Built(layers[e + 1], leaves, e) BY <1>7 DEF TreeInv, BuiltUpTo
  <1>9. PICK x \in 1..leaves :
          /\ IsLayer(leaves, x, e)
          /\ \A i \in 0..(x - 1) : x > 1 => layers[e + 1][i] = NodeOf(leaves, i, Pow2[e])
    BY <1>8 DEF Built
  <1>10. PICK y \in Nat : y > 1 /\ IsLayer(leaves, y, e)
    <2>1. e \in 0..e OBVIOUS
    <2> QED BY <2>1
  <1>11. x = n /\ y = n
    <2>1. x \in Nat /\ leaves \in Nat OBVIOUS
    <2>2. x = n BY <2>1, <1>9, LayerUnique
    <2>3. y = n BY <2>1, <1>10, LayerUnique
    <2> QED BY <2>2, <2>3
  <1> QED BY <1>9, <1>10, <1>11

(* What compute_root has, or takes from the siblings, for a node of the    *)
(* level it is at.                                                         *)
LEMMA DigestIs ==
  ASSUME leaves \in Nat \ {0}, index \in SUBSET Node, NEW E \in Nat, NEW off,
         Trail(leaves, index, siblings, off, E), NEW e \in 0..(E - 1), AtLevel(e), used = off[e],
         \A i \in set : cv[i] = NodeOf(leaves, i, Pow2[e]),
         NEW x \in 0..(len - 1), x \in set \/ Sibling(x) \in set
  PROVE  Digest(x) = NodeOf(leaves, x, Pow2[e])
  <1>1. CASE x \in set BY <1>1 DEF Digest
  <1>2. CASE x \notin set
    <2>1. e \in Nat /\ leaves \in Nat /\ len \in Nat /\ IsLayer(leaves, len, e)
          /\ set = Up(index, e) /\ index \in SUBSET (0..(leaves - 1))
      BY DEF AtLevel, Node
    <2>2. PICK L : L = Lone /\ L = LoneAt(leaves, index, e) BY <2>1, LoneIs
    <2>3. LenAt(leaves, e) = len BY <2>1, LenAtIs
    <2>4. x \in Nat BY <2>1
    <2>5. Sibling(Sibling(x)) = x /\ Sibling(x) \in Nat BY <2>4, SiblingPairs
    <2>6. Sibling(x) \in Alone(leaves, index, e)
      <3>1. Sibling(x) \in set /\ x < len BY <1>2, <2>1
      <3> QED BY <1>2, <2>1, <2>3, <2>5, <3>1 DEF Alone
    <2>7. /\ Len(L) \in Nat /\ DOMAIN L = 1..Len(L)
          /\ \A y \in Alone(leaves, index, e) : \E a \in 1..Len(L) : L[a] = y
      <3>1. Len(L) \in Nat /\ DOMAIN L = 1..Len(L) BY <2>1, <2>2, LoneLists
      <3>2. \A y \in Alone(leaves, index, e) :
              \E a \in 1..Len(LoneAt(leaves, index, e)) : LoneAt(leaves, index, e)[a] = y
        <4>1. PICK n \in Nat, m \in Nat : n = len /\ m = leaves BY <2>1
        <4>2. index \in SUBSET (0..(m - 1)) /\ IsLayer(m, n, e) BY <2>1, <4>1
        <4>3. \A y \in Alone(m, index, e) :
                \E a \in 1..Len(LoneAt(m, index, e)) : LoneAt(m, index, e)[a] = y
          BY <2>1, <4>2, LoneLists, SMTT(40)
        <4> QED BY <4>1, <4>3, Zenon
      <3> QED BY <2>2, <3>1, <3>2, Zenon
    <2>8. PICK a \in DOMAIN L : /\ a = CHOOSE n \in DOMAIN L : Sibling(L[n]) = x
                                /\ Sibling(L[a]) = x
      <3>1. \E n \in DOMAIN L : Sibling(L[n]) = x BY <2>5, <2>6, <2>7
      <3> QED BY <3>1
    <2>9. siblings[off[e] + a] = NodeOf(leaves, Sibling(L[a]), Pow2[e])
      BY <2>2, <2>7, <2>8 DEF Trail
    <2>10. Digest(x) = siblings[off[e] + a] BY <1>2, <2>2, <2>8 DEF Digest, Taken
    <2> QED BY <2>8, <2>9, <2>10
  <1> QED BY <1>1, <1>2

(* No walk has begun.                                                      *)
LEMMA WalkInit == Init => WalkInv
  BY MerkleCommitmentAssumption
  DEF Init, WalkInv, Walking, Verified, MerkleCommitmentAssumption

(* A walk starts at the leaves of the rows.                                *)
LEMMA AtLeaves ==
  ASSUME NEW m \in Nat \ {0}, NEW I \in SUBSET (0..(m - 1))
  PROVE  Up(I, 0) = I /\ IsLayer(m, m, 0)
  <1>1. I \in SUBSET Nat OBVIOUS
  <1> QED BY <1>1, UpBottom, BottomLayer

(* A hit starts the prover at the leaves of its rows.                      *)
LEMMA WalkStart ==
  ASSUME DeviceInv, WalkInv, NEW R \in SUBSET (0..(Bytes \div k - 1)), R # {}, StartProof(R)
  PROVE  WalkInv'
  <1>1. leaves \in Nat \ {0} /\ k \in Nat \ {0} /\ siblings = <<>> /\ used = 0 /\ ranges = <<>>
    BY DEF DeviceInv, WalkInv, StartProof, Walking, Verified
  <1>2. PICK J : J = UNION {LeavesOfRow(r) : r \in R} OBVIOUS
  <1>3. /\ J \in SUBSET (0..(leaves - 1)) /\ J # {}
        /\ \A r \in R : \A b \in (r * k)..((r + 1) * k - 1) : b \div ChunkLen \in J
    <2>1. ASSUME NEW r \in R
          PROVE  /\ LeavesOfRow(r) \in SUBSET Node /\ LeavesOfRow(r) # {}
                 /\ \A b \in (r * k)..((r + 1) * k - 1) : b \div ChunkLen \in LeavesOfRow(r)
      <3>1. r \in 0..(Bytes \div k - 1) OBVIOUS
      <3> QED BY <1>1, <3>1, LeavesOfRowHold
    <2>2. \A r \in R : LeavesOfRow(r) \subseteq J BY <1>2
    <2>3. J \in SUBSET Node BY <1>2, <2>1
    <2> QED BY <2>1, <2>2, <2>3 DEF Node
  <1>4. /\ pc' = "prove" /\ rows' = R /\ index' = J /\ set' = J /\ level' = 0 /\ len' = leaves
        /\ leaves' = leaves /\ k' = k /\ used' = 0 /\ siblings' = <<>> /\ ranges' = <<>>
    BY <1>1, <1>2 DEF StartProof, inputs, results
  <1>5. Up(J, 0) = J /\ IsLayer(leaves, leaves, 0) BY <1>1, <1>3, AtLeaves
  <1>6. AtLevel(0)' BY <1>1, <1>4, <1>5 DEF AtLevel
  <1>7. PICK off : off = [j \in 0..0 |-> 0] OBVIOUS
  <1>8. Trail(leaves, J, <<>>, off, 0)
    <2>1. off \in [0..0 -> Nat] /\ off[0] = 0 BY <1>7
    <2>2. <<>> \in Seq({}) /\ Len(<<>>) = 0 OBVIOUS
    <2>3. 0..(0 - 1) = {} OBVIOUS
    <2> QED BY <2>1, <2>2, <2>3 DEF Trail
  <1>9. Proving' BY <1>4, <1>6, <1>8 DEF Proving
  <1>10. RowsIn' BY <1>3, <1>4 DEF RowsIn
  <1>11. index' \in SUBSET Node' BY <1>3, <1>4 DEF Node
  <1> QED BY <1>1, <1>3, <1>4, <1>9, <1>10, <1>11 DEF WalkInv, Walking, Verified

(* From a level to the next, for each of the walks.                        *)
LEMMA LevelUp ==
  ASSUME leaves \in Nat \ {0}, index \in SUBSET Node, NEW e \in Nat, AtLevel(e), len > 1
  PROVE  /\ {i \div 2 : i \in set} = Up(index, e + 1)
         /\ Half(len) \in 1..(len - 1) /\ IsLayer(leaves, Half(len), e + 1)
  <1>1. index \in SUBSET Nat BY DEF Node
  <1>2. leaves \in Nat /\ len \in Nat /\ IsLayer(leaves, len, e) /\ set = Up(index, e)
    BY DEF AtLevel
  <1> QED BY <1>1, <1>2, UpStep, LenAtUp

(* The prover adds the siblings of one level, or hands the proof over.     *)
LEMMA WalkProve ==
  ASSUME DeviceInv, TreeInv, WalkInv, ProveLevel
  PROVE  WalkInv'
  <1>1. /\ leaves \in Nat \ {0} /\ pc = "prove" /\ Proving /\ used = 0 /\ ranges = <<>>
        /\ index \in SUBSET Node /\ index # {} /\ RowsIn /\ k \in Nat \ {0}
    BY DEF DeviceInv, WalkInv, ProveLevel, Walking, Verified
  <1>2. /\ leaves' = leaves /\ k' = k /\ used' = 0 /\ ranges' = <<>> /\ index' = index
        /\ rows' = rows /\ Node' = Node /\ RowsIn' = RowsIn /\ pc' \in Walking
    BY <1>1 DEF ProveLevel, inputs, results, Node, RowsIn, Walking
  <1>3. PICK e \in Nat : e = level /\ AtLevel(e) BY <1>1 DEF Proving
  <1>4. PICK off : Trail(leaves, index, siblings, off, e) BY <1>1, <1>3 DEF Proving
  <1>5. len \in Nat \ {0} /\ IsLayer(leaves, len, e) BY <1>3 DEF AtLevel
  <1>6. index \in SUBSET (0..(leaves - 1)) BY <1>1 DEF Node
  <1>7. CASE len > 1
    <2>1. PICK L : L = Lone /\ L = LoneAt(leaves, index, e) BY <1>1, <1>3, LoneIs
    <2>2. PICK f : f = [a \in 1..Len(L) |-> NodeOf(leaves, Sibling(L[a]), Pow2[e])] OBVIOUS
    <2>3. Len(L) \in Nat /\ DOMAIN L = 1..Len(L)
          /\ \A a \in 1..Len(L) : L[a] \in Alone(leaves, index, e)
      BY <1>1, <1>5, <1>6, <2>1, LoneLists
    <2>4. \A j \in 0..e : \E x \in Nat : x > 1 /\ IsLayer(leaves, x, j)
      <3> SUFFICES ASSUME NEW j \in 0..e PROVE \E x \in Nat : x > 1 /\ IsLayer(leaves, x, j)
        OBVIOUS
      <3>1. CASE j = e BY <3>1, <1>5, <1>7
      <3>2. CASE j # e
        <4>1. j \in 0..(e - 1) BY <3>2
        <4> QED BY <4>1, <1>4 DEF Trail
      <3> QED BY <3>1, <3>2
    <2>5. \A i \in 0..(len - 1) : layers[e + 1][i] = NodeOf(leaves, i, Pow2[e])
      <3>1. pc \in Later \ {"tree"} /\ len \in Nat BY <1>1, <1>5 DEF Later
      <3> QED BY <1>1, <1>5, <2>4, <3>1, LayerOfLevel
    <2>6. ASSUME NEW a \in 1..Len(L) PROVE Sibling(L[a]) \in 0..(len - 1)
      <3>1. L[a] \in Up(index, e) /\ Sibling(L[a]) < LenAt(leaves, e)
        BY <2>3 DEF Alone
      <3>2. LenAt(leaves, e) = len BY <1>1, <1>5, LenAtIs
      <3>3. Up(index, e) \in SUBSET (0..(len - 1)) BY <1>1, <1>5, <1>6, UpWithin
      <3>4. L[a] \in Nat BY <3>1, <3>3
      <3>5. Sibling(L[a]) \in Nat BY <3>4, SiblingPairs
      <3> QED BY <1>5, <3>1, <3>2, <3>5
    <2>7. siblings' = siblings \o f
      <3>1. f = [n \in DOMAIN L |-> layers[e + 1][Sibling(L[n])]]
        BY <2>2, <2>3, <2>5, <2>6
      <3> QED BY <3>1, <2>1, <1>3, <1>7 DEF ProveLevel, ProverOrder
    <2>8. \E o : Trail(leaves, index, siblings \o f, o, e + 1)
      <3>1. f = [a \in 1..Len(LoneAt(leaves, index, e)) |->
                   NodeOf(leaves, Sibling(LoneAt(leaves, index, e)[a]), Pow2[e])]
        BY <2>1, <2>2
      <3>2. leaves \in Nat /\ len \in Nat BY <1>1, <1>5
      <3> QED BY <1>4, <1>5, <1>6, <1>7, <3>1, <3>2, TrailGrows
    <2>9. /\ set' = {i \div 2 : i \in set} /\ len' = Half(len) /\ level' = e + 1
          /\ pc' = "prove"
      BY <1>1, <1>3, <1>7 DEF ProveLevel
    <2>10. AtLevel(e + 1)'
      <3>1. /\ {i \div 2 : i \in set} = Up(index, e + 1)
            /\ Half(len) \in 1..(len - 1) /\ IsLayer(leaves, Half(len), e + 1)
        BY <1>1, <1>3, <1>7, LevelUp
      <3>2. Half(len) \in Nat \ {0} BY <1>5, <3>1
      <3> QED BY <1>2, <2>9, <3>1, <3>2 DEF AtLevel
    <2>11. Proving' BY <1>2, <2>7, <2>8, <2>9, <2>10 DEF Proving
    <2> QED BY <1>1, <1>2, <2>9, <2>11 DEF WalkInv, Walking, Verified
  <1>8. CASE ~(len > 1)
    <2>1. /\ pc' = "verify" /\ set' = index /\ len' = leaves /\ siblings' = siblings
          /\ cv' = [i \in index |-> Chunk(i)]
      BY <1>8 DEF ProveLevel
    <2>2. len = 1 BY <1>5, <1>8
    <2>3. Up(index, 0) = index /\ IsLayer(leaves, leaves, 0) BY <1>1, <1>6, AtLeaves
    <2>4. AtLevel(0)' BY <1>1, <1>2, <2>1, <2>3 DEF AtLevel
    <2>5. \A i \in index : cv'[i] = NodeOf(leaves, i, Pow2[0]) BY <1>1, <1>6, <2>1, BottomLayer
    <2>6. off[0] = 0 BY <1>4 DEF Trail
    <2>7. Verifying(off, e)'
      <3>1. 0 \in 0..e OBVIOUS
      <3> QED BY <1>2, <2>1, <2>4, <2>5, <2>6, <3>1 DEF Verifying
    <2>8. Trail(leaves', index', siblings', off, e) /\ IsLayer(leaves', 1, e)
      BY <1>2, <1>4, <1>5, <2>1, <2>2
    <2>9. ~Verified' BY <2>1 DEF Verified
    <2>10. \E E \in Nat : \E o :
         /\ Trail(leaves', index', siblings', o, E) /\ IsLayer(leaves', 1, E)
         /\ pc' = "verify" => Verifying(o, E)'
         /\ Verified' => Ranging(o, E)'
      BY <2>7, <2>8, <2>9
    <2> QED BY <1>1, <1>2, <2>1, <2>9, <2>10 DEF WalkInv, Walking
  <1> QED BY <1>7, <1>8

(* Where a walk may be: below the top of the trail while its layer has     *)
(* more than one node.                                                     *)
LEMMA BelowTop ==
  ASSUME leaves \in Nat \ {0}, NEW E \in Nat, NEW off,
         Trail(leaves, index, siblings, off, E), IsLayer(leaves, 1, E),
         NEW e \in 0..E, AtLevel(e)
  PROVE  e < E <=> len > 1
  <1>1. leaves \in Nat /\ len \in Nat \ {0} /\ IsLayer(leaves, len, e) /\ e \in Nat
    BY DEF AtLevel
  <1>2. CASE e = E
    <2>1. len = 1 BY <1>1, <1>2, LayerUnique
    <2> QED BY <1>2, <2>1
  <1>3. CASE e # E
    <2>1. e \in 0..(E - 1) BY <1>3
    <2>2. PICK n \in Nat : n > 1 /\ IsLayer(leaves, n, e) BY <2>1 DEF Trail
    <2>3. n = len BY <1>1, <2>2, LayerUnique
    <2> QED BY <2>1, <2>2, <2>3
  <1> QED BY <1>2, <1>3

(* The siblings of a level are those behind used, and there are enough.    *)
LEMMA EnoughLeft ==
  ASSUME leaves \in Nat \ {0}, index \in SUBSET Node, NEW E \in Nat, NEW off,
         Trail(leaves, index, siblings, off, E), NEW e \in 0..(E - 1), AtLevel(e), used = off[e]
  PROVE  /\ Len(Lone) \in Nat /\ used \in Nat /\ off[e + 1] = used + Len(Lone)
         /\ off[e + 1] \in Nat /\ off[e + 1] <= Len(siblings) /\ Len(siblings) = off[E]
  <1>1. leaves \in Nat /\ index \in SUBSET (0..(leaves - 1)) /\ e \in Nat BY DEF Node
  <1>2. Lone = LoneAt(leaves, index, e) BY <1>1, LoneIs
  <1>3. Len(Lone) \in Nat BY <1>1, <1>2, LoneIsFinite
  <1>4. off[e + 1] = off[e] + Len(Lone) BY <1>2 DEF Trail
  <1>5. e + 1 \in 0..E /\ E \in 0..E /\ e \in 0..E OBVIOUS
  <1>6. \A x, y \in 0..E : x <= y => off[x] <= off[y] BY <1>1, OffGrows
  <1>7. off \in [0..E -> Nat] /\ Len(siblings) = off[E] BY DEF Trail
  <1> QED BY <1>3, <1>4, <1>5, <1>6, <1>7

(* compute_root climbs one level.                                          *)
LEMMA WalkVerify ==
  ASSUME DeviceInv, WalkInv, VerifyLevel
  PROVE  WalkInv'
  <1>1. /\ leaves \in Nat \ {0} /\ pc = "verify" /\ ~Verified /\ ranges = <<>> /\ len > 2
        /\ index \in SUBSET Node /\ index # {} /\ RowsIn /\ k \in Nat \ {0}
    BY DEF DeviceInv, WalkInv, VerifyLevel, Walking, Verified
  <1>2. /\ leaves' = leaves /\ k' = k /\ ranges' = <<>> /\ index' = index /\ siblings' = siblings
        /\ rows' = rows /\ Node' = Node /\ RowsIn' = RowsIn /\ pc' = "verify"
    BY <1>1 DEF VerifyLevel, inputs, proof, results, Node, RowsIn
  <1>3. PICK E \in Nat : \E off :
          /\ Trail(leaves, index, siblings, off, E) /\ IsLayer(leaves, 1, E)
          /\ Verifying(off, E)
    BY <1>1 DEF WalkInv, Walking
  <1>4. PICK off :
          /\ Trail(leaves, index, siblings, off, E) /\ IsLayer(leaves, 1, E)
          /\ Verifying(off, E)
    BY <1>3
  <1>5. PICK e \in 0..E :
          /\ AtLevel(e) /\ used = off[e]
          /\ \A i \in set : cv[i] = NodeOf(leaves, i, Pow2[e])
    BY <1>4 DEF Verifying
  <1>6. e \in 0..(E - 1) /\ e \in Nat
    <2>1. len > 1 BY <1>1, <1>5 DEF AtLevel
    <2>2. e < E BY <1>1, <1>4, <1>5, <2>1, BelowTop
    <2> QED BY <2>2
  <1>7. /\ len \in Nat \ {0} /\ IsLayer(leaves, len, e) /\ set = Up(index, e)
        /\ leaves \in Nat /\ index \in SUBSET (0..(leaves - 1))
    BY <1>1, <1>5 DEF AtLevel, Node
  <1>8. PICK up : up = {i \div 2 : i \in set} /\ up = Up(index, e + 1)
    <2>1. len > 1 BY <1>1, <1>7
    <2> QED BY <1>1, <1>5, <1>6, <2>1, LevelUp
  <1>9. /\ cv' = [p \in up |-> IF 2 * p + 1 < len
                               THEN Parent(Digest(2 * p), Digest(2 * p + 1))
                               ELSE Digest(2 * p)]
        /\ set' = up /\ len' = Half(len) /\ used' = used + Len(Lone)
    BY <1>8, Zenon DEF VerifyLevel
  <1>10. set \in SUBSET (0..(len - 1)) BY <1>6, <1>7, UpWithin
  <1>11. /\ Half(len) \in 1..(len - 1) /\ IsLayer(leaves, Half(len), e + 1)
         /\ \A i \in 0..(Half(len) - 1) :
              NodeOf(leaves, i, Pow2[e + 1]) =
                IF 2 * i + 1 < len
                THEN Parent(NodeOf(leaves, 2 * i, Pow2[e]), NodeOf(leaves, 2 * i + 1, Pow2[e]))
                ELSE NodeOf(leaves, 2 * i, Pow2[e])
    <2>1. len \in Nat /\ len > 1 BY <1>1, <1>7
    <2> QED BY <1>6, <1>7, <2>1, LayerUp
  <1>12. ASSUME NEW p \in up PROVE cv'[p] = NodeOf(leaves, p, Pow2[e + 1])
    <2>1. PICK i \in set : p = i \div 2 BY <1>8
    <2>2. i \in Nat /\ i < len /\ (i = 2 * p \/ i = 2 * p + 1) /\ p \in Nat
          /\ 2 * p \in 0..(len - 1) /\ p \in 0..(Half(len) - 1)
      BY <2>1, <1>7, <1>10 DEF Half
    <2>3. Sibling(2 * p) = 2 * p + 1 /\ Sibling(2 * p + 1) = 2 * p BY <2>2 DEF Sibling
    <2>4. ASSUME NEW x \in 0..(len - 1), x = 2 * p \/ (x = 2 * p + 1 /\ 2 * p + 1 < len),
                 x \in set \/ Sibling(x) \in set
          PROVE  Digest(x) = NodeOf(leaves, x, Pow2[e])
      BY <1>1, <1>4, <1>5, <1>6, <2>4, DigestIs
    <2>5. CASE 2 * p + 1 < len
      <3>1. 2 * p + 1 \in 0..(len - 1) BY <1>7, <2>2, <2>5
      <3>2. Digest(2 * p) = NodeOf(leaves, 2 * p, Pow2[e])
        BY <2>1, <2>2, <2>3, <2>4
      <3>3. Digest(2 * p + 1) = NodeOf(leaves, 2 * p + 1, Pow2[e])
        BY <2>1, <2>2, <2>3, <2>4, <2>5, <3>1
      <3>4. cv'[p] = Parent(Digest(2 * p), Digest(2 * p + 1)) BY <1>9, <2>5
      <3> QED BY <1>11, <2>2, <2>5, <3>2, <3>3, <3>4
    <2>6. CASE ~(2 * p + 1 < len)
      <3>1. i = 2 * p BY <1>7, <2>2, <2>6
      <3>2. Digest(2 * p) = NodeOf(leaves, 2 * p, Pow2[e]) BY <2>1, <2>2, <2>4, <3>1
      <3>3. cv'[p] = Digest(2 * p) BY <1>9, <2>6
      <3> QED BY <1>11, <2>2, <2>6, <3>2, <3>3
    <2> QED BY <2>5, <2>6
  <1>13. off[e + 1] = used + Len(Lone) BY <1>1, <1>4, <1>5, <1>6, EnoughLeft
  <1>14. AtLevel(e + 1)'
    <2>1. Half(len) \in Nat \ {0} BY <1>7, <1>11
    <2> QED BY <1>2, <1>8, <1>9, <1>11, <2>1 DEF AtLevel
  <1>15. Half(len) > 1 BY <1>1, <1>7 DEF Half
  <1>16. Verifying(off, E)'
    <2>1. e + 1 \in 0..E BY <1>6
    <2> QED BY <1>2, <1>9, <1>12, <1>13, <1>14, <1>15, <2>1 DEF Verifying
  <1>17. ~Verified' BY <1>2 DEF Verified
  <1>18. \E F \in Nat : \E o :
         /\ Trail(leaves', index', siblings', o, F) /\ IsLayer(leaves', 1, F)
         /\ pc' = "verify" => Verifying(o, F)'
         /\ Verified' => Ranging(o, F)'
    BY <1>2, <1>4, <1>16, <1>17
  <1> QED BY <1>1, <1>2, <1>17, <1>18 DEF WalkInv, Walking

(* compute_root ends with every sibling used and the root in hand.         *)
LEMMA WalkVerifyTop ==
  ASSUME DeviceInv, WalkInv, VerifyTop
  PROVE  WalkInv'
  <1>1. /\ leaves \in Nat \ {0} /\ pc = "verify" /\ ~Verified /\ ranges = <<>>
        /\ index \in SUBSET Node /\ index # {} /\ RowsIn /\ k \in Nat \ {0}
    BY DEF DeviceInv, WalkInv, VerifyTop, Walking, Verified
  <1>2. /\ leaves' = leaves /\ k' = k /\ ranges' = <<>> /\ index' = index /\ siblings' = siblings
        /\ rows' = rows /\ Node' = Node /\ RowsIn' = RowsIn /\ pc' = "ranges"
        /\ set' = index /\ len' = leaves /\ level' = 0 /\ used' = 0 /\ Blake3Root' = Blake3Root
    BY <1>1 DEF VerifyTop, inputs, proof, Node, RowsIn, Blake3Root
  <1>3. PICK E \in Nat : \E off :
          /\ Trail(leaves, index, siblings, off, E) /\ IsLayer(leaves, 1, E)
          /\ Verifying(off, E)
    BY <1>1 DEF WalkInv, Walking
  <1>4. PICK off :
          /\ Trail(leaves, index, siblings, off, E) /\ IsLayer(leaves, 1, E)
          /\ Verifying(off, E)
    BY <1>3
  <1>5. PICK e \in 0..E :
          /\ AtLevel(e) /\ used = off[e] /\ (leaves > 1 => len > 1)
          /\ \A i \in set : cv[i] = NodeOf(leaves, i, Pow2[e])
    BY <1>4 DEF Verifying
  <1>6. leaves > 1 => verdict' = Blake3Root
    <2> SUFFICES ASSUME leaves > 1 PROVE verdict' = Blake3Root OBVIOUS
    <2>1. /\ len \in Nat \ {0} /\ IsLayer(leaves, len, e) /\ set = Up(index, e)
          /\ leaves \in Nat /\ index \in SUBSET (0..(leaves - 1)) /\ len > 1
      BY <1>1, <1>5 DEF AtLevel, Node
    <2>2. e < E BY <1>1, <1>4, <1>5, <2>1, BelowTop
    <2>3. e \in 0..(E - 1) /\ e \in Nat /\ e + 1 \in Nat BY <2>2
    <2>4. /\ Len(Lone) \in Nat /\ used \in Nat /\ off[e + 1] = used + Len(Lone)
          /\ off[e + 1] \in Nat /\ off[e + 1] <= Len(siblings) /\ Len(siblings) = off[E]
      BY <1>1, <1>4, <1>5, <2>3, EnoughLeft
    <2>5. len = 2
      <3>1. Enough BY <2>4 DEF Enough
      <3>2. len <= 2 BY <3>1 DEF VerifyTop
      <3> QED BY <2>1, <3>2
    <2>6. e + 1 = E
      <3>1. Half(2) = 1 BY DEF Half
      <3>2. IsLayer(leaves, 1, e + 1) BY <2>1, <2>3, <2>5, <3>1, LenAtUp
      <3> SUFFICES ASSUME e + 1 # E PROVE FALSE OBVIOUS
      <3>3. e + 1 \in 0..(E - 1) BY <2>3
      <3>4. PICK n \in Nat : n > 1 /\ IsLayer(leaves, n, e + 1) BY <1>4, <3>3 DEF Trail
      <3>5. n = 1 BY <2>1, <2>3, <3>2, <3>4, LayerUnique
      <3> QED BY <3>4, <3>5
    <2>7. used + Len(Lone) = Len(siblings) /\ len # 1 BY <2>4, <2>5, <2>6
    <2>8. verdict' = Root(Digest(0), Digest(1)) BY <2>7 DEF VerifyTop
    <2>9. ASSUME NEW x \in {0, 1} PROVE Digest(x) = NodeOf(leaves, x, Pow2[e])
      <3>1. set \in SUBSET (0..(len - 1)) /\ set # {} BY <1>1, <2>1, <2>3, UpWithin
      <3>2. Sibling(0) = 1 /\ Sibling(1) = 0 BY DEF Sibling
      <3>3. 0..(len - 1) = {0, 1} BY <2>5
      <3>4. x \in set \/ Sibling(x) \in set BY <3>1, <3>2, <3>3
      <3>5. x \in 0..(len - 1) BY <3>3
      <3> QED BY <1>1, <1>4, <1>5, <2>3, <3>4, <3>5, DigestIs
    <2>10. Root(NodeOf(leaves, 0, Pow2[e]), NodeOf(leaves, 1, Pow2[e])) = Blake3Root
      BY <2>1, <2>3, <2>5, TopNode
    <2> QED BY <2>8, <2>9, <2>10
  <1>7. AtLevel(0)'
    <2>1. index \in SUBSET (0..(leaves - 1)) BY <1>1 DEF Node
    <2>2. Up(index, 0) = index /\ IsLayer(leaves, leaves, 0) BY <1>1, <2>1, AtLeaves
    <2> QED BY <1>1, <1>2, <2>2 DEF AtLevel
  <1>8. Ranging(off, E)'
    <2>1. off[0] = 0 /\ 0 \in 0..E BY <1>4 DEF Trail
    <2>2. Labelled(leaves, index, <<>>, off, 0)
      <3>1. <<>> \in Seq({}) /\ Len(<<>>) = 0 OBVIOUS
      <3>2. 0..(0 - 1) = {} OBVIOUS
      <3> QED BY <2>1, <3>1, <3>2 DEF Labelled
    <2> QED BY <1>2, <1>7, <2>1, <2>2 DEF Ranging
  <1>9. \E F \in Nat : \E o :
         /\ Trail(leaves', index', siblings', o, F) /\ IsLayer(leaves', 1, F)
         /\ pc' = "verify" => Verifying(o, F)'
         /\ Verified' => Ranging(o, F)'
    BY <1>2, <1>4, <1>8
  <1> QED BY <1>1, <1>2, <1>6, <1>9 DEF WalkInv, Walking, Verified

(* The ranges of one more level.                                           *)
LEMMA WalkRanges ==
  ASSUME DeviceInv, WalkInv, RangeLevel
  PROVE  WalkInv'
  <1>1. /\ leaves \in Nat \ {0} /\ pc = "ranges" /\ Verified /\ (leaves > 1 => verdict = Blake3Root)
        /\ index \in SUBSET Node /\ index # {} /\ RowsIn /\ k \in Nat \ {0}
    BY DEF DeviceInv, WalkInv, RangeLevel, Walking, Verified
  <1>2. /\ leaves' = leaves /\ k' = k /\ index' = index /\ siblings' = siblings
        /\ rows' = rows /\ Node' = Node /\ RowsIn' = RowsIn
        /\ Blake3Root' = Blake3Root /\ verdict' = verdict
    BY <1>1 DEF RangeLevel, inputs, proof, Node, RowsIn, Blake3Root
  <1>3. PICK E \in Nat : \E off :
          /\ Trail(leaves, index, siblings, off, E) /\ IsLayer(leaves, 1, E)
          /\ Ranging(off, E)
    BY <1>1 DEF WalkInv, Walking
  <1>4. PICK off :
          /\ Trail(leaves, index, siblings, off, E) /\ IsLayer(leaves, 1, E)
          /\ Ranging(off, E)
    BY <1>3
  <1>5. PICK e \in 0..E : e = level BY <1>4 DEF Ranging
  <1>6. AtLevel(e) /\ used = off[e] /\ Labelled(leaves, index, ranges, off, e)
    BY <1>4, <1>5 DEF Ranging
  <1>7. /\ len \in Nat \ {0} /\ IsLayer(leaves, len, e) /\ set = Up(index, e)
        /\ leaves \in Nat /\ index \in SUBSET (0..(leaves - 1)) /\ e \in Nat
    BY <1>1, <1>6 DEF AtLevel, Node
  <1>8. e < E <=> len > 1 BY <1>1, <1>4, <1>6, BelowTop
  <1>9. Len(siblings) = off[E] /\ off \in [0..E -> Nat] BY <1>4 DEF Trail
  <1>10. CASE len > 1 /\ used < Len(siblings)
    <2>1. e \in 0..(E - 1) BY <1>8, <1>10
    <2>2. /\ Len(Lone) \in Nat /\ used \in Nat /\ off[e + 1] = used + Len(Lone)
          /\ off[e + 1] \in Nat /\ off[e + 1] <= Len(siblings)
      BY <1>1, <1>4, <1>6, <2>1, EnoughLeft
    <2>3. PICK L : L = Lone /\ L = LoneAt(leaves, index, e) BY <1>1, <1>6, LoneIs
    <2>4. /\ L \in Seq(Alone(leaves, index, e)) /\ DOMAIN L = 1..Len(L)
      <3>1. len \in Nat BY <1>7
      <3>2. /\ LoneAt(leaves, index, e) \in Seq(Alone(leaves, index, e))
            /\ DOMAIN LoneAt(leaves, index, e) = 1..Len(LoneAt(leaves, index, e))
        BY <1>7, <3>1, LoneLists
      <3> QED BY <2>3, <3>2
    <2>5. SubSeq(Lone, 1, Min({Len(Lone), Len(siblings) - used})) = L
      <3>1. PICK x \in Nat : x = Len(L) BY <2>2, <2>3
      <3>2. PICK y \in Nat : y = Len(siblings) - used /\ x <= y BY <2>2, <2>3, <3>1, <1>9
      <3>3. Min({x, y}) = x
        <4>1. x \in {x, y} /\ \A z \in {x, y} : x <= z BY <3>2
        <4>2. \A w \in {x, y} : (\A z \in {x, y} : w <= z) => w = x BY <3>2
        <4> QED BY <4>1, <4>2, Zenon DEF Min
      <3>4. SubSeq(L, 1, Len(L)) = L BY <2>4, SubSeqFull
      <3> QED BY <2>3, <3>1, <3>2, <3>3, <3>4
    <2>6. PICK chunk : chunk = ChunkLen * Pow2[e] OBVIOUS
    <2>7. PICK f : f = [n \in DOMAIN L |->
                  [start |-> Sibling(L[n]) * chunk,
                   end |-> RangeEnd(Sibling(L[n]), chunk),
                   cv |-> siblings[used + n]]]
      OBVIOUS
    <2>8. /\ ranges' = ranges \o f /\ used' = used + Len(L)
          /\ set' = {i \div 2 : i \in set} /\ len' = Half(len) /\ level' = e + 1 /\ pc' = "ranges"
      BY <1>1, <1>5, <1>10, <2>5, <2>6, <2>7 DEF RangeLevel
    <2>9. ASSUME NEW a \in 1..Len(L) PROVE f[a] = RangeAt(leaves, Sibling(L[a]), e)
      <3>1. siblings[off[e] + a] = NodeOf(leaves, Sibling(L[a]), Pow2[e])
        BY <1>4, <2>1, <2>3 DEF Trail
      <3>2. f[a] = [start |-> Sibling(L[a]) * chunk,
                    end |-> RangeEnd(Sibling(L[a]), chunk),
                    cv |-> siblings[used + a]]
        BY <2>4, <2>7
      <3> QED BY <1>6, <2>6, <3>1, <3>2 DEF RangeAt, RangeEnd, Bytes
    <2>10. /\ \E S : ranges' \in Seq(S)
           /\ Len(ranges) \in Nat /\ Len(ranges') = Len(ranges) + Len(L)
           /\ \A i \in 1..Len(ranges) : ranges'[i] = ranges[i]
           /\ \A a \in 1..Len(L) : ranges'[Len(ranges) + a] = f[a]
      <3>1. PICK w \in Nat : w = Len(L) BY <2>2, <2>3
      <3>2. f = [a \in 1..w |-> f[a]] BY <2>4, <2>7, <3>1
      <3>3. \E S : ranges \in Seq(S) BY <1>6 DEF Labelled
      <3>4. DOMAIN f = 1..w BY <2>4, <2>7, <3>1
      <3>5. (\E S : f \in Seq(S)) /\ Len(f) = w BY <3>2, <3>4, ListIsSeq
      <3>6. PICK S : ranges \in Seq(S) BY <3>3
      <3>7. PICK R : f \in Seq(R) BY <3>5
      <3>8. /\ ranges \o f \in Seq(S \cup R)
            /\ Len(ranges) \in Nat /\ Len(ranges \o f) = Len(ranges) + Len(f)
            /\ \A i \in 1..Len(ranges) : (ranges \o f)[i] = ranges[i]
            /\ \A a \in 1..Len(f) : (ranges \o f)[Len(ranges) + a] = f[a]
        BY <3>6, <3>7, ConcatKeeps
      <3> QED BY <2>8, <3>1, <3>5, <3>8
    <2>11. Len(ranges) = off[e] BY <1>6 DEF Labelled
    <2>12. ASSUME NEW j \in 0..e, NEW a \in 1..Len(LoneAt(leaves, index, j))
           PROVE  ranges'[off[j] + a] = RangeAt(leaves, Sibling(LoneAt(leaves, index, j)[a]), j)
      <3>1. CASE j = e BY <2>3, <2>9, <2>10, <2>11, <3>1
      <3>2. CASE j # e
        <4>1. j \in 0..(e - 1) /\ j \in 0..(E - 1) /\ j + 1 \in 0..E /\ e \in 0..E /\ j + 1 <= e
              /\ j \in 0..E
          BY <2>1, <3>2
        <4>2. ranges[off[j] + a] = RangeAt(leaves, Sibling(LoneAt(leaves, index, j)[a]), j)
          BY <1>6, <4>1 DEF Labelled
        <4>3. PICK v \in Nat : v = Len(LoneAt(leaves, index, j)) BY <1>4, <1>7, <4>1, LoneIsFinite
        <4>4. off[j + 1] = off[j] + v BY <1>4, <4>1, <4>3 DEF Trail
        <4>5. \A x, y \in 0..E : x <= y => off[x] <= off[y] BY <1>4, <1>7, OffGrows
        <4>6. off[j + 1] <= off[e] BY <4>1, <4>5
        <4>7. off[j] \in Nat /\ off[e] \in Nat BY <1>9, <4>1
        <4>8. off[j] + a \in 1..Len(ranges) BY <2>11, <4>3, <4>4, <4>6, <4>7
        <4> QED BY <2>10, <4>2, <4>8
      <3> QED BY <3>1, <3>2
    <2>13. Labelled(leaves, index, ranges', off, e + 1)
      <3>1. e + 1 - 1 = e /\ Len(ranges') = off[e + 1]
        BY <1>6, <1>7, <2>2, <2>3, <2>10, <2>11
      <3>2. \A j \in 0..(e + 1 - 1) : \A a \in 1..Len(LoneAt(leaves, index, j)) :
              ranges'[off[j] + a] = RangeAt(leaves, Sibling(LoneAt(leaves, index, j)[a]), j)
        BY <2>12, <3>1
      <3>3. PICK rng : rng = ranges' OBVIOUS
      <3>4. Labelled(leaves, index, rng, off, e + 1)
        <4>1. \E S : rng \in Seq(S) BY <2>10, <3>3
        <4>2. Len(rng) = off[e + 1] BY <3>1, <3>3
        <4>3. \A j \in 0..(e + 1 - 1) : \A a \in 1..Len(LoneAt(leaves, index, j)) :
                rng[off[j] + a] = RangeAt(leaves, Sibling(LoneAt(leaves, index, j)[a]), j)
          BY <3>2, <3>3
        <4> QED BY <4>1, <4>2, <4>3 DEF Labelled
      <3> QED BY <3>3, <3>4
    <2>14. AtLevel(e + 1)'
      <3>1. /\ {i \div 2 : i \in set} = Up(index, e + 1)
            /\ Half(len) \in 1..(len - 1) /\ IsLayer(leaves, Half(len), e + 1)
        BY <1>1, <1>6, <1>7, <1>10, LevelUp
      <3>2. Half(len) \in Nat \ {0} BY <1>7, <3>1
      <3> QED BY <1>2, <2>8, <3>1, <3>2 DEF AtLevel
    <2>15. Ranging(off, E)'
      <3>1. e + 1 \in 0..E BY <2>1
      <3>2. used' = off[e + 1] BY <2>2, <2>3, <2>8
      <3> QED BY <1>2, <2>8, <2>13, <2>14, <3>1, <3>2 DEF Ranging
    <2>16. \E F \in Nat : \E o :
         /\ Trail(leaves', index', siblings', o, F) /\ IsLayer(leaves', 1, F)
         /\ pc' = "verify" => Verifying(o, F)'
         /\ Verified' => Ranging(o, F)'
      BY <1>2, <1>4, <2>8, <2>15
    <2> QED BY <1>1, <1>2, <2>8, <2>16 DEF WalkInv, Walking, Verified
  <1>11. CASE ~(len > 1 /\ used < Len(siblings))
    <2>1. /\ pc' = "done" /\ UNCHANGED <<ranges, set, len, level, used>>
      BY <1>11, Zenon DEF RangeLevel
    <2>2. off[e] = off[E]
      <3>1. off[e] \in Nat /\ off[E] \in Nat BY <1>9
      <3>2. CASE e = E BY <3>2
      <3>3. CASE e # E
        <4>1. len > 1 BY <1>8, <3>3
        <4>2. ~(off[e] < off[E]) BY <1>6, <1>9, <1>11, <4>1
        <4>3. \A x, y \in 0..E : x <= y => off[x] <= off[y] BY <1>4, <1>7, OffGrows
        <4>4. off[e] <= off[E] BY <4>3
        <4> QED BY <3>1, <4>2, <4>4
      <3> QED BY <3>2, <3>3
    <2>3. AtLevel(e)' BY <1>2, <1>6, <2>1 DEF AtLevel
    <2>4. Ranging(off, E)' BY <1>2, <1>5, <1>6, <2>1, <2>2, <2>3 DEF Ranging
    <2>5. \E F \in Nat : \E o :
         /\ Trail(leaves', index', siblings', o, F) /\ IsLayer(leaves', 1, F)
         /\ pc' = "verify" => Verifying(o, F)'
         /\ Verified' => Ranging(o, F)'
      BY <1>2, <1>4, <2>1, <2>4
    <2> QED BY <1>1, <1>2, <2>1, <2>5 DEF WalkInv, Walking, Verified
  <1> QED BY <1>10, <1>11

(* Every step keeps the walk of its phase right.                           *)
LEMMA WalkStep == DeviceInv /\ TreeInv /\ WalkInv /\ [Next]_vars => WalkInv'
  <1> SUFFICES ASSUME DeviceInv, TreeInv, WalkInv, [Next]_vars PROVE WalkInv'
    OBVIOUS
  <1>1. CASE ScratchTooSmall \/ HashChunks \/ LaunchLayer \/ SwapBuffers \/ LaunchTop
             \/ (\E t \in todo : LayerThread(t)) \/ BuildTree
    <2>1. UNCHANGED <<k, siblings, used, ranges>> /\ pc \notin Walking /\ pc' \notin Walking
      BY <1>1 DEF ScratchTooSmall, HashChunks, LaunchLayer, SwapBuffers, LaunchTop, LayerThread,
         BuildTree, inputs, loop, proof, results, Walking
    <2> QED BY <2>1 DEF WalkInv, Walking, Verified
  <1>2. CASE \E R \in SUBSET (0..(Bytes \div k - 1)) : R # {} /\ StartProof(R)
    BY <1>2, WalkStart
  <1>3. CASE ProveLevel BY <1>3, WalkProve
  <1>4. CASE VerifyLevel BY <1>4, WalkVerify
  <1>5. CASE VerifyTop BY <1>5, WalkVerifyTop
  <1>6. CASE RangeLevel BY <1>6, WalkRanges
  <1>7. CASE Finished \/ UNCHANGED vars
    <2>1. UNCHANGED vars BY <1>7 DEF Finished
    <2>2. UNCHANGED <<k, leaves, pc, rows, index, siblings, set, level, len, cv, used, ranges, verdict>>
      BY <2>1 DEF vars, inputs, loop, proof, results
    <2>3. /\ Node' = Node /\ RowsIn' = RowsIn /\ Proving' = Proving /\ Blake3Root' = Blake3Root
          /\ \A off, E : Verifying(off, E)' = Verifying(off, E)
          /\ \A off, E : Ranging(off, E)' = Ranging(off, E)
      BY <2>2 DEF Node, RowsIn, Proving, Blake3Root, Verifying, Ranging, AtLevel
    <2> QED BY <2>2, <2>3 DEF WalkInv, Walking, Verified
  <1> QED BY <1>1, <1>2, <1>3, <1>4, <1>5, <1>6, <1>7 DEF Next

(* For a matrix of several chunks, whatever their number, and for any rows *)
(* of it, the leaves proved hold every byte of the rows, compute_root      *)
(* finds exactly the siblings it wants, in its order, and recomputes the   *)
(* root.                                                                   *)
THEOREM ProofsAreAccepted == Spec => []ProofAccepted
  <1>1. DeviceInv /\ WalkInv => ProofAccepted
    BY DEF WalkInv, ProofAccepted, RowsIn, Verified, Walking, DeviceInv
  <1> QED BY <1>1, DeviceInit, DeviceStep, TreeInit, TreeStep, WalkInit, WalkStep, PTL DEF Spec
-----------------------------------------------------------------------------
(* The ranges.  A chunk is under the walk at a level when the node above   *)
(* it is in the walk; it then stays so.                                    *)
Under(I, c, p) == c \div Pow2[p] \in Up(I, p)

(* What is under the walk at a level is so at the next.                    *)
LEMMA UnderStep ==
  ASSUME NEW I \in SUBSET Nat, NEW c \in Nat, NEW p \in Nat
  PROVE  /\ c \div Pow2[p + 1] = (c \div Pow2[p]) \div 2
         /\ Under(I, c, p) => Under(I, c, p + 1)
  <1>1. PICK s \in Nat \ {0} : s = Pow2[p] /\ Pow2[p + 1] = 2 * s
    BY Pow2Def, Pow2Positive
  <1>2. (c \div s) \div 2 = c \div (2 * s) BY DivTwice
  <1>3. {i \div 2 : i \in Up(I, p)} = Up(I, p + 1) BY UpStep
  <1> QED BY <1>1, <1>2, <1>3 DEF Under

(* And at every level above.                                               *)
LEMMA UnderStays ==
  ASSUME NEW I \in SUBSET Nat, NEW c \in Nat, NEW p \in Nat, NEW q \in Nat, p <= q, Under(I, c, p)
  PROVE  Under(I, c, q)
  <1> DEFINE S == {d \in Nat : Under(I, c, p + d)}
  <1>1. 0 \in S OBVIOUS
  <1>2. ASSUME NEW d \in S PROVE d + 1 \in S
    <2>1. p + d \in Nat /\ p + d + 1 = p + (d + 1) /\ d + 1 \in Nat OBVIOUS
    <2>2. Under(I, c, p + d) OBVIOUS
    <2>3. Under(I, c, p + d + 1) BY <2>1, <2>2, UnderStep
    <2> QED BY <2>1, <2>3
  <1> HIDE DEF S
  <1>3. S = Nat
    <2>1. S \in SUBSET Nat BY DEF S
    <2> QED BY <1>1, <1>2, <2>1, InductionOn
  <1>4. q - p \in S /\ p + (q - p) = q BY <1>3
  <1> QED BY <1>4 DEF S

(* A range spans the chunks of its node.                                   *)
LEMMA RangeIs ==
  ASSUME NEW m \in Nat \ {0}, NEW j \in Nat, NEW x \in Nat, x * Pow2[j] < m
  PROVE  /\ RangeAt(m, x, j).start = (x * Pow2[j]) * ChunkLen
         /\ RangeAt(m, x, j).end = (x * Pow2[j] + CoverLen(m, x, Pow2[j])) * ChunkLen
         /\ CoverLen(m, x, Pow2[j]) \in Nat \ {0}
         /\ RangeAt(m, x, j).cv = NodeOf(m, x, Pow2[j])
  <1>1. PICK s \in Nat \ {0} : s = Pow2[j] BY Pow2Positive
  <1>2. PICK C \in Nat \ {0} : C = ChunkLen
    BY MerkleCommitmentAssumption DEF MerkleCommitmentAssumption
  <1>3. PICK q \in Nat : q = x * s OBVIOUS
  <1>4. (x + 1) * s = q + s BY <1>3
  <1>5. PICK v \in Nat \ {0} : v = CoverLen(m, x, s) /\ q + v = IF q + s <= m THEN q + s ELSE m
    <2>1. CoverLen(m, x, s) = IF q + s <= m THEN s ELSE m - q BY <1>3, <1>4, Zenon DEF CoverLen
    <2>2. q < m BY <1>1, <1>3
    <2> QED BY <2>1, <2>2
  <1>6. x * (C * s) = q * C /\ (x + 1) * (C * s) = (q + s) * C
    <2>1. x * (C * s) = (x * s) * C /\ (x + 1) * (C * s) = ((x + 1) * s) * C OBVIOUS
    <2> QED BY <2>1, <1>3, <1>4
  <1>7. Min({(q + s) * C, m * C}) = (q + v) * C
    <2>1. PICK a \in Nat : a = (q + s) * C OBVIOUS
    <2>2. PICK b \in Nat : b = m * C OBVIOUS
    <2>3. PICK z \in {a, b} : z = (q + v) * C /\ z <= a /\ z <= b
      <3>1. CASE q + s <= m
        <4>1. PICK d \in Nat : m = q + s + d /\ d = m - (q + s) BY <3>1
        <4>2. m * C = (q + s) * C + d * C /\ d * C \in Nat BY <4>1
        <4> QED BY <1>5, <2>1, <2>2, <3>1, <4>2
      <3>2. CASE ~(q + s <= m)
        <4>1. PICK d \in Nat : q + s = m + d /\ d = q + s - m BY <3>2
        <4>2. (q + s) * C = m * C + d * C /\ d * C \in Nat BY <4>1
        <4> QED BY <1>5, <2>1, <2>2, <3>2, <4>2
      <3> QED BY <3>1, <3>2
    <2>4. \A w \in {a, b} : w <= a /\ w <= b => w = z BY <2>3
    <2>5. Min({a, b}) = z
      <3>1. \A w \in {a, b} : (\A y \in {a, b} : w <= y) => w = z BY <2>4
      <3>2. \A y \in {a, b} : z <= y BY <2>3
      <3> QED BY <3>1, <3>2, <2>3, Zenon DEF Min
    <2> QED BY <2>1, <2>2, <2>3, <2>5
  <1>8. /\ RangeAt(m, x, j).start = x * (C * s)
        /\ RangeAt(m, x, j).end = Min({(x + 1) * (C * s), m * C})
        /\ RangeAt(m, x, j).cv = NodeOf(m, x, s)
    BY <1>1, <1>2 DEF RangeAt
  <1> QED BY <1>1, <1>2, <1>3, <1>5, <1>6, <1>7, <1>8

(* The chunks in a range are those under its node.                         *)
LEMMA RangeCovers ==
  ASSUME NEW m \in Nat \ {0}, NEW j \in Nat, NEW x \in Nat, x * Pow2[j] < m, NEW c \in 0..(m - 1)
  PROVE  RangeAt(m, x, j).start <= c * ChunkLen /\ c * ChunkLen < RangeAt(m, x, j).end
           <=> c \div Pow2[j] = x
  <1>1. PICK s \in Nat \ {0} : s = Pow2[j] BY Pow2Positive
  <1>2. PICK C \in Nat \ {0} : C = ChunkLen
    BY MerkleCommitmentAssumption DEF MerkleCommitmentAssumption
  <1>3. PICK q \in Nat : q = x * s OBVIOUS
  <1>4. (x + 1) * s = q + s BY <1>3
  <1>5. PICK v \in Nat \ {0} : v = CoverLen(m, x, s) BY <1>1, RangeIs
  <1>6. RangeAt(m, x, j).start = q * C /\ RangeAt(m, x, j).end = (q + v) * C
    BY <1>1, <1>2, <1>3, <1>5, RangeIs
  <1>7. q * C <= c * C <=> q <= c
    <2>1. c < q => c * C < q * C
      <3> SUFFICES ASSUME c < q PROVE c * C < q * C OBVIOUS
      <3>1. PICK d \in Nat : q = c + 1 + d /\ d = q - c - 1 OBVIOUS
      <3>2. q * C = c * C + C + d * C /\ d * C \in Nat /\ c * C \in Nat BY <3>1
      <3> QED BY <3>2
    <2>2. q <= c => q * C <= c * C
      <3> SUFFICES ASSUME q <= c PROVE q * C <= c * C OBVIOUS
      <3>1. PICK d \in Nat : c = q + d /\ d = c - q OBVIOUS
      <3>2. c * C = q * C + d * C /\ d * C \in Nat /\ q * C \in Nat BY <3>1
      <3> QED BY <3>2
    <2>3. q * C \in Nat /\ c * C \in Nat OBVIOUS
    <2> QED BY <2>1, <2>2, <2>3
  <1>8. c * C < (q + v) * C <=> c < q + v
    <2>1. c \in Nat /\ q + v \in Nat OBVIOUS
    <2>2. c * C < (q + v) * C => c < q + v BY <2>1, TimesLess
    <2>3. c < q + v => c * C < (q + v) * C
      <3> SUFFICES ASSUME c < q + v PROVE c * C < (q + v) * C OBVIOUS
      <3>1. PICK d \in Nat : q + v = c + 1 + d /\ d = q + v - c - 1 OBVIOUS
      <3>2. (q + v) * C = c * C + C + d * C /\ d * C \in Nat /\ c * C \in Nat BY <3>1
      <3> QED BY <3>2
    <2> QED BY <2>2, <2>3
  <1>9. c < q + v <=> c < q + s
    <2>1. v = IF q + s <= m THEN s ELSE m - q BY <1>3, <1>4, <1>5, Zenon DEF CoverLen
    <2> QED BY <2>1
  <1>10. q <= c /\ c < q + s <=> c \div s = x
    <2>1. c \in Nat OBVIOUS
    <2>2. PICK y \in Nat : y = c \div s /\ y * s <= c /\ c < (y + 1) * s
                           /\ (\A z \in Nat : z * s <= c /\ c < (z + 1) * s => y = z)
      BY <2>1, DivIs
    <2> QED BY <2>2, <1>3, <1>4
  <1> QED BY <1>1, <1>2, <1>6, <1>7, <1>8, <1>9, <1>10

(* The place of a range: the level and the node whose sibling it is.       *)
RangeOf(off, n, j, a) ==
  /\ n = off[j] + a /\ a \in 1..Len(LoneAt(leaves, index, j))
  /\ Sibling(LoneAt(leaves, index, j)[a]) \in Nat
  /\ Sibling(LoneAt(leaves, index, j)[a]) * Pow2[j] < leaves
  /\ Sibling(LoneAt(leaves, index, j)[a]) \notin Up(index, j)
  /\ Sibling(LoneAt(leaves, index, j)[a]) \div 2 \in Up(index, j + 1)
  /\ ranges[n] = RangeAt(leaves, Sibling(LoneAt(leaves, index, j)[a]), j)

(* Every sibling of a level that is done has its range.                    *)
LEMMA RangePlace ==
  ASSUME leaves \in Nat \ {0}, index \in SUBSET Node, NEW E \in Nat, NEW off,
         Trail(leaves, index, siblings, off, E), NEW l \in 0..E,
         Labelled(leaves, index, ranges, off, l),
         NEW j \in 0..(l - 1), NEW a \in 1..Len(LoneAt(leaves, index, j))
  PROVE  RangeOf(off, off[j] + a, j, a)
  <1>1. /\ j \in 0..(E - 1) /\ j \in Nat /\ leaves \in Nat
        /\ index \in SUBSET (0..(leaves - 1)) /\ index \in SUBSET Nat
    BY DEF Node
  <1>2. PICK n \in Nat : n > 1 /\ IsLayer(leaves, n, j) BY <1>1 DEF Trail
  <1>3. LoneAt(leaves, index, j)[a] \in Alone(leaves, index, j) BY <1>1, <1>2, LoneLists
  <1>4. PICK i : i = LoneAt(leaves, index, j)[a] OBVIOUS
  <1>5. i \in Up(index, j) /\ Sibling(i) \notin Up(index, j) /\ Sibling(i) < LenAt(leaves, j)
    BY <1>3, <1>4 DEF Alone
  <1>6. LenAt(leaves, j) = n BY <1>1, <1>2, LenAtIs
  <1>7. i \in Nat
    <2>1. Up(index, j) \in SUBSET (0..(n - 1)) BY <1>1, <1>2, UpWithin
    <2> QED BY <2>1, <1>5
  <1>8. Sibling(i) \in Nat /\ Sibling(i) \div 2 = i \div 2 BY <1>7, SiblingPairs
  <1>9. Sibling(i) * Pow2[j] < leaves
    <2>1. PICK s \in Nat \ {0} : s = Pow2[j] BY Pow2Positive
    <2>2. (n - 1) * s < leaves BY <1>2, <2>1 DEF IsLayer
    <2>3. PICK x \in Nat : x = Sibling(i) /\ x < n BY <1>5, <1>6, <1>8
    <2>4. PICK d \in Nat : n - 1 = x + d /\ d = n - 1 - x BY <2>3
    <2>5. (n - 1) * s = x * s + d * s /\ d * s \in Nat /\ x * s \in Nat BY <2>4
    <2>6. x * s < leaves BY <2>2, <2>5
    <2> QED BY <2>1, <2>3, <2>6
  <1>10. i \div 2 \in Up(index, j + 1)
    <2>1. {y \div 2 : y \in Up(index, j)} = Up(index, j + 1) BY <1>1, UpStep
    <2> QED BY <1>5, <2>1
  <1>11. ranges[off[j] + a] = RangeAt(leaves, Sibling(i), j) BY <1>4 DEF Labelled
  <1> QED BY <1>4, <1>5, <1>8, <1>9, <1>10, <1>11 DEF RangeOf

(* A range covers the chunks that are first under the walk one level up.   *)
LEMMA CoveredAt ==
  ASSUME leaves \in Nat \ {0}, index \in SUBSET Node, NEW off, NEW n, NEW j \in Nat, NEW a,
         RangeOf(off, n, j, a), NEW c \in Node
  PROVE  Covers(n, c) <=> c \div Pow2[j] = Sibling(LoneAt(leaves, index, j)[a])
  <1>1. c \in 0..(leaves - 1) BY DEF Node
  <1>2. PICK x \in Nat : x = Sibling(LoneAt(leaves, index, j)[a]) /\ x * Pow2[j] < leaves
                         /\ ranges[n] = RangeAt(leaves, x, j)
    BY DEF RangeOf
  <1>3. RangeAt(leaves, x, j).start <= c * ChunkLen /\ c * ChunkLen < RangeAt(leaves, x, j).end
           <=> c \div Pow2[j] = x
    BY <1>1, <1>2, RangeCovers
  <1> QED BY <1>2, <1>3 DEF Covers

(* When compute_sibling_ranges ends every sibling has its range.           *)
LEMMA RangesComplete ==
  ASSUME DeviceInv, WalkInv, pc = "done"
  PROVE  \E E \in Nat : \E off :
           /\ Trail(leaves, index, siblings, off, E) /\ IsLayer(leaves, 1, E)
           /\ \A n \in DOMAIN ranges :
                \E j \in 0..(E - 1) : \E a \in 1..Len(LoneAt(leaves, index, j)) :
                  RangeOf(off, n, j, a)
           /\ \A j \in 0..(E - 1) : \A a \in 1..Len(LoneAt(leaves, index, j)) :
                off[j] + a \in DOMAIN ranges /\ RangeOf(off, off[j] + a, j, a)
  <1>1. leaves \in Nat \ {0} /\ index \in SUBSET Node
    BY DEF DeviceInv, WalkInv, Walking
  <1>2. PICK E \in Nat : \E off :
          /\ Trail(leaves, index, siblings, off, E) /\ IsLayer(leaves, 1, E) /\ Ranging(off, E)
    BY DEF WalkInv, Walking, Verified
  <1>3. PICK off :
          /\ Trail(leaves, index, siblings, off, E) /\ IsLayer(leaves, 1, E) /\ Ranging(off, E)
    BY <1>2
  <1>4. PICK l \in 0..E : l = level BY <1>3 DEF Ranging
  <1>5. Labelled(leaves, index, ranges, off, l) /\ off[l] = off[E] BY <1>3, <1>4 DEF Ranging
  <1>6. off \in [0..E -> Nat] BY <1>3 DEF Trail
  <1>7. PICK S : ranges \in Seq(S) BY <1>5 DEF Labelled
  <1>8. DOMAIN ranges = 1..off[l]
    <2>1. Len(ranges) = off[l] BY <1>5 DEF Labelled
    <2> QED BY <1>7, <2>1
  <1>9. leaves \in Nat /\ index \in SUBSET (0..(leaves - 1)) BY <1>1 DEF Node
  <1>10. ASSUME NEW n \in DOMAIN ranges
         PROVE  \E j \in 0..(E - 1) : \E a \in 1..Len(LoneAt(leaves, index, j)) :
                  RangeOf(off, n, j, a)
    <2>1. n \in 1..off[l] BY <1>8
    <2>2. PICK j \in 0..(l - 1) : \E a \in 1..Len(LoneAt(leaves, index, j)) : n = off[j] + a
      <3>1. \A x \in 1..off[l] :
              \E j \in 0..(l - 1) : \E a \in 1..Len(LoneAt(leaves, index, j)) : x = off[j] + a
        BY <1>3, <1>9, OffCovers
      <3> QED BY <2>1, <3>1
    <2>3. PICK a \in 1..Len(LoneAt(leaves, index, j)) : n = off[j] + a BY <2>2
    <2>4. RangeOf(off, off[j] + a, j, a) BY <1>1, <1>3, <1>5, RangePlace
    <2>5. j \in 0..(E - 1) OBVIOUS
    <2> QED BY <2>3, <2>4, <2>5
  <1>11. ASSUME NEW j \in 0..(E - 1), NEW a \in 1..Len(LoneAt(leaves, index, j))
         PROVE  off[j] + a \in DOMAIN ranges /\ RangeOf(off, off[j] + a, j, a)
    <2>1. PICK w \in Nat : w = Len(LoneAt(leaves, index, j)) BY <1>3, <1>9, LoneIsFinite
    <2>2. off[j + 1] = off[j] + w BY <1>3, <2>1 DEF Trail
    <2>3. j \in 0..E /\ j + 1 \in 0..E /\ E \in 0..E /\ l \in 0..E OBVIOUS
    <2>4. \A x, y \in 0..E : x <= y => off[x] <= off[y] BY <1>3, <1>9, OffGrows
    <2>5. off[j + 1] <= off[l] BY <1>5, <2>3, <2>4
    <2>6. off[j] \in Nat /\ off[l] \in Nat BY <1>6, <2>3
    <2>7. off[j] + a \in DOMAIN ranges BY <1>8, <2>1, <2>2, <2>5, <2>6
    <2>8. j \in 0..(l - 1)
      <3> SUFFICES ASSUME l <= j PROVE FALSE OBVIOUS
      <3>1. off[l] <= off[j] BY <2>3, <2>4
      <3> QED BY <2>1, <2>2, <2>5, <2>6, <3>1
    <2> QED BY <1>1, <1>3, <1>5, <2>7, <2>8, RangePlace
  <1> QED BY <1>3, <1>10, <1>11

(* The invariant implies the property.                                     *)
LEMMA RangesRightHolds == DeviceInv /\ WalkInv => RangesRight
  <1> SUFFICES ASSUME DeviceInv, WalkInv, pc = "done"
               PROVE  /\ \A n \in DOMAIN ranges :
                          ranges[n].cv = Subtree[(ranges[n].end - ranges[n].start) \div ChunkLen]
                                                [ranges[n].start \div ChunkLen]
                      /\ \A c \in index, n \in DOMAIN ranges : ~Covers(n, c)
                      /\ \A c \in Node \ index :
                           \E n \in DOMAIN ranges : \A m \in DOMAIN ranges : Covers(m, c) <=> m = n
    BY DEF RangesRight
  <1>1. /\ leaves \in Nat \ {0} /\ index \in SUBSET Node /\ index # {}
        /\ index \in SUBSET (0..(leaves - 1)) /\ index \in SUBSET Nat
    BY DEF DeviceInv, WalkInv, Walking, Node
  <1>2. PICK E \in Nat : \E off :
           /\ Trail(leaves, index, siblings, off, E) /\ IsLayer(leaves, 1, E)
           /\ \A n \in DOMAIN ranges :
                \E j \in 0..(E - 1) : \E a \in 1..Len(LoneAt(leaves, index, j)) :
                  RangeOf(off, n, j, a)
           /\ \A j \in 0..(E - 1) : \A a \in 1..Len(LoneAt(leaves, index, j)) :
                off[j] + a \in DOMAIN ranges /\ RangeOf(off, off[j] + a, j, a)
    BY RangesComplete
  <1>3. PICK off :
           /\ Trail(leaves, index, siblings, off, E) /\ IsLayer(leaves, 1, E)
           /\ \A n \in DOMAIN ranges :
                \E j \in 0..(E - 1) : \E a \in 1..Len(LoneAt(leaves, index, j)) :
                  RangeOf(off, n, j, a)
           /\ \A j \in 0..(E - 1) : \A a \in 1..Len(LoneAt(leaves, index, j)) :
                off[j] + a \in DOMAIN ranges /\ RangeOf(off, off[j] + a, j, a)
    BY <1>2
  <1>4. ASSUME NEW n \in DOMAIN ranges
        PROVE  ranges[n].cv = Subtree[(ranges[n].end - ranges[n].start) \div ChunkLen]
                                     [ranges[n].start \div ChunkLen]
    <2>1. PICK j \in 0..(E - 1) : \E a \in 1..Len(LoneAt(leaves, index, j)) :
            RangeOf(off, n, j, a)
      BY <1>3
    <2>2. PICK x \in Nat : x * Pow2[j] < leaves /\ ranges[n] = RangeAt(leaves, x, j)
      BY <2>1 DEF RangeOf
    <2>3. PICK C \in Nat \ {0} : C = ChunkLen
      BY MerkleCommitmentAssumption DEF MerkleCommitmentAssumption
    <2>4. PICK q \in Nat : q = x * Pow2[j]
      <3>1. j \in Nat OBVIOUS
      <3>2. PICK s \in Nat : s = Pow2[j] BY <3>1, Pow2Positive
      <3>3. x * s \in Nat OBVIOUS
      <3> QED BY <3>2, <3>3
    <2>5. PICK v \in Nat \ {0} : v = CoverLen(leaves, x, Pow2[j])
      <3>1. j \in Nat OBVIOUS
      <3> QED BY <1>1, <2>2, <3>1, RangeIs
    <2>6. /\ ranges[n].start = q * C /\ ranges[n].end = (q + v) * C
          /\ ranges[n].cv = NodeOf(leaves, x, Pow2[j])
      <3>1. j \in Nat OBVIOUS
      <3> QED BY <1>1, <2>2, <2>3, <2>4, <2>5, <3>1, RangeIs
    <2>7. \A y \in Nat : (y * C) \div C = y
      <3> SUFFICES ASSUME NEW y \in Nat PROVE (y * C) \div C = y OBVIOUS
      <3>1. PICK z \in Nat : z = y * C OBVIOUS
      <3>2. (y + 1) * C = z + C BY <3>1
      <3>3. y * C <= z /\ z < (y + 1) * C BY <3>1, <3>2
      <3> QED BY <3>1, <3>3, DivIs
    <2>8. (q + v) * C - q * C = v * C OBVIOUS
    <2>9. NodeOf(leaves, x, Pow2[j]) = Subtree[v][q] BY <2>4, <2>5 DEF NodeOf
    <2>10. (ranges[n].end - ranges[n].start) \div ChunkLen = v BY <2>3, <2>6, <2>7, <2>8
    <2>11. ranges[n].start \div ChunkLen = q BY <2>3, <2>6, <2>7
    <2> QED BY <2>6, <2>9, <2>10, <2>11
  <1>5. ASSUME NEW c \in index, NEW n \in DOMAIN ranges, Covers(n, c) PROVE FALSE
    <2>1. PICK j \in 0..(E - 1) : \E a \in 1..Len(LoneAt(leaves, index, j)) :
            RangeOf(off, n, j, a)
      BY <1>3
    <2>2. PICK a : RangeOf(off, n, j, a) BY <2>1
    <2>3. c \in Node /\ j \in Nat BY <1>1
    <2>4. c \div Pow2[j] = Sibling(LoneAt(leaves, index, j)[a])
      BY <1>1, <1>5, <2>2, <2>3, CoveredAt
    <2>5. c \div Pow2[j] \in Up(index, j) BY DEF Up
    <2> QED BY <2>2, <2>4, <2>5 DEF RangeOf
  <1>6. ASSUME NEW c \in Node \ index
        PROVE  \E n \in DOMAIN ranges : \A m \in DOMAIN ranges : Covers(m, c) <=> m = n
    <2>1. c \in Nat /\ c \in 0..(leaves - 1) /\ c \in Node BY DEF Node
    <2>2. PICK j \in 0..(E - 1) : ~Under(index, c, j) /\ Under(index, c, j + 1)
      <3> DEFINE T == {p \in Nat : Under(index, c, p)}
      <3>1. Under(index, c, E)
        <4>1. Up(index, E) \in SUBSET (0..(1 - 1)) /\ Up(index, E) # {}
          BY <1>1, <1>3, UpWithin
        <4>2. {c} \in SUBSET (0..(leaves - 1)) BY <2>1
        <4>3. Up({c}, E) \in SUBSET (0..(1 - 1)) BY <1>1, <1>3, <4>2, UpWithin
        <4>4. c \div Pow2[E] \in Up({c}, E) BY DEF Up
        <4>5. 0..(1 - 1) = {0} OBVIOUS
        <4> QED BY <4>1, <4>3, <4>4, <4>5 DEF Under
      <3>2. T \in SUBSET Nat /\ T # {} BY <3>1
      <3>3. PICK p \in T : \A y \in T : p <= y BY <3>2, LeastNat
      <3>4. p \in Nat /\ Under(index, c, p) /\ p <= E BY <3>1, <3>3
      <3>5. p # 0
        <4>1. Up(index, 0) = index /\ Up({c}, 0) = {c} BY <1>1, <2>1, UpBottom
        <4>2. c \div Pow2[0] \in Up({c}, 0) BY DEF Up
        <4>3. ~Under(index, c, 0) BY <4>1, <4>2 DEF Under
        <4> QED BY <3>4, <4>3
      <3>6. p - 1 \in 0..(E - 1) /\ p - 1 + 1 = p /\ ~(p <= p - 1) /\ p - 1 \in Nat
        BY <3>4, <3>5
      <3>7. p - 1 \notin T BY <3>3, <3>6
      <3> QED BY <3>4, <3>6, <3>7
    <2>3. j \in Nat /\ j + 1 \in Nat OBVIOUS
    <2>4. PICK y \in Nat : y = c \div Pow2[j]
      <3>1. PICK s \in Nat \ {0} : s = Pow2[j] BY <2>3, Pow2Positive
      <3> QED BY <2>1, <3>1, DivIs
    <2>5. PICK h \in Nat : h > 1 /\ IsLayer(leaves, h, j) BY <1>3 DEF Trail
    <2>6. PICK i \in Up(index, j) : i \div 2 = y \div 2
      <3>1. c \div Pow2[j + 1] = y \div 2 BY <1>1, <2>1, <2>3, <2>4, UnderStep
      <3>2. y \div 2 \in Up(index, j + 1) BY <2>2, <3>1 DEF Under
      <3>3. {x \div 2 : x \in Up(index, j)} = Up(index, j + 1) BY <1>1, <2>3, UpStep
      <3> QED BY <3>2, <3>3
    <2>7. i \in Nat /\ y \notin Up(index, j) /\ y = Sibling(i) /\ y < h
      <3>1. Up(index, j) \in SUBSET (0..(h - 1)) BY <1>1, <2>3, <2>5, UpWithin
      <3>2. y \notin Up(index, j) BY <2>2, <2>4 DEF Under
      <3>3. i \in Nat /\ y # i BY <2>6, <3>1, <3>2
      <3>4. y = Sibling(i) BY <2>6, <3>3, SiblingPairs
      <3>5. y < h
        <4>1. {c} \in SUBSET (0..(leaves - 1)) BY <2>1
        <4>2. Up({c}, j) \in SUBSET (0..(h - 1)) BY <1>1, <2>3, <2>5, <4>1, UpWithin
        <4>3. y \in Up({c}, j) BY <2>4 DEF Up
        <4> QED BY <4>2, <4>3
      <3> QED BY <3>2, <3>3, <3>4, <3>5
    <2>8. i \in Alone(leaves, index, j)
      <3>1. LenAt(leaves, j) = h BY <1>1, <2>3, <2>5, LenAtIs
      <3> QED BY <2>6, <2>7, <3>1 DEF Alone
    <2>9. PICK a \in 1..Len(LoneAt(leaves, index, j)) : LoneAt(leaves, index, j)[a] = i
      BY <1>1, <2>3, <2>5, <2>8, LoneFinds
    <2>10. off[j] + a \in DOMAIN ranges /\ RangeOf(off, off[j] + a, j, a) BY <1>3
    <2>11. Covers(off[j] + a, c) BY <1>1, <2>1, <2>3, <2>4, <2>7, <2>9, <2>10, CoveredAt
    <2>12. ASSUME NEW m \in DOMAIN ranges, Covers(m, c) PROVE m = off[j] + a
      <3>1. PICK p \in 0..(E - 1) : \E b \in 1..Len(LoneAt(leaves, index, p)) :
              RangeOf(off, m, p, b)
        BY <1>3
      <3>2. PICK b \in 1..Len(LoneAt(leaves, index, p)) : RangeOf(off, m, p, b) BY <3>1
      <3>3. p \in Nat /\ p + 1 \in Nat OBVIOUS
      <3>4. c \div Pow2[p] = Sibling(LoneAt(leaves, index, p)[b])
        BY <1>1, <2>1, <2>12, <3>2, <3>3, CoveredAt
      <3>5. ~Under(index, c, p) BY <3>2, <3>4 DEF Under, RangeOf
      <3>6. Under(index, c, p + 1)
        <4>1. c \div Pow2[p + 1] = (c \div Pow2[p]) \div 2 BY <1>1, <2>1, <3>3, UnderStep
        <4> QED BY <3>2, <3>4, <4>1 DEF Under, RangeOf
      <3>7. ~(p < j)
        <4> SUFFICES ASSUME p + 1 <= j PROVE FALSE OBVIOUS
        <4>1. Under(index, c, j) BY <1>1, <2>1, <2>3, <3>3, <3>6, UnderStays
        <4> QED BY <4>1, <2>2
      <3>8. ~(j < p)
        <4> SUFFICES ASSUME j + 1 <= p PROVE FALSE OBVIOUS
        <4>1. Under(index, c, p) BY <1>1, <2>1, <2>2, <2>3, <3>3, UnderStays
        <4> QED BY <4>1, <3>5
      <3>9. p = j BY <3>7, <3>8
      <3>10. LoneAt(leaves, index, j)[b] = i
        <4>1. PICK z : z = LoneAt(leaves, index, j)[b] OBVIOUS
        <4>2. z \in Nat
          <5>1. z \in Alone(leaves, index, j) BY <1>1, <2>3, <2>5, <3>9, <4>1, LoneLists
          <5>2. Up(index, j) \in SUBSET (0..(h - 1)) BY <1>1, <2>3, <2>5, UpWithin
          <5> QED BY <5>1, <5>2 DEF Alone
        <4>3. Sibling(z) = Sibling(i) BY <2>4, <2>7, <3>4, <3>9, <4>1
        <4>4. Sibling(Sibling(z)) = z /\ Sibling(Sibling(i)) = i BY <2>7, <4>2, SiblingPairs
        <4> QED BY <4>1, <4>3, <4>4
      <3>11. a = b
        <4>1. \A u, w \in 1..Len(LoneAt(leaves, index, j)) :
                LoneAt(leaves, index, j)[u] = LoneAt(leaves, index, j)[w] => u = w
          BY <1>1, <2>3, <2>5, LoneLists
        <4> QED BY <2>9, <3>9, <3>10, <4>1
      <3>12. m = off[p] + b BY <3>2 DEF RangeOf
      <3> QED BY <3>9, <3>11, <3>12
    <2> QED BY <2>10, <2>11, <2>12
  <1> QED BY <1>4, <1>5, <1>6

(* Each range of compute_sibling_ranges is labelled with the BLAKE3 value  *)
(* of exactly its bytes, and with the proved leaves the ranges make up a   *)
(* matrix of any number of chunks, each byte once.                         *)
THEOREM RangesTile == Spec => []RangesRight
  <1>1. DeviceInv /\ WalkInv => RangesRight BY RangesRightHolds
  <1> QED BY <1>1, DeviceInit, DeviceStep, TreeInit, TreeStep, WalkInit, WalkStep, PTL DEF Spec

=============================================================================
