--------------------------- MODULE MiningPattern ---------------------------
(***************************************************************************)
(* The row and column patterns of a job, and how the verifier recovers     *)
(* them from the indices of a proof: PeriodicPattern of zk-pow and the     *)
(* pattern of each search path (src/gateway/mining_job.rs).  A pattern is  *)
(* a nest of three strides, innermost first, each <<stride, length>>.      *)
(***************************************************************************)
EXTENDS Integers, Sequences, FiniteSets

Dims == 3               \* PeriodicPattern::NUM_DIMS
MaxPeriod == 16777216   \* 2^24

Increasing(s) == \A i \in 1..(Len(s) - 1) : s[i] < s[i + 1]
Least(S) == CHOOSE x \in S : \A y \in S : x <= y

-----------------------------------------------------------------------------
(* from_list: the list is cut at its least period until one index is left. *)
(* A list with no period keeps a dimension of length 0, which no pattern   *)
(* has.                                                                    *)
Periods(p) ==
  {q \in 1..(Len(p) - 1) :
     Len(p) % q = 0 /\ \A i \in 1..(Len(p) - q) : p[i + q] = p[i] + p[q + 1]}

Strides[p \in Seq(Nat)] ==
  IF Len(p) <= 1 THEN <<>>
  ELSE IF Periods(p) = {} THEN << <<1, 0>> >>
  ELSE LET q == Least(Periods(p))
       IN  Append(Strides[SubSeq(p, 1, q)], <<p[q + 1], Len(p) \div q>>)

PeriodOf(dim) == dim[1] * dim[2]

(* The unused dimensions repeat the period, with one step each.            *)
Shape(p) ==
  LET s == Strides[p]
      period == IF s = <<>> THEN 1 ELSE PeriodOf(s[Len(s)])
  IN  [i \in 1..Dims |-> IF i <= Len(s) THEN s[i] ELSE <<period, 1>>]

(* is_valid: what a dimension stores is a factor of the period below it    *)
(* and a length, one byte each; a single stride is not broken in two, and  *)
(* after a dimension of length 1 there are only others like it.            *)
Below(shape, i) == IF i = 1 THEN 1 ELSE PeriodOf(shape[i - 1])
Factor(shape, i) == shape[i][1] \div Below(shape, i)
IsValid(shape) ==
  \A i \in 1..Dims :
    LET done == \E j \in 1..i : shape[j][2] = 1
    IN  /\ shape[i][2] \in 1..256 /\ Factor(shape, i) \in 1..256
        /\ shape[i][1] = Factor(shape, i) * Below(shape, i)
        /\ PeriodOf(shape[i]) <= MaxPeriod
        /\ IF done THEN shape[i][2] = 1 /\ Factor(shape, i) = 1
                   ELSE Factor(shape, i) > 1 \/ Below(shape, i) = 1

FromListOk(p) ==
  /\ p # <<>> /\ Increasing(p) /\ p[1] = 0
  /\ Len(Strides[p]) <= Dims
  /\ IsValid(Shape(p))

(* offset_is_valid: from the outermost dimension in, what is left of the   *)
(* offset is below the stride.                                             *)
Rest(shape, offset, i) == offset % PeriodOf(shape[i])
OffsetIsValid(shape, offset) ==
  LET left[i \in 1..Dims] ==
        Rest(shape, IF i = Dims THEN offset ELSE left[i + 1], i)
  IN  \A i \in 1..Dims : left[i] < shape[i][1]

(* list_to_pattern: what the verifier makes of the indices of a proof.     *)
Normalized(p) == [i \in DOMAIN p |-> p[i] - p[1]]
Accepted(p) ==
  /\ p # <<>> /\ Increasing(p)
  /\ FromListOk(Normalized(p))
  /\ OffsetIsValid(Shape(Normalized(p)), p[1])

-----------------------------------------------------------------------------
(* What the job says of each path: build_mining_config_cpp_search, two     *)
(* rows 8 apart and 16 pairs of columns; build_mining_config_triton_norotl,*)
(* two adjacent rows and 128 columns.                                      *)
CppRows == <<0, 8>>
CppColsAdjacent ==        \* mutant: the columns of a thread taken as a run
  [i \in 1..32 |-> i - 1]
CppCols == [i \in 1..32 |-> ((i - 1) \div 2) * 8 + ((i - 1) % 2)]
TritonRows == <<0, 1>>
TritonCols == [i \in 1..128 |-> i - 1]
JobRows(path) == IF path = "CppSearch" THEN CppRows ELSE TritonRows
JobCols(path) == IF path = "CppSearch" THEN CppCols ELSE TritonCols
=============================================================================
