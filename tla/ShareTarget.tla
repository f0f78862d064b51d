---------------------------- MODULE ShareTarget ----------------------------
(***************************************************************************)
(* From the bits of a template to the target the search kernel compares    *)
(* with, and to the bound the verifier uses for the same proof:            *)
(*   miner:    bits_to_target, target_be_to_le (src/gateway/block.rs),     *)
(*             mul_u256_u128 and MiningJob::build (gateway/mining_job.rs), *)
(*             the compare of csrc/pearl_gemm/pearl_blake3_compare_sm80.cuh;*)
(*   verifier: nbits_to_difficulty (deps/zk-pow/src/api/proof_utils.rs),   *)
(*             extract_difficulty_bound (api/sanity_checks.rs).            *)
(* The widths are parameters: a byte has Base values and an integer of 256 *)
(* bits has Limbs bytes.  Byte 0 is the least significant one.  The build  *)
(* is the release build, in which a usize that goes below zero wraps.      *)
(***************************************************************************)
EXTENDS Integers

CONSTANTS
  Base,       \* values of a byte (256)
  Limbs,      \* bytes of a 256-bit integer (32)
  Exponents,  \* values of the top byte of bits
  Factors     \* h * w * dot_product_length of the mining configurations

ASSUME ShareTargetAssumption ==
  /\ Base \in Nat /\ Base > 1
  /\ Limbs \in Nat /\ Limbs > 3
  /\ Exponents \subseteq Nat
  /\ Factors \subseteq Nat \ {0}

VARIABLES
  exponent, mantissa, \* the fields of bits
  factor,             \* adjustment
  pc,
  target,             \* bits_to_target, as bytes
  out,                \* mul_u256_u128: out, Limbs + 1 of them
  i, j, carry,        \* its loops
  adjusted            \* its result: bytes, or an error

vars == <<exponent, mantissa, factor, pc, target, out, i, j, carry, adjusted>>
-----------------------------------------------------------------------------
Power[n \in Nat] == IF n = 0 THEN 1 ELSE Base * Power[n - 1]
Byte == 0..(Base - 1)
Pos  == 0..(Limbs - 1)
Width == Power[Limbs]
DigitOf(n, x) == (n \div Power[x]) % Base
Value(bytes, len) ==
  LET sum[n \in 0..len] ==
        IF n = 0 THEN 0 ELSE sum[n - 1] + bytes[n - 1] * Power[n - 1]
  IN  sum[len]
Err == <<>>   \* no bytes

ShiftUnbiased(e) == e - 2         \* mutant: one byte too far
Shift(e) == e - 3

(* The mantissa's bytes land at the shift; past the top, start wraps and   *)
(* nothing is copied.                                                      *)
BitsToTarget(e, m) ==
  [x \in Pos |->
     IF e < 3 THEN DigitOf(m \div Power[3 - e], x)
     ELSE IF Shift(e) <= Limbs - 3 /\ x \in Shift(e)..(Shift(e) + 2)
          THEN DigitOf(m, x - Shift(e))
          ELSE 0]

Init ==
  /\ exponent \in Exponents /\ mantissa \in 0..(Power[3] - 1) /\ factor \in Factors
  /\ pc = "bits"
  /\ target = [x \in Pos |-> 0]
  /\ out = [x \in 0..Limbs |-> 0]
  /\ i = 0 /\ j = 0 /\ carry = 0
  /\ adjusted = Err

Decode ==
  /\ pc = "bits" /\ pc' = "byte"
  /\ target' = BitsToTarget(exponent, mantissa)
  /\ UNCHANGED <<exponent, mantissa, factor, out, i, j, carry, adjusted>>

(* for i in 0..32: the low byte of the product is added in place.          *)
MultiplyByte ==
  LET prod == target[i] * factor IN
  /\ pc = "byte" /\ i < Limbs
  /\ out' = [out EXCEPT ![i] = @ + (prod % Base)]
  /\ carry' = prod \div Base
  /\ j' = i + 1
  /\ pc' = "spread"
  /\ UNCHANGED <<exponent, mantissa, factor, target, i, adjusted>>

(* while carry > 0 && j < out.len(): the rest goes up, a byte at a time.   *)
KeepAll(s) == s                   \* mutant: the byte is not masked
Keep(s) == s % Base
NextCarryLost(c, s) == c \div Base   \* mutant: the carry of the sum is lost
NextCarry(c, s) == (c \div Base) + (s \div Base)

Spread ==
  LET s == out[j] + (carry % Base) IN
  /\ pc = "spread" /\ carry > 0 /\ j <= Limbs
  /\ out' = [out EXCEPT ![j] = Keep(s)]
  /\ carry' = NextCarry(carry, s)
  /\ j' = j + 1
  /\ UNCHANGED <<exponent, mantissa, factor, pc, target, i, adjusted>>

(* What is left of carry beyond the last byte is dropped.                  *)
NextByte ==
  /\ pc = "spread" /\ (carry = 0 \/ j > Limbs)
  /\ i' = i + 1 /\ carry' = 0
  /\ pc' = "byte"
  /\ UNCHANGED <<exponent, mantissa, factor, target, out, j, adjusted>>

(* The tidy pass: every byte normalised, the top one must stay zero.       *)
Tidied[x \in 0..Limbs] ==      \* the carry into byte x
  IF x = 0 THEN 0 ELSE (out[x - 1] + Tidied[x - 1]) \div Base
Finish ==
  /\ pc = "byte" /\ i = Limbs
  /\ adjusted' = IF out[Limbs] + Tidied[Limbs] > 0 THEN Err
                 ELSE [x \in Pos |-> (out[x] + Tidied[x]) % Base]
  /\ pc' = "done"
  /\ UNCHANGED <<exponent, mantissa, factor, target, out, i, j, carry>>

Built == pc = "done" /\ UNCHANGED vars

Next == Decode \/ MultiplyByte \/ Spread \/ NextByte \/ Finish \/ Built
Spec == Init /\ [][Next]_vars
-----------------------------------------------------------------------------
(* The kernel compares from the most significant part down.                *)
MeetsUpwards(h, t) ==             \* mutant: from the least significant part
  \/ h = t
  \/ \E x \in Pos : h[x] < t[x] /\ \A y \in Pos : y < x => h[y] = t[y]
Meets(h, t) ==
  \/ h = t
  \/ \E x \in Pos : h[x] < t[x] /\ \A y \in Pos : y > x => h[y] = t[y]

Negative == 2 * mantissa >= Power[3]
NbitsToDifficulty ==
  IF exponent = 0 \/ Negative THEN 0
  ELSE IF exponent <= 3 THEN mantissa \div Power[3 - exponent]
  ELSE (mantissa * Power[exponent - 3]) % Width
DifficultyBound ==
  IF NbitsToDifficulty > (Width - 1) \div factor THEN Width - 1
  ELSE NbitsToDifficulty * factor
-----------------------------------------------------------------------------
Product == Value(target, Limbs) * factor

(* The loops of mul_u256_u128 keep the product of the bytes done so far,   *)
(* modulo the width of out, while entries of out exceed a byte's range; no *)
(* entry ever holds the sum of three bytes.                                *)
Done == [x \in Pos |-> IF x < i \/ (x = i /\ pc = "spread") THEN target[x] ELSE 0]
PartialProduct ==
  pc \in {"byte", "spread"} =>
    /\ (Value(out, Limbs + 1) + carry * Power[j]) % (Width * Base)
         = (Value(Done, Limbs) * factor) % (Width * Base)
    /\ \A x \in 0..Limbs : out[x] \in 0..(2 * Base - 2)

(* When the product fits in the 33 bytes of out, the result is the product *)
(* exactly when that fits in 32, and an error otherwise.                   *)
ExactOrError ==
  (pc = "done" /\ Product < Width * Base) =>
    IF Product < Width THEN adjusted # Err /\ Value(adjusted, Limbs) = Product
                       ELSE adjusted = Err

(* Miner and verifier read the same target from bits that are not negative *)
(* and name at most 256 bits.                                              *)
SameTarget ==
  (pc # "bits" /\ ~Negative /\ exponent <= Limbs) => Value(target, Limbs) = NbitsToDifficulty

(* Whatever overflow does, every hash the kernel takes for a hit meets the *)
(* verifier's bound, with exactly one exception: for bits with the sign    *)
(* bit the verifier's target is 0, while bits_to_target has no such case,  *)
(* so the kernel takes hashes the verifier refuses unless the miner's      *)
(* target happens to be 0 too.                                             *)
Accepted == \A h \in [Pos -> Byte] :
              Meets(h, adjusted) => Value(h, Limbs) <= DifficultyBound
HitsMeetBoundUnlessNegative ==
  (pc = "done" /\ adjusted # Err) =>
    (Accepted <=> ~(Negative /\ Value(adjusted, Limbs) > 0))

(* mining_job.rs: "256-bit big-endian x 128-bit. Errors on overflow."      *)
OverflowIsError == (pc = "done" /\ Product >= Width) => adjusted = Err
=============================================================================
