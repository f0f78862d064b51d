---------------------------- MODULE NumberLemmas ----------------------------
(***************************************************************************)
(* Facts about the natural numbers that the proofs share: induction over   *)
(* sets of them, division, and powers of two.                              *)
(***************************************************************************)
EXTENDS Integers, Powers, WellFoundedInduction, TLAPS

(* Induction over the natural numbers, for sets: the least number outside  *)
(* of the set would have a predecessor in it.                              *)
LEMMA LeastNat ==
  ASSUME NEW T \in SUBSET Nat, T # {}
  PROVE  \E x \in T : \A y \in T : x <= y
  <1>1. PICK R : R = OpToRel(<, Nat) OBVIOUS
  <1>2. IsWellFoundedOn(R, Nat) BY <1>1, NatLessThanWellFounded
  <1>3. \A x, y \in Nat : <<x, y>> \in R <=> x < y BY <1>1 DEF OpToRel
  <1>4. PICK x \in T : \A y \in T : ~(<<y, x>> \in R) BY <1>2, WFMin
  <1>5. ASSUME NEW y \in T PROVE x <= y
    <2>1. ~(<<y, x>> \in R) BY <1>4
    <2> QED BY <2>1, <1>3
  <1> QED BY <1>5

(* Induction: a set that holds 0 and each successor holds every number.    *)
LEMMA InductionOn ==
  ASSUME NEW S \in SUBSET Nat, 0 \in S, \A n \in S : n + 1 \in S
  PROVE  S = Nat
  <1> SUFFICES ASSUME Nat \ S # {} PROVE FALSE
    OBVIOUS
  <1>1. PICK x \in Nat \ S : \A y \in Nat \ S : x <= y BY LeastNat
  <1>2. x - 1 \in Nat /\ ~(x <= x - 1) /\ x - 1 + 1 = x OBVIOUS
  <1> QED BY <1>1, <1>2

(* Complete induction: what holds of n when it holds below, holds of all.  *)
LEMMA CompleteInductionOn ==
  ASSUME NEW S \in SUBSET Nat, \A n \in Nat : (\A m \in 0..(n - 1) : m \in S) => n \in S
  PROVE  S = Nat
  <1> SUFFICES ASSUME Nat \ S # {} PROVE FALSE
    OBVIOUS
  <1>1. PICK x \in Nat \ S : \A y \in Nat \ S : x <= y BY LeastNat
  <1>2. \A m \in 0..(x - 1) : m \in S
    <2> SUFFICES ASSUME NEW m \in 0..(x - 1), m \notin S PROVE FALSE OBVIOUS
    <2>1. m \in Nat \ S /\ ~(x <= m) OBVIOUS
    <2> QED BY <2>1, <1>1
  <1> QED BY <1>2
-----------------------------------------------------------------------------
(* A quotient and a remainder of the index arithmetic are naturals.        *)
LEMMA DivMod ==
  ASSUME NEW a \in Nat, NEW b \in Nat \ {0}
  PROVE  a \div b \in Nat /\ a % b \in Nat
  BY SMT

(* The quotient is the one number whose multiples enclose n.               *)
LEMMA DivIs ==
  ASSUME NEW n \in Nat, NEW s \in Nat \ {0}
  PROVE  /\ n \div s \in Nat /\ (n \div s) * s <= n /\ n < (n \div s + 1) * s
         /\ n % s \in 0..(s - 1) /\ n = (n \div s) * s + (n % s)
         /\ \A q \in Nat : q * s <= n /\ n < (q + 1) * s => n \div s = q
  <1>1. PICK d \in Nat : d = n \div s /\ d * s <= n /\ n < d * s + s
    <2>1. n = (n \div s) * s + (n % s) /\ n % s \in 0..(s - 1) /\ n \div s \in Int OBVIOUS
    <2>2. PICK d \in Int : d = n \div s BY <2>1
    <2>3. PICK p \in Int : p = d * s BY <2>2
    <2>4. n = p + (n % s) BY <2>1, <2>2, <2>3
    <2>5. p <= n /\ n < p + s BY <2>1, <2>4
    <2>6. d \in Nat
      <3> SUFFICES ASSUME d <= -1 PROVE FALSE BY <2>2
      <3>1. PICK c \in Nat : d = -1 - c BY <2>2
      <3>2. p = 0 - s - c * s /\ c * s \in Nat BY <2>3, <3>1
      <3> QED BY <2>5, <3>2
    <2> QED BY <2>2, <2>3, <2>5, <2>6
  <1>2. (d + 1) * s = d * s + s BY <1>1
  <1>3. ASSUME NEW q \in Nat, q * s <= n, n < (q + 1) * s PROVE d = q
    <2>1. ASSUME NEW x \in Nat, NEW y \in Nat, x < y, n < (x + 1) * s, y * s <= n PROVE FALSE
      <3>1. PICK c \in Nat : y = (x + 1) + c BY <2>1
      <3>2. y * s = (x + 1) * s + c * s /\ c * s \in Nat /\ (x + 1) * s \in Nat BY <3>1
      <3> QED BY <2>1, <3>2
    <2>2. ~(d < q) /\ ~(q < d) BY <1>1, <1>2, <1>3, <2>1
    <2> QED BY <2>2
  <1>4. n % s \in 0..(s - 1) /\ n = (n \div s) * s + (n % s) OBVIOUS
  <1> QED BY <1>1, <1>2, <1>3, <1>4

(* A number written as a multiple of s and a rest below s.                 *)
LEMMA SplitIs ==
  ASSUME NEW q \in Nat, NEW s \in Nat \ {0}, NEW r \in 0..(s - 1)
  PROVE  (q * s + r) \div s = q /\ (q * s + r) % s = r
  <1>1. PICK p \in Nat : p = q * s OBVIOUS
  <1>2. PICK n \in Nat : n = p + r OBVIOUS
  <1>3. (q + 1) * s = p + s BY <1>1
  <1>4. q * s <= n /\ n < (q + 1) * s BY <1>1, <1>2, <1>3
  <1>5. n \div s = q BY <1>4, DivIs
  <1>6. n = (n \div s) * s + (n % s) /\ n % s \in 0..(s - 1) BY DivIs
  <1>7. n = p + (n % s) BY <1>1, <1>5, <1>6
  <1>8. n % s = r BY <1>2, <1>6, <1>7
  <1> QED BY <1>1, <1>2, <1>5, <1>8

(* Halving the quotient is dividing by the double.                         *)
LEMMA DivTwice ==
  ASSUME NEW n \in Nat, NEW s \in Nat \ {0}
  PROVE  (n \div s) \div 2 = n \div (2 * s)
  <1>1. PICK q \in Nat : q = n \div s /\ q * s <= n /\ n < (q + 1) * s BY DivIs
  <1>2. PICK h \in Nat : h = q \div 2 /\ (q = 2 * h \/ q = 2 * h + 1) OBVIOUS
  <1>3. PICK p \in Nat : p = h * s OBVIOUS
  <1>4. h * (2 * s) = 2 * p /\ (h + 1) * (2 * s) = 2 * p + 2 * s BY <1>3
  <1>5. q * s >= 2 * p /\ (q + 1) * s <= 2 * p + 2 * s
    <2>1. CASE q = 2 * h
      <3>1. q * s = 2 * p /\ (q + 1) * s = 2 * p + s BY <1>3, <2>1
      <3> QED BY <3>1
    <2>2. CASE q = 2 * h + 1
      <3>1. q * s = 2 * p + s /\ (q + 1) * s = 2 * p + 2 * s BY <1>3, <2>2
      <3> QED BY <3>1
    <2> QED BY <1>2, <2>1, <2>2
  <1>6. h * (2 * s) <= n /\ n < (h + 1) * (2 * s)
    <2>1. q * s \in Nat /\ (q + 1) * s \in Nat OBVIOUS
    <2> QED BY <1>1, <1>4, <1>5, <2>1
  <1>7. 2 * s \in Nat \ {0} OBVIOUS
  <1>8. n \div (2 * s) = h BY <1>6, <1>7, DivIs
  <1> QED BY <1>1, <1>2, <1>8
(* Products keep order.                                                    *)
LEMMA TimesMonotone ==
  ASSUME NEW x \in Nat, NEW y \in Nat, NEW c \in Nat, x <= y
  PROVE  x * c <= y * c
  <1>1. PICK d \in Nat : y = x + d OBVIOUS
  <1>2. y * c = x * c + d * c /\ d * c \in Nat /\ x * c \in Nat BY <1>1
  <1> QED BY <1>2
(* Multiplication by the same number keeps strict order.                   *)
LEMMA TimesLess ==
  ASSUME NEW x \in Nat, NEW y \in Nat, NEW c \in Nat, x * c < y * c
  PROVE  x < y
  <1> SUFFICES ASSUME x >= y PROVE FALSE OBVIOUS
  <1>1. PICK d \in Nat : x = y + d OBVIOUS
  <1>2. x * c = y * c + d * c /\ d * c \in Nat /\ y * c \in Nat BY <1>1
  <1> QED BY <1>2

(* Division by the same number keeps order.                                *)
LEMMA DivGrows ==
  ASSUME NEW x \in Nat, NEW y \in Nat, NEW c \in Nat \ {0}, x <= y
  PROVE  x \div c <= y \div c
  <1>1. PICK p \in Nat : p = x \div c /\ p * c <= x BY DivIs
  <1>2. PICK q \in Nat : q = y \div c /\ y < (q + 1) * c BY DivIs
  <1>3. p * c \in Nat /\ (q + 1) * c \in Nat OBVIOUS
  <1>4. p * c < (q + 1) * c BY <1>1, <1>2, <1>3
  <1>5. q + 1 \in Nat OBVIOUS
  <1>6. p < q + 1 BY <1>4, <1>5, TimesLess
  <1> QED BY <1>1, <1>2, <1>6
-----------------------------------------------------------------------------
(* Powers of two: the recursive definition has a solution.                 *)
IsPow2(f, n) == \A e \in 0..n : f[e] = IF e = 0 THEN 1 ELSE 2 * f[e - 1]

(* Two solutions of the recursion agree where both are defined.            *)
LEMMA Pow2Unique ==
  ASSUME NEW f, NEW g, NEW n \in Nat, NEW m \in Nat, n <= m, IsPow2(f, n), IsPow2(g, m)
  PROVE  \A e \in 0..n : f[e] = g[e]
  <1> DEFINE S == {e \in Nat : e <= n => f[e] = g[e]}
  <1>1. 0 \in S BY DEF IsPow2
  <1>2. ASSUME NEW e \in S PROVE e + 1 \in S
    <2> SUFFICES ASSUME e + 1 <= n PROVE f[e + 1] = g[e + 1] OBVIOUS
    <2>1. f[e] = g[e] OBVIOUS
    <2>2. e + 1 \in 0..n /\ e + 1 \in 0..m /\ e + 1 # 0 /\ e + 1 - 1 = e OBVIOUS
    <2> QED BY <2>1, <2>2 DEF IsPow2
  <1> HIDE DEF S
  <1>3. S = Nat BY <1>1, <1>2, InductionOn DEF S
  <1> QED BY <1>3 DEF S

(* The recursion has a solution up to any n.                               *)
LEMMA Pow2UpTo == \A n \in Nat : \E f \in [0..n -> Nat] : IsPow2(f, n)
  <1> DEFINE S == {n \in Nat : \E f \in [0..n -> Nat] : IsPow2(f, n)}
  <1>1. 0 \in S
    <2> DEFINE f == [e \in 0..0 |-> 1]
    <2>1. f \in [0..0 -> Nat] /\ IsPow2(f, 0) BY DEF IsPow2
    <2> QED BY <2>1
  <1>2. ASSUME NEW n \in S PROVE n + 1 \in S
    <2>1. PICK f \in [0..n -> Nat] : IsPow2(f, n) OBVIOUS
    <2> DEFINE g == [e \in 0..(n + 1) |-> IF e = n + 1 THEN 2 * f[n] ELSE f[e]]
    <2>2. g \in [0..(n + 1) -> Nat] OBVIOUS
    <2>3. ASSUME NEW e \in 0..(n + 1) PROVE g[e] = IF e = 0 THEN 1 ELSE 2 * g[e - 1]
      <3>1. CASE e = n + 1
        <4>1. e - 1 = n /\ n \in 0..(n + 1) /\ e # 0 /\ n # n + 1 BY <3>1
        <4> QED BY <3>1, <4>1
      <3>2. CASE e # n + 1
        <4>1. e \in 0..n BY <3>2
        <4>2. e # 0 => e - 1 \in 0..n /\ e - 1 # n + 1 /\ e - 1 \in 0..(n + 1) BY <4>1
        <4> QED BY <2>1, <3>2, <4>1, <4>2 DEF IsPow2
      <3> QED BY <3>1, <3>2
    <2>4. IsPow2(g, n + 1) BY <2>3, Zenon DEF IsPow2
    <2> QED BY <2>2, <2>4
  <1> HIDE DEF S
  <1>3. S = Nat BY <1>1, <1>2, InductionOn DEF S
  <1> QED BY <1>3 DEF S

(* Pow2 is that solution: it doubles at each step.                         *)
LEMMA Pow2Def ==
  /\ Pow2 \in [Nat -> Nat] /\ Pow2[0] = 1
  /\ \A e \in Nat : Pow2[e + 1] = 2 * Pow2[e]
  <1> DEFINE G(n) == CHOOSE f \in [0..n -> Nat] : IsPow2(f, n)
             P == [e \in Nat |-> G(e)[e]]
  <1>1. \A n \in Nat : G(n) \in [0..n -> Nat] /\ IsPow2(G(n), n) BY Pow2UpTo
  <1> HIDE DEF G
  <1>2. P \in [Nat -> Nat] BY <1>1
  <1>3. ASSUME NEW e \in Nat PROVE P[e] = IF e = 0 THEN 1 ELSE 2 * P[e - 1]
    <2>1. G(e)[e] = IF e = 0 THEN 1 ELSE 2 * G(e)[e - 1] BY <1>1 DEF IsPow2
    <2>2. CASE e = 0 BY <2>1, <2>2
    <2>3. CASE e # 0
      <3>1. e - 1 \in Nat /\ e - 1 \in 0..(e - 1) /\ e - 1 <= e BY <2>3
      <3>2. G(e)[e - 1] = G(e - 1)[e - 1] BY <3>1, <1>1, Pow2Unique
      <3> QED BY <2>1, <2>3, <3>1, <3>2
    <2> QED BY <2>2, <2>3
  <1>4. P = [e \in Nat |-> IF e = 0 THEN 1 ELSE 2 * P[e - 1]]
    BY <1>2, <1>3
  <1> HIDE DEF P
  <1>5. Pow2 = [e \in Nat |-> IF e = 0 THEN 1 ELSE 2 * Pow2[e - 1]]
    BY <1>4 DEF Pow2
  <1>6. \A e \in Nat : Pow2[e] = IF e = 0 THEN 1 ELSE 2 * Pow2[e - 1]
    BY <1>5
  <1>7. Pow2[0] = 1 /\ \A e \in Nat : Pow2[e + 1] = 2 * Pow2[e]
    <2>1. \A e \in Nat : e + 1 \in Nat /\ e + 1 # 0 /\ e + 1 - 1 = e OBVIOUS
    <2> QED BY <2>1, <1>6
  <1>8. \A e \in Nat : Pow2[e] \in Nat
    <2> DEFINE S == {e \in Nat : Pow2[e] \in Nat}
    <2>1. 0 \in S /\ \A e \in S : e + 1 \in S BY <1>7
    <2> HIDE DEF S
    <2>2. S = Nat BY <2>1, InductionOn DEF S
    <2> QED BY <2>2 DEF S
  <1>9. DOMAIN Pow2 = Nat BY <1>5
  <1>10. Pow2 \in [Nat -> Nat] BY <1>5, <1>8, <1>9
  <1> QED BY <1>7, <1>10

(* Powers of two are positive and outgrow their exponents.                 *)
LEMMA Pow2Positive == \A e \in Nat : Pow2[e] \in Nat \ {0} /\ e < Pow2[e]
  <1> DEFINE S == {e \in Nat : e < Pow2[e]}
  <1>1. 0 \in S /\ \A e \in S : e + 1 \in S BY Pow2Def
  <1> HIDE DEF S
  <1>2. S = Nat BY <1>1, InductionOn DEF S
  <1>3. \A e \in Nat : e < Pow2[e] BY <1>2 DEF S
  <1>4. \A e \in Nat : Pow2[e] \in Nat BY Pow2Def
  <1>5. ASSUME NEW e \in Nat PROVE Pow2[e] \in Nat \ {0} BY <1>3, <1>4
  <1> QED BY <1>3, <1>5

(* A higher power is at least the double of a lower one.                   *)
LEMMA Pow2Monotone == \A a, b \in Nat : a < b => 2 * Pow2[a] <= Pow2[b]
  <1> DEFINE S == {d \in Nat : \A a \in Nat : 2 * Pow2[a] <= Pow2[a + d + 1]}
  <1>1. 0 \in S BY Pow2Def
  <1>2. ASSUME NEW d \in S PROVE d + 1 \in S
    <2> SUFFICES ASSUME NEW a \in Nat PROVE 2 * Pow2[a] <= Pow2[a + (d + 1) + 1] OBVIOUS
    <2>1. d \in Nat /\ 2 * Pow2[a] <= Pow2[a + d + 1] OBVIOUS
    <2>2. a + d + 1 \in Nat /\ a + (d + 1) + 1 = (a + d + 1) + 1 BY <2>1
    <2>3. Pow2[a + (d + 1) + 1] = 2 * Pow2[a + d + 1] BY <2>2, Pow2Def
    <2> QED BY <2>1, <2>2, <2>3, Pow2Def
  <1> HIDE DEF S
  <1>3. S = Nat BY <1>1, <1>2, InductionOn DEF S
  <1>4. ASSUME NEW a \in Nat, NEW b \in Nat, a < b PROVE 2 * Pow2[a] <= Pow2[b]
    <2>1. b - a - 1 \in S /\ a + (b - a - 1) + 1 = b BY <1>3, <1>4
    <2> QED BY <2>1 DEF S
  <1> QED BY <1>4
=============================================================================
