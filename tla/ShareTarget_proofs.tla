------------------------- MODULE ShareTarget_proofs -------------------------
(***************************************************************************)
(* Proofs about ShareTarget, for bytes of any size, integers of any        *)
(* length, and every exponent, mantissa and factor.                        *)
(***************************************************************************)
EXTENDS ShareTarget, NumberLemmas, TLAPS
-----------------------------------------------------------------------------
(* Powers of the base: the recursive definition has a solution.            *)
IsPower(f, n) == \A e \in 0..n : f[e] = IF e = 0 THEN 1 ELSE Base * f[e - 1]

(* Two solutions of the recursion agree where both are defined.            *)
LEMMA PowerUnique ==
  ASSUME NEW f, NEW g, NEW n \in Nat, NEW m \in Nat, n <= m, IsPower(f, n), IsPower(g, m)
  PROVE  \A e \in 0..n : f[e] = g[e]
  <1> DEFINE S == {e \in Nat : e <= n => f[e] = g[e]}
  <1>1. 0 \in S BY DEF IsPower
  <1>2. ASSUME NEW e \in S PROVE e + 1 \in S
    <2> SUFFICES ASSUME e + 1 <= n PROVE f[e + 1] = g[e + 1] OBVIOUS
    <2>1. f[e] = g[e] OBVIOUS
    <2>2. e + 1 \in 0..n /\ e + 1 \in 0..m /\ e + 1 # 0 /\ e + 1 - 1 = e OBVIOUS
    <2> QED BY <2>1, <2>2 DEF IsPower
  <1> HIDE DEF S
  <1>3. S = Nat BY <1>1, <1>2, InductionOn DEF S
  <1> QED BY <1>3 DEF S

(* The recursion has a solution up to any n.                               *)
LEMMA PowerUpTo == \A n \in Nat : \E f \in [0..n -> Nat] : IsPower(f, n)
  <1> DEFINE S == {n \in Nat : \E f \in [0..n -> Nat] : IsPower(f, n)}
  <1>1. 0 \in S
    <2> DEFINE f == [e \in 0..0 |-> 1]
    <2>1. f \in [0..0 -> Nat] /\ IsPower(f, 0) BY DEF IsPower
    <2> QED BY <2>1
  <1>2. ASSUME NEW n \in S PROVE n + 1 \in S
    <2>1. PICK f \in [0..n -> Nat] : IsPower(f, n) OBVIOUS
    <2> DEFINE g == [e \in 0..(n + 1) |-> IF e = n + 1 THEN Base * f[n] ELSE f[e]]
    <2>2. Base * f[n] \in Nat BY ShareTargetAssumption
    <2>3. g \in [0..(n + 1) -> Nat] BY <2>2
    <2>4. ASSUME NEW e \in 0..(n + 1) PROVE g[e] = IF e = 0 THEN 1 ELSE Base * g[e - 1]
      <3>1. CASE e = n + 1
        <4>1. e - 1 = n /\ n \in 0..(n + 1) /\ e # 0 /\ n # n + 1 BY <3>1
        <4> QED BY <3>1, <4>1
      <3>2. CASE e # n + 1
        <4>1. e \in 0..n BY <3>2
        <4>2. e # 0 => e - 1 \in 0..n /\ e - 1 # n + 1 /\ e - 1 \in 0..(n + 1) BY <4>1
        <4> QED BY <2>1, <3>2, <4>1, <4>2 DEF IsPower
      <3> QED BY <3>1, <3>2
    <2>5. IsPower(g, n + 1) BY <2>4 DEF IsPower
    <2> QED BY <2>3, <2>5, SMTT(40)
  <1> HIDE DEF S
  <1>3. S = Nat BY <1>1, <1>2, InductionOn DEF S
  <1> QED BY <1>3 DEF S

(* What the recursion defines.                                             *)
LEMMA PowerDef ==
  /\ Power[0] = 1
  /\ \A e \in Nat : Power[e] \in Nat \ {0} /\ Power[e + 1] = Base * Power[e]
  <1> DEFINE G(n) == CHOOSE f \in [0..n -> Nat] : IsPower(f, n)
             P == [e \in Nat |-> G(e)[e]]
  <1>1. \A n \in Nat : G(n) \in [0..n -> Nat] /\ IsPower(G(n), n) BY PowerUpTo
  <1> HIDE DEF G
  <1>2. P \in [Nat -> Nat] BY <1>1
  <1>3. ASSUME NEW e \in Nat PROVE P[e] = IF e = 0 THEN 1 ELSE Base * P[e - 1]
    <2>1. G(e)[e] = IF e = 0 THEN 1 ELSE Base * G(e)[e - 1] BY <1>1 DEF IsPower
    <2>2. CASE e = 0 BY <2>1, <2>2
    <2>3. CASE e # 0
      <3>1. e - 1 \in Nat /\ e - 1 \in 0..(e - 1) /\ e - 1 <= e BY <2>3
      <3>2. G(e)[e - 1] = G(e - 1)[e - 1] BY <3>1, <1>1, PowerUnique
      <3> QED BY <2>1, <2>3, <3>1, <3>2
    <2> QED BY <2>2, <2>3
  <1>4. P = [e \in Nat |-> IF e = 0 THEN 1 ELSE Base * P[e - 1]]
    BY <1>2, <1>3
  <1> HIDE DEF P
  <1>5. Power = [e \in Nat |-> IF e = 0 THEN 1 ELSE Base * Power[e - 1]]
    BY <1>4 DEF Power
  <1>6. \A e \in Nat : Power[e] = IF e = 0 THEN 1 ELSE Base * Power[e - 1]
    BY <1>5
  <1>7. Power[0] = 1 /\ \A e \in Nat : Power[e + 1] = Base * Power[e]
    <2>1. \A e \in Nat : e + 1 \in Nat /\ e + 1 # 0 /\ e + 1 - 1 = e OBVIOUS
    <2> QED BY <2>1, <1>6
  <1>8. \A e \in Nat : Power[e] \in Nat \ {0}
    <2> DEFINE S == {e \in Nat : Power[e] \in Nat \ {0}}
    <2>1. 0 \in S BY <1>7
    <2>2. ASSUME NEW e \in S PROVE e + 1 \in S
      <3>1. PICK x \in Nat \ {0} : x = Power[e] OBVIOUS
      <3>2. Power[e + 1] = Base * x BY <1>7, <3>1
      <3>3. Base * x \in Nat \ {0} BY ShareTargetAssumption
      <3> QED BY <3>2, <3>3
    <2> HIDE DEF S
    <2>3. S = Nat BY <2>1, <2>2, InductionOn DEF S
    <2> QED BY <2>3 DEF S
  <1> QED BY <1>7, <1>8

(* Exponents add.                                                          *)
LEMMA PowerAdds == \A a, b \in Nat : Power[a + b] = Power[a] * Power[b]
  <1> SUFFICES ASSUME NEW a \in Nat PROVE \A b \in Nat : Power[a + b] = Power[a] * Power[b]
    OBVIOUS
  <1> DEFINE S == {b \in Nat : Power[a + b] = Power[a] * Power[b]}
  <1>1. 0 \in S BY PowerDef
  <1>2. ASSUME NEW b \in S PROVE b + 1 \in S
    <2>1. b \in Nat /\ Power[a + b] = Power[a] * Power[b] BY <1>2
    <2>2. PICK x \in Nat, y \in Nat : x = Power[a] /\ y = Power[b] BY <2>1, PowerDef
    <2>3. a + (b + 1) = (a + b) + 1 /\ a + b \in Nat BY <2>1
    <2>4. Power[a + (b + 1)] = Base * Power[a + b] BY <2>3, PowerDef
    <2>5. Power[b + 1] = Base * y BY <2>1, <2>2, PowerDef
    <2>6. Base * (x * y) = x * (Base * y) BY ShareTargetAssumption
    <2>7. Power[a + (b + 1)] = Power[a] * Power[b + 1] BY <2>1, <2>2, <2>4, <2>5, <2>6
    <2> QED BY <2>1, <2>7
  <1> HIDE DEF S
  <1>3. S = Nat BY <1>1, <1>2, InductionOn DEF S
  <1> QED BY <1>3 DEF S

(* A higher power is at least a lower one.                                 *)
LEMMA PowerGrows == \A a, b \in Nat : a <= b => Power[a] <= Power[b]
  <1> SUFFICES ASSUME NEW a \in Nat, NEW b \in Nat, a <= b PROVE Power[a] <= Power[b]
    OBVIOUS
  <1>1. PICK d \in Nat : b = a + d OBVIOUS
  <1>2. PICK x \in Nat \ {0}, y \in Nat \ {0} : x = Power[a] /\ y = Power[d] BY PowerDef
  <1>3. Power[b] = x * y BY <1>1, <1>2, PowerAdds
  <1>4. 1 * x <= y * x BY TimesMonotone
  <1>5. 1 * x = x /\ y * x = x * y OBVIOUS
  <1> QED BY <1>2, <1>3, <1>4, <1>5
-----------------------------------------------------------------------------
(* The value of the first n bytes.                                         *)
IsSum(f, b, n) ==
  f = [k \in 0..n |-> IF k = 0 THEN 0 ELSE f[k - 1] + b[k - 1] * Power[k - 1]]

(* The sum has a solution at every length.                                 *)
LEMMA SumUpTo == \A b : \A n \in Nat : \E f : IsSum(f, b, n)
  <1> SUFFICES ASSUME NEW b PROVE \A n \in Nat : \E f : IsSum(f, b, n)
    OBVIOUS
  <1> DEFINE S == {n \in Nat : \E f : IsSum(f, b, n)}
  <1>1. 0 \in S
    <2> DEFINE f == [k \in 0..0 |-> 0]
    <2>1. f = [k \in 0..0 |-> IF k = 0 THEN 0 ELSE f[k - 1] + b[k - 1] * Power[k - 1]]
      OBVIOUS
    <2>2. IsSum(f, b, 0) BY <2>1 DEF IsSum
    <2> QED BY <2>2
  <1>2. ASSUME NEW n \in S PROVE n + 1 \in S
    <2>1. PICK f : IsSum(f, b, n) OBVIOUS
    <2>2. n \in Nat OBVIOUS
    <2> DEFINE g == [k \in 0..(n + 1) |-> IF k = n + 1 THEN f[n] + b[n] * Power[n] ELSE f[k]]
    <2>3. ASSUME NEW k \in 0..(n + 1)
          PROVE  g[k] = IF k = 0 THEN 0 ELSE g[k - 1] + b[k - 1] * Power[k - 1]
      <3>1. CASE k = n + 1
        <4>1. k - 1 = n /\ n \in 0..(n + 1) /\ k # 0 /\ n # n + 1 BY <2>2, <3>1
        <4> QED BY <3>1, <4>1
      <3>2. CASE k # n + 1
        <4>1. k \in 0..n BY <2>2, <3>2
        <4>2. k # 0 => k - 1 \in 0..n /\ k - 1 # n + 1 /\ k - 1 \in 0..(n + 1) BY <2>2, <4>1
        <4>3. f[k] = IF k = 0 THEN 0 ELSE f[k - 1] + b[k - 1] * Power[k - 1]
          BY <2>1, <4>1 DEF IsSum
        <4> QED BY <3>2, <4>1, <4>2, <4>3
      <3> QED BY <3>1, <3>2
    <2> DEFINE W(k) == IF k = n + 1 THEN f[n] + b[n] * Power[n] ELSE f[k]
               R(k) == IF k = 0 THEN 0 ELSE g[k - 1] + b[k - 1] * Power[k - 1]
    <2>4. \A k \in 0..(n + 1) : W(k) = R(k) BY <2>3
    <2>5. g = [k \in 0..(n + 1) |-> W(k)] OBVIOUS
    <2> HIDE DEF W, R, g
    <2>6. g = [k \in 0..(n + 1) |-> R(k)] BY <2>4, <2>5
    <2>7. IsSum(g, b, n + 1) BY <2>6 DEF IsSum, R
    <2> QED BY <2>2, <2>7
  <1> HIDE DEF S
  <1>3. S = Nat BY <1>1, <1>2, InductionOn DEF S
  <1> QED BY <1>3 DEF S

(* Two sums agree at the lengths both have.                                *)
LEMMA SumUnique ==
  ASSUME NEW b, NEW f, NEW g, NEW n \in Nat, NEW m \in Nat, n <= m, IsSum(f, b, n), IsSum(g, b, m)
  PROVE  \A k \in 0..n : f[k] = g[k]
  <1> DEFINE S == {e \in Nat : e <= n => f[e] = g[e]}
  <1>1. 0 \in S BY DEF IsSum
  <1>2. ASSUME NEW e \in S PROVE e + 1 \in S
    <2> SUFFICES ASSUME e + 1 <= n PROVE f[e + 1] = g[e + 1] OBVIOUS
    <2>1. f[e] = g[e] OBVIOUS
    <2>2. e + 1 \in 0..n /\ e + 1 \in 0..m /\ e + 1 # 0 /\ e + 1 - 1 = e OBVIOUS
    <2>3. f[e + 1] = f[e] + b[e] * Power[e] /\ g[e + 1] = g[e] + b[e] * Power[e]
      BY <2>2 DEF IsSum
    <2> QED BY <2>1, <2>3
  <1> HIDE DEF S
  <1>3. S = Nat BY <1>1, <1>2, InductionOn DEF S
  <1> QED BY <1>3 DEF S

(* One byte more.                                                          *)
LEMMA ValueDef ==
  ASSUME NEW b
  PROVE  Value(b, 0) = 0 /\ \A n \in Nat : Value(b, n + 1) = Value(b, n) + b[n] * Power[n]
  <1> DEFINE F(n) == CHOOSE f : IsSum(f, b, n)
  <1>1. \A n \in Nat : IsSum(F(n), b, n) BY SumUpTo
  <1>2. \A n : Value(b, n) = F(n)[n] BY Zenon DEF Value, IsSum
  <1> HIDE DEF F
  <1>3. Value(b, 0) = 0 BY <1>1, <1>2 DEF IsSum
  <1>4. ASSUME NEW n \in Nat PROVE Value(b, n + 1) = Value(b, n) + b[n] * Power[n]
    <2>1. n + 1 \in Nat /\ n + 1 \in 0..(n + 1) /\ n + 1 # 0 /\ n + 1 - 1 = n /\ n <= n + 1
      /\ n \in 0..n OBVIOUS
    <2>2. F(n + 1)[n + 1] = F(n + 1)[n] + b[n] * Power[n] BY <1>1, <2>1 DEF IsSum
    <2>3. F(n)[n] = F(n + 1)[n] BY <1>1, <2>1, SumUnique
    <2> QED BY <1>2, <2>2, <2>3
  <1> QED BY <1>3, <1>4
-----------------------------------------------------------------------------
(* The value of bytes is a number.                                         *)
LEMMA ValueIsNat ==
  ASSUME NEW b, NEW n \in Nat, \A x \in 0..(n - 1) : b[x] \in Nat
  PROVE  Value(b, n) \in Nat
  <1> DEFINE S == {k \in Nat : k <= n => Value(b, k) \in Nat}
  <1>1. 0 \in S BY ValueDef
  <1>2. ASSUME NEW k \in S PROVE k + 1 \in S
    <2> SUFFICES ASSUME k + 1 <= n PROVE Value(b, k + 1) \in Nat OBVIOUS
    <2>1. k \in 0..(n - 1) /\ Value(b, k) \in Nat OBVIOUS
    <2>2. PICK x \in Nat, p \in Nat : x = b[k] /\ p = Power[k] BY <2>1, PowerDef
    <2>3. Value(b, k + 1) = Value(b, k) + x * p BY <2>2, ValueDef
    <2> QED BY <2>1, <2>3
  <1> HIDE DEF S
  <1>3. S = Nat BY <1>1, <1>2, InductionOn DEF S
  <1> QED BY <1>3 DEF S

(* It depends on the bytes it reads.                                       *)
LEMMA ValueReads ==
  ASSUME NEW b, NEW c, NEW n \in Nat, \A x \in 0..(n - 1) : b[x] = c[x]
  PROVE  Value(b, n) = Value(c, n)
  <1> DEFINE S == {k \in Nat : k <= n => Value(b, k) = Value(c, k)}
  <1>1. 0 \in S BY ValueDef
  <1>2. ASSUME NEW k \in S PROVE k + 1 \in S
    <2> SUFFICES ASSUME k + 1 <= n PROVE Value(b, k + 1) = Value(c, k + 1) OBVIOUS
    <2>1. k \in 0..(n - 1) /\ Value(b, k) = Value(c, k) OBVIOUS
    <2>2. Value(b, k + 1) = Value(b, k) + b[k] * Power[k] BY ValueDef
    <2>3. Value(c, k + 1) = Value(c, k) + c[k] * Power[k] BY ValueDef
    <2> QED BY <2>1, <2>2, <2>3
  <1> HIDE DEF S
  <1>3. S = Nat BY <1>1, <1>2, InductionOn DEF S
  <1> QED BY <1>3 DEF S

(* Bytes that are zero from m on add nothing.                              *)
LEMMA ValueTop ==
  ASSUME NEW b, NEW m \in Nat, NEW n \in Nat, m <= n,
         \A x \in 0..(m - 1) : b[x] \in Nat, \A x \in m..(n - 1) : b[x] = 0
  PROVE  Value(b, n) = Value(b, m)
  <1>0. Value(b, m) \in Nat BY ValueIsNat
  <1> DEFINE S == {k \in Nat : m + k <= n => Value(b, m + k) = Value(b, m)}
  <1>1. 0 \in S OBVIOUS
  <1>2. ASSUME NEW k \in S PROVE k + 1 \in S
    <2> SUFFICES ASSUME m + (k + 1) <= n PROVE Value(b, m + (k + 1)) = Value(b, m) OBVIOUS
    <2>1. m + k \in m..(n - 1) /\ Value(b, m + k) = Value(b, m) /\ m + (k + 1) = (m + k) + 1
      /\ m + k \in Nat OBVIOUS
    <2>2. Value(b, m + (k + 1)) = Value(b, m + k) + b[m + k] * Power[m + k] BY <2>1, ValueDef
    <2>3. b[m + k] = 0 BY <2>1
    <2>4. Power[m + k] \in Nat BY <2>1, PowerDef
    <2>5. b[m + k] * Power[m + k] = 0 BY <2>3, <2>4
    <2> QED BY <1>0, <2>1, <2>2, <2>5
  <1> HIDE DEF S
  <1>3. S = Nat BY <1>1, <1>2, InductionOn DEF S
  <1>4. n - m \in S /\ m + (n - m) = n BY <1>3
  <1> QED BY <1>4 DEF S

(* A change of one byte changes the value at its place.                    *)
LEMMA ValueChange ==
  ASSUME NEW b, NEW c, NEW n \in Nat, NEW k \in 0..(n - 1),
         \A x \in 0..(n - 1) : b[x] \in Nat /\ c[x] \in Nat,
         \A x \in 0..(n - 1) : x # k => c[x] = b[x]
  PROVE  Value(c, n) + b[k] * Power[k] = Value(b, n) + c[k] * Power[k]
  <1>0. k \in Nat /\ k + 1 \in Nat OBVIOUS
  <1>1. PICK p \in Nat : p = Power[k] BY <1>0, PowerDef
  <1>7. PICK x0 \in Nat, y0 \in Nat : x0 = b[k] /\ y0 = c[k] OBVIOUS
  <1>8. PICK d \in Int : d = y0 - x0 OBVIOUS
  <1> DEFINE S == {e \in Nat : k + 1 + e <= n =>
                     Value(c, k + 1 + e) = Value(b, k + 1 + e) + d * p}
  <1>2. 0 \in S
    <2>1. Value(c, k) = Value(b, k) BY ValueReads, <1>0
    <2>2. PICK v \in Nat : v = Value(b, k) BY ValueIsNat, <1>0
    <2>3. PICK x \in Nat, y \in Nat : x = b[k] /\ y = c[k] BY <1>0
    <2>4. Value(c, k + 1) = v + y * p /\ Value(b, k + 1) = v + x * p
      BY <1>0, <1>1, <2>1, <2>2, <2>3, ValueDef
    <2>5. y = x + d BY <2>3, <1>7, <1>8
    <2>6. y * p = x * p + d * p BY <2>5
    <2>7. x * p \in Nat /\ d * p \in Int OBVIOUS
    <2>8. Value(c, k + 1) = Value(b, k + 1) + d * p BY <2>4, <2>6, <2>7
    <2>9. k + 1 + 0 = k + 1 OBVIOUS
    <2> QED BY <2>8, <2>9
  <1>3. ASSUME NEW e \in S PROVE e + 1 \in S
    <2> SUFFICES ASSUME k + 1 + (e + 1) <= n
        PROVE Value(c, k + 1 + (e + 1)) = Value(b, k + 1 + (e + 1)) + d * p OBVIOUS
    <2>0. e \in Nat /\ Value(c, k + 1 + e) = Value(b, k + 1 + e) + d * p OBVIOUS
    <2>1. PICK h \in Nat : h = k + 1 + e BY <2>0
    <2>2. k + 1 + (e + 1) = h + 1 /\ h \in 0..(n - 1) /\ h # k BY <2>0, <2>1
    <2>3. PICK v \in Nat : v = Value(b, h)
      <3>1. \A x \in 0..(h - 1) : b[x] \in Nat BY <2>2
      <3> QED BY <2>1, <3>1, ValueIsNat
    <2>4. PICK x \in Nat, q \in Nat : x = b[h] /\ x = c[h] /\ q = Power[h] BY <2>2, PowerDef
    <2>5. Value(b, h + 1) = v + x * q BY <2>3, <2>4, ValueDef
    <2>6. Value(c, h + 1) = Value(c, h) + x * q BY <2>4, ValueDef
    <2>7. Value(c, h) = v + d * p BY <2>0, <2>1, <2>3
    <2>8. x * q \in Nat /\ d * p \in Int OBVIOUS
    <2>9. Value(c, h + 1) = Value(b, h + 1) + d * p BY <2>5, <2>6, <2>7, <2>8
    <2> QED BY <2>2, <2>9
  <1> HIDE DEF S
  <1>4. S = Nat BY <1>2, <1>3, InductionOn DEF S
  <1>5. n - k - 1 \in S /\ k + 1 + (n - k - 1) = n BY <1>4
  <1>6. Value(c, n) = Value(b, n) + d * p BY <1>5 DEF S
  <1>9. y0 * p = x0 * p + d * p
    <2>1. y0 = x0 + d BY <1>7, <1>8
    <2> QED BY <2>1
  <1>10. PICK v \in Nat : v = Value(b, n) BY ValueIsNat
  <1>11. Value(c, n) + x0 * p = v + y0 * p
    <2>1. PICK X \in Nat, Y \in Nat, D \in Int : X = x0 * p /\ Y = y0 * p /\ D = d * p OBVIOUS
    <2> QED BY <1>6, <1>9, <1>10, <2>1
  <1> QED BY <1>1, <1>7, <1>10, <1>11

(* Normalised bytes stay below the next power.                             *)
LEMMA ValueBelow ==
  ASSUME NEW b, NEW n \in Nat, \A x \in 0..(n - 1) : b[x] \in Byte
  PROVE  Value(b, n) \in 0..(Power[n] - 1)
  <1>0. Byte \subseteq Nat BY DEF Byte
  <1> DEFINE S == {k \in Nat : k <= n => Value(b, k) \in 0..(Power[k] - 1)}
  <1>1. 0 \in S BY ValueDef, PowerDef
  <1>2. ASSUME NEW k \in S PROVE k + 1 \in S
    <2> SUFFICES ASSUME k + 1 <= n PROVE Value(b, k + 1) \in 0..(Power[k + 1] - 1) OBVIOUS
    <2>1. k \in 0..(n - 1) /\ k \in Nat /\ Value(b, k) \in 0..(Power[k] - 1) OBVIOUS
    <2>2. PICK p \in Nat \ {0} : p = Power[k] BY <2>1, PowerDef
    <2>3. PICK x \in 0..(Base - 1) : x = b[k] BY <2>1 DEF Byte
    <2>4. PICK v \in 0..(p - 1) : v = Value(b, k) BY <2>1, <2>2
    <2>5. Value(b, k + 1) = v + x * p BY <2>1, <2>2, <2>3, <2>4, ValueDef
    <2>6. Power[k + 1] = Base * p BY <2>1, <2>2, PowerDef
    <2>7. (x + 1) * p <= Base * p BY TimesMonotone, ShareTargetAssumption
    <2>8. (x + 1) * p = x * p + p /\ x * p \in Nat /\ Base * p \in Nat BY ShareTargetAssumption
    <2>9. v + x * p \in 0..(Base * p - 1) BY <2>7, <2>8
    <2> QED BY <2>5, <2>6, <2>9
  <1> HIDE DEF S
  <1>3. S = Nat BY <1>1, <1>2, InductionOn DEF S
  <1> QED BY <1>3 DEF S

(* What comes first from the most significant byte down comes first in     *)
(* value.                                                                  *)
LEMMA ValueOrder ==
  ASSUME NEW h, NEW t, NEW n \in Nat, NEW k \in 0..(n - 1),
         \A x \in 0..(n - 1) : h[x] \in Byte /\ t[x] \in Byte,
         h[k] < t[k], \A x \in 0..(n - 1) : x > k => h[x] = t[x]
  PROVE  Value(h, n) <= Value(t, n)
  <1>0. k \in Nat /\ k + 1 \in Nat /\ Byte \subseteq Nat BY DEF Byte
  <1> DEFINE S == {e \in Nat : k + 1 + e <= n => Value(h, k + 1 + e) <= Value(t, k + 1 + e)}
  <1>1. 0 \in S
    <2>1. PICK p \in Nat \ {0} : p = Power[k] BY <1>0, PowerDef
    <2>2. PICK x \in Nat, y \in Nat : x = h[k] /\ y = t[k] /\ x < y BY <1>0
    <2>3. PICK u \in Nat, v \in Nat : u = Value(h, k) /\ v = Value(t, k) /\ u < p
      <3>1. \A z \in 0..(k - 1) : h[z] \in Byte /\ t[z] \in Byte OBVIOUS
      <3>2. Value(h, k) \in 0..(Power[k] - 1) BY <1>0, <3>1, ValueBelow
      <3>3. Value(t, k) \in 0..(Power[k] - 1) BY <1>0, <3>1, ValueBelow
      <3> QED BY <2>1, <3>2, <3>3
    <2>4. Value(h, k + 1) = u + x * p /\ Value(t, k + 1) = v + y * p
      BY <1>0, <2>1, <2>2, <2>3, ValueDef
    <2>5. (x + 1) * p <= y * p BY <2>2, TimesMonotone
    <2>6. (x + 1) * p = x * p + p /\ x * p \in Nat /\ y * p \in Nat OBVIOUS
    <2>7. u + x * p <= v + y * p BY <2>3, <2>5, <2>6
    <2>8. k + 1 + 0 = k + 1 OBVIOUS
    <2> QED BY <2>4, <2>7, <2>8
  <1>2. ASSUME NEW e \in S PROVE e + 1 \in S
    <2> SUFFICES ASSUME k + 1 + (e + 1) <= n
        PROVE Value(h, k + 1 + (e + 1)) <= Value(t, k + 1 + (e + 1)) OBVIOUS
    <2>1. PICK g \in Nat : g = k + 1 + e OBVIOUS
    <2>2. k + 1 + (e + 1) = g + 1 /\ g \in 0..(n - 1) /\ g > k /\ Value(h, g) <= Value(t, g)
      BY <2>1
    <2>3. PICK x \in Nat, q \in Nat : x = h[g] /\ x = t[g] /\ q = Power[g]
      BY <1>0, <2>2, PowerDef
    <2>4. Value(h, g + 1) = Value(h, g) + x * q /\ Value(t, g + 1) = Value(t, g) + x * q
      BY <2>3, ValueDef
    <2>5. Value(h, g) \in Nat /\ Value(t, g) \in Nat
      <3>1. ASSUME NEW z \in 0..(g - 1) PROVE h[z] \in Nat /\ t[z] \in Nat
        <4>1. z \in 0..(n - 1) BY <2>2
        <4> QED BY <1>0, <4>1
      <3> QED BY <3>1, ValueIsNat
    <2> QED BY <2>2, <2>4, <2>5
  <1> HIDE DEF S
  <1>3. S = Nat BY <1>1, <1>2, InductionOn DEF S
  <1>4. n - k - 1 \in S /\ k + 1 + (n - k - 1) = n BY <1>3
  <1> QED BY <1>4 DEF S

(* The digits of a number are worth the number, as far as they go.         *)
LEMMA ValueDigits ==
  ASSUME NEW b, NEW m \in Nat, NEW n \in Nat, \A x \in 0..(n - 1) : b[x] = DigitOf(m, x)
  PROVE  Value(b, n) = m % Power[n]
  <1> DEFINE S == {k \in Nat : k <= n => Value(b, k) = m % Power[k]}
  <1>1. 0 \in S BY ValueDef, PowerDef
  <1>2. ASSUME NEW k \in S PROVE k + 1 \in S
    <2> SUFFICES ASSUME k + 1 <= n PROVE Value(b, k + 1) = m % Power[k + 1] OBVIOUS
    <2>1. k \in 0..(n - 1) /\ k \in Nat /\ Value(b, k) = m % Power[k] OBVIOUS
    <2>2. PICK p \in Nat \ {0} : p = Power[k] BY <2>1, PowerDef
    <2>3. PICK q \in Nat, r \in 0..(p - 1) : q = m \div p /\ r = m % p /\ m = q * p + r
      <3>1. m \div p \in Nat /\ m % p \in 0..(p - 1) /\ m = (m \div p) * p + (m % p) BY DivIs
      <3> QED BY <3>1, Zenon
    <2>4. PICK a \in Nat, d \in 0..(Base - 1) : a = q \div Base /\ d = q % Base /\ q = a * Base + d
      BY DivIs, ShareTargetAssumption
    <2>5. b[k] = d BY <2>1, <2>2, <2>3, <2>4 DEF DigitOf
    <2>6. Value(b, k + 1) = r + d * p BY <2>1, <2>2, <2>3, <2>5, ValueDef
    <2>7. PICK s \in Nat \ {0} : s = Power[k + 1] /\ s = Base * p BY <2>1, <2>2, PowerDef
    <2>8. m = a * s + (r + d * p)
      <3>1. q * p = a * (Base * p) + d * p BY <2>4, ShareTargetAssumption
      <3>2. a * s \in Nat /\ d * p \in Nat BY <2>4
      <3> QED BY <2>3, <2>7, <3>1, <3>2
    <2>9. r + d * p \in 0..(s - 1)
      <3>1. (d + 1) * p <= Base * p BY TimesMonotone, ShareTargetAssumption
      <3>2. (d + 1) * p = d * p + p /\ d * p \in Nat BY <2>4
      <3> QED BY <2>7, <3>1, <3>2
    <2>10. m % s = r + d * p
      <3>1. PICK z \in 0..(s - 1) : z = r + d * p BY <2>9
      <3>2. m = a * s + z BY <2>8, <3>1, Zenon
      <3>3. (a * s + z) % s = z BY SplitIs
      <3> QED BY <3>1, <3>2, <3>3, Zenon
    <2> QED BY <2>6, <2>7, <2>10
  <1> HIDE DEF S
  <1>3. S = Nat BY <1>1, <1>2, InductionOn DEF S
  <1> QED BY <1>3 DEF S

(* Three bytes of a number, s bytes up.                                    *)
LEMMA ValueShifted ==
  ASSUME NEW b, NEW m \in 0..(Power[3] - 1), NEW s \in Nat, NEW n \in Nat, s + 3 <= n,
         \A x \in 0..(n - 1) :
           b[x] = IF x \in s..(s + 2) THEN DigitOf(m, x - s) ELSE 0
  PROVE  Value(b, n) = m * Power[s]
  <1>0. m \in Nat BY PowerDef
  <1>1. PICK c : c = [x \in 0..2 |-> DigitOf(m, x)] OBVIOUS
  <1>2. Value(c, 3) = m % Power[3]
    <2>1. PICK k \in Nat : k = 3 OBVIOUS
    <2>2. \A x \in 0..(k - 1) : c[x] = DigitOf(m, x) BY <1>1, <2>1
    <2>3. Value(c, k) = m % Power[k] BY <1>0, <2>2, ValueDigits, Zenon
    <2> QED BY <2>1, <2>3, Zenon
  <1>3. m % Power[3] = m
    <2>1. PICK q \in Nat \ {0} : q = Power[3] BY PowerDef
    <2>2. (0 * q + m) % q = m BY <2>1, SplitIs
    <2> QED BY <1>0, <2>1, <2>2
  <1>4. \A x \in 0..2 : DigitOf(m, x) \in Nat
    <2> SUFFICES ASSUME NEW x \in 0..2 PROVE DigitOf(m, x) \in Nat OBVIOUS
    <2>1. PICK q \in Nat \ {0} : q = Power[x] BY PowerDef
    <2>2. m \div q \in Nat BY <1>0, DivIs
    <2>3. (m \div q) % Base \in Nat BY <2>2, ShareTargetAssumption, DivIs
    <2> QED BY <2>1, <2>3 DEF DigitOf
  <1>5. PICK d0 \in Nat, d1 \in Nat, d2 \in Nat :
          d0 = DigitOf(m, 0) /\ d1 = DigitOf(m, 1) /\ d2 = DigitOf(m, 2) BY <1>4
  <1>6. Power[1] = Base /\ Power[2] = Base * Base
    <2>1. Power[0 + 1] = Base * Power[0] /\ Power[1 + 1] = Base * Power[1] BY PowerDef
    <2>2. Power[0] = 1 BY PowerDef
    <2> QED BY <2>1, <2>2, ShareTargetAssumption
  <1>7. m = d0 + d1 * Base + d2 * (Base * Base)
    <2>1. Value(c, 0 + 1) = Value(c, 0) + c[0] * Power[0] BY ValueDef
    <2>2. Value(c, 1 + 1) = Value(c, 1) + c[1] * Power[1] BY ValueDef
    <2>3. Value(c, 2 + 1) = Value(c, 2) + c[2] * Power[2] BY ValueDef
    <2>4. Value(c, 0) = 0 /\ Power[0] = 1 BY ValueDef, PowerDef
    <2>5. c[0] = d0 /\ c[1] = d1 /\ c[2] = d2 BY <1>1, <1>5
    <2>6. Value(c, 1) = d0 BY <2>1, <2>4, <2>5
    <2>7. Value(c, 2) = d0 + d1 * Base BY <2>2, <2>5, <2>6, <1>6
    <2>8. Value(c, 3) = d0 + d1 * Base + d2 * (Base * Base) BY <2>3, <2>5, <2>7, <1>6
    <2> QED BY <1>2, <1>3, <2>8
  <1>8. PICK p \in Nat : p = Power[s] BY PowerDef
  <1>9. Power[s + 1] = Base * p /\ Power[s + 2] = Base * (Base * p)
    <2>1. s + 1 \in Nat /\ s + 2 = (s + 1) + 1 OBVIOUS
    <2> QED BY <1>8, <2>1, PowerDef
  <1>10. Value(b, s) = 0
    <2>1. \A x \in 0..(s - 1) : b[x] = 0 OBVIOUS
    <2>2. Value(b, s) = Value(b, 0) BY <2>1, ValueTop
    <2> QED BY <2>2, ValueDef
  <1>11. b[s] = d0 /\ b[s + 1] = d1 /\ b[s + 2] = d2
    <2>1. b[s] = DigitOf(m, s - s) /\ b[s + 1] = DigitOf(m, s + 1 - s)
          /\ b[s + 2] = DigitOf(m, s + 2 - s) OBVIOUS
    <2>2. s - s = 0 /\ s + 1 - s = 1 /\ s + 2 - s = 2 OBVIOUS
    <2> QED BY <1>5, <2>1, <2>2
  <1>12. Value(b, s + 3) = d0 * p + d1 * (Base * p) + d2 * (Base * (Base * p))
    <2>1. s + 1 \in Nat /\ s + 2 \in Nat /\ s + 2 = (s + 1) + 1 /\ s + 3 = (s + 2) + 1 OBVIOUS
    <2>2. Value(b, s + 1) = 0 + d0 * p BY <1>8, <1>10, <1>11, ValueDef
    <2>3. Value(b, s + 2) = Value(b, s + 1) + d1 * (Base * p) BY <1>9, <1>11, <2>1, ValueDef
    <2>4. Value(b, s + 3) = Value(b, s + 2) + d2 * (Base * (Base * p))
      BY <1>9, <1>11, <2>1, ValueDef
    <2> QED BY <2>2, <2>3, <2>4
  <1>13. d0 * p + d1 * (Base * p) + d2 * (Base * (Base * p)) = m * p
    BY <1>7, ShareTargetAssumption
  <1>14. Value(b, n) = Value(b, s + 3)
    <2>1. \A x \in (s + 3)..(n - 1) : b[x] = 0 OBVIOUS
    <2>2. \A x \in 0..(s + 3 - 1) : b[x] \in Nat
      <3> SUFFICES ASSUME NEW x \in 0..(s + 3 - 1) PROVE b[x] \in Nat OBVIOUS
      <3>1. CASE x \in s..(s + 2)
        <4>1. x - s \in 0..2 /\ b[x] = DigitOf(m, x - s) BY <3>1
        <4> QED BY <1>4, <4>1
      <3>2. CASE x \notin s..(s + 2)
        <4>1. b[x] = 0 BY <3>2
        <4> QED BY <4>1
      <3> QED BY <3>1, <3>2
    <2>3. s + 3 \in Nat OBVIOUS
    <2> QED BY <2>1, <2>2, <2>3, ValueTop
  <1> QED BY <1>8, <1>12, <1>13, <1>14
-----------------------------------------------------------------------------
(* The loops of mul_u256_u128.  Over is what a 33-byte out cannot hold:    *)
(* the value left behind is less than the true one by multiples of it.     *)
Over == Width * Base
Behind(v, w) == \E d \in Nat : v + d * Over = w
DoneAt(t, k) == [x \in Pos |-> IF x < k THEN t[x] ELSE 0]

(* Widths.                                                                 *)
LEMMA Widths ==
  /\ Width \in Nat \ {0} /\ Over \in Nat \ {0} /\ Over = Power[Limbs + 1]
  /\ Power[3] <= Width
  <1>1. Limbs \in Nat /\ 3 <= Limbs /\ Base \in Nat \ {0} BY ShareTargetAssumption
  <1>2. PICK w \in Nat \ {0} : w = Power[Limbs] BY <1>1, PowerDef
  <1>3. Power[Limbs + 1] = Base * w BY <1>1, <1>2, PowerDef
  <1>4. Base * w = w * Base /\ w * Base \in Nat \ {0} BY <1>1
  <1>5. Power[3] <= Power[Limbs] BY <1>1, PowerGrows
  <1> QED BY <1>2, <1>3, <1>4, <1>5 DEF Width, Over

(* Being behind keeps the rest modulo Over, and the order.                 *)
LEMMA BehindIs ==
  ASSUME NEW v \in Nat, NEW w \in Nat, Behind(v, w)
  PROVE  v % Over = w % Over /\ v <= w /\ (w < Over => v = w)
  <1>1. PICK d \in Nat : v + d * Over = w BY DEF Behind
  <1>2. PICK m \in Nat \ {0} : m = Over BY Widths
  <1>3. v = (v \div m) * m + (v % m) /\ v % m \in 0..(m - 1) /\ v \div m \in Nat BY DivIs
  <1>4. PICK q \in Nat, r \in 0..(m - 1) : q = v \div m /\ r = v % m BY <1>3
  <1>5. v = q * m + r BY <1>3, <1>4
  <1>10. PICK e \in Nat : e = q + d OBVIOUS
  <1>6. w = e * m + r
    <2>1. (q + d) * m = q * m + d * m /\ q * m \in Nat /\ d * m \in Nat OBVIOUS
    <2> QED BY <1>1, <1>2, <1>5, <1>10, <2>1
  <1>7. w % m = r BY <1>6, SplitIs
  <1>8. d * m \in Nat /\ (d # 0 => m <= d * m)
    <2>1. 1 <= d => 1 * m <= d * m BY TimesMonotone
    <2> QED BY <2>1
  <1>9. v <= w /\ (w < m => v = w)
    <2>1. v + d * m = w BY <1>1, <1>2
    <2>2. d = 0 => d * m = 0 OBVIOUS
    <2> QED BY <1>8, <2>1, <2>2
  <1> QED BY <1>2, <1>4, <1>7, <1>9

(* Multiplication distributes.                                             *)
LEMMA Distribute ==
  ASSUME NEW a \in Int, NEW b \in Int, NEW r \in Int, NEW g \in Int
  PROVE  (a * b + r) * g = a * (b * g) + r * g
  OBVIOUS

(* MultiplyByte adds the product of one more byte.                         *)
LEMMA MultiplyKeeps ==
  ASSUME NEW o \in [0..Limbs -> Nat], NEW t \in [Pos -> Byte], NEW f \in Nat, NEW k \in Pos,
         NEW p \in Nat, p = t[k] * f,
         Behind(Value(o, Limbs + 1), Value(DoneAt(t, k), Limbs) * f)
  PROVE  Behind(Value([o EXCEPT ![k] = @ + (p % Base)], Limbs + 1) + (p \div Base) * Power[k + 1],
                Value(DoneAt(t, k + 1), Limbs) * f)
  <1>0. Limbs \in Nat /\ Base \in Nat \ {0} /\ k \in 0..(Limbs - 1) /\ k \in Nat
        /\ Byte \subseteq Nat BY ShareTargetAssumption DEF Pos, Byte
  <1>1. PICK g \in Nat : g = Power[k] BY <1>0, PowerDef
  <1>2. Power[k + 1] = Base * g BY <1>0, <1>1, PowerDef
  <1>3. PICK a \in Nat, r \in 0..(Base - 1) : a = p \div Base /\ r = p % Base
    <2>1. p \div Base \in Nat /\ p % Base \in 0..(Base - 1) BY <1>0, DivIs
    <2> QED BY <2>1
  <1>4. p = a * Base + r BY <1>0, <1>3, DivIs
  <1> DEFINE c == [o EXCEPT ![k] = @ + r]
  <1>5. Value(c, Limbs + 1) = Value(o, Limbs + 1) + r * g
    <2>1. PICK n \in Nat : n = Limbs + 1 BY <1>0
    <2>2. k \in 0..(n - 1) /\ r \in Int /\ r \in Nat BY <1>0, <2>1
    <2>3. \A x \in 0..(n - 1) : o[x] \in Nat /\ c[x] \in Nat
      <3> SUFFICES ASSUME NEW x \in 0..(n - 1) PROVE o[x] \in Nat /\ c[x] \in Nat OBVIOUS
      <3>1. x \in 0..Limbs /\ o[x] \in Nat /\ o[x] + r \in Nat BY <1>0, <2>1, <2>2
      <3> QED BY <3>1
    <2>4. \A x \in 0..(n - 1) : x # k => c[x] = o[x] BY <1>0, <2>1
    <2>5. c[k] = o[k] + r BY <1>0
    <2> HIDE DEF c
    <2>6. Value(c, n) + o[k] * Power[k] = Value(o, n) + c[k] * Power[k]
      BY <2>2, <2>3, <2>4, ValueChange, ZenonT(40)
    <2>7. PICK z \in Nat, V \in Nat, C \in Nat : z = o[k] /\ V = Value(o, n) /\ C = Value(c, n)
      <3>1. Value(o, n) \in Nat /\ Value(c, n) \in Nat BY <2>3, ValueIsNat
      <3> QED BY <2>2, <2>3, <3>1
    <2>8. C + z * g = V + (z + r) * g BY <1>1, <2>5, <2>6, <2>7
    <2>9. (z + r) * g = z * g + r * g /\ z * g \in Nat /\ r * g \in Nat BY <2>2
    <2>10. C = V + r * g BY <2>8, <2>9
    <2> QED BY <2>1, <2>7, <2>10
  <1>6. PICK v \in Nat : v = Value(o, Limbs + 1)
    <2>1. \A x \in 0..(Limbs + 1 - 1) : o[x] \in Nat BY <1>0
    <2> QED BY <1>0, <2>1, ValueIsNat
  <1>7. PICK y \in Nat : y = t[k] BY <1>0
  <1>8. PICK u \in Nat : u = Value(DoneAt(t, k), Limbs)
                         /\ Value(DoneAt(t, k + 1), Limbs) = u + y * g
    <2>1. PICK b, e : b = DoneAt(t, k) /\ e = DoneAt(t, k + 1) OBVIOUS
    <2>2. \A x \in 0..(Limbs - 1) : b[x] = (IF x < k THEN t[x] ELSE 0)
                                  /\ e[x] = (IF x < k + 1 THEN t[x] ELSE 0)
      BY <2>1 DEF DoneAt, Pos
    <2>3. \A x \in 0..(Limbs - 1) : t[x] \in Nat BY <1>0 DEF Pos
    <2>4. \A x \in 0..(Limbs - 1) : b[x] \in Nat /\ e[x] \in Nat
      <3> SUFFICES ASSUME NEW x \in 0..(Limbs - 1) PROVE b[x] \in Nat /\ e[x] \in Nat OBVIOUS
      <3> QED BY <2>2, <2>3
    <2>5. \A x \in 0..(Limbs - 1) : x # k => e[x] = b[x]
      <3> SUFFICES ASSUME NEW x \in 0..(Limbs - 1), x # k PROVE e[x] = b[x] OBVIOUS
      <3>1. x < k <=> x < k + 1 BY <1>0
      <3> QED BY <2>2, <3>1
    <2>6. b[k] = 0 /\ e[k] = y
      <3>1. ~(k < k) /\ k < k + 1 BY <1>0
      <3> QED BY <1>0, <1>7, <2>2, <3>1
    <2>8. Value(b, Limbs) \in Nat /\ Value(e, Limbs) \in Nat BY <1>0, <2>4, ValueIsNat
    <2>9. Value(e, Limbs) + b[k] * Power[k] = Value(b, Limbs) + e[k] * Power[k]
      <3>1. PICK n \in Nat : n = Limbs BY <1>0
      <3>2. k \in 0..(n - 1) BY <1>0, <3>1
      <3>3. \A x \in 0..(n - 1) : b[x] \in Nat /\ e[x] \in Nat BY <2>4, <3>1
      <3>4. \A x \in 0..(n - 1) : x # k => e[x] = b[x] BY <2>5, <3>1
      <3>5. Value(e, n) + b[k] * Power[k] = Value(b, n) + e[k] * Power[k]
        BY <3>2, <3>3, <3>4, ValueChange
      <3> QED BY <3>1, <3>5
    <2>10. Value(e, Limbs) + 0 * g = Value(b, Limbs) + y * g BY <1>1, <2>6, <2>9
    <2>7. Value(e, Limbs) = Value(b, Limbs) + y * Power[k] BY <1>1, <2>8, <2>10
    <2> QED BY <1>1, <2>1, <2>7, <2>8
  <1>9. PICK d \in Nat : v + d * Over = u * f BY <1>6, <1>8 DEF Behind
  <1>10. (v + r * g) + a * (Base * g) + d * Over = (u + y * g) * f
    <2>1. p = y * f BY <1>7
    <2>2. (u + y * g) * f = u * f + (y * f) * g BY <1>1, <1>7, <1>8
    <2>3. (a * Base + r) * g = a * (Base * g) + r * g BY <1>0, Distribute
    <2>4. (y * f) * g = a * (Base * g) + r * g
      BY <1>4, <2>1, <2>3, Zenon
    <2>5. PICK A \in Nat, R \in Nat, D \in Nat, U \in Nat :
            A = a * (Base * g) /\ R = r * g /\ D = d * Over /\ U = u * f
      <3>1. a * (Base * g) \in Nat /\ r * g \in Nat /\ u * f \in Nat BY <1>0
      <3>2. d * Over \in Nat BY Widths
      <3> QED BY <3>1, <3>2
    <2>6. v + D = U /\ (u + y * g) * f = U + (A + R) BY <1>9, <2>2, <2>4, <2>5
    <2>7. (v + R) + A + D = U + (A + R) BY <2>6
    <2> QED BY <2>5, <2>6, <2>7
  <1>11. Value(c, Limbs + 1) + a * Power[k + 1] + d * Over = Value(DoneAt(t, k + 1), Limbs) * f
    BY <1>2, <1>5, <1>6, <1>8, <1>10
  <1> QED BY <1>3, <1>11 DEF Behind

(* Spread moves a byte of the carry into out and the rest one place up.    *)
SumAt(o, k, c) == o[k] + (c % Base)
LEMMA SpreadKeeps ==
  ASSUME NEW o \in [0..Limbs -> Nat], NEW k \in 0..Limbs, NEW c \in Nat
  PROVE  /\ NextCarry(c, SumAt(o, k, c)) \in Nat /\ Keep(SumAt(o, k, c)) \in Byte
         /\ Value([o EXCEPT ![k] = Keep(SumAt(o, k, c))], Limbs + 1)
              + NextCarry(c, SumAt(o, k, c)) * Power[k + 1]
              = Value(o, Limbs + 1) + c * Power[k]
  <1>0. Limbs \in Nat /\ Base \in Nat \ {0} /\ k \in Nat BY ShareTargetAssumption
  <1>1. PICK g \in Nat : g = Power[k] BY <1>0, PowerDef
  <1>2. Power[k + 1] = Base * g BY <1>0, <1>1, PowerDef
  <1>3. PICK a \in Nat, r \in 0..(Base - 1) : a = c \div Base /\ r = c % Base
    <2>1. c \div Base \in Nat /\ c % Base \in 0..(Base - 1) BY <1>0, DivIs
    <2> QED BY <2>1
  <1>4. c = a * Base + r BY <1>0, <1>3, DivIs
  <1>16. PICK s \in Nat : s = o[k] + (c % Base) /\ s = SumAt(o, k, c)
    <2>1. o[k] \in Nat OBVIOUS
    <2>2. o[k] + (c % Base) \in Nat BY <1>0, <1>3, <2>1
    <2> QED BY <2>2 DEF SumAt
  <1>5. PICK h \in Nat, q \in 0..(Base - 1) : h = s \div Base /\ q = s % Base
    <2>1. s \div Base \in Nat /\ s % Base \in 0..(Base - 1) BY <1>0, DivIs
    <2> QED BY <2>1
  <1>6. s = h * Base + q BY <1>0, <1>5, DivIs
  <1>7. NextCarry(c, s) = a + h /\ Keep(s) = q BY <1>3, <1>5 DEF NextCarry, Keep
  <1>8. PICK y \in Nat : y = o[k] OBVIOUS
  <1>9. PICK d \in Int : q = y + d
    <2>1. q - y \in Int /\ q = y + (q - y) OBVIOUS
    <2> QED BY <2>1
  <1> DEFINE e == [o EXCEPT ![k] = q]
  <1>10. PICK v \in Nat : v = Value(o, Limbs + 1) /\ Value(e, Limbs + 1) = v + d * g
    <2>1. PICK n \in Nat : n = Limbs + 1 BY <1>0
    <2>2. k \in 0..(n - 1) BY <1>0, <2>1
    <2>3. \A x \in 0..(n - 1) : o[x] \in Nat /\ e[x] \in Nat
      <3> SUFFICES ASSUME NEW x \in 0..(n - 1) PROVE o[x] \in Nat /\ e[x] \in Nat OBVIOUS
      <3>1. x \in 0..Limbs /\ o[x] \in Nat /\ q \in Nat BY <1>0, <2>1
      <3> QED BY <3>1
    <2>4. \A x \in 0..(n - 1) : x # k => e[x] = o[x] BY <1>0, <2>1
    <2>5. e[k] = q BY <1>8
    <2> HIDE DEF e
    <2>6. Value(e, n) + o[k] * Power[k] = Value(o, n) + e[k] * Power[k]
      BY <2>2, <2>3, <2>4, ValueChange, ZenonT(40)
    <2>7. PICK V \in Nat, C \in Nat : V = Value(o, n) /\ C = Value(e, n) BY <2>3, ValueIsNat
    <2>8. C + y * g = V + (y + d) * g BY <1>1, <1>8, <1>9, <2>5, <2>6, <2>7
    <2>9. (y + d) * g = y * g + d * g /\ y * g \in Nat /\ d * g \in Int OBVIOUS
    <2>10. C = V + d * g BY <2>8, <2>9
    <2> QED BY <2>1, <2>7, <2>10
  <1>11. d * g + (a + h) * (Base * g) = c * g
    <2>1. d + (a + h) * Base = c
      <3>1. PICK A \in Nat, H \in Nat : A = a * Base /\ H = h * Base BY <1>0
      <3>2. (a + h) * Base = A + H BY <1>0, <3>1
      <3>3. c = A + r /\ y + r = H + q BY <1>3, <1>4, <1>6, <1>8, <1>16, <3>1
      <3> QED BY <1>9, <3>2, <3>3
    <2>2. d * g + (a + h) * (Base * g) = (d + (a + h) * Base) * g BY <1>0
    <2> QED BY <2>1, <2>2
  <1>12. Value(e, Limbs + 1) + (a + h) * (Base * g) = v + c * g
    <2>1. PICK A \in Int, B \in Int, C \in Int : A = d * g /\ B = (a + h) * (Base * g) /\ C = c * g
      BY <1>0
    <2> QED BY <1>10, <1>11, <2>1
  <1>13. e = [o EXCEPT ![k] = Keep(SumAt(o, k, c))] BY <1>7, <1>16
  <1> HIDE DEF e
  <1>14. NextCarry(c, s) \in Nat /\ Keep(s) \in Byte BY <1>7 DEF Byte
  <1>15. Value(e, Limbs + 1) + NextCarry(c, s) * Power[k + 1] = Value(o, Limbs + 1) + c * Power[k]
    BY <1>1, <1>2, <1>7, <1>10, <1>12
  <1> QED BY <1>13, <1>14, <1>15, <1>16, Zenon

(* NextByte drops a carry that has no place left.                          *)
LEMMA DropKeeps ==
  ASSUME NEW v \in Nat, NEW c \in Nat, NEW w \in Nat, Behind(v + c * Power[Limbs + 1], w)
  PROVE  Behind(v, w)
  <1>1. PICK m \in Nat : m = Over /\ m = Power[Limbs + 1] BY Widths
  <1>2. PICK d \in Nat : v + c * m + d * m = w BY <1>1 DEF Behind
  <1>3. v + (c + d) * m = w
    <2>1. (c + d) * m = c * m + d * m /\ c * m \in Nat /\ d * m \in Nat OBVIOUS
    <2> QED BY <1>2, <2>1
  <1> QED BY <1>1, <1>3 DEF Behind
-----------------------------------------------------------------------------
(* The tidy pass.                                                          *)
IsTidy(f, o, n) == \A x \in 0..n : f[x] = IF x = 0 THEN 0 ELSE (o[x - 1] + f[x - 1]) \div Base

(* Its carries exist.                                                      *)
LEMMA TidyUpTo ==
  ASSUME NEW o \in [0..Limbs -> Nat]
  PROVE  \E f \in [0..Limbs -> Nat] : IsTidy(f, o, Limbs)
  <1>0. Limbs \in Nat /\ Base \in Nat \ {0} BY ShareTargetAssumption
  <1> DEFINE S == {n \in Nat : n <= Limbs => \E f \in [0..n -> Nat] : IsTidy(f, o, n)}
  <1>1. 0 \in S
    <2> DEFINE f == [x \in 0..0 |-> 0]
    <2>1. f \in [0..0 -> Nat] /\ IsTidy(f, o, 0) BY DEF IsTidy
    <2> QED BY <2>1
  <1>2. ASSUME NEW n \in S PROVE n + 1 \in S
    <2> SUFFICES ASSUME n + 1 <= Limbs PROVE \E f \in [0..(n + 1) -> Nat] : IsTidy(f, o, n + 1)
      OBVIOUS
    <2>0. n \in Nat /\ n \in 0..Limbs /\ n <= Limbs BY <1>0
    <2>1. PICK f \in [0..n -> Nat] : IsTidy(f, o, n) BY <2>0
    <2>2. PICK h \in Nat : h = (o[n] + f[n]) \div Base
      <3>1. PICK s \in Nat : s = o[n] + f[n] BY <2>0
      <3>2. s \div Base \in Nat BY <1>0, DivMod
      <3> QED BY <3>1, <3>2
    <2> DEFINE g == [x \in 0..(n + 1) |-> IF x = n + 1 THEN h ELSE f[x]]
    <2>3. g \in [0..(n + 1) -> Nat] OBVIOUS
    <2>4. ASSUME NEW x \in 0..(n + 1)
          PROVE g[x] = IF x = 0 THEN 0 ELSE (o[x - 1] + g[x - 1]) \div Base
      <3>1. CASE x = n + 1
        <4>1. x - 1 = n /\ n \in 0..(n + 1) /\ x # 0 /\ n # n + 1 BY <2>0, <3>1
        <4> QED BY <2>2, <3>1, <4>1
      <3>2. CASE x # n + 1
        <4>1. x \in 0..n BY <2>0, <3>2
        <4>2. x # 0 => x - 1 \in 0..n /\ x - 1 # n + 1 /\ x - 1 \in 0..(n + 1) BY <2>0, <4>1
        <4>3. f[x] = IF x = 0 THEN 0 ELSE (o[x - 1] + f[x - 1]) \div Base
          BY <2>1, <4>1 DEF IsTidy
        <4> QED BY <3>2, <4>1, <4>2, <4>3
      <3> QED BY <3>1, <3>2
    <2> HIDE DEF g
    <2>5. IsTidy(g, o, n + 1) BY <2>4 DEF IsTidy
    <2> QED BY <2>3, <2>5
  <1> HIDE DEF S
  <1>3. S = Nat BY <1>1, <1>2, InductionOn DEF S
  <1>4. Limbs \in S BY <1>0, <1>3
  <1> QED BY <1>4 DEF S

(* What the recursion of the tidy pass defines.                            *)
LEMMA TidiedDef ==
  ASSUME out \in [0..Limbs -> Nat]
  PROVE  IsTidy(Tidied, out, Limbs) /\ Tidied \in [0..Limbs -> Nat]
  <1>1. PICK f \in [0..Limbs -> Nat] : IsTidy(f, out, Limbs) BY TidyUpTo
  <1> DEFINE R(x) == IF x = 0 THEN 0 ELSE (out[x - 1] + f[x - 1]) \div Base
  <1>2. \A x \in 0..Limbs : f[x] = R(x) BY <1>1 DEF IsTidy
  <1>3. f = [x \in 0..Limbs |-> f[x]] OBVIOUS
  <1> HIDE DEF R
  <1>4. f = [x \in 0..Limbs |-> R(x)] BY <1>2, <1>3
  <1>5. f = [x \in 0..Limbs |-> IF x = 0 THEN 0 ELSE (out[x - 1] + f[x - 1]) \div Base]
    BY <1>4, Zenon DEF R
  <1>6. Tidied = [x \in 0..Limbs |-> IF x = 0 THEN 0 ELSE (out[x - 1] + Tidied[x - 1]) \div Base]
    BY <1>5, Zenon DEF Tidied
  <1>7. IsTidy(Tidied, out, Limbs)
    <2> DEFINE Q(x) == IF x = 0 THEN 0 ELSE (out[x - 1] + Tidied[x - 1]) \div Base
    <2>1. Tidied = [x \in 0..Limbs |-> Q(x)] BY <1>6
    <2> HIDE DEF Q
    <2>2. \A x \in 0..Limbs : Tidied[x] = Q(x) BY <2>1
    <2> QED BY <2>2 DEF IsTidy, Q
  <1>8. \A x \in 0..Limbs : Tidied[x] \in Nat
    <2>0. Limbs \in Nat /\ Base \in Nat \ {0} BY ShareTargetAssumption
    <2> DEFINE S == {n \in Nat : n <= Limbs => Tidied[n] \in Nat}
    <2>1. 0 \in S BY <1>7, <2>0 DEF IsTidy
    <2>2. ASSUME NEW n \in S PROVE n + 1 \in S
      <3> SUFFICES ASSUME n + 1 <= Limbs PROVE Tidied[n + 1] \in Nat OBVIOUS
      <3>1. n + 1 \in 0..Limbs /\ n + 1 # 0 /\ n + 1 - 1 = n /\ n \in 0..Limbs /\ Tidied[n] \in Nat
        BY <2>0
      <3>2. PICK s \in Nat : s = out[n] + Tidied[n] BY <3>1
      <3>3. Tidied[n + 1] = s \div Base BY <1>7, <3>1, <3>2 DEF IsTidy
      <3>4. s \div Base \in Nat BY <2>0, DivIs
      <3> QED BY <3>3, <3>4
    <2> HIDE DEF S
    <2>3. S = Nat BY <2>1, <2>2, InductionOn DEF S
    <2> QED BY <2>3 DEF S
  <1>9. Tidied = [x \in 0..Limbs |-> Tidied[x]]
    <2> DEFINE Q(x) == IF x = 0 THEN 0 ELSE (out[x - 1] + Tidied[x - 1]) \div Base
    <2>1. Tidied = [x \in 0..Limbs |-> Q(x)] BY <1>6
    <2> HIDE DEF Q
    <2> QED BY <2>1
  <1> QED BY <1>7, <1>8, <1>9

(* The tidy pass keeps the value: what leaves the low bytes is in the top. *)
LEMMA TidyKeeps ==
  ASSUME NEW o \in [0..Limbs -> Nat], NEW f \in [0..Limbs -> Nat], IsTidy(f, o, Limbs),
         NEW low, low = [x \in Pos |-> (o[x] + f[x]) % Base]
  PROVE  /\ low \in [Pos -> Byte]
         /\ Value(low, Limbs) + (o[Limbs] + f[Limbs]) * Width = Value(o, Limbs + 1)
  <1>0. Limbs \in Nat /\ Base \in Nat \ {0} /\ Limbs \in 0..Limbs BY ShareTargetAssumption
  <1>1. ASSUME NEW x \in Pos PROVE x \in 0..Limbs /\ (o[x] + f[x]) % Base \in Byte
    <2>1. x \in 0..Limbs BY <1>0 DEF Pos
    <2>2. PICK s \in Nat : s = o[x] + f[x] BY <2>1
    <2>3. s % Base \in Byte BY <1>0, DivIs DEF Byte
    <2> QED BY <2>1, <2>2, <2>3
  <1>2. low \in [Pos -> Byte] BY <1>1
  <1> DEFINE S == {k \in Nat : k <= Limbs => Value(low, k) + f[k] * Power[k] = Value(o, k)}
  <1>3. 0 \in S
    <2>1. f[0] = 0 BY <1>0 DEF IsTidy
    <2>2. Value(low, 0) = 0 /\ Value(o, 0) = 0 /\ Power[0] = 1 BY ValueDef, PowerDef
    <2> QED BY <2>1, <2>2
  <1>4. ASSUME NEW k \in S PROVE k + 1 \in S
    <2> SUFFICES ASSUME k + 1 <= Limbs
        PROVE Value(low, k + 1) + f[k + 1] * Power[k + 1] = Value(o, k + 1) OBVIOUS
    <2>1. k \in Nat /\ k \in 0..Limbs /\ k \in Pos /\ k + 1 \in 0..Limbs /\ k + 1 # 0
          /\ k + 1 - 1 = k /\ k <= Limbs BY <1>0 DEF Pos
    <2>2. PICK g \in Nat : g = Power[k] /\ Power[k + 1] = Base * g BY <2>1, PowerDef
    <2>3. PICK y \in Nat, c \in Nat : y = o[k] /\ c = f[k] BY <2>1
    <2>4. PICK s \in Nat : s = y + c OBVIOUS
    <2>5. PICK h \in Nat, q \in Nat : h = s \div Base /\ q = s % Base
      <3>1. s \div Base \in Nat /\ s % Base \in 0..(Base - 1) BY <1>0, DivIs
      <3>2. \A x \in 0..(Base - 1) : x \in Nat BY <1>0
      <3> QED BY <3>1, <3>2, Zenon
    <2>6. s = h * Base + q BY <1>0, <2>5, DivIs
    <2>7. low[k] = q BY <2>1, <2>3, <2>4, <2>5
    <2>8. f[k + 1] = h BY <2>1, <2>3, <2>4, <2>5 DEF IsTidy
    <2>9. PICK V \in Nat, W \in Nat : V = Value(low, k) /\ W = Value(o, k)
      <3>1. \A x \in 0..(k - 1) : o[x] \in Nat BY <1>0, <2>1
      <3>2. \A x \in 0..(k - 1) : low[x] \in Nat
        <4> SUFFICES ASSUME NEW x \in 0..(k - 1) PROVE low[x] \in Nat OBVIOUS
        <4>1. x \in Pos BY <1>0, <2>1 DEF Pos
        <4> QED BY <1>2, <4>1 DEF Byte
      <3>3. Value(low, k) \in Nat BY <2>1, <3>2, ValueIsNat
      <3>4. Value(o, k) \in Nat BY <2>1, <3>1, ValueIsNat
      <3> QED BY <3>3, <3>4
    <2>10. V + c * g = W BY <2>1, <2>2, <2>3, <2>9
    <2>11. Value(low, k + 1) = V + q * g BY <2>1, <2>2, <2>7, <2>9, ValueDef
    <2>12. Value(o, k + 1) = W + y * g BY <2>1, <2>2, <2>3, <2>9, ValueDef
    <2>13. (h * Base + q) * g = h * (Base * g) + q * g BY <1>0, Distribute
    <2>14. (h * Base + q) * g = y * g + c * g
      <3>1. h * Base + q = y + c BY <2>4, <2>6
      <3>2. (y + c) * g = y * g + c * g OBVIOUS
      <3> QED BY <3>1, <3>2
    <2>15. (V + q * g) + h * (Base * g) = W + y * g
      <3>1. PICK A \in Nat, B \in Nat, C \in Nat, D \in Nat :
              A = q * g /\ B = h * (Base * g) /\ C = y * g /\ D = c * g
        <4>1. q * g \in Nat /\ h * (Base * g) \in Nat /\ y * g \in Nat /\ c * g \in Nat BY <1>0
        <4> QED BY <4>1
      <3>2. B + A = C + D BY <2>13, <2>14, <3>1
      <3>3. V + D = W BY <2>10, <3>1
      <3>4. (V + A) + B = W + C BY <3>2, <3>3
      <3> QED BY <3>1, <3>4
    <2> QED BY <2>2, <2>8, <2>11, <2>12, <2>15
  <1> HIDE DEF S
  <1>5. S = Nat BY <1>3, <1>4, InductionOn DEF S
  <1>6. Value(low, Limbs) + f[Limbs] * Power[Limbs] = Value(o, Limbs)
    <2>1. Limbs \in S /\ Limbs <= Limbs BY <1>0, <1>5
    <2> QED BY <2>1 DEF S
  <1>7. Value(o, Limbs + 1) = Value(o, Limbs) + o[Limbs] * Power[Limbs] BY <1>0, ValueDef
  <1>8. PICK w \in Nat, y \in Nat, c \in Nat : w = Width /\ y = o[Limbs] /\ c = f[Limbs]
    BY <1>0, Widths
  <1>9. PICK V \in Nat : V = Value(low, Limbs)
    <2>1. \A x \in 0..(Limbs - 1) : low[x] \in Nat BY <1>2 DEF Pos, Byte
    <2> QED BY <1>0, <2>1, ValueIsNat
  <1>10. V + (y + c) * w = (V + c * w) + y * w
    <2>1. (y + c) * w = y * w + c * w /\ y * w \in Nat /\ c * w \in Nat OBVIOUS
    <2> QED BY <2>1
  <1>11. Value(o, Limbs + 1) = (V + c * w) + y * w BY <1>6, <1>7, <1>8, <1>9 DEF Width
  <1> QED BY <1>2, <1>8, <1>9, <1>10, <1>11
-----------------------------------------------------------------------------
(* bits_to_target.                                                         *)

(* A digit is a byte.                                                      *)
LEMMA DigitIsByte ==
  ASSUME NEW m \in Nat, NEW x \in Nat
  PROVE  DigitOf(m, x) \in Byte
  <1>1. PICK q \in Nat \ {0} : q = Power[x] BY PowerDef
  <1>2. m \div q \in Nat BY DivIs
  <1>3. (m \div q) % Base \in Byte BY <1>2, ShareTargetAssumption, DivIs DEF Byte
  <1> QED BY <1>1, <1>3 DEF DigitOf

(* The target is made of bytes, and its value is the one its exponent and  *)
(* mantissa name; past the top there is none.                              *)
LEMMA TargetIs ==
  ASSUME NEW e \in Nat, NEW m \in 0..(Power[3] - 1), NEW t, t = BitsToTarget(e, m)
  PROVE  /\ t \in [Pos -> Byte]
         /\ e < 3 => Value(t, Limbs) = m \div Power[3 - e]
         /\ 3 <= e /\ e <= Limbs => Value(t, Limbs) = m * Power[e - 3]
         /\ e > Limbs => Value(t, Limbs) = 0
  <1>0. Limbs \in Nat /\ 3 < Limbs /\ Base \in Nat \ {0} BY ShareTargetAssumption
  <1>1. m \in Nat BY PowerDef
  <1>2. CASE e < 3
    <2>1. PICK p \in Nat \ {0} : p = Power[3 - e] BY <1>2, PowerDef
    <2>2. PICK q \in Nat : q = m \div p /\ q * p <= m BY <1>1, DivIs
    <2>3. \A x \in Pos : t[x] = DigitOf(q, x) BY <1>2, <2>1, <2>2 DEF BitsToTarget
    <2>4. DOMAIN t = Pos /\ t = [x \in Pos |-> t[x]] BY DEF BitsToTarget
    <2>5. \A x \in Pos : t[x] \in Byte BY <1>0, <2>3, DigitIsByte DEF Pos
    <2>6. Value(t, Limbs) = q % Power[Limbs]
      <3>1. \A x \in 0..(Limbs - 1) : t[x] = DigitOf(q, x) BY <2>3 DEF Pos
      <3> QED BY <1>0, <3>1, ValueDigits
    <2>7. q % Power[Limbs] = q
      <3>1. PICK w \in Nat \ {0} : w = Power[Limbs] /\ Power[3] <= w BY <1>0, Widths, PowerDef DEF Width
      <3>2. 1 * q <= p * q BY <2>1, TimesMonotone
      <3>3. q <= m BY <1>1, <2>2, <3>2
      <3>4. m < Power[3] /\ Power[3] \in Nat BY PowerDef
      <3>5. q \in 0..(w - 1) BY <1>1, <3>1, <3>3, <3>4
      <3>6. (0 * w + q) % w = q BY <3>5, SplitIs
      <3> QED BY <3>1, <3>6
    <2>8. Value(t, Limbs) = m \div Power[3 - e] BY <2>1, <2>2, <2>6, <2>7
    <2> QED BY <1>0, <1>2, <2>4, <2>5, <2>8
  <1>3. CASE 3 <= e
    <2>1. PICK s \in Nat : s = e - 3 BY <1>3
    <2>2. ASSUME NEW x \in Pos
          PROVE  t[x] = IF s <= Limbs - 3 /\ x \in s..(s + 2) THEN DigitOf(m, x - s) ELSE 0
      <3>1. ~(e < 3) /\ Shift(e) = s BY <1>3, <2>1 DEF Shift
      <3> QED BY <3>1 DEF BitsToTarget
    <2>3. DOMAIN t = Pos /\ t = [x \in Pos |-> t[x]] BY DEF BitsToTarget
    <2>4. ASSUME NEW x \in Pos PROVE t[x] \in Byte
      <3>1. CASE s <= Limbs - 3 /\ x \in s..(s + 2)
        <4>1. x - s \in Nat BY <3>1
        <4> QED BY <1>1, <2>2, <3>1, <4>1, DigitIsByte
      <3>2. CASE ~(s <= Limbs - 3 /\ x \in s..(s + 2))
        <4>1. t[x] = 0 BY <2>2, <3>2
        <4> QED BY <1>0, <4>1 DEF Byte
      <3> QED BY <3>1, <3>2
    <2>5. t \in [Pos -> Byte] BY <2>3, <2>4
    <2>6. CASE e <= Limbs
      <3>1. s <= Limbs - 3 /\ s + 3 <= Limbs BY <1>0, <2>1, <2>6
      <3>2. \A x \in 0..(Limbs - 1) : t[x] = IF x \in s..(s + 2) THEN DigitOf(m, x - s) ELSE 0
        BY <2>2, <3>1 DEF Pos
      <3>3. Value(t, Limbs) = m * Power[s] BY <1>0, <3>1, <3>2, ValueShifted
      <3> QED BY <1>0, <1>3, <2>1, <2>5, <2>6, <3>3
    <2>7. CASE e > Limbs
      <3>1. ~(s <= Limbs - 3) BY <1>0, <2>1, <2>7
      <3>2. \A x \in 0..(Limbs - 1) : t[x] = 0 BY <2>2, <3>1 DEF Pos
      <3>3. Value(t, Limbs) = Value(t, 0) BY <1>0, <3>2, ValueTop
      <3>4. Value(t, Limbs) = 0 BY <3>3, ValueDef
      <3> QED BY <1>0, <1>3, <2>5, <2>7, <3>4
    <2> QED BY <1>0, <2>6, <2>7
  <1> QED BY <1>2, <1>3
-----------------------------------------------------------------------------
(* The invariant: what each variable holds, and how far mul_u256_u128 has  *)
(* come.  out and the carry are behind the product of the bytes done, and  *)
(* the bytes of out that are still to be multiplied are normalised, which  *)
(* is why no entry ever takes a third summand.                             *)
Types ==
  /\ exponent \in Nat /\ mantissa \in 0..(Power[3] - 1) /\ factor \in Nat \ {0}
  /\ pc \in {"bits", "byte", "spread", "done"}
  /\ target \in [Pos -> Byte]
  /\ out \in [0..Limbs -> 0..(2 * Base - 2)]
  /\ i \in 0..Limbs /\ j \in Nat /\ carry \in Nat
  /\ pc # "bits" => target = BitsToTarget(exponent, mantissa)

Settled ==
  \E low \in [Pos -> Byte], top \in Nat :
    /\ Value(low, Limbs) + top * Width = Value(out, Limbs + 1)
    /\ adjusted = IF top > 0 THEN Err ELSE low

Progress ==
  /\ pc = "bits" => i = 0 /\ carry = 0 /\ out = [x \in 0..Limbs |-> 0]
  /\ pc = "byte" =>
       /\ carry = 0
       /\ \A x \in i..Limbs : out[x] \in Byte
       /\ Behind(Value(out, Limbs + 1), Value(DoneAt(target, i), Limbs) * factor)
  /\ pc = "spread" =>
       /\ i < Limbs /\ j \in (i + 1)..(Limbs + 1)
       /\ \A x \in (i + 1)..Limbs : out[x] \in Byte
       /\ Behind(Value(out, Limbs + 1) + carry * Power[j],
                 Value(DoneAt(target, i + 1), Limbs) * factor)
  /\ pc = "done" =>
       Behind(Value(out, Limbs + 1), Value(target, Limbs) * factor) /\ Settled

Inv == Types /\ Progress

(* Values of bytes, and of an out that is not normalised, are numbers.     *)
LEMMA ValuesAreNat ==
  /\ \A t \in [Pos -> Byte] : Value(t, Limbs) \in Nat
  /\ \A o \in [0..Limbs -> Nat] : Value(o, Limbs + 1) \in Nat
  /\ \A t \in [Pos -> Byte] : \A k : Value(DoneAt(t, k), Limbs) \in Nat
  <1>0. Limbs \in Nat /\ Base \in Nat \ {0} BY ShareTargetAssumption
  <1>1. ASSUME NEW t \in [Pos -> Byte] PROVE Value(t, Limbs) \in Nat
    <2>1. \A x \in 0..(Limbs - 1) : t[x] \in Nat BY <1>1 DEF Pos, Byte
    <2> QED BY <1>0, <2>1, ValueIsNat
  <1>2. ASSUME NEW o \in [0..Limbs -> Nat] PROVE Value(o, Limbs + 1) \in Nat
    <2>1. PICK n \in Nat : n = Limbs + 1 BY <1>0
    <2>2. \A x \in 0..(n - 1) : o[x] \in Nat BY <1>0, <2>1
    <2> QED BY <2>1, <2>2, ValueIsNat
  <1>3. ASSUME NEW t \in [Pos -> Byte], NEW k PROVE Value(DoneAt(t, k), Limbs) \in Nat
    <2>1. PICK b : b = DoneAt(t, k) OBVIOUS
    <2>2. \A x \in 0..(Limbs - 1) : b[x] \in Nat
      <3>1. \A x \in Pos : t[x] \in Nat BY <1>3 DEF Byte
      <3>2. \A x \in Pos : b[x] = t[x] \/ b[x] = 0 BY <2>1 DEF DoneAt
      <3> QED BY <3>1, <3>2 DEF Pos
    <2> QED BY <1>0, <2>1, <2>2, ValueIsNat
  <1> QED BY <1>1, <1>2, <1>3

(* Bytes that are all zero are worth nothing.                              *)
LEMMA ZeroValue ==
  ASSUME NEW b, NEW n \in Nat, \A x \in 0..(n - 1) : b[x] = 0
  PROVE  Value(b, n) = 0
  <1>1. Value(b, n) = Value(b, 0) BY ValueTop
  <1> QED BY <1>1, ValueDef

(* Nothing done is worth nothing; everything done is the target.           *)
LEMMA DoneEnds ==
  ASSUME NEW t \in [Pos -> Byte]
  PROVE  Value(DoneAt(t, 0), Limbs) = 0 /\ Value(DoneAt(t, Limbs), Limbs) = Value(t, Limbs)
  <1>0. Limbs \in Nat BY ShareTargetAssumption
  <1>1. PICK b : b = DoneAt(t, 0) OBVIOUS
  <1>2. \A x \in 0..(Limbs - 1) : b[x] = 0
    <2> SUFFICES ASSUME NEW x \in 0..(Limbs - 1) PROVE b[x] = 0 OBVIOUS
    <2>1. x \in Pos /\ ~(x < 0) BY <1>0 DEF Pos
    <2> QED BY <1>1, <2>1 DEF DoneAt
  <1>3. Value(DoneAt(t, 0), Limbs) = 0 BY <1>0, <1>1, <1>2, ZeroValue
  <1>4. PICK c : c = DoneAt(t, Limbs) OBVIOUS
  <1>5. \A x \in 0..(Limbs - 1) : c[x] = t[x]
    <2> SUFFICES ASSUME NEW x \in 0..(Limbs - 1) PROVE c[x] = t[x] OBVIOUS
    <2>1. x \in Pos /\ x < Limbs BY <1>0 DEF Pos
    <2> QED BY <1>4, <2>1 DEF DoneAt
  <1>6. Value(c, Limbs) = Value(t, Limbs) BY <1>0, <1>5, ValueReads
  <1> QED BY <1>3, <1>4, <1>6

(* The invariant holds at the start.                                       *)
LEMMA InvInit == Init => Inv
  <1> SUFFICES ASSUME Init PROVE Inv OBVIOUS
  <1>0. Limbs \in Nat /\ Base \in Nat /\ Base > 1 /\ 0 \in Byte /\ 0 \in 0..(2 * Base - 2)
        /\ 0 \in 0..Limbs
    BY ShareTargetAssumption DEF Byte
  <1>1. Types BY <1>0, ShareTargetAssumption DEF Init, Types
  <1>2. Progress BY DEF Init, Progress
  <1> QED BY <1>1, <1>2 DEF Inv

(* Decode starts the loop with nothing done and nothing in out.            *)
LEMMA InvDecode == Inv /\ Decode => Inv'
  <1> SUFFICES ASSUME Inv, Decode PROVE Inv' OBVIOUS
  <1>0. Limbs \in Nat /\ Base \in Nat /\ Base > 1 BY ShareTargetAssumption
  <1>1. PICK t : t = BitsToTarget(exponent, mantissa) OBVIOUS
  <1>2. t \in [Pos -> Byte] BY <1>1, TargetIs DEF Inv, Types
  <1>3. target' = t BY <1>1 DEF Decode
  <1>4. Types' BY <1>1, <1>2, <1>3 DEF Inv, Types, Decode
  <1>5. PICK o : o = out /\ o = [x \in 0..Limbs |-> 0] BY DEF Inv, Progress, Decode
  <1>6. Value(o, Limbs + 1) = 0
    <2>1. PICK n \in Nat : n = Limbs + 1 BY <1>0
    <2>2. \A x \in 0..(n - 1) : o[x] = 0 BY <1>0, <1>5, <2>1
    <2> QED BY <2>1, <2>2, ZeroValue
  <1>7. PICK f \in Nat : f = factor BY DEF Inv, Types
  <1>8. Behind(Value(o, Limbs + 1), Value(DoneAt(t, 0), Limbs) * f)
    <2>1. Value(DoneAt(t, 0), Limbs) = 0 BY <1>2, DoneEnds
    <2>2. 0 * f = 0 /\ 0 + 0 * Over = 0 BY Widths
    <2> QED BY <1>6, <2>1, <2>2 DEF Behind
  <1>9. \A x \in 0..Limbs : o[x] \in Byte BY <1>0, <1>5 DEF Byte
  <1>10. pc' = "byte" /\ i' = 0 /\ carry' = 0 /\ out' = o /\ factor' = f
    BY <1>5, <1>7 DEF Inv, Progress, Decode
  <1>11. Progress' BY <1>3, <1>8, <1>9, <1>10 DEF Progress
  <1> QED BY <1>4, <1>11 DEF Inv

(* MultiplyByte adds less than a byte to an entry that was normalised.     *)
LEMMA InvMultiply == Inv /\ MultiplyByte => Inv'
  <1> SUFFICES ASSUME Inv, MultiplyByte PROVE Inv' OBVIOUS
  <1>0. Limbs \in Nat /\ Base \in Nat \ {0} /\ Base > 1 BY ShareTargetAssumption
  <1>1. PICK o, t, k, f : o = out /\ t = target /\ k = i /\ f = factor OBVIOUS
  <1>2. /\ o \in [0..Limbs -> 0..(2 * Base - 2)] /\ o \in [0..Limbs -> Nat]
        /\ t \in [Pos -> Byte] /\ k \in Pos /\ k \in Nat /\ k < Limbs /\ f \in Nat
    <2>1. o \in [0..Limbs -> 0..(2 * Base - 2)] /\ t \in [Pos -> Byte] /\ f \in Nat
      BY <1>1 DEF Inv, Types
    <2>2. \A x \in 0..(2 * Base - 2) : x \in Nat OBVIOUS
    <2>3. o \in [0..Limbs -> Nat] BY <2>1, <2>2
    <2>4. k \in Nat /\ k < Limbs /\ k \in Pos
      BY <1>0, <1>1 DEF Inv, Types, MultiplyByte, Pos
    <2> QED BY <2>1, <2>3, <2>4
  <1>3. PICK p \in Nat : p = t[k] * f
    <2>1. t[k] \in Nat BY <1>2 DEF Byte
    <2>2. t[k] * f \in Nat BY <1>2, <2>1
    <2> QED BY <2>2
  <1>4. PICK r \in Nat, a \in Nat : r = p % Base /\ a = p \div Base /\ r < Base
    <2>1. p \div Base \in Nat /\ p % Base \in 0..(Base - 1) BY <1>0, DivIs
    <2> QED BY <1>0, <2>1
  <1>5. (\A x \in k..Limbs : o[x] \in Byte)
        /\ Behind(Value(o, Limbs + 1), Value(DoneAt(t, k), Limbs) * f)
    BY <1>1 DEF Inv, Progress, MultiplyByte
  <1>6. PICK c : c = [o EXCEPT ![k] = @ + r] OBVIOUS
  <1>7. /\ out' = c /\ carry' = a /\ j' = k + 1 /\ pc' = "spread" /\ i' = k /\ target' = t
        /\ factor' = f
    BY <1>1, <1>3, <1>4, <1>6 DEF MultiplyByte
  <1>8. Behind(Value(c, Limbs + 1) + a * Power[k + 1], Value(DoneAt(t, k + 1), Limbs) * f)
    <2>1. Behind(Value([o EXCEPT ![k] = @ + (p % Base)], Limbs + 1) + (p \div Base) * Power[k + 1],
                 Value(DoneAt(t, k + 1), Limbs) * f)
      BY <1>2, <1>3, <1>5, MultiplyKeeps
    <2> QED BY <1>4, <1>6, <2>1
  <1>9. k \in 0..Limbs /\ k \in k..Limbs /\ o[k] \in 0..(Base - 1) BY <1>0, <1>2, <1>5 DEF Byte
  <1>10. c \in [0..Limbs -> 0..(2 * Base - 2)]
    <2>1. o[k] + r \in 0..(2 * Base - 2) BY <1>0, <1>4, <1>9
    <2> QED BY <1>2, <1>6, <1>9, <2>1
  <1>11. \A x \in (k + 1)..Limbs : c[x] \in Byte
    <2> SUFFICES ASSUME NEW x \in (k + 1)..Limbs PROVE c[x] \in Byte OBVIOUS
    <2>1. x \in k..Limbs /\ x # k /\ x \in 0..Limbs BY <1>0, <1>2
    <2>2. c[x] = o[x] BY <1>2, <1>6, <2>1
    <2> QED BY <1>5, <2>1, <2>2
  <1>12. Types'
    <2>1. k + 1 \in Nat BY <1>2
    <2>2. target = BitsToTarget(exponent, mantissa) BY DEF Inv, Types, MultiplyByte
    <2>3. exponent' = exponent /\ mantissa' = mantissa BY DEF MultiplyByte
    <2>4. exponent \in Nat /\ mantissa \in 0..(Power[3] - 1) /\ factor \in Nat \ {0}
      BY DEF Inv, Types
    <2> QED BY <1>1, <1>2, <1>4, <1>7, <1>9, <1>10, <2>1, <2>2, <2>3, <2>4 DEF Types
  <1>13. k + 1 \in (k + 1)..(Limbs + 1) BY <1>0, <1>2
  <1>14. Progress' BY <1>2, <1>7, <1>8, <1>11, <1>13 DEF Progress
  <1> QED BY <1>12, <1>14 DEF Inv

(* Spread leaves a normalised byte.                                        *)
LEMMA InvSpread == Inv /\ Spread => Inv'
  <1> SUFFICES ASSUME Inv, Spread PROVE Inv' OBVIOUS
  <1>0. Limbs \in Nat /\ Base \in Nat \ {0} /\ Base > 1 BY ShareTargetAssumption
  <1>1. PICK o, t, k, f, n, c : o = out /\ t = target /\ k = i /\ f = factor /\ n = j /\ c = carry
    OBVIOUS
  <1>2. /\ o \in [0..Limbs -> 0..(2 * Base - 2)] /\ o \in [0..Limbs -> Nat]
        /\ k \in 0..Limbs /\ k \in Nat /\ k < Limbs /\ n \in (k + 1)..(Limbs + 1) /\ n \in 0..Limbs
        /\ n \in Nat /\ c \in Nat
    <2>1. o \in [0..Limbs -> 0..(2 * Base - 2)] /\ c \in Nat /\ k \in 0..Limbs /\ k \in Nat
      BY <1>0, <1>1 DEF Inv, Types
    <2>2. \A x \in 0..(2 * Base - 2) : x \in Nat OBVIOUS
    <2>3. o \in [0..Limbs -> Nat] BY <2>1, <2>2
    <2>4. k < Limbs /\ n \in (k + 1)..(Limbs + 1) /\ n <= Limbs
      BY <1>1 DEF Inv, Progress, Spread
    <2>5. n \in 0..Limbs /\ n \in Nat BY <1>0, <2>1, <2>4
    <2> QED BY <2>1, <2>3, <2>4, <2>5
  <1>3. PICK s \in Nat : s = o[n] + (c % Base) /\ s = SumAt(o, n, c)
    <2>1. o[n] \in Nat /\ c % Base \in Nat
      <3>1. c % Base \in 0..(Base - 1) BY <1>0, <1>2, DivIs
      <3>2. o[n] \in Nat BY <1>2
      <3> QED BY <1>0, <3>1, <3>2
    <2>2. o[n] + (c % Base) \in Nat BY <2>1
    <2> QED BY <2>2 DEF SumAt
  <1>4. PICK e : e = [o EXCEPT ![n] = Keep(s)] OBVIOUS
  <1>5. PICK a \in Nat : a = NextCarry(c, s) /\ Keep(s) \in Byte
          /\ Value(e, Limbs + 1) + a * Power[n + 1] = Value(o, Limbs + 1) + c * Power[n]
    <2>1. e = [o EXCEPT ![n] = Keep(SumAt(o, n, c))] BY <1>3, <1>4, Zenon
    <2>2. /\ NextCarry(c, SumAt(o, n, c)) \in Nat /\ Keep(SumAt(o, n, c)) \in Byte
          /\ Value([o EXCEPT ![n] = Keep(SumAt(o, n, c))], Limbs + 1)
               + NextCarry(c, SumAt(o, n, c)) * Power[n + 1]
               = Value(o, Limbs + 1) + c * Power[n]
      BY <1>2, SpreadKeeps
    <2> QED BY <1>3, <2>1, <2>2, Zenon
  <1>6. /\ out' = e /\ carry' = a /\ j' = n + 1 /\ pc' = "spread" /\ i' = k /\ target' = t
        /\ factor' = f
    BY <1>1, <1>3, <1>4, <1>5 DEF Spread
  <1>7. /\ \A x \in (k + 1)..Limbs : o[x] \in Byte
        /\ Behind(Value(o, Limbs + 1) + c * Power[n], Value(DoneAt(t, k + 1), Limbs) * f)
    BY <1>1 DEF Inv, Progress, Spread
  <1>8. Behind(Value(e, Limbs + 1) + a * Power[n + 1], Value(DoneAt(t, k + 1), Limbs) * f)
    BY <1>5, <1>7
  <1>9. e \in [0..Limbs -> 0..(2 * Base - 2)]
    <2>1. Keep(s) \in 0..(2 * Base - 2) BY <1>0, <1>5 DEF Byte
    <2> QED BY <1>2, <1>4, <2>1
  <1>10. \A x \in (k + 1)..Limbs : e[x] \in Byte
    <2> SUFFICES ASSUME NEW x \in (k + 1)..Limbs PROVE e[x] \in Byte OBVIOUS
    <2>1. x \in 0..Limbs BY <1>0, <1>2
    <2>2. e[x] = (IF x = n THEN Keep(s) ELSE o[x]) BY <1>2, <1>4, <2>1
    <2> QED BY <1>5, <1>7, <2>2
  <1>11. Types'
    <2>1. n + 1 \in Nat BY <1>2
    <2>2. target = BitsToTarget(exponent, mantissa) BY DEF Inv, Types, Spread
    <2>3. exponent' = exponent /\ mantissa' = mantissa BY DEF Spread
    <2>4. exponent \in Nat /\ mantissa \in 0..(Power[3] - 1) /\ factor \in Nat \ {0}
          /\ target \in [Pos -> Byte]
      BY DEF Inv, Types
    <2> QED BY <1>1, <1>2, <1>5, <1>6, <1>9, <2>1, <2>2, <2>3, <2>4 DEF Types
  <1>12. n + 1 \in (k + 1)..(Limbs + 1) BY <1>0, <1>2
  <1>13. Progress' BY <1>2, <1>6, <1>8, <1>10, <1>12 DEF Progress
  <1> QED BY <1>11, <1>13 DEF Inv

(* NextByte either has no carry left or drops one that is past the top.    *)
LEMMA InvNextByte == Inv /\ NextByte => Inv'
  <1> SUFFICES ASSUME Inv, NextByte PROVE Inv' OBVIOUS
  <1>0. Limbs \in Nat /\ Base \in Nat \ {0} BY ShareTargetAssumption
  <1>1. PICK o, t, k, f, n, c : o = out /\ t = target /\ k = i /\ f = factor /\ n = j /\ c = carry
    OBVIOUS
  <1>2. /\ o \in [0..Limbs -> Nat] /\ t \in [Pos -> Byte] /\ f \in Nat
        /\ k \in 0..Limbs /\ k \in Nat /\ k < Limbs /\ n \in (k + 1)..(Limbs + 1)
        /\ n \in Nat /\ c \in Nat
    <2>1. o \in [0..Limbs -> 0..(2 * Base - 2)] /\ c \in Nat /\ k \in 0..Limbs /\ k \in Nat
          /\ t \in [Pos -> Byte] /\ f \in Nat /\ n \in Nat
      BY <1>0, <1>1 DEF Inv, Types
    <2>2. \A x \in 0..(2 * Base - 2) : x \in Nat OBVIOUS
    <2>3. o \in [0..Limbs -> Nat] BY <2>1, <2>2
    <2>4. k < Limbs /\ n \in (k + 1)..(Limbs + 1)
      BY <1>1 DEF Inv, Progress, NextByte
    <2> QED BY <2>1, <2>3, <2>4
  <1>3. /\ \A x \in (k + 1)..Limbs : o[x] \in Byte
        /\ Behind(Value(o, Limbs + 1) + c * Power[n], Value(DoneAt(t, k + 1), Limbs) * f)
    BY <1>1 DEF Inv, Progress, NextByte
  <1>4. PICK v \in Nat, w \in Nat : v = Value(o, Limbs + 1) /\ w = Value(DoneAt(t, k + 1), Limbs) * f
    <2>1. Value(o, Limbs + 1) \in Nat /\ Value(DoneAt(t, k + 1), Limbs) \in Nat
      BY <1>2, ValuesAreNat
    <2>2. Value(DoneAt(t, k + 1), Limbs) * f \in Nat BY <1>2, <2>1
    <2> QED BY <2>1, <2>2
  <1>5. Behind(v, w)
    <2>1. CASE c = 0
      <3>1. Power[n] \in Nat BY <1>2, PowerDef
      <3>2. v + c * Power[n] = v BY <1>4, <2>1, <3>1
      <3> QED BY <1>3, <1>4, <3>2
    <2>2. CASE n > Limbs
      <3>1. n = Limbs + 1 BY <1>0, <1>2, <2>2
      <3>2. Behind(v + c * Power[Limbs + 1], w) BY <1>3, <1>4, <3>1
      <3> QED BY <1>2, <3>2, DropKeeps
    <2> QED BY <1>1, <2>1, <2>2 DEF NextByte
  <1>6. /\ out' = o /\ carry' = 0 /\ pc' = "byte" /\ i' = k + 1 /\ target' = t
        /\ factor' = f /\ j' = n
    BY <1>1 DEF NextByte
  <1>7. Types'
    <2>1. k + 1 \in 0..Limbs BY <1>0, <1>2
    <2>2. target = BitsToTarget(exponent, mantissa) BY DEF Inv, Types, NextByte
    <2>3. exponent' = exponent /\ mantissa' = mantissa BY DEF NextByte
    <2>4. exponent \in Nat /\ mantissa \in 0..(Power[3] - 1) /\ factor \in Nat \ {0}
          /\ target \in [Pos -> Byte] /\ out \in [0..Limbs -> 0..(2 * Base - 2)]
      BY DEF Inv, Types
    <2> QED BY <1>1, <1>2, <1>6, <2>1, <2>2, <2>3, <2>4 DEF Types
  <1>8. Progress' BY <1>3, <1>4, <1>5, <1>6 DEF Progress
  <1> QED BY <1>7, <1>8 DEF Inv

(* Finish normalises without changing the value.                           *)
LEMMA InvFinish == Inv /\ Finish => Inv'
  <1> SUFFICES ASSUME Inv, Finish PROVE Inv' OBVIOUS
  <1>0. Limbs \in Nat /\ Base \in Nat \ {0} /\ Limbs \in 0..Limbs BY ShareTargetAssumption
  <1>1. PICK o, t, f : o = out /\ t = target /\ f = factor OBVIOUS
  <1>2. o \in [0..Limbs -> Nat] /\ t \in [Pos -> Byte]
    <2>1. o \in [0..Limbs -> 0..(2 * Base - 2)] /\ t \in [Pos -> Byte] BY <1>1 DEF Inv, Types
    <2>2. \A x \in 0..(2 * Base - 2) : x \in Nat OBVIOUS
    <2> QED BY <2>1, <2>2
  <1>3. PICK g \in [0..Limbs -> Nat] : g = Tidied /\ IsTidy(g, o, Limbs)
    BY <1>1, <1>2, TidiedDef
  <1>4. PICK low : low = [x \in Pos |-> (o[x] + g[x]) % Base] OBVIOUS
  <1>5. PICK top \in Nat : top = o[Limbs] + g[Limbs] BY <1>0, <1>2
  <1>6. low \in [Pos -> Byte] /\ Value(low, Limbs) + top * Width = Value(o, Limbs + 1)
    BY <1>2, <1>3, <1>4, <1>5, TidyKeeps
  <1>7. adjusted' = IF top > 0 THEN Err ELSE low
    BY <1>1, <1>3, <1>4, <1>5, Zenon DEF Finish
  <1>8. out' = o /\ target' = t /\ factor' = f /\ pc' = "done" BY <1>1 DEF Finish
  <1>9. Behind(Value(o, Limbs + 1), Value(t, Limbs) * f)
    <2>1. Behind(Value(o, Limbs + 1), Value(DoneAt(t, Limbs), Limbs) * f)
      BY <1>1 DEF Inv, Progress, Finish
    <2>2. Value(DoneAt(t, Limbs), Limbs) = Value(t, Limbs) BY <1>2, DoneEnds
    <2> QED BY <2>1, <2>2
  <1>10. Settled' BY <1>6, <1>7, <1>8 DEF Settled
  <1>11. Progress' BY <1>8, <1>9, <1>10 DEF Progress
  <1>12. Types' BY DEF Inv, Types, Finish
  <1> QED BY <1>11, <1>12 DEF Inv

(* Every step keeps the invariant.                                         *)
LEMMA InvStep == Inv /\ [Next]_vars => Inv'
  <1>1. ASSUME Inv, UNCHANGED vars PROVE Inv'
    BY <1>1 DEF Inv, Types, Progress, Settled, vars
  <1>2. Inv /\ Built => Inv' BY <1>1 DEF Built
  <1> QED BY <1>1, <1>2, InvDecode, InvMultiply, InvSpread, InvNextByte, InvFinish DEF Next

(* The invariant holds in every state.                                     *)
LEMMA Invariant == Spec => []Inv
  BY InvInit, InvStep, PTL DEF Spec
-----------------------------------------------------------------------------
(* At every point of the loops out and the carry hold the product of the   *)
(* bytes done so far modulo what out can hold, and no entry of out ever    *)
(* exceeds the sum of two bytes, so its u128s never wrap.                  *)
THEOREM LoopsKeepTheProduct == Spec => []PartialProduct
  <1>1. ASSUME Inv PROVE PartialProduct
    <2> SUFFICES ASSUME pc \in {"byte", "spread"}
        PROVE /\ (Value(out, Limbs + 1) + carry * Power[j]) % Over
                   = (Value(Done, Limbs) * factor) % Over
              /\ \A x \in 0..Limbs : out[x] \in 0..(2 * Base - 2)
      BY DEF PartialProduct, Over
    <2>1. out \in [0..Limbs -> 0..(2 * Base - 2)] BY <1>1 DEF Inv, Types
    <2>2. /\ out \in [0..Limbs -> Nat] /\ target \in [Pos -> Byte] /\ factor \in Nat
          /\ i \in Nat /\ j \in Nat /\ carry \in Nat /\ Limbs \in Nat
      <3>1. \A x \in 0..(2 * Base - 2) : x \in Nat OBVIOUS
      <3>2. out \in [0..Limbs -> Nat] BY <2>1, <3>1
      <3>3. i \in 0..Limbs /\ Limbs \in Nat BY <1>1, ShareTargetAssumption DEF Inv, Types
      <3> QED BY <1>1, <3>2, <3>3 DEF Inv, Types
    <2>3. PICK k \in Nat : k = IF pc = "spread" THEN i + 1 ELSE i BY <2>2
    <2>4. Done = DoneAt(target, k)
      <3>1. \A x \in Pos : (x < i \/ (x = i /\ pc = "spread")) <=> x < k
        BY <2>2, <2>3 DEF Pos
      <3> QED BY <3>1 DEF Done, DoneAt
    <2>5. PICK v \in Nat, w \in Nat :
            v = Value(out, Limbs + 1) + carry * Power[j] /\ w = Value(DoneAt(target, k), Limbs) * factor
      <3>1. Value(out, Limbs + 1) \in Nat /\ Value(DoneAt(target, k), Limbs) \in Nat
        BY <2>2, ValuesAreNat
      <3>2. Power[j] \in Nat BY <2>2, PowerDef
      <3>3. Value(out, Limbs + 1) + carry * Power[j] \in Nat
            /\ Value(DoneAt(target, k), Limbs) * factor \in Nat
        <4>1. ASSUME NEW x \in Nat, NEW y \in Nat, NEW z \in Nat
              PROVE  x + y * z \in Nat /\ x * y \in Nat
          OBVIOUS
        <4> QED BY <2>2, <3>1, <3>2, <4>1, Zenon
      <3> QED BY <3>3
    <2>6. Behind(v, w)
      <3>1. CASE pc = "byte"
        <4>1. k = i /\ carry = 0 BY <1>1, <2>3, <3>1 DEF Inv, Progress
        <4>2. Behind(Value(out, Limbs + 1), Value(DoneAt(target, i), Limbs) * factor)
          BY <1>1, <3>1 DEF Inv, Progress
        <4>3. Power[j] \in Nat /\ Value(out, Limbs + 1) \in Nat BY <2>2, PowerDef, ValuesAreNat
        <4>4. v = Value(out, Limbs + 1) BY <2>5, <4>1, <4>3
        <4> QED BY <2>5, <4>1, <4>2, <4>4
      <3>2. CASE pc = "spread"
        <4>1. Behind(Value(out, Limbs + 1) + carry * Power[j],
                     Value(DoneAt(target, i + 1), Limbs) * factor)
          BY <1>1, <3>2 DEF Inv, Progress
        <4> QED BY <2>3, <2>5, <3>2, <4>1
      <3> QED BY <3>1, <3>2
    <2>7. v % Over = w % Over BY <2>6, BehindIs
    <2>8. \A x \in 0..Limbs : out[x] \in 0..(2 * Base - 2) BY <2>1
    <2> QED BY <2>4, <2>5, <2>7, <2>8
  <1> QED BY <1>1, Invariant, PTL

(* What the result says of the product.                                    *)
LEMMA ResultIs ==
  ASSUME Inv, pc = "done"
  PROVE  \E low \in [Pos -> Byte], top \in Nat, v \in Nat, p \in Nat :
           /\ adjusted = IF top > 0 THEN Err ELSE low
           /\ v = Value(low, Limbs) /\ v < Width
           /\ p = Product /\ p = Value(target, Limbs) * factor
           /\ v + top * Width <= p /\ (p < Over => v + top * Width = p)
  <1>0. Limbs \in Nat BY ShareTargetAssumption
  <1>1. PICK low \in [Pos -> Byte], top \in Nat :
          /\ Value(low, Limbs) + top * Width = Value(out, Limbs + 1)
          /\ adjusted = IF top > 0 THEN Err ELSE low
    BY DEF Inv, Progress, Settled
  <1>2. PICK v \in Nat : v = Value(low, Limbs) /\ v < Width
    <2>1. \A x \in 0..(Limbs - 1) : low[x] \in Byte BY DEF Pos
    <2>2. Value(low, Limbs) \in 0..(Power[Limbs] - 1) BY <1>0, <2>1, ValueBelow
    <2>3. Width \in Nat BY Widths
    <2> QED BY <2>2, <2>3 DEF Width
  <1>3. PICK p \in Nat : p = Product /\ p = Value(target, Limbs) * factor
    <2>1. target \in [Pos -> Byte] /\ factor \in Nat BY DEF Inv, Types
    <2>2. Value(target, Limbs) \in Nat BY <2>1, ValuesAreNat
    <2>3. Value(target, Limbs) * factor \in Nat BY <2>1, <2>2
    <2> QED BY <2>3 DEF Product
  <1>4. PICK o \in Nat : o = Value(out, Limbs + 1) /\ o = v + top * Width
    <2>1. top * Width \in Nat BY Widths
    <2>2. v + top * Width \in Nat BY <2>1
    <2> QED BY <1>1, <1>2, <2>2
  <1>5. Behind(o, p) BY <1>3, <1>4 DEF Inv, Progress
  <1>6. o <= p /\ (p < Over => o = p) BY <1>5, BehindIs
  <1> QED BY <1>1, <1>2, <1>3, <1>4, <1>6, Zenon

(* A product that fits in the 33 bytes of out is returned exactly when it  *)
(* fits in 32, and reported as an overflow otherwise.                      *)
THEOREM MultiplicationIsExact == Spec => []ExactOrError
  <1>1. ASSUME Inv PROVE ExactOrError
    <2> SUFFICES ASSUME pc = "done", Product < Over
        PROVE IF Product < Width THEN adjusted # Err /\ Value(adjusted, Limbs) = Product
                                 ELSE adjusted = Err
      BY DEF ExactOrError, Over
    <2>1. PICK low \in [Pos -> Byte], top \in Nat, v \in Nat, p \in Nat :
            /\ adjusted = IF top > 0 THEN Err ELSE low
            /\ v = Value(low, Limbs) /\ v < Width
            /\ p = Product /\ p = Value(target, Limbs) * factor
            /\ v + top * Width <= p /\ (p < Over => v + top * Width = p)
      BY <1>1, ResultIs
    <2>2. PICK w \in Nat \ {0} : w = Width BY Widths
    <2>3. v + top * w = p /\ v < w BY <2>1, <2>2
    <2>4. top > 0 => w <= top * w
      <3>1. 1 <= top => 1 * w <= top * w BY TimesMonotone
      <3> QED BY <3>1
    <2>5. top = 0 => top * w = 0 OBVIOUS
    <2>6. top * w \in Nat OBVIOUS
    <2>7. p < w <=> top = 0 BY <2>3, <2>4, <2>5, <2>6
    <2>8. low # Err
      <3>1. DOMAIN low = Pos /\ 0 \in Pos BY ShareTargetAssumption DEF Pos
      <3>2. DOMAIN Err = {} BY DEF Err
      <3> QED BY <3>1, <3>2
    <2>9. CASE p < w
      <3>1. top = 0 BY <2>7, <2>9
      <3>2. adjusted = low /\ v = p BY <2>1, <2>3, <2>5, <3>1
      <3> QED BY <2>1, <2>2, <2>8, <2>9, <3>2
    <2>10. CASE ~(p < w)
      <3>1. top > 0 BY <2>7, <2>10
      <3> QED BY <2>1, <2>2, <2>10, <3>1
    <2> QED BY <2>9, <2>10
  <1> QED BY <1>1, Invariant, PTL

(* The difficulty the verifier reads is a number, and the target's value.  *)
LEMMA DifficultyIs ==
  ASSUME Inv, pc # "bits", ~Negative
  PROVE  /\ NbitsToDifficulty \in Nat
         /\ exponent <= Limbs => Value(target, Limbs) = NbitsToDifficulty
  <1>0. Limbs \in Nat /\ 3 < Limbs /\ Base \in Nat \ {0} BY ShareTargetAssumption
  <1>1. PICK e \in Nat, m \in Nat, t \in [Pos -> Byte] :
          e = exponent /\ m = mantissa /\ t = target /\ m \in 0..(Power[3] - 1)
          /\ t = BitsToTarget(e, m)
    <2>1. exponent \in Nat /\ mantissa \in 0..(Power[3] - 1) /\ target = BitsToTarget(exponent, mantissa)
          /\ target \in [Pos -> Byte]
      BY DEF Inv, Types
    <2>2. mantissa \in Nat BY <2>1, PowerDef
    <2> QED BY <2>1, <2>2
  <1>2. CASE e = 0
    <2>1. NbitsToDifficulty = 0 BY <1>1, <1>2 DEF NbitsToDifficulty
    <2>2. Value(t, Limbs) = m \div Power[3 - e] BY <1>1, <1>2, TargetIs
    <2>3. PICK q \in Nat \ {0} : q = Power[3] /\ m \in 0..(q - 1) BY <1>1, PowerDef
    <2>4. (0 * q + m) \div q = 0 BY <2>3, SplitIs
    <2>5. 0 * q + m = m BY <2>3
    <2>6. 3 - e = 3 BY <1>2
    <2>7. Value(t, Limbs) = 0 BY <2>2, <2>3, <2>4, <2>5, <2>6
    <2> QED BY <1>1, <2>1, <2>7
  <1>3. CASE e # 0 /\ e <= 3
    <2>1. NbitsToDifficulty = m \div Power[3 - e] BY <1>1, <1>3 DEF NbitsToDifficulty
    <2>2. PICK q \in Nat \ {0} : q = Power[3 - e] BY <1>1, <1>3, PowerDef
    <2>3. m \div q \in Nat BY <1>1, DivIs
    <2>4. CASE e < 3
      <3>1. Value(t, Limbs) = m \div Power[3 - e] BY <1>1, <2>4, TargetIs
      <3> QED BY <1>1, <2>1, <2>2, <2>3, <3>1
    <2>5. CASE e = 3
      <3>1. 3 <= e /\ e <= Limbs /\ e - 3 = 0 /\ 3 - e = 0 BY <1>0, <2>5
      <3>2. Value(t, Limbs) = m * Power[e - 3] BY <1>1, <3>1, TargetIs
      <3>3. Power[0] = 1 BY PowerDef
      <3>4. Value(t, Limbs) = m BY <1>1, <3>1, <3>2, <3>3
      <3>5. m \div 1 = m BY <1>1
      <3> QED BY <1>1, <2>1, <2>2, <2>3, <3>1, <3>3, <3>4, <3>5
    <2> QED BY <1>3, <2>4, <2>5
  <1>4. CASE e > 3
    <2>1. NbitsToDifficulty = (m * Power[e - 3]) % Width BY <1>1, <1>4 DEF NbitsToDifficulty
    <2>2. PICK q \in Nat \ {0}, w \in Nat \ {0} : q = Power[e - 3] /\ w = Width
      <3>1. e - 3 \in Nat BY <1>1, <1>4
      <3> QED BY <3>1, PowerDef, Widths
    <2>3. PICK a \in Nat : a = m * q OBVIOUS
    <2>4. a % w \in Nat
      <3>1. a % w \in 0..(w - 1) BY DivIs
      <3> QED BY <3>1
    <2>5. NbitsToDifficulty \in Nat BY <2>1, <2>2, <2>3, <2>4
    <2>6. CASE e <= Limbs
      <3>1. Value(t, Limbs) = a BY <1>1, <1>4, <2>2, <2>3, <2>6, TargetIs
      <3>2. a < w
        <4>1. PICK r \in Nat \ {0} : r = Power[3] /\ m + 1 <= r BY <1>1, PowerDef
        <4>2. (m + 1) * q <= r * q BY <4>1, TimesMonotone
        <4>3. (m + 1) * q = a + q BY <2>3
        <4>4. r * q = Power[e]
          <5>1. 3 + (e - 3) = e /\ e - 3 \in Nat BY <1>1, <1>4
          <5>2. Power[3 + (e - 3)] = Power[3] * Power[e - 3] BY <5>1, PowerAdds
          <5> QED BY <2>2, <4>1, <5>1, <5>2
        <4>5. Power[e] <= w BY <1>0, <1>1, <2>2, <2>6, PowerGrows DEF Width
        <4>6. Power[e] \in Nat BY <1>1, PowerDef
        <4> QED BY <4>2, <4>3, <4>4, <4>5, <4>6
      <3>3. (0 * w + a) % w = a
        <4>1. a \in 0..(w - 1) BY <3>2
        <4> QED BY <4>1, SplitIs
      <3>4. 0 * w + a = a OBVIOUS
      <3>5. NbitsToDifficulty = a BY <2>1, <2>2, <2>3, <3>3, <3>4
      <3> QED BY <1>1, <2>5, <3>1, <3>5
    <2> QED BY <1>1, <2>5, <2>6
  <1> QED BY <1>1, <1>2, <1>3, <1>4

(* Miner and verifier read the same target from the same bits.             *)
THEOREM TargetsAgree == Spec => []SameTarget
  <1>1. ASSUME Inv PROVE SameTarget
    BY <1>1, DifficultyIs DEF SameTarget
  <1> QED BY <1>1, Invariant, PTL

(* What the kernel takes for a hit is at most the miner's target.          *)
LEMMA MeetsIs ==
  ASSUME NEW h \in [Pos -> Byte], NEW t \in [Pos -> Byte], Meets(h, t)
  PROVE  Value(h, Limbs) <= Value(t, Limbs)
  <1>0. Limbs \in Nat BY ShareTargetAssumption
  <1>1. CASE h = t
    <2>1. Value(t, Limbs) \in Nat BY ValuesAreNat
    <2> QED BY <1>1, <2>1
  <1>2. CASE h # t
    <2>1. PICK k \in Pos : h[k] < t[k] /\ \A y \in Pos : y > k => h[y] = t[y]
      BY <1>2 DEF Meets
    <2>2. \A x \in 0..(Limbs - 1) : h[x] \in Byte /\ t[x] \in Byte BY DEF Pos
    <2>3. k \in 0..(Limbs - 1) /\ \A x \in 0..(Limbs - 1) : x > k => h[x] = t[x] BY <2>1 DEF Pos
    <2> QED BY <1>0, <2>1, <2>2, <2>3, ValueOrder
  <1> QED BY <1>1, <1>2

(* For bits without the sign bit, every hash the kernel takes for a hit    *)
(* meets the verifier's bound, whatever overflow does to the product.      *)
LEMMA PositiveAccepted ==
  ASSUME Inv, pc = "done", adjusted # Err, ~Negative
  PROVE  Accepted
  <1> SUFFICES ASSUME NEW h \in [Pos -> Byte], Meets(h, adjusted)
               PROVE  Value(h, Limbs) <= DifficultyBound
    BY DEF Accepted
  <1>0. Limbs \in Nat BY ShareTargetAssumption
  <1>1. PICK low \in [Pos -> Byte], top \in Nat, v \in Nat, p \in Nat :
          /\ adjusted = IF top > 0 THEN Err ELSE low
          /\ v = Value(low, Limbs) /\ v < Width
          /\ p = Product /\ p = Value(target, Limbs) * factor
          /\ v + top * Width <= p /\ (p < Over => v + top * Width = p)
    BY ResultIs
  <1>2. adjusted = low /\ top = 0 BY <1>1
  <1>3. v <= p
    <2>1. PICK w \in Nat : w = Width BY Widths
    <2>2. v + 0 * w <= p BY <1>1, <1>2, <2>1
    <2> QED BY <2>2
  <1>4. PICK a \in Nat : a = Value(h, Limbs) /\ a <= v BY <1>1, <1>2, MeetsIs, ValuesAreNat
  <1>5. PICK n \in Nat : n = NbitsToDifficulty /\ (exponent <= Limbs => Value(target, Limbs) = n)
    BY DifficultyIs
  <1>6. PICK f \in Nat : f = factor BY DEF Inv, Types
  <1>7. a <= n * f
    <2>1. CASE exponent <= Limbs
      <3>1. p = n * f BY <1>1, <1>5, <1>6, <2>1
      <3> QED BY <1>3, <1>4, <3>1
    <2>2. CASE exponent > Limbs
      <3>1. Value(target, Limbs) = 0 BY <2>2, TargetIs DEF Inv, Types
      <3>2. p = 0 BY <1>1, <1>6, <3>1
      <3>3. n * f \in Nat OBVIOUS
      <3> QED BY <1>3, <1>4, <3>2, <3>3
    <2>3. exponent \in Nat BY DEF Inv, Types
    <2> QED BY <1>0, <2>1, <2>2, <2>3
  <1>8. PICK w \in Nat : w = Width /\ a <= w - 1 BY <1>1, <1>4, Widths
  <1> QED BY <1>4, <1>5, <1>6, <1>7, <1>8 DEF DifficultyBound

(* For bits with the sign bit the verifier's bound is 0.  The miner's own  *)
(* target is a hash the kernel takes, so all are accepted only if it is 0. *)
LEMMA NegativeAccepted ==
  ASSUME Inv, pc = "done", adjusted # Err, Negative
  PROVE  Accepted <=> ~(Value(adjusted, Limbs) > 0)
  <1>1. adjusted \in [Pos -> Byte]
    <2>1. \E low \in [Pos -> Byte], top \in Nat : adjusted = IF top > 0 THEN Err ELSE low
      BY ResultIs
    <2> QED BY <2>1
  <1>2. DifficultyBound = 0
    <2>1. NbitsToDifficulty = 0 BY DEF NbitsToDifficulty
    <2>2. PICK w \in Nat \ {0} : w = Width BY Widths
    <2>3. PICK f \in Nat \ {0} : f = factor BY ShareTargetAssumption DEF Inv, Types
    <2>4. (w - 1) \div f \in Nat
      <3>1. w - 1 \in Nat BY <2>2
      <3> QED BY <3>1, DivIs
    <2>5. 0 * f = 0 BY <2>3
    <2> QED BY <2>1, <2>2, <2>3, <2>4, <2>5 DEF DifficultyBound
  <1>3. PICK a \in Nat : a = Value(adjusted, Limbs) BY <1>1, ValuesAreNat
  <1>4. ASSUME a > 0 PROVE ~Accepted
    <2>1. Meets(adjusted, adjusted) BY DEF Meets
    <2>2. ~(Value(adjusted, Limbs) <= DifficultyBound) BY <1>2, <1>3, <1>4
    <2> QED BY <1>1, <2>1, <2>2 DEF Accepted
  <1>5. ASSUME ~(a > 0) PROVE Accepted
    <2> SUFFICES ASSUME NEW h \in [Pos -> Byte], Meets(h, adjusted)
                 PROVE  Value(h, Limbs) <= DifficultyBound
      BY DEF Accepted
    <2>1. Value(h, Limbs) <= a BY <1>1, <1>3, MeetsIs
    <2>2. Value(h, Limbs) \in Nat BY ValuesAreNat
    <2> QED BY <1>2, <1>3, <1>5, <2>1, <2>2
  <1> QED BY <1>3, <1>4, <1>5

(* For every bits and factor for which there is a target at all: the       *)
(* hashes the kernel takes for hits all meet the verifier's bound, unless  *)
(* the bits have the sign bit and the miner's target is positive, and then *)
(* they do not.                                                            *)
THEOREM HitsAreAcceptedUnlessNegative == Spec => []HitsMeetBoundUnlessNegative
  <1>1. ASSUME Inv PROVE HitsMeetBoundUnlessNegative
    <2> SUFFICES ASSUME pc = "done", adjusted # Err
                 PROVE  Accepted <=> ~(Negative /\ Value(adjusted, Limbs) > 0)
      BY DEF HitsMeetBoundUnlessNegative
    <2>1. CASE ~Negative
      BY <1>1, <2>1, PositiveAccepted
    <2>2. CASE Negative
      BY <1>1, <2>2, NegativeAccepted
    <2> QED BY <2>1, <2>2
  <1> QED BY <1>1, Invariant, PTL
=============================================================================
