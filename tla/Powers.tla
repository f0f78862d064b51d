------------------------------- MODULE Powers -------------------------------
(***************************************************************************)
(* Powers of two, for the shifts and the widths of the code: a recursive   *)
(* function, so that proofs can reach it.                                  *)
(***************************************************************************)
EXTENDS Naturals

Pow2[e \in Nat] == IF e = 0 THEN 1 ELSE 2 * Pow2[e - 1]
=============================================================================
