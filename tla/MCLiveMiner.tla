---------------------------- MODULE MCLiveMiner -----------------------------
(* Instances of LiveMiner for TLC: the devices of two workers.             *)
EXTENDS LiveMiner, TLC
CONSTANTS g1, g2, p1, p2
TwoGpus == g1 :> g1 @@ g2 :> g2
OneGpu  == g1 :> g1
Symmetry == Permutations(Prev)
=============================================================================
