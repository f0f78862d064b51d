------------------------------ MODULE MCMerkle ------------------------------
(* Shapes for TLC: every number of chunks of A up to that of B, and        *)
(* shape_49k_m, whose A has half as many rows again as B has.              *)
EXTENDS MerkleCommitment
WideShapes == {[a |-> n, b |-> 8] : n \in 1..7} \cup {[a |-> 1, b |-> 9]}
TallShape  == {[a |-> 3, b |-> 2]}
AllShapes  == WideShapes \cup TallShape
=============================================================================
