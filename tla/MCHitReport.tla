---------------------------- MODULE MCHitReport ----------------------------
(* Two rows of three tiles.  Every candidate alone, none, and every set of *)
(* some at the ends of tiles, of warps and of the grid.                    *)
EXTENDS HitReport
Corners(p) == {<<0, 0, 0>>, <<0, 0, PerTile(p) - 1>>, <<0, 1, 0>>, <<1, 0, 33>>,
               <<1, 2, PerTile(p) - 1>>}
AnyOutcome ==
  [p \in Paths |-> {{c} : c \in Candidate(p)} \cup SUBSET Corners(p)]
=============================================================================
