------------------------ MODULE MCPerformWithTimeout ------------------------
(***************************************************************************)
(* Two calls of performWithTimeout in flight together.                     *)
(***************************************************************************)
EXTENDS PerformWithTimeout, TLC

CONSTANTS o1, o2

TwoOps == {o1, o2}
Symm == Permutations(TwoOps)
=============================================================================
