------------------------------- MODULE MCGroup -------------------------------
(***************************************************************************)
(* Small instances of SparseGroup for TLC.                                 *)
(***************************************************************************)
EXTENDS SparseGroup

(* Six positions, among them the first and the last of a group: with the   *)
(* default allocation an array grows at the first and at the fifth value.  *)
SixPositions == {0, 1, 7, 8, 30, 31}

(* Three positions, for two groups of the larger kind.                     *)
ThreePositions == {0, 31, 63}
=============================================================================
