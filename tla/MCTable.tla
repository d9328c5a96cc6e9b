------------------------------ MODULE MCTable ------------------------------
(***************************************************************************)
(* A small instance of SparseTable for TLC: groups of two buckets, the     *)
(* last one of a table of three buckets half used, and a value of its own  *)
(* for each bucket, so that one in the wrong place shows.                  *)
(***************************************************************************)
EXTENDS SparseTable, TLC

TableValues   == {0, 1, 2}
TableSizes    == {0, 1, 3}
TableStorable == [b \in 0 .. 2 |-> {b}]

(* Tables and spaces are interchangeable: what IsFresh chooses among the   *)
(* unused spaces makes no difference but in their names.                   *)
Interchangeable == Permutations(Tables) \cup Permutations(Spaces)
=============================================================================
