------------------------------- MODULE MCTrees -------------------------------
(* A small instance of TreeBins for TLC.                                   *)
EXTENDS TreeBins, TLC

Interchangeable == Permutations(Chunks)
=============================================================================
