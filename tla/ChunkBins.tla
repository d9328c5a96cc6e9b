------------------------------ MODULE ChunkBins ------------------------------
(***************************************************************************)
(* The bins of sparsepp/spp_dlalloc.h as the rest of the allocator sees    *)
(* them: the free chunks of each size in the order in which they will be   *)
(* used.  The bins of small chunks are stacks, the trees of large ones     *)
(* queues ("only the oldest chunk (the next to be used, in our FIFO        *)
(* ordering) actually in the tree"); TreeBins shows that of the trees.     *)
(*                                                                         *)
(* Sizes are counted in units of MALLOC_ALIGNMENT, 16 bytes.  bins is a    *)
(* function from sizes to sequences of chunks.                             *)
(***************************************************************************)
EXTENDS Integers, Sequences, FiniteSets, SequencesExt

CONSTANT MinLarge   \* MIN_LARGE_SIZE: smaller chunks are in small bins

ASSUME MinLargeAssumption == MinLarge \in Nat /\ MinLarge > 2

IsSmall(s) == s < MinLarge

(* insert_chunk.                                                           *)
Inserted(bins, p, s) ==
  [bins EXCEPT ![s] = IF IsSmall(s) THEN <<p>> \o @ ELSE Append(@, p)]

(* unlink_chunk.                                                           *)
Unlinked(bins, p, s) ==
  [bins EXCEPT ![s] = RemoveAt(@, CHOOSE i \in DOMAIN @ : @[i] = p)]

(* The sizes of the small, and of the large, chunks that hold nb units.    *)
SmallFits(bins, nb) == {s \in DOMAIN bins : bins[s] # <<>> /\ s >= nb /\ IsSmall(s)}
LargeFits(bins, nb) == {s \in DOMAIN bins : bins[s] # <<>> /\ s >= nb /\ ~IsSmall(s)}

Binned(bins, p) == \E s \in DOMAIN bins : \E i \in DOMAIN bins[s] : bins[s][i] = p
=============================================================================
