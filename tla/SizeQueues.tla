------------------------------ MODULE SizeQueues ------------------------------
(***************************************************************************)
(* What the trees of large free chunks promise: a chunk of the smallest    *)
(* size that is large enough, among those of one size the oldest, and any  *)
(* chunk can be taken out when a neighbour is merged with it.              *)
(***************************************************************************)
EXTENDS ChunkBins

CONSTANTS
  Chunks,     \* the free chunks there may be
  LargeSizes  \* the sizes they may have

VARIABLE queues

Fits(nb) == LargeFits(queues, nb)

(* The best fit for nb units, if there is any.                             *)
BestFit(nb) == Head(queues[Min(Fits(nb))])

Init == queues = [s \in LargeSizes |-> <<>>]

Insert(p, s) ==
  /\ ~Binned(queues, p)
  /\ queues' = Inserted(queues, p, s)

Unlink(p, s) ==
  \E i \in DOMAIN queues[s] :
    /\ queues[s][i] = p
    /\ queues' = [queues EXCEPT ![s] = RemoveAt(@, i)]

Take(nb) ==
  /\ Fits(nb) # {}
  /\ queues' = [queues EXCEPT ![Min(Fits(nb))] = Tail(@)]

Next ==
  \/ \E p \in Chunks, s \in LargeSizes : Insert(p, s) \/ Unlink(p, s)
  \/ \E nb \in 1 .. Max(LargeSizes) : Take(nb)

Spec == Init /\ [][Next]_queues
=============================================================================
