-------------------------------- MODULE MCHeap --------------------------------
(* A small instance of DlMalloc for TLC.                                   *)
EXTENDS DlMalloc
=============================================================================
