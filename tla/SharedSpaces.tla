---------------------------- MODULE SharedSpaces ----------------------------
(***************************************************************************)
(* The memory spaces behind spp_allocator: an allocator holds an intrusive *)
(* pointer (spp_sptr of sparsepp/spp_smartptr.h) to an MSpace, copies of   *)
(* the allocator share the space, and the last one to go deletes it.  The  *)
(* operators act on a function from spaces to their reference count and    *)
(* the number of arrays that were allocated from them and not given back.  *)
(***************************************************************************)
EXTENDS Integers

CONSTANT Spaces   \* the MSpace objects there may be

Unused == [count |-> 0, arrays |-> 0]

Exists(sp, s) == sp[s].count > 0

(* new MSpace: its count is that of the first pointer to it.               *)
Created(sp, s) == [sp EXCEPT ![s] = [count |-> 1, arrays |-> 0]]

(* spp_rc::increment, by the constructors of spp_sptr.                     *)
Increment(sp, s) == [sp EXCEPT ![s].count = @ + 1]

(* spp_rc::decrement: the last pointer deletes the space, and with it all  *)
(* that was allocated from it.                                             *)
Decrement(sp, s) ==
  [sp EXCEPT ![s] = IF @.count = 1 THEN Unused
                    ELSE [count |-> @.count - 1, arrays |-> @.arrays]]

(* spp_sptr::reset and assignment: a pointer to from becomes one to to.    *)
Reset(sp, from, to) == IF from = to THEN sp ELSE Increment(Decrement(sp, from), to)

(* allocate and deallocate, n arrays at a time.                            *)
Allocated(sp, s, n) == [sp EXCEPT ![s].arrays = @ + n]
=============================================================================
