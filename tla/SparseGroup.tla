----------------------------- MODULE SparseGroup -----------------------------
(***************************************************************************)
(* A group of buckets in little memory: class sparsegroup of               *)
(* sparsepp/spp.h.  A bitmap says which positions hold a value; the values *)
(* themselves are packed, in the order of their positions, at the front of *)
(* an array that is just large enough.  A second bitmap has the positions  *)
(* a value was erased from.                                                *)
(*                                                                         *)
(* The capacity of the array is not looked up but computed from the number *)
(* of values: _sizing decides both how much to allocate and whether there  *)
(* is room.  It is recorded too (SPP_STORE_NUM_ITEMS), for deallocate.     *)
(*                                                                         *)
(* An operation is one step: nothing interrupts it but an exception from   *)
(* the allocator, and each operation allocates at most once.               *)
(***************************************************************************)
EXTENDS Integers, FiniteSets, Sequences, SequencesExt

CONSTANTS
  Groups,          \* the sparsegroup objects of the program
  Positions,       \* the positions the program uses
  Values,          \* value_type
  Empty, Erased,   \* what CellArray says of positions without a value
  Destroyed,       \* the bytes of an object whose destructor has run
  GroupSize,       \* SPP_GROUP_SIZE
  AllocSize,       \* SPP_ALLOC_SZ
  Relocatable,     \* TRUE if arrays are resized by reallocate, as they are for
                   \* relocatable values and the library's own allocators
  StorageFails,    \* TRUE if the allocation of a larger array may throw
  ShrinkFails      \* TRUE if the allocation of a smaller array may throw

ASSUME ConfigurationAssumption ==
  /\ GroupSize \in {32, 64}
  /\ AllocSize \in {0, 1, 2, 4, 8, 16, 32}
  /\ {Relocatable, StorageFails, ShrinkFails} \subseteq BOOLEAN

ASSUME PositionsAssumption == Positions \subseteq 0 .. GroupSize - 1

ASSUME CellsAssumption ==
  /\ {Empty, Erased, Destroyed} \cap Values = {}
  /\ Empty # Erased

VARIABLE grp       \* grp[g]: the group object g

-----------------------------------------------------------------------------
(* Sizes of arrays: _sizing.                                               *)

RoundUp(n, s) == ((n + s - 1) \div s) * s

Halved(s) == IF s > 2 THEN s \div 2 ELSE s

(* By how much an array in the given quarter of the group size grows:      *)
(* "aggressive allocation first, then decreasing".                         *)
Batch(quarter) ==
  LET first == GroupSize \div 8
  IN  CASE quarter = 0 -> first
        [] quarter = 1 -> Halved(first)
        [] OTHER       -> Halved(Halved(first))

(* The capacity of the array of a group with n values.                     *)
Sizing(n) ==
  CASE n = 0                     -> 0
    [] n > 0 /\ AllocSize = 0    -> RoundUp(n, Batch((n - 1) \div (GroupSize \div 4)))
    [] n > 0 /\ AllocSize # 0    -> RoundUp(n, AllocSize)

-----------------------------------------------------------------------------
(* Groups.  objs is what has been constructed at the front of _group, cap  *)
(* what was allocated for it, 0 if _group is NULL.                         *)

NewGroup ==
  [bitmap |-> {}, erased |-> {}, objs |-> <<>>, cap |-> 0,
   numItems |-> 0, numAlloc |-> 0]

(* Mutant: the mask has 16 bits.                                           *)
PosToOffsetNarrow(bm, i) == Cardinality({j \in bm : j < i /\ j < 16})

(* _pos_to_offset: the values at lower positions come first.               *)
PosToOffset(bm, i) == Cardinality({j \in bm : j < i})

(* The value at position i, unsafe_get.                                    *)
ValueAt(G, i) == G.objs[PosToOffset(G.bitmap, i) + 1]

(* Mutant: the mark of a reused position stays.                            *)
ConstructedMarked(G, i, v) ==
  [G EXCEPT !.objs = InsertAt(@, PosToOffset(G.bitmap, i) + 1, v),
            !.bitmap = @ \cup {i}, !.numItems = @ + 1]

(* v is constructed at position i and the values behind it are moved up.   *)
Constructed(G, i, v) ==
  [G EXCEPT !.objs = InsertAt(@, PosToOffset(G.bitmap, i) + 1, v),
            !.bitmap = @ \cup {i}, !.numItems = @ + 1, !.erased = @ \ {i}]

(* Mutant: _decr_num_items is missing.                                     *)
RemovedStillCounted(G, i) ==
  [G EXCEPT !.objs = RemoveAt(@, PosToOffset(G.bitmap, i) + 1),
            !.bitmap = @ \ {i}, !.erased = @ \cup {i}]

(* The value at position i is destroyed and those behind it moved down.    *)
Removed(G, i) ==
  [G EXCEPT !.objs = RemoveAt(@, PosToOffset(G.bitmap, i) + 1),
            !.bitmap = @ \ {i}, !.numItems = @ - 1, !.erased = @ \cup {i}]

(* Mutant: the array is replaced, _num_allocated is not.                   *)
ReallocatedUnrecorded(G, n) == [G EXCEPT !.cap = n]

(* A new array of n places, for the same values.                           *)
Reallocated(G, n) == [G EXCEPT !.cap = n, !.numAlloc = n]

(* clear: the marks go only if the caller says so.                         *)
ClearedGroup(G, marks) == [NewGroup EXCEPT !.erased = IF marks THEN {} ELSE G.erased]

-----------------------------------------------------------------------------
(* Operations.                                                             *)

Init == grp = [g \in Groups |-> NewGroup]

(* set, when the position holds a value: it is overwritten.                *)
Overwrite(g, i, v) ==
  LET G == grp[g]
  IN  /\ i \in G.bitmap
      /\ grp' = [grp EXCEPT ![g].objs[PosToOffset(G.bitmap, i) + 1] = v,
                            ![g].erased = @ \ {i}]

(* Whether the array is full, by _num_items alone.                         *)
IsFull(G) == G.numItems = Sizing(G.numItems)

(* The new array of a group that grows.  The path for values that cannot   *)
(* be relocated rounds twice: _allocate_group rounds what it is given.     *)
GrownCapacity(G) ==
  IF Relocatable THEN Sizing(G.numItems + 1) ELSE Sizing(Sizing(G.numItems + 1))

(* set at a position without a value.                                      *)
SetNew(g, i, v) ==
  LET G == grp[g]
  IN  /\ i \notin G.bitmap
      /\ \/ ~ IsFull(G) /\ grp' = [grp EXCEPT ![g] = Constructed(G, i, v)]
         \/ /\ IsFull(G)
            /\ grp' = [grp EXCEPT ![g] =
                         Constructed(Reallocated(G, GrownCapacity(G)), i, v)]

(* bad_alloc in set.  The mark is already gone, and _allocate_group has    *)
(* recorded the size of the array it did not get.                          *)
SetFails(g, i) ==
  LET G == grp[g]
  IN  /\ StorageFails
      /\ i \notin G.bitmap /\ IsFull(G)
      /\ grp' = [grp EXCEPT ![g].erased = @ \ {i},
                            ![g].numAlloc = IF Relocatable THEN @ ELSE GrownCapacity(G)]

(* erase, and erase_ne, which finds the position from an iterator.         *)
Erase(g, i) ==
  LET G == grp[g]
      n == Sizing(G.numItems - 1)
  IN  /\ i \in G.bitmap
      /\ \/ /\ G.numItems = 1
            /\ grp' = [grp EXCEPT ![g] = [ClearedGroup(G, FALSE) EXCEPT !.erased = @ \cup {i}]]
         \/ /\ G.numItems > 1 /\ n = Sizing(G.numItems)
            /\ grp' = [grp EXCEPT ![g] = Removed(G, i)]
         \/ /\ G.numItems > 1 /\ n # Sizing(G.numItems)
            /\ grp' = [grp EXCEPT ![g] = Removed(Reallocated(G, n), i)]

(* The bytes of a group after one value was destroyed, those behind it     *)
(* moved down, and nothing else done: the last slot still holds a copy of  *)
(* its value, or what is left of it.                                       *)
HalfRemoved(G, i) ==
  LET o == PosToOffset(G.bitmap, i) + 1
  IN  Append(RemoveAt(G.objs, o),
             IF o = Len(G.objs) THEN Destroyed ELSE G.objs[Len(G.objs)])

(* bad_alloc in erase: the values are touched before reallocate is called, *)
(* but after _allocate_group is.                                           *)
EraseFails(g, i) ==
  LET G == grp[g]
      n == Sizing(G.numItems - 1)
  IN  /\ ShrinkFails
      /\ i \in G.bitmap /\ G.numItems > 1 /\ n # Sizing(G.numItems)
      /\ grp' = [grp EXCEPT ![g].numAlloc = n,
                            ![g].objs = IF Relocatable THEN HalfRemoved(G, i) ELSE @]

(* clear(alloc, true), by the destructive iterator; and destruct, after    *)
(* which the memory is released or a new group constructed in it.          *)
Clear(g) == grp' = [grp EXCEPT ![g] = ClearedGroup(@, TRUE)]

(* Mutant: the copy's array is as small as possible.                       *)
CopyConstructTight(g, h) ==
  LET H == grp[h]
  IN  g # h /\ grp' = [grp EXCEPT ![g] = Reallocated(H, H.numItems)]

(* The copy constructor, at a place where the old group was destructed.    *)
CopyConstruct(g, h) ==
  LET H == grp[h]
      n == Sizing(H.numItems)
  IN  /\ g # h
      /\ \/ grp' = [grp EXCEPT ![g] = Reallocated(H, n)]
         \/ StorageFails /\ H.numItems > 0 /\ grp' = [grp EXCEPT ![g] = NewGroup]

(* Mutant: the erased bitmaps stay.                                        *)
SwapWithoutMarks(g, h) ==
  /\ g # h
  /\ grp' = [grp EXCEPT ![g] = [grp[h] EXCEPT !.erased = grp[g].erased],
                        ![h] = [grp[g] EXCEPT !.erased = grp[h].erased]]

Swap(g, h) == g # h /\ grp' = [grp EXCEPT ![g] = grp[h], ![h] = grp[g]]

Next ==
  \/ \E g \in Groups, i \in Positions :
       \/ \E v \in Values : Overwrite(g, i, v) \/ SetNew(g, i, v)
       \/ SetFails(g, i) \/ Erase(g, i) \/ EraseFails(g, i)
  \/ \E g \in Groups : Clear(g)
  \/ \E g, h \in Groups : CopyConstruct(g, h) \/ Swap(g, h)

Spec == Init /\ [][Next]_grp

-----------------------------------------------------------------------------
(* Properties.                                                             *)

GroupType ==
  [bitmap : SUBSET Positions, erased : SUBSET Positions,
   objs : Seq(Values \cup {Destroyed}), cap : 0 .. GroupSize,
   numItems : 0 .. GroupSize, numAlloc : 0 .. GroupSize]

(* Groups are well formed, and no position is both full and erased.        *)
TypeOK ==
  /\ grp \in [Groups -> GroupType]
  /\ \A g \in Groups : grp[g].bitmap \cap grp[g].erased = {}

(* The bitmap, the count and the array agree on how many values there are, *)
(* and each of them is an object: the destructors of _free_group run once  *)
(* for each, and the offset of every full position is that of an object.   *)
(* After EraseFails on an array that is resized in place this is not so,   *)
(* the last slot being what HalfRemoved left there.                        *)
ObjectsCounted ==
  \A g \in Groups : LET G == grp[g]
                    IN  /\ G.numItems = Cardinality(G.bitmap)
                        /\ Len(G.objs) = G.numItems
                        /\ G.objs \in Seq(Values)

(* The array has the capacity _sizing computes from the number of values,  *)
(* so that "num_items < num_alloc" is the truth about room in it and no    *)
(* value is constructed outside; also after allocations that failed.       *)
CapacityDerived ==
  \A g \in Groups : /\ grp[g].cap = Sizing(grp[g].numItems)
                    /\ Len(grp[g].objs) <= grp[g].cap

(* "assert(num_alloc == (uint32_t)_num_allocated)": the array is given     *)
(* back to the allocator with the size it was allocated with.              *)
SizeKnown == \A g \in Groups : grp[g].cap # 0 => grp[g].numAlloc = grp[g].cap

(* What a group holds at each position.                                    *)
CellAt(G, i) ==
  IF i \in G.bitmap THEN ValueAt(G, i) ELSE IF i \in G.erased THEN Erased ELSE Empty

Cells == [g \in Groups |-> [i \in Positions |-> CellAt(grp[g], i)]]

Abstract == INSTANCE CellArray WITH cells <- Cells, Fallible <- StorageFails

(* Groups are arrays of cells.                                             *)
ImplementsCells == Abstract!Spec
=============================================================================
