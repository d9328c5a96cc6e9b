---------------------------- MODULE SparseTable ----------------------------
(***************************************************************************)
(* The array of groups under a hash table: class sparsetable of            *)
(* sparsepp/spp.h, with its allocators, its iterators, and the files it is *)
(* written to and read from.                                               *)
(*                                                                         *)
(* A group is an array of cells, as module CellArray promises.  A table    *)
(* takes memory from two allocators: the array of groups from _group_alloc *)
(* and the packed values of each group that has some from _alloc.  The     *)
(* program has some tables and one iterator, in one thread; each call is a *)
(* step.                                                                   *)
(***************************************************************************)
EXTENDS GroupIterators, SharedSpaces

CONSTANTS
  Tables,         \* the sparsetable objects of the program
  Lost,           \* what BucketArrays says of a table that is not intact
  Sizes,          \* the bucket counts the program asks for
  Storable,       \* Storable[b]: the values the program puts into bucket b
  StorageFails    \* TRUE if an allocation may throw

ASSUME TableAssumption ==
  /\ IsFiniteSet(Tables) /\ Sizes \subseteq Nat
  /\ \A s \in Sizes : \A b \in 0 .. s - 1 : Storable[b] \subseteq Values
  /\ \A s \in Sizes \cup {0} : Lost \notin [0 .. s - 1 -> Values \cup {Empty, Erased}]

VARIABLES
  tab,      \* tab[t]: the table object t
  spaces,   \* spaces[s]: the memory space s
  it        \* the iterator of the program: its table, kind, row and column

vars == <<tab, spaces, it>>

NoIterator == [kind |-> "none"]

-----------------------------------------------------------------------------
(* Tables.  intact is FALSE when a read has failed or a destructive        *)
(* iterator has begun: the program may then only discard what is there.    *)

NumGroups(n) == IF n = 0 THEN 0 ELSE (n - 1) \div GroupSize + 1

VacantGroup == [p \in Positions |-> Empty]

VacantGroups(n) == [r \in 1 .. n |-> VacantGroup]

(* A table of n buckets without a value.                                   *)
Blank(n, alloc, galloc) ==
  [groups |-> VacantGroups(NumGroups(n)), size |-> n, num |-> 0,
   alloc |-> alloc, galloc |-> galloc, intact |-> TRUE]

(* test_strict and test.                                                   *)
Test(h, b) == CellAt(h.groups, b) \in Values \cup {Raw}

(* The groups that have values, each in an array of its own.               *)
Filled(groups) == {r \in DOMAIN groups : NumItems(groups[r]) > 0}

ValueArrays(groups) == Cardinality(Filled(groups))

GroupArrays(groups) == IF groups = <<>> THEN 0 ELSE 1

(* The arrays of a table whose groups change from old to new.              *)
Rearranged(sp, h, old, new) ==
  Allocated(Allocated(sp, h.alloc, ValueArrays(new) - ValueArrays(old)),
            h.galloc, GroupArrays(new) - GroupArrays(old))

(* _free_groups, and the copying of groups in _copy.                       *)
FreedGroups(sp, h)  == Rearranged(sp, h, h.groups, <<>>)
CopiedGroups(sp, h) == Rearranged(sp, h, <<>>, h.groups)

(* clear and _cleanup.                                                     *)
Cleared(h) == [h EXCEPT !.groups = <<>>, !.size = 0, !.num = 0, !.intact = TRUE]

(* The destructor, and those of the two allocators after it.               *)
DestroyedTable(sp, h) == Decrement(Decrement(FreedGroups(sp, h), h.alloc), h.galloc)

WithCell(groups, b, c) ==
  [groups EXCEPT ![GroupNum(b)] = [@ EXCEPT ![PosInGroup(b)] = c]]

Regrouped(h, groups) == [h EXCEPT !.groups = groups]

(* Bound: since an iterator touches no other table than its own, one is    *)
(* used only while the others have no groups, and until the next call      *)
(* that is not through it.                                                 *)
Alone(t)     == \A u \in Tables \ {t} : tab[u].groups = <<>>
DropIterator == it' = NoIterator

Init ==
  \E home \in [Tables -> Spaces] :
    /\ \A t, u \in Tables : home[t] = home[u] => t = u
    /\ tab = [t \in Tables |-> Blank(0, home[t], home[t])]
    /\ spaces = [s \in Spaces |->
                   IF \E t \in Tables : home[t] = s THEN [count |-> 2, arrays |-> 0] ELSE Unused]
    /\ it = NoIterator

-----------------------------------------------------------------------------
(* Construction and assignment.                                            *)

IsFresh(sp, s) == ~ Exists(sp, s) /\ s = CHOOSE x \in Spaces : ~ Exists(sp, x)

(* t = sparsetable(n): both allocators are copies of a new one.            *)
Construct(t, n) ==
  LET gone == DestroyedTable(spaces, tab[t])
  IN  \E s \in Spaces :
        LET h == Blank(n, s, s)
        IN  /\ IsFresh(gone, s)
            /\ tab' = [tab EXCEPT ![t] = h]
            /\ spaces' = CopiedGroups(Increment(Created(gone, s), s), h)
            /\ DropIterator

(* t = sparsetable(u).                                                     *)
CopyConstruct(t, u) ==
  LET gone == DestroyedTable(spaces, tab[t])
      h    == tab[u]
  IN  /\ t # u /\ h.intact
      /\ tab' = [tab EXCEPT ![t] = h]
      /\ spaces' = CopiedGroups(Increment(Increment(gone, h.alloc), h.galloc), h)
      /\ DropIterator

(* Mutant: the allocators are replaced first, and get the old arrays.      *)
CopyAssignAllocatorsFirst(t, u) ==
  LET h    == tab[u]
      held == Reset(Reset(spaces, tab[t].alloc, h.alloc), tab[t].galloc, h.galloc)
      old  == [tab[t] EXCEPT !.alloc = h.alloc, !.galloc = h.galloc]
  IN  /\ t # u /\ h.intact
      /\ tab' = [tab EXCEPT ![t] = h]
      /\ spaces' = CopiedGroups(FreedGroups(held, old), h)
      /\ DropIterator

(* t = u: t's groups are freed before its allocators become those of u.    *)
CopyAssign(t, u) ==
  LET h    == tab[u]
      mine == FreedGroups(spaces, tab[t])
  IN  /\ t # u /\ h.intact
      /\ tab' = [tab EXCEPT ![t] = h]
      /\ spaces' = CopiedGroups(Reset(Reset(mine, tab[t].alloc, h.alloc),
                                      tab[t].galloc, h.galloc), h)
      /\ DropIterator

(* t = sparsetable(std::move(u)): u is left with two new allocators.       *)
MoveConstruct(t, u) ==
  LET gone == DestroyedTable(spaces, tab[t])
  IN  /\ t # u /\ tab[u].intact
      /\ \E s, g \in Spaces :
           /\ IsFresh(gone, s) /\ IsFresh(Created(gone, s), g)
           /\ tab' = [tab EXCEPT ![t] = tab[u], ![u] = Blank(0, s, g)]
           /\ spaces' = Created(Created(gone, s), g)
      /\ DropIterator

Swap(t, u) ==
  /\ t # u /\ tab[t].intact /\ tab[u].intact
  /\ tab' = [tab EXCEPT ![t] = tab[u], ![u] = tab[t]]
  /\ DropIterator
  /\ UNCHANGED spaces

(* t = std::move(u): t is cleared, then the two are swapped.               *)
MoveAssign(t, u) ==
  /\ t # u /\ tab[u].intact
  /\ tab' = [tab EXCEPT ![t] = tab[u], ![u] = Cleared(tab[t])]
  /\ spaces' = FreedGroups(spaces, tab[t])
  /\ DropIterator

Clear(t) ==
  /\ tab' = [tab EXCEPT ![t] = Cleared(@)]
  /\ spaces' = FreedGroups(spaces, tab[t])
  /\ DropIterator

(* clear() of the hash table: t is cleared, then a table of n buckets that *)
(* was made with t's allocator is moved into it.  If that cannot be made,  *)
(* t has no bucket.                                                        *)
Renew(t, n) ==
  LET h    == tab[t]
      mine == FreedGroups(spaces, h)
      new  == Blank(n, h.alloc, h.alloc)
  IN  /\ \/ /\ tab' = [tab EXCEPT ![t] = new]
            /\ spaces' = CopiedGroups(Reset(mine, h.galloc, h.alloc), new)
         \/ /\ StorageFails
            /\ tab' = [tab EXCEPT ![t] = Cleared(@)] /\ spaces' = mine
      /\ DropIterator

(* A table that keeps its allocators and gets n buckets: the groups it had *)
(* are moved to the new array, those that do not fit are destroyed.        *)
ResizedGroups(groups, n) ==
  [r \in 1 .. NumGroups(n) |-> IF r <= Len(groups) THEN groups[r] ELSE VacantGroup]

(* resize to no fewer buckets: a smaller size is "todo" in the code.       *)
Resize(t, n) ==
  LET h == tab[t]
      g == ResizedGroups(h.groups, n)
  IN  /\ h.intact /\ n >= h.size
      /\ tab' = [tab EXCEPT ![t] = [Regrouped(h, g) EXCEPT !.size = n]]
      /\ spaces' = Rearranged(spaces, h, h.groups, g)
      /\ DropIterator

-----------------------------------------------------------------------------
(* Buckets.                                                                *)

(* The table t of the program gets other groups, and delta more values.    *)
Change(t, groups, delta) ==
  /\ tab' = [tab EXCEPT ![t].groups = groups, ![t].num = @ + delta]
  /\ spaces' = Rearranged(spaces, tab[t], tab[t].groups, groups)

(* Mutant: an overwritten value is counted again.                          *)
SetCounted(t, b, v) ==
  /\ tab[t].intact /\ b < tab[t].size
  /\ Change(t, WithCell(tab[t].groups, b, v), 1)
  /\ DropIterator

(* set, and move, which a rehash calls for buckets that are not full.      *)
Set(t, b, v) ==
  /\ tab[t].intact /\ b < tab[t].size
  /\ Change(t, WithCell(tab[t].groups, b, v), IF Test(tab[t], b) THEN 0 ELSE 1)
  /\ DropIterator

(* An allocation for the group of bucket b throws: its mark is gone.       *)
SetFails(t, b) ==
  /\ StorageFails /\ tab[t].intact /\ b < tab[t].size
  /\ ~ Test(tab[t], b)
  /\ Change(t, WithCell(tab[t].groups, b, Empty), 0)
  /\ DropIterator

(* The buckets of a table_iterator from i up to j.                         *)
Span(i, j) == i .. j - 1

(* Mutant: the count drops by the length of the span.                      *)
EraseUncheckedCount(t, i, j) ==
  LET h == tab[t]
      S == Span(i, j) \cap FullBuckets(h.groups)
  IN  /\ h.intact /\ j <= h.size /\ S # {}
      /\ Change(t, [r \in DOMAIN h.groups |-> [p \in Positions |->
                      IF (r - 1) * GroupSize + p \in S THEN Erased ELSE h.groups[r][p]]],
                i - j)
      /\ DropIterator

(* erase(i), and erase of the buckets from a table_iterator to another.    *)
Erase(t, i, j) ==
  LET h == tab[t]
      S == Span(i, j) \cap FullBuckets(h.groups)
  IN  /\ h.intact /\ j <= h.size /\ S # {}
      /\ Change(t, [r \in DOMAIN h.groups |-> [p \in Positions |->
                      IF (r - 1) * GroupSize + p \in S THEN Erased ELSE h.groups[r][p]]],
                - Cardinality(S))
      /\ DropIterator

-----------------------------------------------------------------------------
(* The iterator.                                                           *)

Moves(t, kind, i) == it' = [tab |-> t, kind |-> kind, row |-> i.row, col |-> i.col]

Begin(t) ==
  /\ Alone(t) /\ tab[t].intact
  /\ Moves(t, "full", BeginOf(tab[t].groups))
  /\ UNCHANGED <<tab, spaces>>

(* get_iter, as find and insert return.                                    *)
Find(t, b) ==
  /\ Alone(t) /\ tab[t].intact /\ b < tab[t].size /\ Test(tab[t], b)
  /\ Moves(t, "full", GetIter(tab[t].groups, b))
  /\ UNCHANGED <<tab, spaces>>

Here     == [row |-> it.row, col |-> it.col]
Walked   == tab[it.tab].groups
AtEnd    == IsMarked(Walked, Here)
Live     == it.kind = "full"

StepForward ==
  /\ Live /\ ~ AtEnd
  /\ Moves(it.tab, "full", Incremented(Walked, Here))
  /\ UNCHANGED <<tab, spaces>>

StepBack ==
  /\ Live /\ Here # BeginOf(Walked)
  /\ Moves(it.tab, "full", Decremented(Walked, Here))
  /\ UNCHANGED <<tab, spaces>>

(* Mutant: advances once more.                                             *)
EraseHereSkipping ==
  /\ Live /\ ~ AtEnd
  /\ LET rest == ErasedAt(Walked, Here)
     IN  Change(it.tab, rest, -1) /\ Moves(it.tab, "full", Incremented(rest, Here))

(* erase(it) returns an iterator to what comes next.                       *)
EraseHere ==
  /\ Live /\ ~ AtEnd
  /\ LET rest == ErasedAt(Walked, Here)
     IN  Change(it.tab, rest, -1) /\ Moves(it.tab, "full", AdvancePastEnd(rest, Here))

(* erase(it, l) with l an iterator to bucket b behind it, or the end.      *)
EraseUpTo(b) ==
  /\ Live /\ ~ AtEnd
  /\ \/ b < tab[it.tab].size /\ Test(tab[it.tab], b) /\ GetPos(Walked, Here) <= b
     \/ b = tab[it.tab].size
  /\ LET l    == IF b = tab[it.tab].size THEN EndOf(Walked) ELSE GetIter(Walked, b)
         done == ErasedRange(Walked, Here, l)
     IN  Change(it.tab, done.groups, - Distance(Walked, l, Here)) /\ Moves(it.tab, "full", done.it)

(* The destructive iterator of a rehash starts at the first full bucket.   *)
BeginDestructive(t) ==
  LET h == tab[t]
      i == BeginOf(h.groups)
      g == LeftBehind(h.groups, i)
  IN  /\ Alone(t) /\ h.intact
      /\ tab' = [tab EXCEPT ![t] = [Regrouped(h, g) EXCEPT !.intact = FALSE]]
      /\ spaces' = Rearranged(spaces, h, h.groups, g)
      /\ Moves(t, "destructive", i)

StepDestructive ==
  /\ it.kind = "destructive" /\ ~ AtEnd
  /\ LET i == Incremented(Walked, Here)
     IN  Change(it.tab, LeftBehind(Walked, i), 0) /\ Moves(it.tab, "destructive", i)

-----------------------------------------------------------------------------
(* Files.  A file has a magic number, the size, the count, a bitmap for    *)
(* each group and then the values in the order of their buckets.           *)

FileLength(h) == 3 + Len(h.groups) + Cardinality(FullBuckets(h.groups))

(* A group of which the bitmap has been read: room for its values.         *)
Allotted(g) == [p \in Positions |-> IF p \in Occupied(g) THEN Raw ELSE Empty]

(* A table that has been given size and count is resized; then n bitmaps   *)
(* of the file of u are read, the next group being cleared in vain.        *)
WithBitmaps(old, u, n) ==
  LET had == ResizedGroups(old, u.size)
  IN  [r \in 1 .. Len(had) |-> IF r <= n THEN Allotted(u.groups[r])
                               ELSE IF r = n + 1 THEN VacantGroup ELSE had[r]]

NumBelow(groups, b) == Cardinality({c \in FullBuckets(groups) : c < b})

(* The values of u in the order its iterator meets them.                   *)
FileValue(u, k) ==
  CellAt(u.groups, CHOOSE b \in FullBuckets(u.groups) : NumBelow(u.groups, b) = k)

(* The first n values of the file of u go where t's iterator finds room.   *)
WithValues(groups, u, n) ==
  [r \in DOMAIN groups |-> [p \in Positions |->
     LET k == NumBelow(groups, (r - 1) * GroupSize + p)
     IN  IF p \in Occupied(groups[r]) /\ k < n THEN FileValue(u, k) ELSE groups[r][p]]]

(* Mutant: what the serializer of the values returns is ignored.           *)
LoadedUnchecked(h, u, n) ==
  LET metadata == WithBitmaps(h.groups, u, n - 3)
  IN  IF n <= 2 \/ n < 3 + Len(u.groups) THEN [h EXCEPT !.intact = FALSE]
      ELSE [h EXCEPT !.groups = WithValues(metadata, u, n - 3 - Len(u.groups)),
                     !.size = u.size, !.num = u.num, !.intact = TRUE]

(* read_metadata and the values, from a file of u of which n items can be  *)
(* read: a failure leaves what was done.                                   *)
Loaded(h, u, n) ==
  LET metadata == WithBitmaps(h.groups, u, n - 3)
      whole    == n = FileLength(u)
  IN  IF n <= 1 THEN [h EXCEPT !.intact = FALSE]
      ELSE IF n = 2 THEN [h EXCEPT !.size = u.size, !.intact = FALSE]
      ELSE [h EXCEPT !.groups = IF n < 3 + Len(u.groups) THEN metadata
                                ELSE WithValues(metadata, u, n - 3 - Len(u.groups)),
                     !.size = u.size, !.num = u.num, !.intact = whole]

(* t is read from a file written from u, of which n items are left: by     *)
(* unserialize, which clears t first, or by the deprecated read_metadata   *)
(* and read_nopointer_data, which do not.                                  *)
Read(t, u, n, clearing) ==
  LET h == tab[t]
      g == Loaded(IF clearing THEN Cleared(h) ELSE h, tab[u], n)
  IN  /\ t # u /\ tab[u].intact /\ n <= FileLength(tab[u])
      /\ tab' = [tab EXCEPT ![t] = g]
      /\ spaces' = Rearranged(spaces, h, h.groups, g.groups)
      /\ DropIterator

(* The file has another magic number.                                      *)
ReadForeign(t) == Clear(t)

-----------------------------------------------------------------------------

(* Bound: a table that is not intact is discarded or read again before     *)
(* anything is done to another one.                                        *)
Usable == {t \in Tables : \A u \in Tables \ {t} : tab[u].intact}

Next ==
  \/ \E t \in Usable :
       \/ \E n \in Sizes : Construct(t, n) \/ Renew(t, n) \/ Resize(t, n)
       \/ \E u \in Tables : CopyConstruct(t, u) \/ CopyAssign(t, u) \/ MoveConstruct(t, u)
                            \/ MoveAssign(t, u) \/ Swap(t, u)
       \/ Clear(t) \/ ReadForeign(t) \/ Begin(t) \/ BeginDestructive(t)
       \/ \E b \in 0 .. tab[t].size - 1 :
            \/ \E v \in Storable[b] : Set(t, b, v)
            \/ \E j \in b + 1 .. tab[t].size : Erase(t, b, j)
            \/ SetFails(t, b) \/ Find(t, b)
       \/ \E u \in Tables, clearing \in BOOLEAN :
            \E n \in 0 .. FileLength(tab[u]) : Read(t, u, n, clearing)
  \/ StepForward \/ StepBack \/ EraseHere \/ StepDestructive
  \/ Live /\ \E b \in 0 .. tab[it.tab].size : EraseUpTo(b)

Spec == Init /\ [][Next]_vars

-----------------------------------------------------------------------------
(* Properties.                                                             *)

Cell == Values \cup {Raw, Empty, Erased}

TableType ==
  [groups : Seq([Positions -> Cell]), size : Sizes \cup {0}, num : Nat,
   alloc : Spaces, galloc : Spaces, intact : BOOLEAN]

(* Every table has a cell for each bucket of its groups and two existing   *)
(* allocators.                                                             *)
TypeOK ==
  /\ tab \in [Tables -> TableType]
  /\ spaces \in [Spaces -> [count : Nat, arrays : Nat]]

Intact == {t \in Tables : tab[t].intact}

(* num_nonempty() is the number of full buckets, there are as many groups  *)
(* as size() needs and no bucket behind size() is full, whatever was set,  *)
(* erased, resized, copied, moved or read.                                 *)
NumExact ==
  \A t \in Intact :
    /\ Len(tab[t].groups) = NumGroups(tab[t].size)
    /\ tab[t].num = Cardinality(FullBuckets(tab[t].groups))
    /\ \A b \in FullBuckets(tab[t].groups) : b < tab[t].size /\ CellAt(tab[t].groups, b) # Raw

(* The two allocators of each of the tables T, with the spaces they point  *)
(* to, and the arrays that these tables hold, with the spaces they came    *)
(* from: array 0 is that of the groups, array r has the values of group r. *)
PointersOf(T) ==
  UNION {{<<t, "values", T[t].alloc>>, <<t, "groups", T[t].galloc>>} : t \in DOMAIN T}

ValuesOf(t, g, a) == {<<t, r, a>> : r \in Filled(g)}
GroupsOf(t, g, a) == {<<t, 0, a>> : r \in DOMAIN g}

HoldingsOf(T) ==
  UNION {ValuesOf(t, T[t].groups, T[t].alloc) \cup GroupsOf(t, T[t].groups, T[t].galloc) : t \in DOMAIN T}

(* A space is kept as long as an allocator of a table points to it, and    *)
(* what was allocated from it and not given back are the arrays of those   *)
(* tables: none leaks, none is given to another space, none outlives it.   *)
SpacesOwned ==
  \A s \in Spaces :
    /\ spaces[s].count  = Cardinality({p \in PointersOf(tab) : p[3] = s})
    /\ spaces[s].arrays = Cardinality({a \in HoldingsOf(tab) : a[3] = s})

(* An iterator is at the end or at the value of a full bucket, the one     *)
(* get_pos gives and get_iter leads back from.                             *)
IteratorValid ==
  Live /\ ~ AtEnd =>
    LET b == GetPos(Walked, Here)
    IN  b \in FullBuckets(Walked) /\ GetIter(Walked, b) = Here

(* No step of an iterator misses a full bucket or meets one twice: not     *)
(* over empty groups, not when the bucket it points to or a whole range is *)
(* erased, and not when the groups it leaves are freed.                    *)
MissesNone ==
  LET from == Place(Walked, Here)
      to   == Place(Walked', Here')
      Between(f, l) == {b \in FullBuckets(Walked) : f < b /\ b < l}
  IN  /\ StepForward \/ EraseHere \/ StepDestructive => from < to /\ Between(from, to) = {}
      /\ StepBack => to < from /\ Between(to, from) = {}
      /\ \A b \in 0 .. tab[it.tab].size :
           EraseUpTo(b) =>
             /\ to = IF b = tab[it.tab].size THEN Len(Walked) * GroupSize ELSE b
             /\ FullBuckets(Walked') = {c \in FullBuckets(Walked) : c < from \/ to <= c}

SweepsInOrder == [][it.kind # "none" /\ it'.kind # "none" => MissesNone]_vars

(* The buckets are those of BucketArrays; iterating changes none.          *)
Arrays ==
  [t \in Tables |->
     IF tab[t].intact THEN [b \in 0 .. tab[t].size - 1 |-> CellAt(tab[t].groups, b)] ELSE Lost]

Abstract == INSTANCE BucketArrays WITH arrays <- Arrays, Fallible <- StorageFails

ImplementsArrays == Abstract!Spec
=============================================================================
