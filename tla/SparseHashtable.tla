--------------------------- MODULE SparseHashtable ---------------------------
(***************************************************************************)
(* The open-addressing hash table behind sparse_hash_set and               *)
(* sparse_hash_map: class sparse_hashtable of sparsepp/spp.h, with the     *)
(* sizing policy of sh_hashtable_settings it inherits from.                *)
(*                                                                         *)
(* A table is an array of buckets.  A bucket is Empty, Erased (an element  *)
(* was removed from it and probes must walk past it) or holds an element.  *)
(* The layers below, sparsetable and sparsegroup, store such an array in   *)
(* little memory; here it is a function from bucket numbers.               *)
(*                                                                         *)
(* One thread runs.  A call that may resize is a sequence of steps, so     *)
(* that an exception (std::bad_alloc from the storage of a group) can      *)
(* strike at each of them:                                                 *)
(*    idle -> shrink -> (rehash) -> delta -> (rehash) -> place -> idle     *)
(***************************************************************************)
EXTENDS Integers, FiniteSets, Sequences

CONSTANTS
  Tables,            \* the sparse_hashtable objects of the program
  Elements,          \* value_type
  Keys,              \* key_type, up to key_equal
  KeyOf,             \* ExtractKey, [Elements -> Keys]
  Hash,              \* the hasher, [Keys -> Nat]
  DefaultOf,         \* DefaultValue of find_or_insert, [Keys -> Elements]
  Empty, Erased,     \* the two states of a bucket that holds no element
  MinBuckets,        \* HT_MIN_BUCKETS
  DefaultBuckets,    \* HT_DEFAULT_STARTING_BUCKETS
  BucketCounts,      \* the bucket counts a table may have; growing past the
                     \* largest one is the "resize overflow" exception
  GroupSize,         \* SPP_GROUP_SIZE
  DefaultFactors,    \* shrink and grow factors of a new table, in percent
  Factors,           \* the factors the program may ask for
  Requests,          \* the element counts passed to constructors and resize
  Inserts,           \* the sequences of elements passed to one insert call
  StorageFails,      \* TRUE if a group may fail to get a larger array
  ShrinkFails,       \* TRUE if a group may fail to get a smaller array, as
                     \* groups of elements that cannot be reallocated may
  AssignOntoEmptied, \* TRUE if a table that was emptied by erase may be the
                     \* target of a copy assignment from a mark-free table
  SerializeMarked    \* TRUE if a table with erased buckets may be written to
                     \* a file that is read again

Percent == 0 .. 100

ILLEGAL_BUCKET == -1

ASSUME TablesAssumption == Tables # {}

ASSUME MarkersAssumption ==
  Empty \notin Elements /\ Erased \notin Elements /\ Empty # Erased

ASSUME ElementsAssumption ==
  /\ KeyOf \in [Elements -> Keys]
  /\ Hash \in [Keys -> Nat]
  /\ DefaultOf \in [Keys -> Elements]
  /\ \A k \in Keys : KeyOf[DefaultOf[k]] = k
  /\ Inserts \subseteq Seq(Elements)

ASSUME SizesAssumption ==
  /\ BucketCounts \subseteq Nat \ {0}
  /\ MinBuckets \in BucketCounts
  /\ \A sz \in BucketCounts \ {MinBuckets} : \E half \in BucketCounts : sz = 2 * half
  /\ DefaultBuckets \in BucketCounts
  /\ GroupSize \in Nat \ {0}
  /\ Requests \subseteq Nat

ASSUME FactorsAssumption ==
  /\ DefaultFactors \in [shrink : Percent, grow : Percent]
  /\ Factors \subseteq [shrink : Percent, grow : Percent]

(* The n-th bucket probed for a hash value in a table of sz buckets: each  *)
(* jump is one longer than the one before (JUMP_), so the offsets are the  *)
(* triangular numbers.                                                     *)
Probe(h, n, sz) == (h + (n * (n + 1)) \div 2) % sz

(* Bucket counts are powers of two because the first sz probes then visit  *)
(* every bucket.                                                           *)
ASSUME ProbingAssumption ==
  \A sz \in BucketCounts, k \in Keys :
     \A b \in 0 .. sz - 1 : \E n \in 0 .. sz - 1 : Probe(Hash[k], n, sz) = b

VARIABLES
  tab,    \* tab[t]: the table object t
  tmp,    \* the table being filled while one is rehashed or copied
  call,   \* the call in progress: arguments and local variables
  pc      \* the point the call in progress has reached

vars == <<tab, tmp, call, pc>>

-----------------------------------------------------------------------------
(* Sizes and thresholds: sh_hashtable_settings.                            *)

(* enlarge_size and shrink_size: bucket count times factor, truncated.     *)
Scaled(sz, pct) == (sz * pct) \div 100

ResetThresholds(h) ==
  [h EXCEPT !.enlargeAt = Scaled(h.size, h.grow),
            !.shrinkAt  = Scaled(h.size, h.shrink),
            !.consider  = FALSE]

(* The sizes that leave room for n elements and have at least wanted       *)
(* buckets; min_buckets returns the smallest.                              *)
Roomy(n, wanted, grow) == {s \in BucketCounts : wanted <= s /\ n < Scaled(s, grow)}

IsMinBuckets(sz, n, wanted, grow) ==
  /\ sz \in Roomy(n, wanted, grow)
  /\ \A s \in Roomy(n, wanted, grow) : sz <= s

(* The clipping in set_resizing_parameters keeps shrink at half of grow.   *)
Clipped(f) == IF 2 * f.shrink > f.grow THEN f.grow \div 2 ELSE f.shrink

-----------------------------------------------------------------------------
(* Tables.                                                                 *)

Cell == Elements \cup {Empty, Erased}

Buckets(h) == 0 .. h.size - 1
Full(h)    == {b \in Buckets(h) : h.cells[b] \in Elements}
Marks(h)   == {b \in Buckets(h) : h.cells[b] = Erased}
Stored(h)  == {h.cells[b] : b \in Full(h)}

(* A table with sz buckets and nothing in it.                              *)
Fresh(sz, shrink, grow) ==
  [size |-> sz, cells |-> [b \in 0 .. sz - 1 |-> Empty],
   items |-> 0, deleted |-> 0, shrink |-> shrink, grow |-> grow,
   enlargeAt |-> Scaled(sz, grow), shrinkAt |-> Scaled(sz, shrink),
   consider |-> FALSE]

At(h, k, n) == Probe(Hash[k], n, h.size)

(* The probe for k ends at an empty bucket or at the element with key k.   *)
Stops(h, k, n) ==
  LET c == h.cells[At(h, k, n)]
  IN  c = Empty \/ (c \in Elements /\ KeyOf[c] = k)

LastProbe(h, k, n) ==
  /\ n \in Buckets(h) /\ Stops(h, k, n)
  /\ \A m \in 0 .. n - 1 : ~ Stops(h, k, m)

(* find: the probe for k ends at an element.                               *)
FoundAt(h, k, b) ==
  \E n \in Buckets(h) : b = At(h, k, n) /\ h.cells[b] # Empty /\ LastProbe(h, k, n)

(* Mutant: stops at the first mark, without looking for k behind it.       *)
VacantAtFirstGap(h, k, b) ==
  \E n \in Buckets(h) :
    /\ b = At(h, k, n) /\ h.cells[b] \notin Elements
    /\ \A m \in 0 .. n - 1 :
         h.cells[At(h, k, m)] \in Elements /\ KeyOf[h.cells[At(h, k, m)]] # k

(* _find_position when k is absent: the first erased bucket of the probe,  *)
(* or the empty bucket that ended it.                                      *)
VacantAt(h, k, b) ==
  \E m \in Buckets(h) :
    /\ b = At(h, k, m) /\ h.cells[b] \in {Empty, Erased}
    /\ \A i \in 0 .. m - 1 : h.cells[At(h, k, i)] # Erased
    /\ \E n \in m .. h.size - 1 : LastProbe(h, k, n) /\ h.cells[At(h, k, n)] = Empty

(* Rehashing looks for the first bucket that holds no element: table.test. *)
FreeAt(h, k, b) ==
  \E n \in Buckets(h) :
    /\ b = At(h, k, n) /\ h.cells[b] \notin Elements
    /\ \A m \in 0 .. n - 1 : h.cells[At(h, k, m)] \in Elements

(* Mutant: --num_deleted is missing.                                       *)
InsertAtStillDeleted(h, b, e) ==
  [h EXCEPT !.cells = [@ EXCEPT ![b] = e], !.items = @ + 1]

(* _insert_at: a reused mark is no longer counted.                         *)
InsertAt(h, b, e) ==
  [h EXCEPT !.cells = [@ EXCEPT ![b] = e],
            !.items = @ + 1,
            !.deleted = IF h.cells[b] = Erased THEN @ - 1 ELSE @]

(* sparsetable::set or move, in a rehash: num_deleted is not looked at.    *)
PutAt(h, b, e) == [h EXCEPT !.cells = [@ EXCEPT ![b] = e], !.items = @ + 1]

(* Mutant: the count drops but the mark stays.                             *)
ForgetCountOnly(h, b) ==
  IF h.cells[b] = Erased THEN [h EXCEPT !.deleted = @ - 1] ELSE h

(* sparsegroup::set forgets the mark before it allocates; if that throws,  *)
(* the bucket is left empty.                                               *)
ForgetMark(h, b) ==
  IF h.cells[b] = Erased
  THEN [h EXCEPT !.cells = [@ EXCEPT ![b] = Empty], !.deleted = @ - 1]
  ELSE h

(* Mutant: the buckets are left empty, cutting probe chains.               *)
EraseAllUnmarked(h, S) ==
  [h EXCEPT !.cells = [b \in Buckets(h) |-> IF b \in S THEN Empty ELSE @[b]],
            !.items = @ - Cardinality(S),
            !.consider = TRUE]

(* Mutant: num_deleted is not incremented.                                 *)
EraseAllUncounted(h, S) ==
  [h EXCEPT !.cells = [b \in Buckets(h) |-> IF b \in S THEN Erased ELSE @[b]],
            !.items = @ - Cardinality(S),
            !.consider = TRUE]

(* Mutant: the group and the table both count the erasure.                 *)
EraseAllTwiceCounted(h, S) ==
  [h EXCEPT !.cells = [b \in Buckets(h) |-> IF b \in S THEN Erased ELSE @[b]],
            !.items = @ - 2 * Cardinality(S),
            !.deleted = @ + Cardinality(S),
            !.consider = TRUE]

(* Removing the elements of the full buckets S: each leaves a mark.        *)
EraseAll(h, S) ==
  [h EXCEPT !.cells = [b \in Buckets(h) |-> IF b \in S THEN Erased ELSE @[b]],
            !.items = @ - Cardinality(S),
            !.deleted = @ + Cardinality(S),
            !.consider = TRUE]

-----------------------------------------------------------------------------
(* Calls.                                                                  *)

AnyTable == CHOOSE t \in Tables : TRUE

(* What call is while none is in progress.                                 *)
NoCall ==
  [tab |-> AnyTable, src |-> AnyTable, kind |-> "none", todo |-> <<>>,
   delta |-> 0, spot |-> ILLEGAL_BUCKET, cursor |-> 0, next |-> "idle"]

NoTmp == Fresh(MinBuckets, 0, 0)

(* A table as its constructor makes it: expected_max_items 0 asks for the  *)
(* default bucket count.                                                   *)
InitialSizes ==
  {DefaultBuckets} \cup
  {sz \in BucketCounts :
     \E n \in Requests \ {0} : IsMinBuckets(sz, n, 0, DefaultFactors.grow)}

Init ==
  /\ tab \in [Tables -> {Fresh(sz, DefaultFactors.shrink, DefaultFactors.grow) :
                          sz \in InitialSizes}]
  /\ tmp = NoTmp
  /\ call = NoCall
  /\ pc = "idle"

(* The state after a call has returned, normally or by an exception.       *)
Returned == pc' = "idle" /\ call' = NoCall /\ tmp' = NoTmp

(* A call that is one step: it leaves the program idle.                    *)
Atomic == pc = "idle" /\ UNCHANGED <<tmp, call, pc>>

(* Where a call that may shrink and then grow a table begins.              *)
Begin(t, todo, delta, spot, next) ==
  /\ pc = "idle"
  /\ call' = [NoCall EXCEPT !.tab = t, !.todo = todo, !.delta = delta,
                            !.spot = spot, !.next = next]
  /\ UNCHANGED <<tab, tmp>>

(* insert, emplace and the forward-iterator form of insert(f, l).          *)
Insert(t, todo) ==
  /\ Begin(t, todo, Len(todo), ILLEGAL_BUCKET, "delta")
  /\ pc' = IF tab[t].consider THEN "shrink" ELSE "delta"

(* find_or_insert, when k is absent: the bucket found is remembered across *)
(* _resize_delta.  When k is present it changes nothing.                   *)
FindOrInsert(t, k) ==
  /\ pc = "idle"
  /\ \E b \in Buckets(tab[t]) :
       /\ VacantAt(tab[t], k, b)
       /\ Begin(t, <<DefaultOf[k]>>, 1, b, "delta")
       /\ pc' = IF tab[t].consider THEN "shrink" ELSE "delta"

(* resize(n), which reserve and rehash of the containers call.             *)
Resize(t, n) ==
  LET h     == tab[t]
      grows == n > h.items
  IN  /\ Begin(t, <<>>, IF grows THEN n - h.items ELSE 0, ILLEGAL_BUCKET,
               IF grows THEN "delta" ELSE "idle")
      /\ \/ (h.consider \/ n = 0) /\ pc' = "shrink"
         \/ ~ (h.consider \/ n = 0) /\ grows /\ pc' = "delta"

(* Mutant: the bucket found in the old table is used in the new one.       *)
StartRehashSameSpot(sz, next) ==
  /\ tmp' = Fresh(sz, tab[call.tab].shrink, tab[call.tab].grow)
  /\ call' = [call EXCEPT !.src = call.tab, !.kind = "move", !.cursor = 0,
                          !.next = next]
  /\ pc' = "rehash"
  /\ UNCHANGED tab

(* Mutant: the new table starts with the old num_deleted.                  *)
StartRehashStillDeleted(sz, next) ==
  /\ tmp' = [Fresh(sz, tab[call.tab].shrink, tab[call.tab].grow)
               EXCEPT !.deleted = tab[call.tab].deleted]
  /\ call' = [call EXCEPT !.src = call.tab, !.kind = "move", !.cursor = 0,
                          !.spot = ILLEGAL_BUCKET, !.next = next]
  /\ pc' = "rehash"
  /\ UNCHANGED tab

(* Construction of the temporary table with sz buckets; what was found in  *)
(* the old table is of no use any more.                                    *)
StartRehash(sz, next) ==
  /\ tmp' = Fresh(sz, tab[call.tab].shrink, tab[call.tab].grow)
  /\ call' = [call EXCEPT !.src = call.tab, !.kind = "move", !.cursor = 0,
                          !.spot = ILLEGAL_BUCKET, !.next = next]
  /\ pc' = "rehash"
  /\ UNCHANGED tab

ShouldShrink(h) ==
  /\ h.shrinkAt > 0 /\ h.items < h.shrinkAt
  /\ h.size > DefaultBuckets

(* Mutant: halves down to the smallest legal size.                         *)
ShrinkTargetTooSmall(h, sz) ==
  LET Ok(s) == /\ 2 * s <= h.size
               /\ s <= MinBuckets \/ h.items >= Scaled(s, h.shrink)
  IN  /\ sz \in BucketCounts /\ Ok(sz)
      /\ \A s \in BucketCounts : Ok(s) => s <= sz

(* The loop that halves the bucket count, never below DefaultBuckets.      *)
ShrinkTarget(h, sz) ==
  LET Ok(s) == /\ 2 * s <= h.size
               /\ s <= DefaultBuckets \/ h.items >= Scaled(s, h.shrink)
  IN  /\ sz \in BucketCounts /\ Ok(sz)
      /\ \A s \in BucketCounts : Ok(s) => s <= sz

(* _maybe_shrink; _move_from asks min_buckets again whether sz suffices.   *)
ShrinkTable ==
  /\ pc = "shrink"
  /\ LET h == tab[call.tab]
     IN  /\ ShouldShrink(h)
         /\ \E sz, to \in BucketCounts :
              /\ ShrinkTarget(h, sz) /\ IsMinBuckets(to, h.items, sz, h.grow)
              /\ StartRehash(to, call.next)

SkipShrink ==
  /\ pc = "shrink"
  /\ ~ ShouldShrink(tab[call.tab])
  /\ tab' = [tab EXCEPT ![call.tab].consider = FALSE]
  /\ IF call.next = "idle" THEN Returned
                           ELSE pc' = call.next /\ UNCHANGED <<tmp, call>>

(* _resize_delta: erased buckets count as occupied.                        *)
Occupied(h) == h.items + h.deleted

(* Mutant: asks for room for one element whatever the range.               *)
EnoughForOne(h, delta) ==
  LET n == Occupied(h) + 1
  IN  n <= h.enlargeAt \/ \E needed \in Roomy(n, 0, h.grow) : needed <= h.size

(* The two early returns, the second for needed_size <= bucket_count().    *)
Enough(h, delta) ==
  LET n == Occupied(h) + delta
  IN  n <= h.enlargeAt \/ \E needed \in Roomy(n, 0, h.grow) : needed <= h.size

(* Whether the call has elements left to place.                            *)
AfterDelta == IF call.todo = <<>> THEN Returned
                                  ELSE pc' = "place" /\ UNCHANGED <<tmp, call>>

SkipGrow ==
  /\ pc = "delta"
  /\ Enough(tab[call.tab], call.delta)
  /\ AfterDelta /\ UNCHANGED tab

(* The bucket count _resize_delta decides on.                              *)
GrowTarget(h, delta, sz) ==
  LET n == Occupied(h) + delta
  IN  \E needed, to \in BucketCounts :
        /\ IsMinBuckets(needed, n, 0, h.grow) /\ IsMinBuckets(to, n, h.size, h.grow)
        /\ sz = IF to < needed /\ h.items + delta >= Scaled(2 * to, h.shrink)
                THEN 2 * to ELSE to

GrowTable ==
  /\ pc = "delta"
  /\ LET h == tab[call.tab]
     IN  /\ ~ Enough(h, call.delta)
         /\ \E sz, to \in BucketCounts :
              /\ GrowTarget(h, call.delta, sz) /\ IsMinBuckets(to, h.items, sz, h.grow)
              /\ StartRehash(to, IF call.todo = <<>> THEN "idle" ELSE "place")

(* No bucket count fits: min_buckets throws length_error.                  *)
ResizeOverflow ==
  /\ LET h == tab[call.tab]
     IN  \/ pc = "shrink" /\ ShouldShrink(h) /\ Roomy(h.items, 0, h.grow) = {}
         \/ /\ pc = "delta" /\ ~ Enough(h, call.delta)
            /\ Roomy(Occupied(h) + call.delta, 0, h.grow) = {}
  /\ Returned /\ UNCHANGED tab

-----------------------------------------------------------------------------
(* _move_from and _copy_from: the elements of call.src go to tmp, in       *)
(* bucket order.                                                           *)

IsNextFull(h, c, b) ==
  /\ b \in Full(h) /\ c <= b
  /\ \A a \in Full(h) : c <= a => b <= a

(* Mutant: the iterator over the old table is not advanced.                *)
RehashOneStuck ==
  /\ pc = "rehash"
  /\ LET h == tab[call.src]
     IN  \E b \in Buckets(h), d \in Buckets(tmp) :
           /\ IsNextFull(h, call.cursor, b)
           /\ FreeAt(tmp, KeyOf[h.cells[b]], d)
           /\ tmp' = PutAt(tmp, d, h.cells[b])
           /\ UNCHANGED call
  /\ UNCHANGED <<tab, pc>>

(* Mutant: after one value the iterator goes on to the next group.         *)
RehashOneSkipping ==
  /\ pc = "rehash"
  /\ LET h == tab[call.src]
     IN  \E b \in Buckets(h), d \in Buckets(tmp) :
           /\ IsNextFull(h, call.cursor, b)
           /\ FreeAt(tmp, KeyOf[h.cells[b]], d)
           /\ tmp' = PutAt(tmp, d, h.cells[b])
           /\ call' = [call EXCEPT !.cursor = (b \div GroupSize + 1) * GroupSize]
  /\ UNCHANGED <<tab, pc>>

RehashOne ==
  /\ pc = "rehash"
  /\ LET h == tab[call.src]
     IN  \E b \in Buckets(h), d \in Buckets(tmp) :
           /\ IsNextFull(h, call.cursor, b)
           /\ FreeAt(tmp, KeyOf[h.cells[b]], d)
           /\ tmp' = PutAt(tmp, d, h.cells[b])
           /\ call' = [call EXCEPT !.cursor = b + 1]
  /\ UNCHANGED <<tab, pc>>

(* Mutant: swap(tmp) leaves the thresholds of the old table in force.      *)
RehashDoneOldThresholds ==
  /\ pc = "rehash"
  /\ \A b \in Full(tab[call.src]) : b < call.cursor
  /\ tab' = [tab EXCEPT ![call.tab] =
               [tmp EXCEPT !.enlargeAt = tab[call.tab].enlargeAt]]
  /\ IF call.next = "idle" THEN Returned
                           ELSE pc' = call.next /\ tmp' = NoTmp /\ UNCHANGED call

(* The temporary table takes the place of the old one: swap(tmp).          *)
RehashDone ==
  /\ pc = "rehash"
  /\ \A b \in Full(tab[call.src]) : b < call.cursor
  /\ tab' = [tab EXCEPT ![call.tab] = ResetThresholds(tmp)]
  /\ IF call.next = "idle" THEN Returned
                           ELSE pc' = call.next /\ tmp' = NoTmp /\ UNCHANGED call

(* The destructive iterator frees a group once it has left it.             *)
FreedUpTo(h, b) ==
  [h EXCEPT !.cells = [c \in Buckets(h) |->
     IF c \div GroupSize < b \div GroupSize THEN Empty ELSE @[c]]]

(* bad_alloc while an element is moved or copied.  A move has destroyed    *)
(* the groups it has emptied, a copy assignment was filling its target in  *)
(* place, a copy construction yields no object.                            *)
RehashFails ==
  /\ StorageFails /\ pc = "rehash"
  /\ LET h == tab[call.src]
     IN  \E b \in Buckets(h) :
           /\ IsNextFull(h, call.cursor, b)
           /\ tab' = CASE call.kind = "move" -> [tab EXCEPT ![call.tab] = FreedUpTo(h, b)]
                       [] call.kind = "assign" -> [tab EXCEPT ![call.tab] = tmp]
                       [] OTHER -> tab
  /\ Returned

-----------------------------------------------------------------------------
(* _insert_noresize, or _insert_at with the bucket find_or_insert found.   *)

(* Mutant: the range iterator is not advanced.                             *)
PlacedAgain ==
  IF Len(call.todo) = 1
  THEN Returned
  ELSE /\ call' = [call EXCEPT !.spot = ILLEGAL_BUCKET]
       /\ UNCHANGED <<tmp, pc>>

(* The call goes on with the rest of todo, or returns.                     *)
Placed ==
  IF Len(call.todo) = 1
  THEN Returned
  ELSE /\ call' = [call EXCEPT !.todo = Tail(@), !.spot = ILLEGAL_BUCKET]
       /\ UNCHANGED <<tmp, pc>>

(* The bucket the next element goes to.                                    *)
PlaceAt(h, b) ==
  IF call.spot = ILLEGAL_BUCKET THEN VacantAt(h, KeyOf[Head(call.todo)], b)
                                ELSE b = call.spot

PlaceNew ==
  /\ pc = "place"
  /\ LET h == tab[call.tab]
     IN  \E b \in Buckets(h) :
           /\ PlaceAt(h, b)
           /\ h.cells[b] = Erased => h.deleted > 0
           /\ \/ /\ tab' = [tab EXCEPT ![call.tab] = InsertAt(h, b, Head(call.todo))]
                 /\ Placed
              \/ /\ StorageFails
                 /\ tab' = [tab EXCEPT ![call.tab] = ForgetMark(h, b)] /\ Returned

(* The assertion in _insert_at that there is a mark to reuse.              *)
AssertionFails ==
  /\ pc = "place"
  /\ LET h == tab[call.tab]
     IN  \E b \in Buckets(h) : PlaceAt(h, b) /\ h.cells[b] = Erased /\ h.deleted = 0
  /\ pc' = "aborted"
  /\ UNCHANGED <<tab, tmp, call>>

PlaceOld ==
  /\ pc = "place" /\ call.spot = ILLEGAL_BUCKET
  /\ \E b \in Buckets(tab[call.tab]) :
       FoundAt(tab[call.tab], KeyOf[Head(call.todo)], b)
  /\ Placed /\ UNCHANGED tab

-----------------------------------------------------------------------------
(* Calls that are one step.                                                *)

EraseKey(t, k) ==
  /\ Atomic
  /\ \E b \in Buckets(tab[t]) :
       FoundAt(tab[t], k, b) /\ tab' = [tab EXCEPT ![t] = EraseAll(@, {b})]

(* erase(it) and erase(f, l): from full bucket b, l being the end when it  *)
(* is h.size.                                                              *)
EraseRange(t, b, l) ==
  LET h == tab[t]
  IN  /\ Atomic
      /\ b \in Full(h) /\ l \in Full(h) \cup {h.size} /\ b <= l
      /\ tab' = [tab EXCEPT ![t] = EraseAll(h, {c \in Full(h) : b <= c /\ c < l})]

(* Mutant: size() is only updated after the last erasure, too.             *)
EraseRangeFailsUncounted(t, b, l) ==
  LET h == tab[t]
      S == {c \in Full(h) : b <= c /\ c < l}
  IN  /\ ShrinkFails /\ Atomic
      /\ b \in Full(h) /\ l \in Full(h) \cup {h.size}
      /\ \E m \in S : tab' = [tab EXCEPT ![t] =
           [h EXCEPT !.cells = EraseAll(h, {c \in S : c < m}).cells]]

(* bad_alloc from one of the erasures of erase(f, l): num_deleted is only  *)
(* updated after the last.  A single erase that fails changes nothing.     *)
EraseRangeFails(t, b, l) ==
  LET h == tab[t]
      S == {c \in Full(h) : b <= c /\ c < l}
  IN  /\ ShrinkFails /\ Atomic
      /\ b \in Full(h) /\ l \in Full(h) \cup {h.size}
      /\ \E m \in S : tab' = [tab EXCEPT ![t] =
           [EraseAll(h, {c \in S : c < m}) EXCEPT !.deleted = h.deleted,
                                                  !.consider = h.consider]]

(* Writing the mapped value through a reference: m[k] = v, it->second = v. *)
AssignMapped(t, e) ==
  /\ Atomic
  /\ \E b \in Buckets(tab[t]) :
       /\ FoundAt(tab[t], KeyOf[e], b)
       /\ tab' = [tab EXCEPT ![t].cells = [@ EXCEPT ![b] = e]]

(* clear() keeps the array of a table it knows to be unused.               *)
Cleared(h) ==
  IF h.items # 0 \/ h.deleted # 0
  THEN Fresh(DefaultBuckets, h.shrink, h.grow)
  ELSE ResetThresholds(h)

Clear(t) == Atomic /\ tab' = [tab EXCEPT ![t] = Cleared(@)]

(* set_resizing_parameters, and the load factor setters built on it.       *)
SetResizingParameters(t, f) ==
  /\ Atomic
  /\ tab' = [tab EXCEPT ![t] =
               ResetThresholds([@ EXCEPT !.shrink = Clipped(f), !.grow = f.grow])]

(* swap, and move assignment, which is a swap.                             *)
Swap(t, u) ==
  /\ Atomic /\ t # u
  /\ tab' = [tab EXCEPT ![t] = ResetThresholds(tab[u]), ![u] = ResetThresholds(tab[t])]

(* t = T(std::move(u)): u gets the default table the new object began as.  *)
MoveConstruct(t, u) ==
  /\ Atomic /\ t # u
  /\ tab' = [tab EXCEPT ![t] = ResetThresholds(tab[u]),
                        ![u] = Fresh(DefaultBuckets, tab[u].shrink, tab[u].grow)]

-----------------------------------------------------------------------------
(* Copies: _copy_from.                                                     *)

(* table.resize to more buckets keeps what is there.                       *)
Extended(h, sz) ==
  IF sz <= h.size THEN h
  ELSE ResetThresholds([h EXCEPT !.size = sz,
         !.cells = [b \in 0 .. sz - 1 |-> IF b < h.size THEN @[b] ELSE Empty]])

StartCopy(t, u, kind, h) ==
  /\ pc = "idle" /\ t # u
  /\ tmp' = h
  /\ call' = [NoCall EXCEPT !.tab = t, !.src = u, !.kind = kind]
  /\ pc' = "rehash"
  /\ UNCHANGED tab

(* t = T(u): the copy is made beside t and then swapped with it.           *)
CopyConstruct(t, u) ==
  \E sz \in BucketCounts :
    /\ IsMinBuckets(sz, tab[u].items, DefaultBuckets, tab[u].grow)
    /\ StartCopy(t, u, "construct", Fresh(sz, tab[u].shrink, tab[u].grow))

(* operator= takes over the settings and num_deleted of u, and only then   *)
(* clears: clear() sees t's own items and u's num_deleted.                 *)
AssignBase(h, u) ==
  Cleared([h EXCEPT !.shrink = u.shrink, !.grow = u.grow, !.deleted = u.deleted])

CopyAssign(t, u) ==
  LET base == AssignBase(tab[t], tab[u])
      fits == Roomy(tab[u].items, MinBuckets, tab[u].grow)
  IN  /\ AssignOntoEmptied \/ Marks(tab[t]) = {} \/ tab[t].items # 0 \/ tab[u].deleted # 0
      /\ \/ \E sz \in BucketCounts :
              /\ IsMinBuckets(sz, tab[u].items, MinBuckets, tab[u].grow)
              /\ StartCopy(t, u, "assign", Extended(base, sz))
         \/ fits = {} /\ t # u /\ Atomic /\ tab' = [tab EXCEPT ![t] = base]

-----------------------------------------------------------------------------
(* Serialization.                                                          *)

(* What a file keeps of a table: its bucket count, its size() and for each *)
(* bucket whether it is full, with the element; not the erased marks.      *)
Written(h) == [b \in Buckets(h) |-> IF h.cells[b] \in Elements THEN h.cells[b] ELSE Empty]

(* read_metadata and unserialize: h takes the contents u was written with  *)
(* and keeps its own load factors.                                         *)
Reloaded(h, u) ==
  ResetThresholds([h EXCEPT !.size = u.size, !.cells = Written(u),
                            !.items = u.items, !.deleted = 0])

(* t is read from a file that u, or t itself, has just been written to.    *)
Reread(t, u) ==
  /\ Atomic /\ (SerializeMarked \/ Marks(tab[u]) = {})
  /\ tab' = [tab EXCEPT ![t] = Reloaded(@, tab[u])]

-----------------------------------------------------------------------------

(* What the program may call.                                              *)
Call ==
  \/ \E t \in Tables, todo \in Inserts : Insert(t, todo)
  \/ \E t \in Tables, k \in Keys : FindOrInsert(t, k) \/ EraseKey(t, k)
  \/ \E t \in Tables, n \in Requests : Resize(t, n)
  \/ \E t \in Tables : \E b \in Full(tab[t]), l \in 0 .. tab[t].size :
       EraseRange(t, b, l) \/ EraseRangeFails(t, b, l)
  \/ \E t \in Tables, e \in Elements : AssignMapped(t, e)
  \/ \E t \in Tables : Clear(t)
  \/ \E t \in Tables, f \in Factors : SetResizingParameters(t, f)
  \/ \E t, u \in Tables :
       \/ Swap(t, u) \/ MoveConstruct(t, u) \/ CopyConstruct(t, u) \/ CopyAssign(t, u)
       \/ Reread(t, u)

(* The steps a call takes before it returns.                               *)
Step ==
  \/ ShrinkTable \/ SkipShrink \/ GrowTable \/ SkipGrow \/ ResizeOverflow
  \/ RehashOne \/ RehashDone \/ RehashFails
  \/ PlaceNew \/ PlaceOld \/ AssertionFails

Next == Call \/ Step

Spec == Init /\ [][Next]_vars

(* The thread that is inside a call keeps executing it.                    *)
FairSpec == Spec /\ WF_vars(Step)

-----------------------------------------------------------------------------
(* Properties.                                                             *)

TableType(h) ==
  \E sz \in BucketCounts :
    h \in [size : {sz}, cells : [0 .. sz - 1 -> Cell], items : Nat, deleted : Nat,
           shrink : Percent, grow : Percent, enlargeAt : Nat, shrinkAt : Nat,
           consider : BOOLEAN]

CallType ==
  [tab : Tables, src : Tables, kind : {"none", "move", "construct", "assign"},
   todo : Seq(Elements), delta : Nat, spot : Nat \cup {ILLEGAL_BUCKET},
   cursor : Nat, next : {"idle", "delta", "place"}]

(* Every table is well formed, with a cell for each of its buckets and     *)
(* counters that never go below zero; so is the call in progress.          *)
TypeOK ==
  /\ tab = [t \in Tables |-> tab[t]]
  /\ \A t \in Tables : TableType(tab[t])
  /\ TableType(tmp)
  /\ call \in CallType
  /\ pc \in {"idle", "shrink", "delta", "rehash", "place", "aborted"}

(* find(k) reaches every element that is stored, whatever was inserted,    *)
(* erased or rehashed before; in particular no key is stored twice.        *)
AllReachable(h) == \A b \in Full(h) : FoundAt(h, KeyOf[h.cells[b]], b)

EveryElementFound == \A t \in Tables : AllReachable(tab[t])

(* size() is the number of full buckets and num_deleted the number of      *)
(* erased ones, which the occupancy test of _resize_delta relies on.       *)
Counted(h) == h.items = Cardinality(Full(h)) /\ h.deleted = Cardinality(Marks(h))

CountsExact == \A t \in Tables : Counted(tab[t])

(* size() is exact also after an erase(f, l) that failed half way.         *)
SizeExact == \A t \in Tables : tab[t].items = Cardinality(Full(tab[t]))

(* "assert(num_deleted);" when _insert_at reuses a mark.                   *)
AssertionHolds == pc # "aborted"

(* When storage can run out, elements and marks are lost but never gained: *)
(* the counters, and so the growth decision, err on the side of room.      *)
CountersCover ==
  \A t \in Tables : /\ tab[t].items >= Cardinality(Full(tab[t]))
                    /\ tab[t].deleted >= Cardinality(Marks(tab[t]))

(* The loops of find, erase and _find_position end before they have probed *)
(* bucket_count() buckets, for keys that are stored and keys that are not: *)
(* the assertion "Hashtable is full".                                      *)
ProbesEnd == \A t \in Tables, k \in Keys : \E n \in Buckets(tab[t]) : LastProbe(tab[t], k, n)

(* The bucket find_or_insert remembered is still where its key goes when   *)
(* _resize_delta returns without having rehashed.                          *)
SpotStillVacant ==
  pc = "place" /\ call.spot # ILLEGAL_BUCKET =>
    VacantAt(tab[call.tab], KeyOf[Head(call.todo)], call.spot)

(* Once _resize_delta returns, the elements still to be placed fit below   *)
(* the enlarge threshold, all of a range and not only its first.           *)
RoomToPlace ==
  pc = "place" => Occupied(tab[call.tab]) + Len(call.todo) <= tab[call.tab].enlargeAt

(* A rehash caused by erasures makes the table smaller but not smaller     *)
(* than the default; one caused by insertions makes it larger.  No call    *)
(* copies the table to the size it had (test ResizeActuallyResizes).       *)
RehashResizes ==
  LET size == tab[call.tab].size
  IN  /\ ShrinkTable => tmp'.size < size /\ tmp'.size >= DefaultBuckets
      /\ GrowTable => tmp'.size > size

ResizeActuallyResizes == [][RehashResizes]_vars

(* A table that has just shrunk for the insertion of one element is not    *)
(* grown again for the same element: shrink is at most half of grow,       *)
(* "otherwise we thrash hashtable size".                                   *)
NoThrashing == [][GrowTable /\ Len(call.todo) = 1 => call.kind # "move"]_vars

(* A call that has begun returns, or its assertion ends the program: no    *)
(* probe and no rehash loops forever.                                      *)
CallsReturn == []<>(pc \in {"idle", "aborted"})

(* The set of elements of each table, and what the call in progress still  *)
(* owes the program, as HashContainer has them.                            *)
Contents == [t \in Tables |-> Stored(tab[t])]

Request ==
  CASE pc = "idle" -> [op |-> "none"]
    [] pc # "idle" /\ call.kind \in {"construct", "assign"} ->
         [op |-> "copy", to |-> call.tab, from |-> call.src]
    [] OTHER ->
         [op |-> IF pc \in {"place", "aborted"} THEN "insert" ELSE "prepare",
          to |-> call.tab, todo |-> call.todo]

Abstract == INSTANCE HashContainer WITH
  contents <- Contents, request <- Request,
  Ranges <- Inserts \cup {<<>>} \cup {<<DefaultOf[k]>> : k \in Keys}

(* Every step changes the sets of elements as the call it belongs to asks. *)
(* A rehash leaves them as they are, however it moves the elements; only a *)
(* call that erases removes one; each element of a range is inserted once. *)
ImplementsContainer == Abstract!Spec
=============================================================================
