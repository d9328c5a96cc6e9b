# sparsepp in TLA+

A TLA+ description of [sparsepp](../src/README.md), the sparse hash map and
hash set for C++, with model checking by TLC and proofs by TLAPS.

The library is one header, `src/sparsepp/spp.h`, an allocator,
`src/sparsepp/spp_dlalloc.h`, and some helpers beside them. It is sequential code: no thread, lock or message appears in it. What makes it
hard is a data structure whose correctness depends on the *order* of many legal
calls: open addressing with erased marks, resizing that is postponed to the
next insertion, temporary tables that are swapped in, bitmaps with compacted
storage, an allocator with its own free lists, trees and segments, and exceptions
that may strike in the middle of each of these.

## 1. Inventory

| Component | Where | State it keeps | Operations | What makes it correct |
|---|---|---|---|---|
| `sh_hashtable_settings` | spp.h:380-500 | shrink and grow factors, the two thresholds computed from them, `consider_shrink` | `enlarge_size`, `shrink_size`, `reset_thresholds`, `set_resizing_parameters`, `min_buckets` | thresholds leave an empty bucket for probing; shrinking and growing do not undo each other |
| `sparsegroup` | spp.h:1034-1785 | `_bitmap` (which of 32 or 64 positions hold an item), `_bm_erased`, the compact array `_group`, its size `_num_buckets` and capacity | `set`, `_set_aux`, `erase`, `clear`, copy, swap, metadata I/O | position i is the popcount(bitmap below i)-th item; items are constructed and destroyed exactly once; capacity is at least the count |
| `sparsetable` | spp.h:1788-2455 | array of groups, `_table_size`, `_num_buckets` | `set`, `move`, `erase`, `erased`, `test`, `resize`, `swap`, serialization | behaves as an array of cells; `_num_buckets` is the sum over groups |
| `sparse_hashtable` | spp.h:2508-3535 | settings, key functions, `num_deleted`, the `sparsetable` | `find`, `insert`, `emplace`, `find_or_insert`, `erase`, `resize`, `clear`, `swap`, copy and move, serialization | find reaches every element; no key twice; counters exact; probes end; sizes sensible |
| `sparse_hash_map`, `sparse_hash_set` | spp.h:3540-4340 | one `sparse_hashtable` | the interface of `std::unordered_map` and `_set` | a set of elements, one per key |
| iterators | spp.h:600-1030, 2200-2420 | row and column of a table; end of the row | `++`, `--`, dereference; the destructive one frees groups it has left | visit every element once, in bucket order; survive erasure of other elements |
| serialization | spp.h:1605-1650, 2320-2420, 3405-3470 | the stream | `write_metadata`, `read_metadata`, `serialize`, `unserialize`, nopointer data | reading back what was written gives an equal table, or fails |
| hashing, popcount, traits, `libc_allocator` | spp_utils.h, spp_traits.h, spp_stdint.h | none | `spp_mix_32`, `spp_hash`, `hash_combine`, `popcount`; `allocate` and `reallocate` that throw `bad_alloc` | functions of their arguments |
| `spp_allocator` over dlmalloc | spp_dlalloc.h | a space (`malloc_state`): segments, small bins, tree bins, designated victim, top chunk, footprint; boundary tags in the memory itself | `create_mspace`, `destroy_mspace`, `mspace_malloc`, `mspace_free`, `mspace_realloc` | no word handed out twice; free neighbours coalesced; every free chunk in the bin of its size; the best fit is found; the footprint is exact although system calls fail |
| intrusive pointers | spp_smartptr.h | reference count | `spp_sptr`, `spp_rc` | deleted exactly when the last reference goes |
| memory and timing, configuration | spp_memory.h, spp_timer.h, spp_config.h | none | queries of the OS, preprocessor | |

How they interact: a container forwards every call to its `sparse_hashtable`,
which asks its settings how large to be, probes its `sparsetable` by bucket
number, and replaces the whole table by a temporary one (`swap(tmp)`) when it
resizes. The table splits a bucket number into a group and a position, and the
group asks the allocator for a larger or smaller array. All tables that were copied from
one another share an allocator's memory space through a reference count, and the
space maps and unmaps the memory of its segments. The only information
that flows upwards unasked is an exception: `length_error` from `min_buckets`,
`bad_alloc` from the allocator. Both may leave a call between any two of its
state changes; no destructor or `catch` in `spp.h` undoes what was done.

Hard behaviours, in order of importance:

1. erased marks: they keep probe chains together, count as occupied, are
   reused, and disappear when the table is rehashed or the storage fails;
2. deferred shrinking: `erase` only sets `consider_shrink`; the next insertion
   shrinks and then may grow, while `find_or_insert` holds on to a bucket number;
3. exact thresholds: `<=` in one test, `>=` in another, truncated products;
4. copies that reuse the target's array and state;
5. exceptions half way through a rehash, which *moves* elements out;
6. positions that are derived: an iterator's column, a value's offset, a group's
   capacity all follow from a bitmap and move with every insertion and erasure;
7. files that end in the middle of what is being read;
8. chunks that merge with neighbours which are in a bin, are the victim or the top;
   system calls that fail between two changes of the allocator's books.

PROJECT.json lists each hazard with its line and the properties that cover it.

## 2. Modules

| Module | Contents |
|---|---|
| `HashContainer` | the abstract specification: each table is a set of elements with one element per key, and a call of several steps is a request: preparing a table changes no set, then a range is inserted element by element, a copy is there all at once; nothing is erased while a request is being answered. It describes the library while there is memory |
| `SparseHashtable` | `sparse_hashtable` with `sh_hashtable_settings`, on an array of cells: the core of the library |
| `MCHashtable` | the constants of the TLC runs, with `MC*.cfg` |
| `SparseHashtableProofs` | the counters: what they are and what is left of them when allocations fail, proved for all constants |
| `SparseHashtableLookup` | probe chains: reachability of every element, and every step of a call is one of `HashContainer` or none; sizes: room for what is inserted, an empty bucket for every probe, rehashes that resize, no thrashing; proved for all constants |
| `CellArray` | the abstract specification of a group: an array of cells, each empty, erased or holding a value |
| `SparseGroup` | `sparsegroup`: two bitmaps, a packed array, its capacity and its recorded size, allocations that fail |
| `MCGroup` | the constants of the runs of `SparseGroup`, with `MCGroup*.cfg` |
| `SparseGroupProofs` | bitmap, count, objects and capacity of a group agree, and `SparseGroup` implements `CellArray`; proved for all constants |
| `BucketArrays` | the abstract specification of a table of groups: growable arrays of buckets |
| `GroupIterators` | pure: rows and columns, `++`, `--`, distance, erasing at an iterator, `get_iter` and `get_pos` |
| `SharedSpaces` | pure: reference counts of memory spaces (`spp_sptr`, `spp_rc`) and how many arrays each has given out |
| `SparseTable` | `sparsetable`: groups, two allocators per table, one iterator (also the destructive one), files |
| `MCTable` | the constants of the run `table` |
| `SparseTableProofs` | what the operators of `GroupIterators` compute, for groups of any size and contents; the count, the memory spaces and the iterators of a table, and that it implements `BucketArrays`; proved for all constants |
| `Heap` | the abstract specification of a memory space: blocks of words that do not overlap, with the proof that they never do |
| `BoundaryTags` | pure: chunk headers, PINUSE and CINUSE, feet |
| `ChunkBins` | pure: the bins as stacks and queues of chunks by size |
| `SizeQueues` | the abstract specification of the tree bins: the best fit, the oldest first |
| `TreeBins` | the tree bins with all their links: digital trees of circular lists |
| `TreeProofs` | the links pass the checks of the code, the searches find the best fit, and `TreeBins` implements `SizeQueues`; proved for all constants |
| `DlMalloc` | a memory space: segments, bins, victim, top chunk, the system calls |
| `MCHeap`, `MCTrees` | the constants of the runs `heap` and `trees` |
| `ChunkProofs` | the sizes `DlMalloc` computes suffice; what its functions on headers, bins, chunks and mappings leave of a space that is in order; proved for all constants |
| `MallocProofs` | the functions that change segments; the inductive invariant of `DlMalloc`, its safety properties, and that it implements `Heap`; proved for all constants |

The layers meet at what the lower one promises.

```
HashContainer   <-- SparseHashtable     tab[t].cells: an array of buckets
BucketArrays    <-- SparseTable         tab[t].groups: arrays of cells; arrays from a space
CellArray       <-- SparseGroup         arrays that grow, shrink, or throw
Heap            <-- DlMalloc            bins: queues of chunks by size
SizeQueues      <-- TreeBins
```

Each arrow is a refinement that a run checks and a theorem proves (`HashtableImplementsContainer`,
`TableImplementsArrays`, `GroupImplementsCells`, `MallocRefinesHeap`, `TreesAreQueues`).
In `HashContainer` the mapping gives two variables. `Contents` is `Stored(tab[t])` of each table; `Request`
is what the call in progress still owes, read off `pc` and `call`: nothing at `idle`, a copy while `tmp` is filled from
another table, an insertion once `_resize_delta` has returned, and until then, rehashes included, a preparation. So a
rehash that lost an element would be a step `HashContainer` does not have, and an insertion that throws
`length_error` has inserted nothing. Which elements a call of one step erases is left to it: one key, a range in bucket order and
`clear()` are all `Erase(t, S)`.

`CellArray!Forget`, `BucketArrays!Forget` and the `ForgetMark` of `SparseHashtable` are the same
fact at three levels: a failed insertion loses a mark.

### How `SparseHashtable` corresponds to the code

* `tab[t]` is a table object. `size` and `cells` are its `sparsetable` (a cell is
  `Empty`, `Erased` or an element), `items` is `num_nonempty()`, `deleted` is
  `num_deleted`, and `shrink`, `grow`, `enlargeAt`, `shrinkAt`, `consider` are
  the settings. Factors are percentages; `Scaled` truncates as the cast in
  `enlarge_size` does.
* The hash function, key extraction and `DefaultValue` are constants. `Probe`
  is quadratic probing with the jumps of `JUMP_`. Bucket counts are the powers
  of two up to a bound; needing a larger one is the "resize overflow"
  exception of `min_buckets`, which the model takes, so the bound on sizes does
  not cut behaviours off, it makes the exception happen.
* A call that may resize is a sequence of steps, `pc` saying where it is:
  `shrink` (`_maybe_shrink`), `delta` (`_resize_delta`), `rehash` (the loop of
  `_move_from` or `_copy_from`, one element per step), `place`
  (`_insert_noresize` or `_insert_at`). `call` holds its arguments and local
  variables: `todo` the elements still to be inserted, `delta` the room asked
  for, `spot` the bucket `find_or_insert` found before resizing, `cursor` the
  iterator of a rehash, `next` where to go on after it. `tmp` is the temporary
  table. Nothing else runs in between: steps are separate because an exception
  may end the call at each of them.
* The other calls (`erase`, `clear`, `swap`, setting the load
  factors, writing a mapped value) are single actions.
* With `StorageFails`, the allocation of a larger array for a group may throw:
  `PlaceNew` then takes `ForgetMark` (the mark of the bucket is already gone,
  and so is its count), and `RehashFails` leaves a source whose first groups the
  destructive iterator has freed while `_num_buckets` still counts them, a
  half-filled target of a copy assignment, or nothing for a copy construction.
* With `ShrinkFails`, the allocation of a *smaller* array may throw, which
  the code does for elements that cannot be reallocated and for allocators of the user
  (spp.h:1520). One erasure that fails changes nothing; `EraseRangeFails` is
  `erase(f, l)` stopped after some of its erasures, before it counts the marks.
* `AssertionFails` is `assert(num_deleted)` in `_insert_at`: it ends the program,
  `pc = "aborted"`. In a release build the count would wrap around instead.
* `AssignOntoEmptied` says whether the program ever assigns a mark-free
  table to one that was emptied by `erase`. The code mishandles this case (§4), so the
  runs and theorems about exact counters set it to FALSE and a run of its own
  shows what happens with TRUE.
* `Reread(t, u)` writes `u` and reads `t` back from it, also with `t = u`: `Written` is what a file
  keeps, which is not the marks, and `Reloaded` what `read_metadata` and `unserialize` make of it.
  Files that cannot be read to the end are in `SparseTable`. `SerializeMarked` says whether the
  program writes tables that have marks. The code mishandles this (§4).
* `GrowTarget` keeps the branch of `_resize_delta` that compares `resize_to`
  with `needed_size`, although the two are computed from the same count.

### How `SparseGroup` corresponds to the code

* `grp[g]` is a group object: `bitmap` and `erased` are sets of positions,
  `objs` the objects constructed at the front of `_group`, in order, `cap` how
  many places were allocated for them (0 if `_group` is NULL), `numItems` and
  `numAlloc` the two counters of `SPP_STORE_NUM_ITEMS`. `cap` is the only part
  the code has no variable for: it is what the allocator knows.
* `Sizing` is the table of `alloc_batch_size` in closed form (batches of 4, 2, 2, 2
  for 32 positions and of 8, 4, 2, 2 for 64), or the rounding of `SPP_ALLOC_SZ`.
  `PosToOffset` is the popcount below a position.
* `Relocatable` chooses between the two overloads of `_set_aux` and of
  `_group_erase_aux`. `SetNew` and `Erase` have the same result in both, but an
  exception (`SetFails`, `EraseFails`) leaves different things behind: the moving overloads
  record the size of the array first, the erasing one that
  resizes in place has already destroyed a value and moved others.
* `Erase` is also `erase_ne`, which computes the position from an iterator first.
  `Clear` is `clear(alloc, true)`, called by the destructive iterator, and `destruct`,
  whose object is never used again. `CopyConstruct` makes a new group
  at a place whose old one was destructed.

### How `SparseTable` corresponds to the code

* `tab[t]` is a `sparsetable`: `groups` its array (`<<>>` if `_first_group` is NULL), each an array
  of cells as `CellArray` promises; `size` and `num` are `_table_size` and `_num_buckets`; `alloc`
  and `galloc` the memory spaces of `_alloc` and `_group_alloc`. `intact` is no variable of the
  code: it is FALSE after a read has returned false and once a destructive iterator has begun.
* `spaces[s]` is an `MSpace`: its `spp_rc` count, and how many arrays were allocated from it and
  not given back: one for the groups of a table, one for each group that has a value.
  The spaces of temporary allocators come and go within an action.
* `it` is the iterator of the program: `row` counts groups from 1, `col` values within a
  group, as `col_current - row.ne_begin()` does; the end is the marked group behind the last.
  `LeftBehind` is how the destructive iterator clears each row it leaves.
* `Renew` is `clear()` of the hash table: it clears, then moves a new table in, or, if that cannot be
  allocated, leaves a table without buckets.
* `Read(t, u, n, clearing)` reads `t` from a file written from `u` of which `n` items are there:
  magic number, size, count, a bitmap per group, the values. `clearing` is `unserialize`, otherwise it is
  the deprecated pair `read_metadata`, `read_nopointer_data`, which reads over what is there.
  `Raw` is the content of a slot that has been allocated and not constructed or read.
* Bounds, apart from constants: an iterator is used only while the other tables have no groups, and is dropped
  by any call that is not through it (`Alone`, `DropIterator`); a table that is not intact is discarded or read again
  before another one is touched (`Usable`).

### How `DlMalloc` and `TreeBins` correspond to the code

* The configuration is the default one on Linux: `mmap` and `mremap`, no `morecore`, no
  footers, no locks. A space is used by one thread, so a call is a step. The
  operators are named for the functions they translate and map a record of the whole space, `m`,
  to a record, or to the set of records that the system calls may lead to.
* Addresses and sizes are counted in units of 16 bytes (`MALLOC_ALIGNMENT`), requests in words of 8.
  In these units `MIN_CHUNK_SIZE` is 2, the chunk of a `malloc_segment` is 3 and
  `top_foot_size` is 5, their true values; the other sizes are constants.
* `m.head` and `m.foot` are the words of memory that are boundary tags. A tag that
  another chunk has since covered is gone from them, since its bytes now belong to that chunk.
* `m.bins[s]` are the free chunks of size `s` in the order in which they will be used.
  Small bins have one size each, because those between two multiples of 16 bytes are
  never used; the trees are replaced by queues of sizes, and `TreeBins` shows (`ImplementsQueues`)
  that the trees are that. `DlMalloc` and `SizeQueues` insert and search with the operators of `ChunkBins`; `Unlinked`, with which
  `DlMalloc` removes a chunk, is the `RemoveAt` of `SizeQueues` at the place of that chunk.
* `t` in `TreeBins` is `_treemap`, the roots of `_treebins`, and one record per chunk with the fields of
  `malloc_tree_chunk`. `NTREEBINS` and `TREEBIN_SHIFT` are constants. Loops over a path are functions of the depth.
* `mmap` takes any free place that is a multiple of the page, and it, `munmap` and `mremap` may fail, except
  in `destroy_mspace`. `Mapped` and `Unmapped` keep the pages the system has given out.
* `Free` is `mspace_free` with the trimming it may do, the release of unused segments every
  `MaxChecks`th time, and their failures. `Realloc` is `mspace_realloc`, in place or by a new block.
* `live` is what `spp_allocator` holds: the words asked for of each block.

## 3. Runs that pass

| Run | Instance | Shows |
|---|---|---|
| `core` | one table, four elements, a minimum of 2 and a default of 4 buckets, up to 16, factors 20/50 and 40/50 (which is clipped), range insertions (an empty one, too), `resize` to 0, 1 and 5; 47 000 states | `TypeOK`; `EveryElementFound`: `find` reaches every stored element, so no key is stored twice; `CountsExact`: `size()` and `num_deleted` are the true numbers; `ProbesEnd`: an absent key's probe meets an empty bucket; `SpotStillVacant`: the bucket `find_or_insert` remembered is still the right one; `AssertionHolds`: a reused mark was counted; `RoomToPlace`: after `_resize_delta` the whole range fits below the threshold; `ResizeActuallyResizes`: no rehash to the same size, no shrink below the default; `NoThrashing`: a shrink for one insertion is not followed by a growth for the same one |
| `pair` | two maps, two colliding keys, one with two mapped values, 4 or 8 buckets; copy, assignment, move, swap; any erasure of a range may fail half way, until the assertion aborts; 175 000 states | `ImplementsContainer`: the table implements `HashContainer`: no rehash loses or adds an element, each element of a range is inserted once, and only erasing and clearing remove any; `EveryElementFound` and `SizeExact`: what a failed erasure left is reachable and `size()` right, though `num_deleted` is not; `CallsReturn` |
| `no_memory` | one table, any group allocation may fail; a second grow factor that no size satisfies, so that `min_buckets` throws; 29 500 states | `CountersCover`: the counters never fall below what is there; `ProbesEnd`: hence lookups still end; `CallsReturn`: every call returns |
| `group_reallocates` | one group of 32, six positions, two values, arrays resized in place, growth may fail; 4 096 states | `TypeOK`; `SizeKnown`: `deallocate` is told the true size; `ImplementsCells`: the packed values are an array of cells |
| `group_moves` | two groups of 64, three positions, two values that move, `SPP_ALLOC_SZ` 2, copies and swaps, growth and shrinking may fail; 14 600 states | `ObjectsCounted`: bitmap and count agree with the objects, and no counted slot is without one; `CapacityDerived`: the array is as large as `_sizing` says, also after failures; `ImplementsCells` |
| `table` | two tables of up to 3 buckets in groups of 2, four spaces, any allocation for a group may fail, files may end anywhere; 14 900 states up to symmetry | `NumExact`: size, number of groups and `num_nonempty()` agree, and no value that was never read is left in an intact table; `SpacesOwned`: reference counts and arrays of each space are exactly those of the tables that use it; `IteratorValid`: `get_pos` and `get_iter` are inverse; `SweepsInOrder`: no step of an iterator misses a bucket or meets one twice, erasures and the destructive iterator included; `ImplementsArrays` |
| `trees` | five chunks, eight sizes, four bins of which two have several levels; 2 940 states up to symmetry | `TreesChecked`: what `do_check_tree` and `do_check_treebin` assert; `FindsBestFit`: both searches find the oldest chunk of the smallest size that fits, for every request; `ImplementsQueues`: unlinking and relinking lose and reorder nothing |
| `heap` | 64 units of memory in 8 pages, granularity 2 pages, two blocks at a time, a small, a large and a directly mapped request; every system call may fail; 165 000 states | `MallocStateChecked`: what `do_check_malloc_state` asserts, after every call; `EveryChunkOwned`: no chunk is lost by splitting and merging, and blocks are as large as asked; `FootprintExact`; `ImplementsHeap`: no two blocks overlap, and a failed `realloc` changes nothing |

**Bounds.** Three or four elements suffice for the cases that matter: a chain
of three colliding keys whose middle one is erased, a mark reused while the
key is behind it, an element of another chain in between (hash 4 beside 3), and
two keys that collide in 8 buckets and part in 16 (3 and 11). With 4 buckets
and a grow factor of 50% two elements already force a growth; 8 to 16
needs marks or a third and fourth element; 16 to 8 and 4 is a shrink. Bucket
counts are smaller than the code's 32 (`HT_DEFAULT_STARTING_BUCKETS`) so that all
sizes are reached with few elements; the decisions depend only on ratios and on
the order of the sizes, and `core` separates the default from the minimum as
the code does (32 and 4; here 4 and 2). Factors are 20% and 50%, the defaults in the code;
40/50 exercises the clipping. `GroupSize` is 4, so that a moved-out table loses
whole groups while others survive.
The group runs use the real group sizes, 32 and 64, and positions at both ends
and in the middle of a group. With the default sizes an array of 32 grows at the first and at
the fifth value, so six positions cross a batch boundary in both directions; with
`SPP_ALLOC_SZ` 2 it grows at the first and the third. The other boundaries, and the moment a group is full, are
covered by the proofs only.

Tables of `table` have 0, 1 or 3 buckets in groups of 2: no group, a group in part, and a full group before one
in part, so an iterator crosses a row and a table grows over a boundary. Each bucket has a value of its own, so
that a value read into the wrong place shows. Four spaces are enough for two tables of two allocators each; tables
and spaces are interchangeable (`SYMMETRY`).
In `heap` a small chunk has up to 3 units (`MinLarge` 4), a request of 13 words is a large chunk and one of
27 words is mapped directly (threshold 14 units). Eight pages leave room for a space of several segments with
a gap between them, which `mmap` may fill from either side; two blocks suffice to separate free chunks. With `MaxChecks` 2 every
second free of a large chunk looks for segments to release. `TrimThreshold` 21 is above what a new segment leaves and
below what two adjacent ones leave.
In `trees` sizes 8 to 11 fall into bins that fix the highest bits and differ in the others, sizes 14 to 28 into the last
bin, which has the most levels; five chunks make trees of depth three and lists beside them. 8 and 9 need the
deepest level, and 28 is in the last bin although it has bits that no bin of its own fixes.

**Deadlock** is checked in every run but `pair` and `heap`: some call is always
possible. In `pair` the program may really stop, when the assertion aborts it. In `heap` a destroyed space may leave
direct mappings behind, and no new one is created then (a bound: addresses that nothing owns any more multiply the states).

**Fairness.** `CallsReturn` needs it, in `pair` and `no_memory`: `WF_vars(Step)`, the thread that is inside
a call keeps executing. Nothing is assumed of the program between calls, nor of the
choice among steps; the steps of a call are determined by the state and by whether allocations fail.

Every property of a passing run has a mutant, a plausible mistake in the code
that the same run finds: for example an `_insert_at` that does not decrement
`num_deleted`, a search that stops at the first mark, a range insertion that asks for
room for one.

## 4. Where the code and its documentation disagree

Each is a run that checks one property and is expected to find it violated.

* `assign_onto_emptied` (`CountsExact`). `operator=` takes over `num_deleted`
  before `clear()` tests it together with the target's own `empty()`. A target
  that `erase` has emptied, assigned from a table without marks, keeps its
  marks with `num_deleted = 0`. Reusing such a mark fails `assert(num_deleted)`
  (spp.h:3171), or wraps the count around in a release build, after which
  `num_nonempty() + num_deleted` is no longer what it should be.
* `load_factor_one` (`ProbesEnd`). A grow factor of 1, which the assertion in
  `set_resizing_parameters` accepts and a test sets, lets a table fill up; then the search for
  an absent key never ends ("Hashtable is full").
* `failed_insert` (`EveryElementFound`). `sparsegroup::set` clears the mark
  before it allocates. If that throws, a probe chain has been cut: the element
  behind it is not found and can be inserted a second time.
* `reread_marks` (`EveryElementFound`). "We compact before writing" (spp.h:3409), but nothing does.
  A table with marks is written without them, and after reading it back, even into
  itself, elements behind the gaps are not found.

Three more disagreements came up that have no run of their own:

* `erase(f, l)` adds to `num_deleted` after its last erasure. If one of them throws, the marks made so far
  are not counted, and reusing one fails `assert(num_deleted)` (the run `pair` includes this and
  goes on up to the abort; its `SizeExact` and `EveryElementFound` hold nevertheless).
* The branch of `_resize_delta` that decides whether doubling would put the table below its shrink
  threshold ("Good, we won't be below the shrink threshhold even if we double", spp.h:2744) compares two sizes
  computed from the same count and is never taken. A table full of marks grows although it is nearly empty.
* `_allocate_group` records the size of the new array (spp.h:1145) before it has it. If the allocation throws, the
  group keeps its array with the wrong size, which `deallocate` is given later. `libc_allocator` and `spp_allocator`
  ignore it. `SizeIsKnown` (§5) says when it cannot happen.

In the allocator, read but outside what the instances reach:
`chunksize()` and `clear_pinuse()` mask a `size_t` with the complement of a 32-bit constant
(spp_dlalloc.h:702-704), which cuts sizes of 4 GiB and more; `MSpace` does not test whether `create_mspace`
returned a space; `destroy_mspace` leaves direct mappings mapped, although `can_clear`, which nothing
calls, exists so that a whole space can be dropped without freeing its blocks.

## 5. What is proved

**Counters.** `SparseHashtableProofs` proves, for every set of tables and elements, every hash function,
bucket count, factor and request that satisfies the ASSUMEs:

| Theorem | Statement | Hypotheses |
|---|---|---|
| `TypeCorrect` | `Spec => []TypeOK` | none |
| `SizeIsExact` | `Spec => []SizeExact` | `~StorageFails` |
| `CountersAlwaysCover` | `Spec => []CountersCover` | `~ShrinkFails`, `~AssignOntoEmptied` |
| `NeverAborts` | `Spec => []AssertionHolds` | `~ShrinkFails`, `~AssignOntoEmptied` |
| `CountsAreExact` | `Spec => []CountsExact` | all three |

The hypotheses exclude what breaks each property, and only that. A failed insertion or rehash (`StorageFails`) loses elements and marks
that stay counted, so the counters are too large; a range erasure that fails (`ShrinkFails`) and
an assignment onto an emptied table (§4) leave marks that are not counted, so `num_deleted` is too small; nothing at
all makes a counter negative, because `PlaceNew` reuses a mark only if one is counted and otherwise the assertion ends the program.

`CountsExact` is not inductive. A rehash swaps in the temporary table, so the
counters of `tmp` must be exact too, and it must hold no marks, because `PutAt`
does not look at `num_deleted`. A placement at the remembered `spot` must hit
a bucket without an element, or the count would go up without the number of elements, so
`SpotFree` says the spot is still free at every `pc` at which it is not `ILLEGAL_BUCKET`.
`CountInv == TabsSound /\ TmpSound /\ CallSound` has these parts, one lemma per
action shows that it is kept, and the lemmas about tables
(`InsertSound`, `EraseSound`, `ClearedSound`, ...) do the counting with the
cardinality theorems of the library.

With failures `CoverInv` takes its place, for every value of the flags. Of every table, `tmp` included, it says `Covered`:
`size()` is at least the number of elements and exactly that if no array fails to grow, `num_deleted` is at least the number of marks if
those two causes are excluded. `NextCovers`, one lemma per action and one per operation on tables
(`InsertCovered`, `ForgetCovered`, `FreedCovered`, `EraseCovered`, ...), needs no hypothesis, so each theorem takes from it what its
flags allow. The proofs below rest on `CoverInv`, not on `CountInv`.

**Lookup.** `SparseHashtableLookup` proves, if `~StorageFails` and `~SerializeMarked`:

* `EveryElementIsFound`: `Spec => []EveryElementFound`
* `SpotStaysVacant`: `Spec => []SpotStillVacant`
* `HashtableImplementsContainer`: `Spec => ImplementsContainer`

The two hypotheses are `failed_insert` and `reread_marks` of §4; failing erasures and emptied tables leave *more* marks than
are counted, which breaks no probe chain. These proofs need no assumption on probing: `FoundAt` speaks of the probe sequence
whatever it is.

`EveryElementFound` needs `ReachInv == CoverInv /\ TabsReachable /\ TmpReachable /\ SpotVacant`.
A rehash puts an element at the first bucket that is not full without comparing
keys (`FreeAt`), which is right only if the key is not in `tmp` yet. Hence `Moved`:
every element of `tmp` is in a bucket of the source that the cursor has passed.
Together with `KeysUnique` (two buckets with one key would be two ends of one probe) the next
element's key is new. `SpotVacant` strengthens `SpotFree`: the remembered bucket is
not only free but the one `_find_position` would choose. The lemmas about chains are
`ChainKept` (a change that makes no bucket end a chain earlier keeps it),
`InsertReachable`, `PutReachable`, `EraseReachable` and `OverwriteReachable`.

In the refinement most steps leave `Contents` alone. An insertion adds an element whose key is new because the bucket is
`VacantAt` its key, and leaves the set alone if the key was found; an erasure removes exactly its elements because no element is in two
buckets, also if it stops half way. The swap at the end of a rehash leaves every set as it was (`RehashLosesNothing`), and that of a copy
makes the two sets equal, because the temporary table holds what the cursor has passed, no more (`Moved`) and no less
(`Carried`). `Purposeful` ties the rehash to its call: what moves comes from the table of the call itself, and a call that copies returns
after it. With it `RequestRight` says what `Request` is at each `pc`, and `PreparationGoesOn` that a step before the first
insertion goes on preparing, gets ready or leaves.

**Sizing.** The second half of `SparseHashtableLookup` proves, without any hypothesis on files:

| Theorem | Statement | Hypotheses |
|---|---|---|
| `RoomIsMade` | `Spec => []RoomToPlace` | none, whatever the factors |
| `NeverThrashes` | `Spec => NoThrashing` | none |
| `ResizesResize` | `Spec => ResizeActuallyResizes` | `DefaultsClipped`: the default factors are such as `set_resizing_parameters` would leave them, shrink at most half of grow |
| `ProbesAlwaysEnd` | `Spec => []ProbesEnd` | `~ShrinkFails`, `~AssignOntoEmptied`, and `FactorsLeaveRoom`: every grow factor is below 100% (with 100% it is false, run `load_factor_one`) |

The first three are about the counters, by which `_resize_delta` and `_maybe_shrink` decide, so they hold whatever failed before; an empty
bucket is there only if the counters cover what is stored.

`RoomInv` adds to `CoverInv` what the sizing decisions rely on. `Tuned`: thresholds are those of the factors in force, and
a table counts fewer occupied buckets than it has. `RehashFits`: the temporary table counts exactly the elements the rehash has passed and has
room for all that the source counts and for what is placed afterwards. `CallFits`: `_resize_delta` is told
how many elements follow, and a table that has just been rebuilt is below its threshold, which is why it is not grown again.
`ProbesEnd` then combines an empty bucket, found by counting, with `ProbingAssumption`: the probes of a key visit every bucket, so a first
one of them stops. Bucket counts being powers of two is used once, in `CountsDouble`: the
next smaller size is half, which the shrink threshold leaves room for.

**Iterators and tables.** The first part of `SparseTableProofs` is about the operators of `GroupIterators`, for any group size and contents:
`PosOfIterator` and `IteratorOfPos` (`get_pos` and `get_iter` are inverse), `IncrementMeets` and `DecrementReturns` (`++` passes
one bucket, `--` undoes it), `DistanceCounts` and `RangeErased` (`erase(f, l)` counts first and then erases as many, which is the
range although every erasure shifts the values `l` refers to). The argument is one set, `Before(groups, i)`: the full buckets
iteration has met when it gets to `i`. `++` adds one bucket to it, erasing at the iterator leaves it alone, skipping
empty groups leaves it alone, and it determines the iterator (`SameBefore`), so what an iterator does is read off from it.
Loops (`Distance`, `ErasedRange`) are recursive functions; that they have the values of a loop
is proved by taking a least counterexample (`LeastNat`, from the well-foundedness of the naturals).

The rest of `SparseTableProofs` is about tables. It proves without hypotheses, whatever fails and however files end:

* `TableTypesCorrect`, `TablesExact`, `SpacesAreOwned`, `IteratorsValid`: `Spec => []TypeOK`, `[]NumExact`, `[]SpacesOwned`, `[]IteratorValid`
* `SweepsOrdered`: `Spec => SweepsInOrder`
* `TableImplementsArrays`: `Spec => ImplementsArrays`

The inductive invariant is `TableInv == Stocks(spaces, tab) /\ IteratorInv`. `Stocks` joins two halves. Every table is `Sound`: well formed
and, if it is intact, counted. And the books of the spaces are `Kept` for the pointers and arrays that the tables hold: each
space's two counters are the numbers of pointers to it and of arrays from it, and there is no array without a pointer to its space. The
last part is what makes it inductive: `Decrement` releases a space with its last reference, which is
right only if no array is left in it. An operation on an allocator or an array
changes one pointer or array (`PointerAdded`, `ArrayRemoved`, ...), and copying, swapping and discarding tables are sequences of these.
`IteratorInv` says that the iterator is `Valid` for the groups it walks. The theorem about sweeps is then the one step of
`Before` that each operation of the iterator makes; the refinement compares the two sides bucket by bucket, with
`Before` saying which ones an erasure or a destructive step takes.
The assumptions on constants are that tables are finitely many, that sizes are numbers and that `Lost` is no array of buckets.

**Groups.** `SparseGroupProofs` proves for every set of groups, positions and values, both group sizes and every
`SPP_ALLOC_SZ`:

* `TypeCorrect`, `CapacityIsDerived`: `Spec => []TypeOK` and `[]CapacityDerived`, whatever allocation fails;
* `ObjectsAreCounted`, `GroupImplementsCells`: `Spec => []ObjectsCounted` and `ImplementsCells` under
  `Whole == ~(Relocatable /\ ShrinkFails)`, arrays do not fail to shrink in place. Where they do, a value has been
  destroyed and others moved when `reallocate` throws (spp.h:1493-1503), and both are false;
* `SizeIsKnown`: `Spec => []SizeKnown` if arrays are grown in place or never fail
  to grow, and never fail to shrink.

The inductive invariant is `GroupInv`: every group is `Fitting`, that is, well formed, counted, and of
capacity `Sizing(numItems)`. The capacity is what makes the parts depend on each
other: `SetNew` trusts the count to say whether there is room, so `SizingStep` shows
that a group that is not full by its count has the same capacity for one value more, and
`SizingBounds` that rounding twice is rounding once and never goes past the group size.

For the other two `CellInv` adds that every slot of an array is an object. In `GroupImplementsCells`
every operation becomes one step of `CellArray` or none. The argument rests on
`OffsetAfterSet` and `OffsetAfterClear`, how the offsets of all positions change
with one bit, matched with `InsertAt` and `RemoveAt` on the packed values.

**Allocator.** `ChunkProofs` and `MallocProofs` prove of `DlMalloc`, for every memory, page size, granularity, threshold and set of
requests that satisfy `MallocAssumption`, any number of segments, chunks and blocks, and whatever `mmap`, `munmap` and `mremap` give or refuse:

| Theorem | Statement |
|---|---|
| `MallocInvariant` | `Spec => []IInv` |
| `SpaceChecked` | `Spec => []MallocStateChecked` |
| `ChunksNeverLost` | `Spec => []EveryChunkOwned` |
| `FootprintNeverDrifts` | `Spec => []FootprintExact` |
| `MallocRefinesHeap` | `Spec => ImplementsHeap` |
| `MallocKeepsBlocksApart` | `Spec => []H!BlocksApart`, from the last one and `BlocksStayApart`, which `Heap` proves of itself |

The assumptions say that a granule is whole pages and holds the state of a space and a chunk, and that only large requests
are mapped directly; with the default parameters of the code they hold.

The checks of the code are not inductive. `MallocStateChecked` walks from chunk to chunk by the sizes it finds, so it says nothing of memory
that no walk reaches, and `mspace_free` trusts more than it checks: that the word in front of a chunk is a size when PINUSE is clear, that
a fencepost stops a merge, that a segment can be unmapped when one free chunk fills it. `IInv` says this
of every header at once, without a walk. If the space exists it is `SpaceSound`:

* `Formed`, the memory is in order. `Layout`: each chunk ends where another begins, with no header or foot between, and what its
  two ends say of it agrees (`Laid`); a foot is behind a free chunk of that size (`FootRight`). `Ends`: the first
  segment ends with the top chunk and the overhead behind it, every other with its record and fenceposts, and no other header
  in a segment has size 0. `SegsRight`: segments are whole pages, begin with a chunk and do not overlap. `DirectRight`: a direct mapping
  is whole pages with one chunk and one fencepost, outside all segments. `Backed`: mapped pages, segments and direct mappings cover the same addresses.
* `Shelved`: each free chunk is once in the bin of its size, or it is the victim, and nothing else is there.
* `Held`: the chunks in use are the blocks and the segment records.
* `Counted`: the footprint is the number of mapped pages; `Fitted`: blocks are as large as was asked.
* Once there is a space, a granule fits into the memory, which the initial trim and growth rely on.

Two free neighbours never exist because a free chunk has `p` set, is followed by a chunk in use, and says so at both ends: this is
part of `Laid`, so that every step which frees a chunk has to show it.

Nearly every function changes the memory between two chunk boundaries, and only there. `Cut(h, g, x, z, y, kind)` is that change: the chunks of
`h` from `x` to `y` become a block up to `z`, if any, and one chunk that is free, in use or the top. `CutFormed`, `CutShelved` and
`CutHeld` show once what a cut keeps, and splitting, merging, shrinking and growing are cuts (`WholeGiven`, `PartGiven`, `SplitTopGiven`,
`MergeUsed`, `MergeFree`, `MergeTop`, `WholeKept`, `PartKept`, `DvPart`, ...). In the middle of a function a chunk is neither on the shelf nor in
use; `Shelved(h, k, X)` names such chunks in `X` and reads the shelf from `k`, which lets a lemma speak of the state between two
assignments of the code. Segments that come, go, grow and shrink have a lemma for each way the top chunk or the record moves (`TopMoved`, `Pushing`,
`Fronting`, ...). The release of unused segments goes through the list with a recursive function; `ReleaseLoopIs` takes the least position at
which it would fail, as does the search for a fitting bin.

The refinement looks at words: the block of a chunk at `p` is the words `2 * p + 2` and following. `BlockCovered` puts them into the chunk,
`BlocksBeside` two blocks into two chunks, and so `Free` of `Heap` follows for the new block of every call.

The arithmetic under all this is `ChunkHoldsRequest`, `DirectMappingSuffices`, `TrimLeavesTop`, and `MappedMemorySuffices`, which is
why `SysAlloc` has no case for memory that was mapped and still does not suffice (the test `nb < _topsize` behind it in the code).

`TreeProofs` proves without hypotheses, for any number of chunks and bins and any sizes:

* `TreesAreChecked`, `SearchesFindBestFit`: `Spec => []TreesChecked`, `[]FindsBestFit`
* `TreesAreQueues`: `Spec => ImplementsQueues`

The inductive invariant `BinsInv` says that there are a depth `D` of each chunk and a queue `q` of each size with `Bins(t, D, q)`:
`Marked`, the map marks the bins with a root; `Lists`, the links `fd` and `bk` of the chunks of one size are its queue,
closed to a ring, and only the oldest has a parent; and `Forest`, the oldest chunks hang together by `parent` and `child`. The checks in
the code look at one chunk and its neighbours, and are not inductive: that a leaf may take the place of any chunk above
it, and that a walk along the bits of a size finds the chunk of that size, depend on all chunks of a path. `Forest` puts the
whole path into each link: a child is one level deeper, agrees with its parent in as many bits of the size as the parent is deep
(`Prefix`), and differs from its sibling in the next. Then two chunks at the same depth with the same bits are the same
(`PlaceUnique`), and what is below a chunk is given by bits alone (`Below`, `BelowSplits`), not by walking. With that:

* `InsertionPointIs`: the walk stops at the chunk of the size, or at a link that is free; `InsertKeeps`.
* `LinkToLeafIs`: the walk to the right ends at a leaf in fewer steps than there are chunks; `UnlinkKeeps`, whose
  cases are those of `unlink_large_chunk`: a younger chunk of a list, an oldest one with others behind it, a leaf, and a
  chunk that a leaf replaces. Where a chunk is replaced, `ForestReplace` needs only that the two agree in the bits down to that depth.
* `PathIs`: at each depth of the walk of `tmalloc_large` some smallest fitting chunk is the best one
  seen, or below where the walk is, or no larger than one in the last subtree to the right that it passed (`Covered`); and all of
  that subtree fits and is larger than what the walk goes on to. `BestBelowIs` does the same for the walk along
  leftmost children, `BinsOrdered` says that a later bin holds larger sizes, and `BetterIs` that comparing remainders modulo the
  word size compares sizes.
* `QueuesIs`: the list that starts at an oldest chunk is its queue.

The assumptions on constants (`TreeAssumption`) are that chunks are finitely many, that sizes are as many units as a word counts and
not less than the smallest of a tree, and that there are two bins for each power of two.

## 6. Only model-checked, and why

* `CallsReturn` and every use of fairness: liveness is outside the prover's reach.
* Nothing says what `EveryElementFound` and `ImplementsContainer` become where memory runs out or marks are lost in a file: they are false there (§4).
  What does hold then, for all constants, are the counters and the sizing (`CountersAlwaysCover`, `ProbesAlwaysEnd`, ...).
* `ImplementsCells` and `ObjectsCounted` for a group whose array fails to shrink in place: they are false there. No run takes
  that step; the theorems `TypeCorrect` and `CapacityIsDerived`, which have no hypothesis, say what is left.
* That `DlMalloc` on queues of sizes is `DlMalloc` on the trees: `TreesAreQueues` relates the two kinds of bins, but the composition of the
  modules is by the shared `ChunkBins`, not by a theorem.

## 7. Not modelled

* In `spp_dlalloc.h`, what nothing in the library calls: `calloc`, `memalign`, `independent_calloc` and
  `_comalloc`, `bulk_free`, `inspect_all`, `mallopt`, the footprint limit, locks, footers,
  `morecore` and the configurations of other systems. `trim_check` after a failed trim is
  modelled, but no property is about it.
* A space that cannot be created, and sizes of 4 GiB and more (§4).
* An allocation failing inside `_copy`, in the constructor of a `sparsetable` or while a file is read: what is left counts
  groups that were never constructed, and may not even be destroyed. `SparseHashtable` has the failing
  copy of a whole table.
* `sparsetable::resize` to fewer buckets ("todo" in the code; nothing calls it), and the move constructor with an
  allocator, which nothing calls.
* Self-assignment of a `sparsetable`, which would empty it; `sparse_hashtable::operator=` returns first.
* The bytes of a file: big-endian integers, the stream classes, the serializers of the user.
* References and iterators into a table across a call that rehashes it: their use is an error
  of the program.
* A failed `reallocate` that makes an array smaller leaves a group with one value
  destroyed or twice in its array (`HalfRemoved`). That the value is then destroyed twice is outside the
  model, which treats values as bytes.
* A failed copy construction stands for "no group": the constructor throws, so there is no object.
* Exceptions thrown by the user's hash, comparison or copy; `max_size`; the
  counter `num_ht_copies`, which only an accessor reads.
* Memory measurement, timing and configuration headers: no state.
* Self-assignment, self-copy, self-swap: they return at once or do nothing.

## 8. Plan

1. Done: `SparseHashtable` and `SparseGroup` with their runs and proofs; `SparseTable`, its iterators and
   files; the allocator from `spp_allocator` down to the trees.
2. Done: proofs about the hash table with failing storage, about iterators, about tables of groups, about the trees and
   about the memory space, down to its headers. Every invariant and refinement that a run checks is a theorem.
3. Pure operators against reference definitions: popcount, the bit tricks of `offset_to_pos` and
   `compute_bit2idx`, big-endian integers.
4. Allocation failures inside `_copy` and `read_metadata`, once the code says what is left of a table then.
