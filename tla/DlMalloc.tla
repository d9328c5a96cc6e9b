------------------------------- MODULE DlMalloc -------------------------------
(***************************************************************************)
(* A memory space of sparsepp/spp_dlalloc.h: class malloc_state with       *)
(* create_mspace, destroy_mspace, mspace_malloc, mspace_free and           *)
(* mspace_realloc, which are what MSpace and spp_allocator call, as built  *)
(* by default on Linux: mmap and mremap, no footers, no locks.             *)
(*                                                                         *)
(* One record holds the space and the memory it manages; the operators     *)
(* named for the functions of the source map it to a record, or to the set *)
(* of records the system calls may lead to.  A result of an allocation is  *)
(* a record with fields m and mem.  A call is one step: a space is not     *)
(* shared between threads.                                                 *)
(***************************************************************************)
EXTENDS BoundaryTags, ChunkBins

CONSTANTS
  StateChunk,      \* the size of the chunk that holds malloc_state itself
  Page,            \* _page_size
  Granularity,     \* _granularity
  MmapThreshold,   \* _mmap_threshold
  TrimThreshold,   \* _trim_threshold
  MaxChecks,       \* SPP_MAX_RELEASE_CHECK_RATE
  Memory,          \* bound: how many units the system has
  Requests,        \* bound: the numbers of words that are asked for
  MaxBlocks        \* bound: how many blocks are in use at a time

MinChunk      == 2                          \* MIN_CHUNK_SIZE
SegmentRecord == 3                          \* the chunk of a malloc_segment
TopFoot       == SegmentRecord + MinChunk   \* top_foot_size
NoMem         == -1                         \* a null pointer
Never         == Memory + 1                 \* spp_max_size_t

ASSUME MallocAssumption ==
  /\ StateChunk \in Nat /\ StateChunk >= MinChunk
  /\ Page \in Nat \ {0} /\ Granularity \in Nat /\ Granularity % Page = 0
  /\ Granularity > StateChunk + TopFoot + MinLarge
  /\ MmapThreshold \in Nat /\ MmapThreshold >= MinLarge
  /\ TrimThreshold \in Nat /\ MaxChecks \in Nat \ {0}
  /\ Memory \in Nat /\ Requests \subseteq Nat /\ MaxBlocks \in Nat

VARIABLES
  m,     \* the space: its chunks, bins, segments and counters
  live   \* the words asked for of each block in use, by its chunk

vars == <<m, live>>

AlignTo(n, unit) == ((n + unit - 1) \div unit) * unit

(* request2size: a word for the header, and no less than MIN_CHUNK_SIZE.   *)
Request2Size(words) == Max({MinChunk, (words + 2) \div 2})

(* sys_alloc_padding.                                                      *)
Padding == TopFoot + 1

(* A direct mapping has six words more than its chunk, and alignment.      *)
DirectSize(nb) == AlignTo(nb + 4, Page)

-----------------------------------------------------------------------------
(* The system: mmap, munmap and mremap.                                    *)

Pages(a, n) == a \div Page .. (a + n - 1) \div Page

Addresses(n) == {k * Page : k \in 0 .. (Memory - n) \div Page}

(* Where mmap may put n units.                                             *)
FreeBases(h, n) == {a \in Addresses(n) : Pages(a, n) \cap h.mapped = {}}

Mapped(h, a, n) ==
  [h EXCEPT !.mapped = @ \cup Pages(a, n), !.footprint = @ + n]

Unmapped(h, a, n) ==
  [h EXCEPT !.mapped = @ \ Pages(a, n), !.footprint = @ - n,
            !.head = Without(@, a .. a + n - 1), !.foot = Without(@, a .. a + n - 1)]

(* Mutant: the footprint shrinks before munmap is known to have worked.    *)
MunmapCounted(h, a, n) == {[h EXCEPT !.footprint = @ - n], Unmapped(h, a, n)}

(* munmap may fail.                                                        *)
Munmap(h, a, n) == {h, Unmapped(h, a, n)}

-----------------------------------------------------------------------------
(* Bins, the designated victim and the segments.                           *)

Insert(h, p, s) == [h EXCEPT !.bins = Inserted(@, p, s)]
Unlink(h, p, s) == [h EXCEPT !.bins = Unlinked(@, p, s)]

NoDv(h) == [h EXCEPT !.dv = NoMem, !.dvsize = 0]

(* replace_dv: the victim before goes to its small bin.                    *)
ReplaceDv(h, p, s) ==
  LET g == IF h.dvsize # 0 THEN Insert(h, h.dv, h.dvsize) ELSE h
  IN  [g EXCEPT !.dv = p, !.dvsize = s]

Holds(seg, a) == seg.base <= a /\ a < seg.base + seg.size

SegmentHolding(h, a) == CHOOSE i \in DOMAIN h.segs : Holds(h.segs[i], a)

(* has_segment_link: a record of a segment lies in seg.                    *)
HasSegmentLink(h, seg) == \E i \in DOMAIN h.segs : Holds(seg, h.segs[i].rec)

(* init_top: the overhead behind the top chunk looks like one more chunk.  *)
InitTop(h, p, s) ==
  [PutTag(PutTop(h, p, s), p + s, [size |-> TopFoot, p |-> FALSE, c |-> FALSE])
     EXCEPT !.top = p, !.topsize = s, !.trim = TrimThreshold]

(* The chunk of nb units at the start of the top chunk.                    *)
SplitTop(h, nb) ==
  [m |-> PutInuse([PutTop(h, h.top + nb, h.topsize - nb)
                     EXCEPT !.top = @ + nb, !.topsize = @ - nb], h.top, nb),
   mem |-> h.top]

-----------------------------------------------------------------------------
(* free.                                                                   *)

(* The chunk p of size s is merged with its free neighbours.  It is then   *)
(* part of the victim, or of the top chunk, or to be binned.               *)
Coalesce(h, p, s) ==
  LET next == p + s
      back == ~Tag(h, p).p
      q    == IF back THEN p - Foot(h, p) ELSE p
      size == next - q
      g    == IF back /\ q # h.dv THEN Unlink(h, q, Foot(h, p)) ELSE h
      n    == Tag(h, next)
      both == size + n.size
      merged == PutFree(Unlink(g, next, n.size), q, both)
      result(to, k, sz) == [to |-> to, m |-> k, p |-> q, size |-> sz]
  IN  CASE n.c /\ n.p /\ back /\ q = h.dv ->
             result("dv", [SetFree(g, q, size, next) EXCEPT !.dvsize = size], size)
        [] n.c /\ ~(n.p /\ back /\ q = h.dv) ->
             result("bin", SetFree(g, q, size, next), size)
        [] ~n.c /\ next = h.top ->
             result("top",
               [PutTop(IF q = h.dv THEN NoDv(g) ELSE g, q, size + h.topsize)
                  EXCEPT !.top = q, !.topsize = @ + size], size + h.topsize)
        [] ~n.c /\ next = h.dv ->
             result("dv",
               [PutFree(g, q, size + h.dvsize) EXCEPT !.dv = q, !.dvsize = @ + size],
               size + h.dvsize)
        [] OTHER ->
             IF q = h.dv THEN result("dv", [merged EXCEPT !.dvsize = both], both)
             ELSE result("bin", merged, both)

(* Mutant: a segment that stays is not put back into its bin.              *)
ReleaseSegmentForgetting(h, seg) ==
  LET s == Tag(h, seg.base).size
      g == IF seg.base = h.dv THEN NoDv(h) ELSE Unlink(h, seg.base, s)
      others == RemoveAt(h.segs, CHOOSE i \in DOMAIN h.segs : h.segs[i] = seg)
  IN  IF IsInuse(Tag(h, seg.base)) \/ s < seg.size - TopFoot THEN {h}
      ELSE {[Unmapped(g, seg.base, seg.size) EXCEPT !.segs = others], g}

(* A segment whose first chunk is free up to its record is unmapped, with  *)
(* the record; if that fails the chunk goes to a tree, the victim too.     *)
ReleaseSegment(h, seg) ==
  LET s == Tag(h, seg.base).size
      g == IF seg.base = h.dv THEN NoDv(h) ELSE Unlink(h, seg.base, s)
      others == RemoveAt(h.segs, CHOOSE i \in DOMAIN h.segs : h.segs[i] = seg)
  IN  IF IsInuse(Tag(h, seg.base)) \/ s < seg.size - TopFoot THEN {h}
      ELSE {[Unmapped(g, seg.base, seg.size) EXCEPT !.segs = others], Insert(g, seg.base, s)}

(* release_unused_segments: all but the newest segment.                    *)
ReleaseUnusedSegments(h) ==
  LET after[i \in 1 .. Len(h.segs)] ==
        IF i = 1 THEN {h} ELSE UNION {ReleaseSegment(g, h.segs[i]) : g \in after[i - 1]}
  IN  {[g EXCEPT !.checks = Max({Len(h.segs) - 1, MaxChecks})] : g \in after[Len(h.segs)]}

(* The part of sys_trim about the top chunk: whole units of granularity,   *)
(* unless a segment record, or malloc_state, lies in the segment.          *)
TrimTop(h) ==
  LET i     == SegmentHolding(h, h.top)
      seg   == h.segs[i]
      extra == ((h.topsize - TopFoot + Granularity - 1) \div Granularity - 1) * Granularity
      g     == Unmapped(h, seg.base + seg.size - extra, extra)
  IN  IF h.topsize <= TopFoot \/ extra = 0 \/ seg.size < extra \/ HasSegmentLink(h, seg) THEN {h}
      ELSE {h, [InitTop(g, h.top, h.topsize - extra) EXCEPT !.segs[i].size = @ - extra]}

(* sys_trim: if nothing was released, freeing does not try again.          *)
SysTrim(h) ==
  {IF g.footprint = h.footprint /\ g.topsize > g.trim THEN [g EXCEPT !.trim = Never] ELSE g :
     g \in UNION {ReleaseUnusedSegments(k) : k \in TrimTop(h)}}

(* _free: a direct mapping is unmapped, another chunk merged and binned.   *)
(* Every so many large chunks it looks for segments to release.            *)
FreeChunk(h, p) ==
  LET s == Tag(h, p).size
      f == Coalesce(h, p, s)
      g == Insert(f.m, f.p, f.size)
      counted == [g EXCEPT !.checks = @ - 1]
  IN  IF IsMmapped(Tag(h, p)) THEN Munmap(h, p - Foot(h, p), s + Foot(h, p) + 2)
      ELSE CASE f.to = "dv"  -> {f.m}
             [] f.to = "top" -> IF f.size > f.m.trim THEN SysTrim(f.m) ELSE {f.m}
             [] f.to = "bin" -> IF IsSmall(f.size) THEN {g}
                                ELSE IF counted.checks = 0 THEN ReleaseUnusedSegments(counted)
                                ELSE {counted}

(* dispose_chunk: the remainder of a block that was made smaller.          *)
DisposeChunk(h, p, s) ==
  LET f == Coalesce(h, p, s)
  IN  IF f.to = "bin" THEN Insert(f.m, f.p, f.size) ELSE f.m

-----------------------------------------------------------------------------
(* malloc.                                                                 *)

(* What is left of a split chunk becomes the victim, or goes to its bin.   *)
KeepRest(h, p, s, victim) == IF victim THEN ReplaceDv(h, p, s) ELSE Insert(h, p, s)

(* Mutant: a rest that is just a chunk stays with the block.               *)
CarveWhole(h, p, s, nb, victim) ==
  [m |-> IF s - nb <= MinChunk THEN SetInuseAndPinuse(h, p, s)
         ELSE KeepRest(PutFree(PutInuse(h, p, nb), p + nb, s - nb), p + nb, s - nb, victim),
   mem |-> p]

(* The first nb units of free chunk p of size s, and the rest if that is a *)
(* chunk.                                                                  *)
Carve(h, p, s, nb, victim) ==
  [m |-> IF s - nb < MinChunk THEN SetInuseAndPinuse(h, p, s)
         ELSE KeepRest(PutFree(PutInuse(h, p, nb), p + nb, s - nb), p + nb, s - nb, victim),
   mem |-> p]

(* A block of nb units from the next chunk of size s.                      *)
Take(h, s, nb, victim) ==
  LET p == Head(h.bins[s]) IN Carve(Unlink(h, p, s), p, s, nb, victim)

(* Splitting the victim, or using it up.                                   *)
TakeDv(h, nb) == Carve(NoDv(h), h.dv, h.dvsize, nb, TRUE)

MmapAlloc(h, nb, a) ==
  LET s == DirectSize(nb) - 2
      g == PutTag(Mapped(h, a, DirectSize(nb)), a, [size |-> s, p |-> FALSE, c |-> FALSE])
  IN  [m |-> PutTag(g, a + s, Fencepost), mem |-> a]

(* prepend_alloc: new memory at a, in front of what was the first chunk of *)
(* a segment; the part that is not used is merged with that chunk.         *)
PrependAlloc(h, a, old, nb) ==
  LET g == PutInuse(h, a, nb)
      q == a + nb
      s == old - q
      n == Tag(g, old)
      both == s + n.size
  IN  [mem |-> a,
       m |-> CASE old = h.top -> [PutTop(g, q, s + h.topsize)
                                    EXCEPT !.top = q, !.topsize = @ + s]
               [] old = h.dv  -> [PutFree(g, q, s + h.dvsize) EXCEPT !.dv = q, !.dvsize = @ + s]
               [] old \notin {h.top, h.dv} /\ IsInuse(n) -> Insert(SetFree(g, q, s, old), q, s)
               [] OTHER -> Insert(SetFree(Unlink(g, old, n.size), q, both, old + n.size), q, both)]

(* add_segment: the top chunk moves to the new memory.  The old one leaves *)
(* room for the record of its segment, and the rest of it is binned.       *)
AddSegment(h, a, n) ==
  LET old == h.segs[SegmentHolding(h, h.top)]
      asp == old.base + old.size - TopFoot
      csp == IF asp < h.top + MinChunk THEN h.top ELSE asp
      rest == csp - h.top
      g == PutTag(PutInuse(InitTop(h, a, n - TopFoot), csp, SegmentRecord),
                  csp + SegmentRecord, Fencepost)
      pushed == [g EXCEPT !.segs = <<[base |-> a, size |-> n, rec |-> h.segs[1].rec],
                                     [h.segs[1] EXCEPT !.rec = csp]>> \o Tail(@)]
  IN  IF rest = 0 THEN pushed ELSE Insert(SetFree(pushed, h.top, rest, csp), h.top, rest)

(* What sys_alloc does with n units mapped at a: appended to the segment   *)
(* of the top chunk, prepended to any other, or a segment of their own.    *)
Extend(h, nb, a, n) ==
  LET g == Mapped(h, a, n)
      before == {i \in DOMAIN h.segs : h.segs[i].base + h.segs[i].size = a}
      behind == {i \in DOMAIN h.segs : h.segs[i].base = a + n}
      i == CHOOSE j \in before : TRUE
      k == CHOOSE j \in behind : TRUE
  IN  IF before # {} /\ Holds(h.segs[i], h.top)
      THEN SplitTop([InitTop(g, h.top, h.topsize + n) EXCEPT !.segs[i].size = @ + n], nb)
      ELSE IF behind # {}
      THEN PrependAlloc([g EXCEPT !.segs[k].base = a, !.segs[k].size = @ + n], a, a + n, nb)
      ELSE SplitTop(AddSegment(g, a, n), nb)

(* sys_alloc: large chunks are mapped directly; if that fails, and for all *)
(* others, the segments grow.                                              *)
SysAlloc(h, nb) ==
  LET n == AlignTo(nb + Padding, Granularity)
  IN  {MmapAlloc(h, nb, a) : a \in IF nb >= MmapThreshold /\ h.topsize # 0
                                   THEN FreeBases(h, DirectSize(nb)) ELSE {}}
      \cup {Extend(h, nb, a, n) : a \in FreeBases(h, n)}
      \cup {[m |-> h, mem |-> NoMem]}

(* _malloc: an exact fit of a small chunk; if the victim is too small the  *)
(* next larger small chunk, else the smallest large one, which become the  *)
(* victim; for a large chunk the best fit, unless the victim fits better;  *)
(* the victim; the top chunk; the system.                                  *)
MallocChunk(h, nb) ==
  LET smalls == SmallFits(h.bins, nb)
      larges == LargeFits(h.bins, nb)
      best   == Min(larges)
  IN  IF IsSmall(nb) /\ h.bins[nb] # <<>> THEN {Take(h, nb, nb, FALSE)}
      ELSE IF IsSmall(nb) /\ nb > h.dvsize /\ smalls # {}
      THEN {Take(h, Min(smalls), nb, TRUE)}
      ELSE IF IsSmall(nb) /\ nb > h.dvsize /\ larges # {} THEN {Take(h, best, nb, TRUE)}
      ELSE IF ~IsSmall(nb) /\ larges # {} /\ (h.dvsize < nb \/ best < h.dvsize)
      THEN {Take(h, best, nb, FALSE)}
      ELSE IF nb <= h.dvsize THEN {TakeDv(h, nb)}
      ELSE IF nb < h.topsize THEN {SplitTop(h, nb)}
      ELSE SysAlloc(h, nb)

-----------------------------------------------------------------------------
(* realloc.                                                                *)

(* mmap_resize: a mapping that is large enough, and not by too much, stays;*)
(* mremap may extend it or move it.                                        *)
MmapResize(h, p, nb) ==
  LET s    == Tag(h, p).size
      base == p - Foot(h, p)
      old  == s + Foot(h, p) + 2
      new  == DirectSize(nb)
      gone == Unmapped(h, base, old)
      to   == {a \in FreeBases(gone, new) : a = base \/ Pages(a, new) \cap Pages(base, old) = {}}
  IN  IF IsSmall(nb) THEN {[m |-> h, mem |-> NoMem]}
      ELSE IF s > nb /\ s - nb <= 2 * Granularity THEN {[m |-> h, mem |-> p]}
      ELSE {MmapAlloc(gone, nb, a) : a \in to} \cup {[m |-> h, mem |-> NoMem]}

(* try_realloc_chunk: in place, into what is behind the chunk, if that is  *)
(* the top chunk, the victim or another free chunk.                        *)
TryRealloc(h, p, nb) ==
  LET s    == Tag(h, p).size
      next == p + s
      n    == Tag(h, next)
      at(g) == {[m |-> g, mem |-> p]}
      (* the chunk with what is behind it, size in all, is cut to nb units *)
      cut(g, size) ==
        IF size - nb < MinChunk THEN at(SetInuse(g, p, size))
        ELSE at(DisposeChunk(SetInuse(SetInuse(g, p, nb), p + nb, size - nb), p + nb, size - nb))
      failed == {[m |-> h, mem |-> NoMem]}
  IN  CASE IsMmapped(Tag(h, p)) -> MmapResize(h, p, nb)
        [] ~IsMmapped(Tag(h, p)) /\ s >= nb ->
             IF s - nb < MinChunk THEN at(h) ELSE cut(h, s)
        [] ~IsMmapped(Tag(h, p)) /\ s < nb /\ next = h.top ->
             LET top == s + h.topsize - nb
             IN  IF top <= 0 THEN failed
                 ELSE at([PutTop(SetInuse(h, p, nb), p + nb, top)
                            EXCEPT !.top = p + nb, !.topsize = top])
        [] ~IsMmapped(Tag(h, p)) /\ s < nb /\ next = h.dv ->
             LET dvs == s + h.dvsize - nb
             IN  IF dvs < 0 THEN failed
                 ELSE IF dvs < MinChunk THEN at(NoDv(SetInuse(h, p, s + h.dvsize)))
                 ELSE at([ClearPinuse(PutFree(SetInuse(h, p, nb), p + nb, dvs), p + nb + dvs)
                            EXCEPT !.dv = p + nb, !.dvsize = dvs])
        [] OTHER ->
             IF n.c \/ s + n.size < nb THEN failed ELSE cut(Unlink(h, next, n.size), s + n.size)

(* Mutant: the new block is taken as if the old one, whose words are still *)
(* to be copied, had been freed.                                           *)
ReallocChunkFreesFirst(h, p, nb) ==
  LET moved(g) == UNION {MallocChunk(k, nb) : k \in FreeChunk(g, p)}
  IN  UNION {IF r.mem # NoMem THEN {r}
             ELSE {IF q.mem = NoMem THEN [m |-> h, mem |-> NoMem] ELSE q : q \in moved(r.m)} :
             r \in TryRealloc(h, p, nb)}

(* mspace_realloc: in place, else a new block and the old one freed, else  *)
(* nothing.                                                                *)
ReallocChunk(h, p, nb) ==
  LET moved(g) ==
        UNION {IF r.mem = NoMem THEN {r}
               ELSE {[m |-> k, mem |-> r.mem] : k \in FreeChunk(r.m, p)} :
               r \in MallocChunk(g, nb)}
  IN  UNION {IF r.mem = NoMem THEN moved(r.m) ELSE {r} : r \in TryRealloc(h, p, nb)}
-----------------------------------------------------------------------------
(* The calls.                                                              *)

(* No space; what an earlier one left mapped is left.                      *)
Blank(mapped) ==
  [head |-> <<>>, foot |-> <<>>, bins |-> [s \in MinChunk .. Memory |-> <<>>],
   dv |-> NoMem, dvsize |-> 0, top |-> NoMem, topsize |-> 0, segs |-> <<>>,
   footprint |-> 0, trim |-> Never, checks |-> 0, mapped |-> mapped]

Exists == m.segs # <<>>

Init == m = Blank({}) /\ live = <<>>

(* create_mspace(0, 0), init_user_mstate and init: a space starts in one   *)
(* unit of granularity.  Bound: nothing is left of an earlier space.       *)
CreateMspace ==
  /\ ~Exists /\ m.mapped = {}
  /\ \E a \in FreeBases(m, Granularity) :
       LET g == PutInuse(Mapped(m, a, Granularity), a, StateChunk)
           first == a + StateChunk
       IN  m' = [InitTop(g, first, a + Granularity - TopFoot - first)
                   EXCEPT !.checks = MaxChecks,
                          !.segs = <<[base |-> a, size |-> Granularity, rec |-> a]>>]
  /\ UNCHANGED live

(* destroy_mspace, by the last allocator of the space: it unmaps every     *)
(* segment, but no direct mapping.                                         *)
DestroyMspace ==
  /\ Exists
  /\ m' = Blank(m.mapped \ UNION {Pages(m.segs[i].base, m.segs[i].size) : i \in DOMAIN m.segs})
  /\ live' = <<>>

Malloc(words) ==
  /\ Exists /\ Cardinality(DOMAIN live) < MaxBlocks
  /\ \E r \in MallocChunk(m, Request2Size(words)) :
       /\ m' = r.m
       /\ live' = IF r.mem = NoMem THEN live ELSE With(live, r.mem, words)

Free(p) ==
  /\ m' \in FreeChunk(m, p)
  /\ live' = Without(live, {p})

Realloc(p, words) ==
  \E r \in ReallocChunk(m, p, Request2Size(words)) :
    /\ m' = r.m
    /\ live' = IF r.mem = NoMem THEN live ELSE With(Without(live, {p}), r.mem, words)

Next ==
  \/ CreateMspace \/ DestroyMspace
  \/ \E words \in Requests : Malloc(words)
  \/ \E p \in DOMAIN live : Free(p)
  \/ \E p \in DOMAIN live, words \in Requests : Realloc(p, words)

Spec == Init /\ [][Next]_vars

-----------------------------------------------------------------------------
(* The runtime checks of the source, do_check_malloc_state and its parts,  *)
(* which a debugging build asserts after the calls.                        *)

IsFence(a) == m.head[a] = Fencepost

(* The chunks of a segment that traverse_and_check visits.                 *)
Visited(seg) ==
  {a \in DOMAIN m.head : Holds(seg, a) /\ ~IsFence(a) /\
                         ~(Holds(seg, m.top) /\ a >= m.top)}

CheckInuseChunk(a) ==
  LET n == m.head[a] IN
  /\ Tag(m, a + n.size).p
  /\ ~n.p => Tag(m, a - Foot(m, a)).size = Foot(m, a)
  /\ n.size >= MinChunk

CheckFreeChunk(a) ==
  LET n    == m.head[a]
      next == Tag(m, a + n.size)
  IN  /\ n.p /\ n.size >= MinChunk
      /\ ~next.p /\ IsInuse(next)
      /\ Foot(m, a + n.size) = n.size

CheckMmappedChunk(a) ==
  LET n == m.head[a] IN
  /\ ~IsSmall(n.size)
  /\ (n.size + Foot(m, a) + 2) % Page = 0
  /\ Tag(m, a + n.size) = Fencepost

CheckTopChunk ==
  LET seg == m.segs[SegmentHolding(m, m.top)]
      tag == Tag(m, m.top)
  IN  /\ tag.size = m.topsize /\ tag.p /\ m.topsize > 0
      /\ m.topsize = seg.base + seg.size - m.top - TopFoot
      /\ ~Tag(m, m.top + m.topsize).p
      /\ ~Binned(m.bins, m.top)

CheckDv ==
  m.dvsize # 0 => /\ Tag(m, m.dv).size = m.dvsize
                  /\ m.dvsize >= MinChunk
                  /\ ~Binned(m.bins, m.dv)

(* The chunks of a segment follow each other without a gap, the first has  *)
(* none before it, no two free ones are neighbours, and exactly the free   *)
(* ones are in the bin of their size, or the victim.                       *)
TraverseAndCheck(seg) ==
  /\ Tag(m, seg.base).p
  /\ \A a \in Visited(seg) :
       LET n == m.head[a] IN
       /\ a + n.size \in DOMAIN m.head /\ Holds(seg, a + n.size)
       /\ IF IsInuse(n) THEN CheckInuseChunk(a) /\ ~Binned(m.bins, a)
          ELSE CheckFreeChunk(a) /\ (a # m.dv => \E i \in DOMAIN m.bins[n.size] : m.bins[n.size][i] = a)

DirectChunks == {a \in DOMAIN m.head : IsMmapped(m.head[a]) /\ a # m.top + m.topsize}

-----------------------------------------------------------------------------
(* Properties.                                                             *)

(* After every call, what do_check_malloc_state asserts: headers, feet and *)
(* bits of neighbours agree, free chunks are merged and each is in exactly *)
(* the right bin, the top chunk reaches to the end of its segment, and the *)
(* segments are within the footprint.                                      *)
MallocStateChecked ==
  Exists =>
    /\ \A i \in DOMAIN m.segs : TraverseAndCheck(m.segs[i])
    /\ \A a \in DirectChunks : CheckMmappedChunk(a)
    /\ CheckTopChunk /\ CheckDv
    /\ \A s \in DOMAIN m.bins : \A i \in DOMAIN m.bins[s] :
         \E j \in DOMAIN m.segs : m.bins[s][i] \in Visited(m.segs[j])

(* Every chunk in use belongs to a block, is a record of a segment in the  *)
(* list, or malloc_state: nothing is lost by splitting and merging.  A     *)
(* block has what was asked for and, unless it is mapped, less than a      *)
(* chunk more, its memory is mapped, and no free chunk's foot is in it.    *)
(* Each record but malloc_state's lies in its own segment, the last thing  *)
(* of it to be read by destroy_mspace before it is unmapped.               *)
EveryChunkOwned ==
  LET records == {m.segs[i].rec : i \in DOMAIN m.segs} IN
  /\ \A i \in DOMAIN m.segs : \A a \in Visited(m.segs[i]) :
       IsInuse(m.head[a]) => a \in DOMAIN live \cup records
  /\ \A r \in records : IsInuse(Tag(m, r)) /\ r \notin DOMAIN live
  /\ \A i \in 2 .. Len(m.segs) : Holds(m.segs[i], m.segs[i].rec)
  /\ \A p \in DOMAIN live :
       LET n == Tag(m, p) IN
       /\ IsInuse(n) /\ n.size >= Request2Size(live[p])
       /\ IsMmapped(n) \/ n.size < Request2Size(live[p]) + MinChunk
       /\ Pages(p, n.size) \subseteq m.mapped /\ p + n.size \notin DOMAIN m.foot

(* The footprint counts exactly the memory that is mapped, whichever of    *)
(* the system calls failed, and all of it is in a segment or was mapped    *)
(* directly.                                                               *)
FootprintExact ==
  Exists =>
    /\ m.footprint = Page * Cardinality(m.mapped)
    /\ m.mapped =
         UNION ({Pages(m.segs[i].base, m.segs[i].size) : i \in DOMAIN m.segs}
                \cup {Pages(a, m.head[a].size + 2) : a \in DirectChunks})

(* The space implements a heap: the words of two blocks are never the      *)
(* same, a block stays where it is until it is freed or reallocated, and a *)
(* reallocation that fails leaves it.                                      *)
H == INSTANCE Heap
  WITH Words <- 0 .. 2 * Memory, open <- Exists,
       blocks <- [b \in {2 * p + 2 : p \in DOMAIN live} |-> live[(b - 2) \div 2]]

ImplementsHeap == H!Spec
=============================================================================
