----------------------------- MODULE ChunkProofs -----------------------------
(***************************************************************************)
(* The sizes DlMalloc computes are sufficient, for every page size,        *)
(* granularity and request.  Then what its functions on chunks leave, for  *)
(* any space whose memory is in order: headers, bins, malloc without the   *)
(* system, coalesce, realloc in place, direct mappings and the release of  *)
(* unused segments.                                                        *)
(***************************************************************************)
EXTENDS DlMalloc, FiniteSetTheorems, SequenceTheorems, TLAPS

-----------------------------------------------------------------------------
(* Sizes.                                                                  *)

LEMMA ConstantTypes ==
  /\ MinChunk = 2 /\ SegmentRecord = 3 /\ TopFoot = 5 /\ Padding = 6
  /\ Page \in Nat \ {0} /\ Granularity \in Nat \ {0}
BY MallocAssumption, MinLargeAssumption DEF MinChunk, SegmentRecord, TopFoot, Padding

(* page_align and granularity_align round up, by less than a unit.         *)
LEMMA AlignToBounds ==
  ASSUME NEW n \in Nat, NEW unit \in Nat \ {0}
  PROVE  /\ AlignTo(n, unit) \in Nat
         /\ AlignTo(n, unit) >= n /\ AlignTo(n, unit) < n + unit
BY SMT DEF AlignTo

(* The larger of two sizes.                                                *)
LEMMA MaxOfTwo ==
  ASSUME NEW a \in Int, NEW b \in Int
  PROVE  Max({a, b}) = IF a >= b THEN a ELSE b
<1> DEFINE x == IF a >= b THEN a ELSE b
<1>1. x \in {a, b} /\ \A y \in {a, b} : x >= y
  OBVIOUS
<1>2. \A z \in {a, b} : (\A y \in {a, b} : z >= y) => z = x
  OBVIOUS
<1> QED
  BY <1>1, <1>2 DEF Max

(* request2size: a chunk of nb units, two words each, has a word for its   *)
(* header and still holds what was asked for, with less than a minimal     *)
(* chunk to spare.                                                         *)
THEOREM ChunkHoldsRequest ==
  ASSUME NEW words \in Nat
  PROVE  LET nb == Request2Size(words)
         IN  /\ nb \in Nat /\ nb >= MinChunk
             /\ 2 * nb - 1 >= words
             /\ nb > MinChunk => 2 * nb - 1 < words + 2
<1> DEFINE half == (words + 2) \div 2
<1>1. half \in Nat /\ 2 * half >= words + 1 /\ 2 * half <= words + 2
  BY SMT
<1> HIDE DEF half
<1>2. Request2Size(words) = IF 2 >= half THEN 2 ELSE half
  BY <1>1, ConstantTypes, MaxOfTwo DEF Request2Size, half
<1> QED
  BY <1>1, <1>2, ConstantTypes

(* sys_alloc: a new segment of the size it asks for has a top chunk larger *)
(* than the request, so its last test, nb < _topsize, holds whenever mmap  *)
(* gave it memory; and in front of another segment it leaves a chunk, as   *)
(* prepend_alloc asserts of qsize.                                         *)
THEOREM MappedMemorySuffices ==
  ASSUME NEW nb \in Nat
  PROVE  LET n == AlignTo(nb + Padding, Granularity)
         IN  nb < n - TopFoot /\ n - nb >= MinChunk
<1> DEFINE n == AlignTo(nb + Padding, Granularity)
<1>1. n \in Nat /\ n >= nb + 6
  BY AlignToBounds, ConstantTypes
<1> HIDE DEF n
<1> QED
  BY <1>1, ConstantTypes DEF n

(* mmap_alloc: behind a directly mapped chunk there is room for the two    *)
(* words of its fenceposts, and the chunk, less two words of overhead,     *)
(* holds the request.                                                      *)
THEOREM DirectMappingSuffices ==
  ASSUME NEW words \in Nat
  PROVE  LET chunk == DirectSize(Request2Size(words)) - 2
         IN  chunk > Request2Size(words) /\ 2 * chunk - 2 >= words
<1> DEFINE nb == Request2Size(words)
           d  == DirectSize(nb)
<1>1. nb \in Nat /\ 2 * nb - 1 >= words
  BY ChunkHoldsRequest
<1> HIDE DEF nb
<1>2. d \in Nat /\ d >= nb + 4
  BY <1>1, AlignToBounds, ConstantTypes DEF DirectSize
<1> HIDE DEF d
<1> QED
  BY <1>1, <1>2 DEF nb, d

(* sys_trim: what it takes from a top chunk of t units leaves more than    *)
(* the overhead behind it, so the top chunk is never used up.              *)
THEOREM TrimLeavesTop ==
  ASSUME NEW t \in Nat, t > TopFoot
  PROVE  LET extra == ((t - TopFoot + Granularity - 1) \div Granularity - 1) * Granularity
         IN  extra >= 0 /\ t - extra > TopFoot
<1> DEFINE k == (t - TopFoot + Granularity - 1) \div Granularity
<1>1. t - TopFoot \in Nat \ {0}
  BY ConstantTypes
<1>2. k \in Nat /\ k >= 1 /\ k * Granularity < t - TopFoot + Granularity
  BY <1>1, ConstantTypes, SMT
<1> HIDE DEF k
<1>3. (k - 1) * Granularity = k * Granularity - Granularity /\ (k - 1) * Granularity >= 0
  BY <1>2, ConstantTypes, SMT
<1> QED
  BY <1>1, <1>2, <1>3, ConstantTypes DEF k

-----------------------------------------------------------------------------
(* Headers and feet of a space.                                            *)

TagType == [size : Nat, p : BOOLEAN, c : BOOLEAN]

SegType == [base : Nat, size : Nat, rec : Int]

TagMaps == UNION {[D -> TagType] : D \in SUBSET Int}

FootMaps == UNION {[D -> Nat] : D \in SUBSET Int}

HeapType ==
  [head : TagMaps, foot : FootMaps,
   bins : [MinChunk .. Memory -> Seq(Int)],
   dv : Int, dvsize : Int, top : Int, topsize : Int, segs : Seq(SegType),
   footprint : Int, trim : Int, checks : Int, mapped : SUBSET Nat]

Heads(h) == DOMAIN h.head
Feet(h)  == DOMAIN h.foot

LEMMA HeapFields ==
  ASSUME NEW h \in HeapType
  PROVE  /\ Heads(h) \subseteq Int /\ h.head \in [Heads(h) -> TagType]
         /\ Feet(h) \subseteq Int /\ h.foot \in [Feet(h) -> Nat]
         /\ h.bins \in [MinChunk .. Memory -> Seq(Int)]
         /\ h.dv \in Int /\ h.dvsize \in Int /\ h.top \in Int /\ h.topsize \in Int /\ h.segs \in Seq(SegType)
         /\ h.footprint \in Int /\ h.trim \in Int /\ h.checks \in Int /\ h.mapped \in SUBSET Nat
BY DEF HeapType, TagMaps, FootMaps, Heads, Feet

(* What the parts of a heap are; the other fields are those of h.          *)
SameTags(h, g) == g.head = h.head /\ g.foot = h.foot
SameTop(h, g)  == g.top = h.top /\ g.topsize = h.topsize
SameShelf(h, g) == g.bins = h.bins /\ g.dv = h.dv /\ g.dvsize = h.dvsize
SameMap(h, g) == g.segs = h.segs /\ g.footprint = h.footprint /\ g.mapped = h.mapped
SameTimes(h, g) == g.trim = h.trim /\ g.checks = h.checks

OnlyTags(h, g) == g \in HeapType /\ SameTop(h, g) /\ SameShelf(h, g) /\ SameMap(h, g) /\ SameTimes(h, g)

Retagged(h, f, k) == [h EXCEPT !.head = f, !.foot = k]

LEMMA NewTags ==
  ASSUME NEW h \in HeapType, NEW f \in TagMaps, NEW k \in FootMaps
  PROVE  /\ OnlyTags(h, Retagged(h, f, k))
         /\ Retagged(h, f, k).head = f /\ Retagged(h, f, k).foot = k
BY DEF Retagged, HeapType, OnlyTags, SameTop, SameShelf, SameMap, SameTimes

(* A header is at a, and none, and no foot, in the chunk behind it.        *)
Inside(a, s) == a + 1 .. a + s - 1

TagPut(h, g, a, tag) ==
  /\ OnlyTags(h, g)
  /\ Heads(g) = (Heads(h) \ Inside(a, tag.size)) \cup {a}
  /\ g.head[a] = tag
  /\ \A b \in Heads(h) \ (Inside(a, tag.size) \cup {a}) : g.head[b] = h.head[b]
  /\ Feet(g) = Feet(h) \ Inside(a, tag.size)
  /\ \A b \in Feet(h) \ Inside(a, tag.size) : g.foot[b] = h.foot[b]

LEMMA PutTagIs ==
  ASSUME NEW h \in HeapType, NEW a \in Int, NEW tag \in TagType
  PROVE  TagPut(h, PutTag(h, a, tag), a, tag)
<1> DEFINE S == Inside(a, tag.size)
           D == Heads(h) \ S
           E == Feet(h) \ S
           f0 == Without(h.head, S)
           f == With(f0, a, tag)
           k == Without(h.foot, S)
           g == Retagged(h, f, k)
<1>1. PutTag(h, a, tag) = g
  BY DEF PutTag, Inside, Retagged
<1>2. /\ Heads(h) \subseteq Int /\ h.head \in [Heads(h) -> TagType]
      /\ Feet(h) \subseteq Int /\ h.foot \in [Feet(h) -> Nat]
  BY HeapFields
<1> HIDE DEF S
<1>3. f0 \in [D -> TagType] /\ \A b \in D : f0[b] = h.head[b]
  BY <1>2 DEF Without
<1>4. k \in [E -> Nat] /\ \A b \in E : k[b] = h.foot[b]
  BY <1>2 DEF Without
<1>5. D \in SUBSET Int /\ E \in SUBSET Int /\ D \cup {a} \in SUBSET Int
  BY <1>2
<1> HIDE DEF D, E, f0, k
<1>6. f \in [D \cup {a} -> TagType] /\ f[a] = tag /\ \A b \in D \ {a} : f[b] = f0[b]
  BY <1>3, <1>5 DEF With
<1> HIDE DEF f
<1>7. OnlyTags(h, g) /\ g.head = f /\ g.foot = k
  <2>1. f \in TagMaps /\ k \in FootMaps
    BY <1>4, <1>5, <1>6 DEF TagMaps, FootMaps
  <2> QED  BY <2>1, NewTags
<1> HIDE DEF g
<1>8. Heads(g) = D \cup {a} /\ Feet(g) = E
  BY <1>4, <1>6, <1>7 DEF Heads, Feet
<1>9. \A b \in D \ {a} : g.head[b] = h.head[b]
  BY <1>3, <1>6, <1>7
<1> QED  BY <1>1, <1>4, <1>6, <1>7, <1>8, <1>9 DEF TagPut, D, E, S

(* Only the bit PINUSE of the header at a changes.                         *)
HeadIs(h, g, a, tag) ==
  /\ OnlyTags(h, g)
  /\ Heads(g) = Heads(h) \cup {a}
  /\ g.head[a] = tag
  /\ \A b \in Heads(h) \ {a} : g.head[b] = h.head[b]
  /\ g.foot = h.foot

PinusePut(h, g, a, bit) == HeadIs(h, g, a, [Tag(h, a) EXCEPT !.p = bit])

LEMMA TagTyped ==
  ASSUME NEW h \in HeapType, NEW a
  PROVE  Tag(h, a) \in TagType /\ (a \in Heads(h) => Tag(h, a) = h.head[a])
<1>1. CASE a \in Heads(h)
  BY <1>1, HeapFields DEF Tag, Heads
<1>2. CASE a \notin Heads(h)
  BY <1>2 DEF Tag, Heads, Garbage, TagType
<1> QED  BY <1>1, <1>2

Headed(h, a, tag) == [h EXCEPT !.head = With(@, a, tag)]

LEMMA HeadPut ==
  ASSUME NEW h \in HeapType, NEW a \in Int, NEW tag \in TagType
  PROVE  HeadIs(h, Headed(h, a, tag), a, tag)
<1> DEFINE f == With(h.head, a, tag)
           D == Heads(h) \cup {a}
           g == Retagged(h, f, h.foot)
<1>1. /\ Heads(h) \subseteq Int /\ h.head \in [Heads(h) -> TagType] /\ h.foot \in FootMaps
  BY HeapFields DEF HeapType
<1>2. D \in SUBSET Int
  BY <1>1
<1>3. f \in [D -> TagType] /\ f[a] = tag /\ \A b \in Heads(h) \ {a} : f[b] = h.head[b]
  BY <1>1 DEF With
<1> HIDE DEF f, D
<1>4. OnlyTags(h, g) /\ g.head = f /\ g.foot = h.foot
  <2>1. f \in TagMaps
    BY <1>2, <1>3 DEF TagMaps
  <2> QED  BY <1>1, <2>1, NewTags
<1>5. Headed(h, a, tag) = g
  BY DEF f, HeapType, Retagged, Headed
<1> HIDE DEF g
<1>6. Heads(g) = D
  BY <1>3, <1>4 DEF Heads
<1> QED  BY <1>3, <1>4, <1>5, <1>6 DEF D, HeadIs

LEMMA PinuseIs ==
  ASSUME NEW h \in HeapType, NEW a \in Int
  PROVE  PinusePut(h, SetPinuse(h, a), a, TRUE) /\ PinusePut(h, ClearPinuse(h, a), a, FALSE)
<1> DEFINE t == [Tag(h, a) EXCEPT !.p = TRUE]
           u == [Tag(h, a) EXCEPT !.p = FALSE]
<1>0. Tag(h, a) \in TagType
  BY TagTyped
<1>1. t \in TagType /\ u \in TagType
  BY <1>0 DEF TagType
<1>2. SetPinuse(h, a) = Headed(h, a, t) /\ ClearPinuse(h, a) = Headed(h, a, u)
  BY DEF SetPinuse, ClearPinuse, Headed
<1> HIDE DEF t, u
<1>3. HeadIs(h, Headed(h, a, t), a, t)
  BY <1>1, HeadPut
<1>4. HeadIs(h, Headed(h, a, u), a, u)
  BY <1>1, HeadPut
<1> QED  BY <1>2, <1>3, <1>4, Zenon DEF PinusePut, t, u

Footed(h, k) == [h EXCEPT !.foot = k]

LEMMA FootPut ==
  ASSUME NEW h \in HeapType, NEW k \in FootMaps
  PROVE  OnlyTags(h, Footed(h, k)) /\ Footed(h, k).foot = k /\ Footed(h, k).head = h.head
BY DEF Footed, HeapType, OnlyTags, SameTop, SameShelf, SameMap, SameTimes

LEMMA OnlyTagsTwice ==
  ASSUME NEW h, NEW g, NEW k, OnlyTags(h, g), OnlyTags(g, k)
  PROVE  OnlyTags(h, k)
BY DEF OnlyTags, SameTop, SameShelf, SameMap, SameTimes

FreeTag(s)  == [size |-> s, p |-> TRUE, c |-> FALSE]
InuseTag(s) == [size |-> s, p |-> TRUE, c |-> TRUE]

LEMMA TagsTyped ==
  ASSUME NEW s \in Nat
  PROVE  /\ FreeTag(s) \in TagType /\ FreeTag(s).size = s /\ FreeTag(s).p = TRUE /\ FreeTag(s).c = FALSE
         /\ InuseTag(s) \in TagType /\ InuseTag(s).size = s /\ InuseTag(s).p = TRUE /\ InuseTag(s).c = TRUE
BY DEF FreeTag, InuseTag, TagType

FreePut(h, g, a, s) ==
  /\ OnlyTags(h, g)
  /\ Heads(g) = (Heads(h) \ Inside(a, s)) \cup {a}
  /\ g.head[a] = FreeTag(s)
  /\ \A b \in Heads(h) \ (Inside(a, s) \cup {a}) : g.head[b] = h.head[b]
  /\ Feet(g) = (Feet(h) \ Inside(a, s)) \cup {a + s}
  /\ g.foot[a + s] = s
  /\ \A b \in Feet(h) \ (Inside(a, s) \cup {a + s}) : g.foot[b] = h.foot[b]

InusePut(h, g, a, s) ==
  /\ OnlyTags(h, g)
  /\ Heads(g) = (Heads(h) \ Inside(a, s)) \cup {a}
  /\ g.head[a] = InuseTag(s)
  /\ \A b \in Heads(h) \ (Inside(a, s) \cup {a}) : g.head[b] = h.head[b]
  /\ Feet(g) = Feet(h) \ (Inside(a, s) \cup {a + s})
  /\ \A b \in Feet(h) \ (Inside(a, s) \cup {a + s}) : g.foot[b] = h.foot[b]

LEMMA PutFreeIs ==
  ASSUME NEW h \in HeapType, NEW a \in Int, NEW s \in Nat
  PROVE  FreePut(h, PutFree(h, a, s), a, s)
<1> DEFINE g == PutTag(h, a, FreeTag(s))
           k == With(g.foot, a + s, s)
           D == Feet(g) \cup {a + s}
<1>1. PutFree(h, a, s) = Footed(g, k)
  BY DEF PutFree, Footed, FreeTag
<1>2. TagPut(h, g, a, FreeTag(s)) /\ FreeTag(s).size = s
  BY TagsTyped, PutTagIs
<1> HIDE DEF g
<1>3. g \in HeapType /\ Feet(g) \subseteq Int /\ g.foot \in [Feet(g) -> Nat]
  BY <1>2, HeapFields DEF TagPut, OnlyTags
<1>4. a + s \in Int /\ D \in SUBSET Int
  BY <1>3
<1>5. k \in [D -> Nat] /\ k[a + s] = s /\ \A b \in Feet(g) \ {a + s} : k[b] = g.foot[b]
  BY <1>3, <1>4 DEF With
<1> HIDE DEF k, D
<1>6. OnlyTags(g, Footed(g, k)) /\ Footed(g, k).foot = k /\ Footed(g, k).head = g.head
  <2>1. k \in FootMaps
    BY <1>4, <1>5 DEF FootMaps
  <2> QED  BY <1>3, <2>1, FootPut
<1>7. OnlyTags(h, Footed(g, k))
  BY <1>2, <1>6, OnlyTagsTwice DEF TagPut
<1>8. Heads(Footed(g, k)) = Heads(g) /\ Feet(Footed(g, k)) = D
  BY <1>5, <1>6 DEF Heads, Feet
<1> QED  BY <1>1, <1>2, <1>5, <1>6, <1>7, <1>8 DEF TagPut, FreePut, D

LEMMA PutInuseIs ==
  ASSUME NEW h \in HeapType, NEW a \in Int, NEW s \in Nat
  PROVE  InusePut(h, PutInuse(h, a, s), a, s)
<1> DEFINE g == PutTag(h, a, InuseTag(s))
           k == Without(g.foot, {a + s})
           D == Feet(g) \ {a + s}
<1>1. PutInuse(h, a, s) = Footed(g, k)
  BY DEF PutInuse, Footed, InuseTag
<1>2. TagPut(h, g, a, InuseTag(s)) /\ InuseTag(s).size = s
  BY TagsTyped, PutTagIs
<1> HIDE DEF g
<1>3. g \in HeapType /\ Feet(g) \subseteq Int /\ g.foot \in [Feet(g) -> Nat]
  BY <1>2, HeapFields DEF TagPut, OnlyTags
<1>4. a + s \in Int /\ D \in SUBSET Int
  BY <1>3
<1>5. k \in [D -> Nat] /\ \A b \in D : k[b] = g.foot[b]
  BY <1>3, <1>4 DEF Without
<1> HIDE DEF k, D
<1>6. OnlyTags(g, Footed(g, k)) /\ Footed(g, k).foot = k /\ Footed(g, k).head = g.head
  <2>1. k \in FootMaps
    BY <1>4, <1>5 DEF FootMaps
  <2> QED  BY <1>3, <2>1, FootPut
<1>7. OnlyTags(h, Footed(g, k))
  BY <1>2, <1>6, OnlyTagsTwice DEF TagPut
<1>8. Heads(Footed(g, k)) = Heads(g) /\ Feet(Footed(g, k)) = D
  BY <1>5, <1>6 DEF Heads, Feet
<1> QED  BY <1>1, <1>2, <1>5, <1>6, <1>7, <1>8 DEF TagPut, InusePut, D

-----------------------------------------------------------------------------
(* Chunks that tile the memory between them.                               *)

InSeg(h, a) == \E i \in DOMAIN h.segs : Holds(h.segs[i], a)

(* The header behind the top chunk.                                        *)
Mark(h) == h.top + h.topsize

(* The chunks in segments; a size of 0 is that of a fencepost.             *)
Chunks(h) == {a \in Heads(h) : InSeg(h, a) /\ h.head[a].size # 0 /\ a # Mark(h)}
Frees(h)  == {a \in Chunks(h) : a # h.top /\ ~ h.head[a].c}
Useds(h)  == {a \in Chunks(h) : a # h.top /\ h.head[a].c}

Behind(h, a) == a + h.head[a].size

(* No segment has one of a and b only.                                     *)
Together(h, a, b) == \A i \in DOMAIN h.segs : Holds(h.segs[i], a) <=> Holds(h.segs[i], b)

(* The chunk a ends where the next one starts, nothing starts inside it,   *)
(* and both ends of it say the same of it.                                 *)
Laid(h, a) ==
  LET e == Behind(h, a)
  IN  /\ e > a /\ e \in Heads(h) /\ Together(h, a, e)
      /\ \A b \in Heads(h) \cup Feet(h) : ~ (a < b /\ b < e)
      /\ a # h.top => e - a >= MinChunk
      /\ a \in Useds(h) => h.head[e].p /\ e \notin Feet(h)
      /\ a \in Frees(h) => /\ h.head[a].p /\ ~ h.head[e].p /\ h.head[e].c
                           /\ e \in Feet(h) /\ h.foot[e] = e - a

(* The size in front of a is that of a free chunk.                         *)
FootRight(h, a) ==
  LET b == a - h.foot[a] IN b \in Frees(h) /\ h.head[b].size = h.foot[a]

Layout(h) ==
  /\ \A a \in Chunks(h) : Laid(h, a) /\ (~ h.head[a].p => a \in Feet(h))
  /\ \A a \in Feet(h) : FootRight(h, a)

(* In g the chunks of h from x to y are a block from x to z, if they       *)
(* differ, and from z to y a chunk of the kind.                            *)
Cut(h, g, x, z, y, kind) ==
  /\ \A a \in Int : a \in Heads(g) <=> ((a \in Heads(h) /\ ~ (x <= a /\ a < y)) \/ a = x \/ a = z)
  /\ \A a \in Heads(h) : ~ (x <= a /\ a <= y) => g.head[a] = h.head[a]
  /\ g.head[y].size = h.head[y].size /\ (g.head[y].c <=> h.head[y].c) /\ (g.head[y].p <=> kind = "used")
  /\ z # x => g.head[x].size = z - x /\ g.head[x].c /\ (g.head[x].p <=> h.head[x].p)
  /\ g.head[z].size = y - z /\ (g.head[z].c <=> kind = "used") /\ (g.head[z].p <=> (z # x \/ h.head[x].p))
  /\ \A a \in Int : a \in Feet(g) <=> ((a \in Feet(h) /\ ~ (x < a /\ a <= y)) \/ (kind = "free" /\ a = y))
  /\ \A a \in Feet(h) : ~ (x < a /\ a <= y) => g.foot[a] = h.foot[a]
  /\ kind = "free" => g.foot[y] = y - z
  /\ g.segs = h.segs
  /\ kind = "top" => g.top = z /\ g.topsize = y - z
  /\ kind # "top" => SameTop(h, g)

(* What lies from x to y may be cut.                                       *)
Run(h, x, z, y, kind) ==
  /\ x \in Chunks(h) /\ y \in Heads(h) /\ z \in Int /\ x <= z /\ z < y
  /\ Together(h, x, y) /\ Together(h, x, z)
  /\ z # x => z - x >= MinChunk
  /\ kind \in {"used", "free"} =>
       /\ y \in Chunks(h) /\ ~ (x <= h.top /\ h.top < y) /\ y - z >= MinChunk
       /\ ~ (x <= Mark(h) /\ Mark(h) <= y)
  /\ kind = "top" => y = Mark(h) /\ x <= h.top /\ h.top < y
  /\ kind # "used" /\ z = x => h.head[x].p
  /\ kind = "free" => h.head[y].c
  /\ kind \in {"used", "free", "top"}

LEMMA CutChunks ==
  ASSUME NEW h \in HeapType, NEW g \in HeapType, Layout(h),
         NEW x, NEW z, NEW y, NEW kind, Run(h, x, z, y, kind), Cut(h, g, x, z, y, kind)
  PROVE  /\ Mark(g) = Mark(h)
         /\ \A a : a \in Chunks(g) <=> ((a \in Chunks(h) /\ ~ (x <= a /\ a < y)) \/ a = x \/ a = z)
         /\ \A a \in Chunks(h) : ~ (x <= a /\ a < y) =>
               g.head[a].size = h.head[a].size /\ (g.head[a].c <=> h.head[a].c)
         /\ \A a \in Chunks(h) : ~ (x <= a /\ a < y) => (a = g.top <=> a = h.top)
<1>1. /\ Heads(h) \subseteq Int /\ Heads(g) \subseteq Int /\ h.top \in Int /\ h.topsize \in Int
      /\ h.head \in [Heads(h) -> TagType] /\ g.head \in [Heads(g) -> TagType]
  BY HeapFields
<1>2. x \in Int /\ y \in Int /\ z \in Int /\ x <= z /\ z < y /\ x \in Heads(h) /\ y \in Heads(h)
  BY <1>1 DEF Run, Chunks
<1>3. Mark(g) = Mark(h)
  <2>1. CASE kind = "top"
    BY <1>1, <1>2, <2>1 DEF Cut, Run, Mark
  <2>2. CASE kind # "top"
    BY <2>2 DEF Cut, SameTop, Mark
  <2> QED  BY <2>1, <2>2
<1>4. \A a : InSeg(g, a) <=> InSeg(h, a)
  BY DEF Cut, InSeg
<1>5. InSeg(h, x) /\ InSeg(h, z)
  BY DEF Run, Together, Chunks, InSeg
<1>6. x # Mark(h) /\ z # Mark(h)
  <2>1. CASE kind = "top"
    BY <1>2, <2>1 DEF Run
  <2>2. CASE kind # "top"
    BY <1>1, <1>2, <2>2 DEF Run, Mark
  <2> QED  BY <2>1, <2>2
<1>7. g.head[x].size # 0 /\ g.head[z].size # 0 /\ x \in Heads(g) /\ z \in Heads(g)
  BY <1>1, <1>2, ConstantTypes DEF Cut, Run
<1>8. x \in Chunks(g) /\ z \in Chunks(g)
  BY <1>3, <1>4, <1>5, <1>6, <1>7 DEF Chunks
<1>9. \A a \in Heads(h) : ~ (x <= a /\ a < y) =>
         a \in Heads(g) /\ g.head[a].size = h.head[a].size /\ (g.head[a].c <=> h.head[a].c)
  BY <1>1, <1>2 DEF Cut
<1>10. \A a \in Heads(g) : a # x /\ a # z => a \in Heads(h) /\ ~ (x <= a /\ a < y)
  BY <1>1 DEF Cut
<1>11. \A a : a \in Chunks(g) <=> ((a \in Chunks(h) /\ ~ (x <= a /\ a < y)) \/ a = x \/ a = z)
  BY <1>3, <1>4, <1>8, <1>9, <1>10 DEF Chunks
<1>12. \A a \in Chunks(h) : ~ (x <= a /\ a < y) => (a = g.top <=> a = h.top)
  <2>1. CASE kind = "top"
    <3>1. g.top = z /\ x <= h.top /\ h.top < y
      BY <2>1 DEF Cut, Run
    <3> QED  BY <1>1, <1>2, <2>1, <3>1
  <2>2. CASE kind # "top"
    BY <2>2 DEF Cut, SameTop
  <2> QED  BY <2>1, <2>2
<1>13. \A a \in Chunks(h) : ~ (x <= a /\ a < y) =>
               g.head[a].size = h.head[a].size /\ (g.head[a].c <=> h.head[a].c)
  BY <1>9 DEF Chunks
<1> QED  BY <1>3, <1>11, <1>12, <1>13

(* No header is strictly inside a chunk.                                   *)
LEMMA Apart ==
  ASSUME NEW h \in HeapType, Layout(h), NEW a \in Chunks(h), NEW b \in Heads(h) \cup Feet(h), a < b
  PROVE  Behind(h, a) <= b
<1>1. Heads(h) \subseteq Int /\ Feet(h) \subseteq Int /\ h.head \in [Heads(h) -> TagType]
  BY HeapFields
<1>2. a \in Int /\ b \in Int /\ Behind(h, a) \in Int
  BY <1>1 DEF Chunks, Behind, TagType
<1>3. ~ (a < b /\ b < Behind(h, a))
  BY DEF Layout, Laid
<1> QED  BY <1>2, <1>3

LEMMA CutLaid ==
  ASSUME NEW h \in HeapType, NEW g \in HeapType, Layout(h), h.topsize > 0,
         NEW x, NEW z, NEW y, NEW kind, Run(h, x, z, y, kind), Cut(h, g, x, z, y, kind),
         NEW a \in Chunks(h), ~ (x <= a /\ a < y)
  PROVE  Laid(g, a)
<1>1. /\ Heads(h) \subseteq Int /\ Heads(g) \subseteq Int /\ h.top \in Int /\ h.topsize \in Int
      /\ Feet(h) \subseteq Int /\ Feet(g) \subseteq Int
      /\ h.head \in [Heads(h) -> TagType] /\ g.head \in [Heads(g) -> TagType]
  BY HeapFields
<1>2. x \in Int /\ y \in Int /\ z \in Int /\ x <= z /\ z < y /\ x \in Heads(h) /\ y \in Heads(h)
  BY <1>1 DEF Run, Chunks
<1>3. /\ a \in Heads(h) /\ a \in Int /\ a \in Chunks(g) /\ g.head[a].size = h.head[a].size
      /\ (g.head[a].c <=> h.head[a].c) /\ (a = g.top <=> a = h.top)
  BY <1>1, CutChunks DEF Chunks
<1> DEFINE e == Behind(h, a)
<1>4. e = Behind(g, a) /\ e \in Int
  BY <1>1, <1>3 DEF Behind, TagType
<1>5. Laid(h, a)
  BY DEF Layout
<1> HIDE DEF e
<1>6. a < e /\ e \in Heads(h) /\ Together(h, a, e) /\ \A b \in Heads(h) \cup Feet(h) : ~ (a < b /\ b < e)
  BY <1>5 DEF Laid, e
<1>7. (a < x /\ e <= x) \/ y <= a
  BY <1>1, <1>2, <1>3, <1>4, <1>6
<1>8. e \in Heads(g)
  <2>1. e = x \/ ~ (x <= e /\ e < y)
    BY <1>1, <1>2, <1>3, <1>4, <1>6, <1>7
  <2> QED  BY <1>4, <1>6, <2>1 DEF Cut
<1>9. Together(g, a, e)
  BY <1>6 DEF Cut, Together
<1>10. \A b \in Heads(g) \cup Feet(g) : ~ (a < b /\ b < e)
  <2> SUFFICES ASSUME NEW b \in Heads(g) \cup Feet(g), a < b, b < e PROVE FALSE
    OBVIOUS
  <2>1. b \in Int
    BY <1>1
  <2>2. b # x /\ b # z /\ b # y
    BY <1>2, <1>3, <1>4, <1>7, <2>1
  <2>3. b \in Heads(h) \cup Feet(h)
    BY <2>1, <2>2 DEF Cut
  <2> QED  BY <1>6, <2>3
<1>11. a # g.top => e - a >= MinChunk
  BY <1>3, <1>5 DEF Laid, e
<1>12. (~ (x <= e /\ e < y) /\ e # y) \/ e = x
  BY <1>1, <1>2, <1>3, <1>4, <1>6, <1>7
<1>13. e # x => g.head[e] = h.head[e]
  BY <1>2, <1>4, <1>6, <1>12 DEF Cut
<1>14. e = x => (g.head[e].p <=> h.head[e].p) /\ (~ h.head[e].p => g.head[e].c)
  BY DEF Cut, Run
<1>15. e \notin Feet(h) => e \notin Feet(g)
  BY <1>1, <1>2, <1>4, <1>12 DEF Cut
<1>16. e \in Feet(h) => e \in Feet(g) /\ g.foot[e] = h.foot[e]
  BY <1>1, <1>2, <1>4, <1>12 DEF Cut
<1>17. a \in Useds(g) => g.head[e].p /\ e \notin Feet(g)
  <2> SUFFICES ASSUME a \in Useds(g) PROVE g.head[e].p /\ e \notin Feet(g)
    OBVIOUS
  <2>1. a \in Useds(h)
    BY <1>3 DEF Useds
  <2>2. h.head[e].p /\ e \notin Feet(h)
    BY <1>5, <2>1 DEF Laid, e
  <2> QED  BY <1>13, <1>14, <1>15, <2>2
<1>18. a \in Frees(g) => /\ g.head[a].p /\ ~ g.head[e].p /\ g.head[e].c
                          /\ e \in Feet(g) /\ g.foot[e] = e - a
  <2> SUFFICES ASSUME a \in Frees(g) PROVE /\ g.head[a].p /\ ~ g.head[e].p /\ g.head[e].c
                          /\ e \in Feet(g) /\ g.foot[e] = e - a
    OBVIOUS
  <2>1. a \in Frees(h)
    BY <1>3 DEF Frees
  <2>2. h.head[a].p /\ ~ h.head[e].p /\ h.head[e].c /\ e \in Feet(h) /\ h.foot[e] = e - a
    BY <1>5, <2>1 DEF Laid, e
  <2>3. ~ g.head[e].p /\ g.head[e].c
    BY <1>13, <1>14, <2>2
  <2>4. g.head[a].p
    <3>1. CASE a = y
      <4>1. kind = "used"
        BY <2>1, <3>1 DEF Run, Frees, Chunks
      <4> QED  BY <3>1, <4>1 DEF Cut
    <3>2. CASE a # y
      <4>1. ~ (x <= a /\ a <= y)
        BY <1>2, <1>3, <3>2
      <4> QED  BY <1>3, <2>2, <4>1 DEF Cut
    <3> QED  BY <3>1, <3>2
  <2> QED  BY <1>16, <2>2, <2>3, <2>4
<1> QED  BY <1>4, <1>6, <1>8, <1>9, <1>10, <1>11, <1>17, <1>18 DEF Laid

LEMMA CutLayout ==
  ASSUME NEW h \in HeapType, NEW g \in HeapType, Layout(h), h.topsize > 0,
         NEW x, NEW z, NEW y, NEW kind, Run(h, x, z, y, kind), Cut(h, g, x, z, y, kind)
  PROVE  Layout(g)
<1>1. /\ Heads(h) \subseteq Int /\ Heads(g) \subseteq Int /\ h.top \in Int /\ h.topsize \in Int
      /\ Feet(h) \subseteq Int /\ Feet(g) \subseteq Int /\ h.foot \in [Feet(h) -> Nat]
      /\ h.head \in [Heads(h) -> TagType] /\ g.head \in [Heads(g) -> TagType]
  BY HeapFields
<1>2. /\ x \in Int /\ y \in Int /\ z \in Int /\ x <= z /\ z < y /\ x \in Heads(h) /\ y \in Heads(h)
      /\ x \in Heads(g) /\ z \in Heads(g) /\ y \in Heads(g)
  BY <1>1 DEF Run, Chunks, Cut
<1>3. /\ \A a : a \in Chunks(g) <=> ((a \in Chunks(h) /\ ~ (x <= a /\ a < y)) \/ a = x \/ a = z)
      /\ \A a \in Chunks(h) : ~ (x <= a /\ a < y) =>
               g.head[a].size = h.head[a].size /\ (g.head[a].c <=> h.head[a].c)
      /\ \A a \in Chunks(h) : ~ (x <= a /\ a < y) => (a = g.top <=> a = h.top)
      /\ Mark(g) = Mark(h)
  BY CutChunks
<1>4. Together(g, x, y) /\ Together(g, x, z) /\ Together(g, z, y)
  BY DEF Run, Cut, Together
<1>5. \A b \in Heads(g) \cup Feet(g) : ~ (x < b /\ b < y) \/ b = z
  BY <1>1, <1>2 DEF Cut
<1>6. Behind(g, z) = y /\ (z # x => Behind(g, x) = z)
  BY <1>1, <1>2 DEF Cut, Behind
<1>7. x \notin Feet(h) => x \notin Feet(g)
  BY <1>1, <1>2 DEF Cut
<1>8. z # x => z \notin Feet(g)
  BY <1>1, <1>2 DEF Cut
<1>9. z = g.top <=> kind = "top"
  BY <1>1, <1>2 DEF Cut, Run, SameTop
<1>10. z # x => x # g.top
  BY <1>1, <1>2 DEF Cut, Run, SameTop
<1>11. ASSUME z # x PROVE Laid(g, x)
  <2>1. x \notin Frees(g)
    BY <1>11 DEF Frees, Cut
  <2>2. x # g.top => z - x >= MinChunk
    BY <1>11 DEF Run
  <2>3. g.head[z].p
    BY <1>11 DEF Cut
  <2>4. \A b \in Heads(g) \cup Feet(g) : ~ (x < b /\ b < z)
    BY <1>1, <1>2, <1>5
  <2> QED  BY <1>2, <1>4, <1>6, <1>8, <1>11, <2>1, <2>2, <2>3, <2>4 DEF Laid
<1>12. Laid(g, z)
  <2>1. z # g.top => y - z >= MinChunk
    BY <1>9 DEF Run
  <2>2. \A b \in Heads(g) \cup Feet(g) : ~ (z < b /\ b < y)
    BY <1>1, <1>2, <1>5
  <2>3. z \in Useds(g) => g.head[y].p /\ y \notin Feet(g)
    BY <1>1, <1>2 DEF Useds, Cut
  <2>4. z \in Frees(g) => /\ g.head[z].p /\ ~ g.head[y].p /\ g.head[y].c
                          /\ y \in Feet(g) /\ g.foot[y] = y - z
    <3> SUFFICES ASSUME z \in Frees(g) PROVE /\ g.head[z].p /\ ~ g.head[y].p /\ g.head[y].c
                          /\ y \in Feet(g) /\ g.foot[y] = y - z
      OBVIOUS
    <3>1. kind = "free"
      BY <1>9 DEF Frees, Cut, Run
    <3> QED  BY <1>2, <3>1 DEF Cut, Run
  <2> QED  BY <1>2, <1>4, <1>6, <2>1, <2>2, <2>3, <2>4 DEF Laid
<1>13. ASSUME NEW a \in Chunks(g) PROVE Laid(g, a)
  <2>1. CASE a = x \/ a = z
    BY <1>11, <1>12, <2>1
  <2>2. CASE a # x /\ a # z
    <3>1. a \in Chunks(h) /\ ~ (x <= a /\ a < y)
      BY <1>3, <2>2
    <3> QED  BY <3>1, CutLaid
  <2> QED  BY <2>1, <2>2
<1>14. ASSUME NEW a \in Chunks(g), ~ g.head[a].p PROVE a \in Feet(g)
  <2>0. \A b \in Chunks(h) : ~ h.head[b].p => b \in Feet(h)
    BY DEF Layout
  <2>1. CASE a = x
    <3>1. ~ h.head[x].p /\ x \in Chunks(h)
      BY <1>14, <2>1 DEF Cut, Run
    <3>2. x \in Feet(h)
      BY <2>0, <3>1
    <3> QED  BY <1>1, <1>2, <2>1, <3>2 DEF Cut
  <2>2. CASE a = z /\ a # x
    BY <1>14, <2>2 DEF Cut
  <2>3. CASE a # x /\ a # z
    <3>1. a \in Chunks(h) /\ ~ (x <= a /\ a < y) /\ a \in Heads(h) /\ a \in Int
      BY <1>1, <1>3, <2>3 DEF Chunks
    <3>2. CASE a = y
      <4>1. kind = "free"
        <5>1. kind # "used"
          BY <1>14, <3>2 DEF Cut
        <5>2. kind # "top"
          BY <3>1, <3>2 DEF Run, Chunks
        <5> QED  BY <5>1, <5>2 DEF Run
      <4> QED  BY <1>2, <3>2, <4>1 DEF Cut
    <3>3. CASE a # y
      <4>1. ~ (x <= a /\ a <= y) /\ ~ (x < a /\ a <= y)
        BY <1>2, <3>1, <3>3
      <4>2. ~ h.head[a].p
        BY <1>14, <3>1, <4>1 DEF Cut
      <4>3. a \in Feet(h)
        BY <2>0, <3>1, <4>2
      <4> QED  BY <3>1, <4>1, <4>3 DEF Cut
    <3> QED  BY <3>2, <3>3
  <2> QED  BY <2>1, <2>2, <2>3
<1>15. ASSUME NEW a \in Feet(g) PROVE FootRight(g, a)
  <2>1. CASE kind = "free" /\ a = y
    <3>1. g.foot[a] = y - z /\ a - (y - z) = z
      BY <1>2, <2>1 DEF Cut
    <3>2. z \in Frees(g)
      BY <1>3, <1>9, <2>1 DEF Frees, Cut
    <3> QED  BY <3>1, <3>2 DEF FootRight, Cut
  <2>2. CASE ~ (kind = "free" /\ a = y)
    <3>1. a \in Int /\ a \in Feet(h) /\ ~ (x < a /\ a <= y)
      BY <1>1, <2>2 DEF Cut
    <3>2. g.foot[a] = h.foot[a]
      BY <3>1 DEF Cut
    <3> DEFINE b == a - h.foot[a]
    <3>3. b \in Frees(h) /\ h.head[b].size = h.foot[a] /\ h.foot[a] \in Nat
      BY <1>1, <3>1 DEF Layout, FootRight
    <3>4. b \in Chunks(h) /\ b \in Int /\ b # h.top /\ ~ h.head[b].c /\ Behind(h, b) = a
      BY <1>1, <3>1, <3>3 DEF Frees, Chunks, Behind
    <3>5. Laid(h, b)
      BY <3>4 DEF Layout
    <3> HIDE DEF b
    <3>6. b < a /\ (\A d \in Heads(h) : ~ (b < d /\ d < a))
      BY <3>4, <3>5 DEF Laid
    <3>7. ~ (x <= b /\ b < y)
      <4> SUFFICES ASSUME x <= b, b < y PROVE FALSE
        OBVIOUS
      <4>1. y < a
        BY <1>2, <3>1, <3>4, <3>6
      <4> QED  BY <1>2, <3>4, <3>6, <4>1
    <3>8. b \in Frees(g) /\ g.head[b].size = h.head[b].size
      BY <1>3, <3>4, <3>7 DEF Frees
    <3> QED  BY <3>2, <3>3, <3>8 DEF FootRight, b
  <2> QED  BY <2>1, <2>2
<1> QED  BY <1>13, <1>14, <1>15 DEF Layout

(* Where a segment ends.                                                   *)
EndOf(seg) == seg.base + seg.size

(* The top chunk is the last of the first segment, but for TOP_FOOT.       *)
TopRight(h) ==
  /\ h.top \in Chunks(h) /\ Holds(h.segs[1], h.top) /\ h.topsize > 0
  /\ h.head[h.top].size = h.topsize /\ h.head[h.top].p /\ ~ h.head[h.top].c
  /\ Mark(h) + TopFoot = EndOf(h.segs[1])
  /\ Mark(h) \in Heads(h) /\ h.head[Mark(h)].size = TopFoot
  /\ ~ h.head[Mark(h)].p /\ ~ h.head[Mark(h)].c
  /\ \A x \in Heads(h) : Holds(h.segs[1], x) => x <= Mark(h)

(* Any other segment ends with its record and fenceposts.                  *)
RecordRight(h, i) ==
  LET r == h.segs[i].rec
      f == r + SegmentRecord
  IN  /\ r \in Useds(h) /\ h.head[r].size = SegmentRecord /\ Holds(h.segs[i], r)
      /\ r + TopFoot <= EndOf(h.segs[i]) /\ EndOf(h.segs[i]) <= r + TopFoot + 1
      /\ f \in Heads(h) /\ h.head[f] = Fencepost
      /\ \A x \in Heads(h) : Holds(h.segs[i], x) => x <= f
      /\ r # h.segs[1].rec

(* How segments end, and where the first of all has its malloc_state.      *)
Ends(h) ==
  /\ TopRight(h)
  /\ \A i \in 2 .. Len(h.segs) : RecordRight(h, i)
  /\ \A x \in Heads(h) : InSeg(h, x) /\ h.head[x].size = 0 =>
       \E i \in 2 .. Len(h.segs) : x = h.segs[i].rec + SegmentRecord
  /\ h.segs[1].rec \in Useds(h) /\ h.head[h.segs[1].rec].size = StateChunk

(* Segments are of whole pages, start with a chunk and do not overlap.     *)
SegsRight(h) ==
  /\ h.segs # <<>>
  /\ \A i \in DOMAIN h.segs :
       /\ h.segs[i].base % Page = 0 /\ h.segs[i].size % Page = 0 /\ h.segs[i].size > 0
       /\ h.segs[i].base \in Chunks(h)
  /\ \A i, j \in DOMAIN h.segs : i # j => \A x \in Int : ~ (Holds(h.segs[i], x) /\ Holds(h.segs[j], x))

(* The chunks that were mapped directly.                                   *)
Direct(h) == {a \in Heads(h) : ~ InSeg(h, a) /\ h.head[a].size # 0}

InSpan(h, a, x) == a <= x /\ x <= Behind(h, a) + 1

DirectRight(h, a) ==
  /\ ~ h.head[a].p /\ ~ h.head[a].c /\ ~ IsSmall(h.head[a].size)
  /\ a % Page = 0 /\ (h.head[a].size + 2) % Page = 0
  /\ Behind(h, a) \in Heads(h) /\ h.head[Behind(h, a)] = Fencepost
  /\ \A x \in Int : InSpan(h, a, x) =>
       ~ InSeg(h, x) /\ (x \in Heads(h) => x = a \/ x = Behind(h, a))

Covered(h, x) == InSeg(h, x) \/ \E a \in Direct(h) : InSpan(h, a, x)

(* Headers are in mapped memory, and all that is mapped is in a segment or *)
(* was mapped directly.                                                    *)
Backed(h) ==
  /\ \A x \in Heads(h) : Covered(h, x)
  /\ \A x \in Int : Covered(h, x) <=> (x >= 0 /\ x \div Page \in h.mapped)
  /\ \A x \in Int : Covered(h, x) => x < Memory

(* The chunks of segment records.                                          *)
Records(h) == {h.segs[i].rec : i \in DOMAIN h.segs}

(* A space whose memory is in order.                                       *)
Formed(h) ==
  /\ h \in HeapType /\ Layout(h) /\ Ends(h) /\ SegsRight(h)
  /\ \A a \in Direct(h) : DirectRight(h, a)
  /\ Backed(h)

LEMMA SegFields ==
  ASSUME NEW h \in HeapType, NEW i \in DOMAIN h.segs
  PROVE  h.segs[i].base \in Nat /\ h.segs[i].size \in Nat /\ h.segs[i].rec \in Int
<1>1. h.segs \in Seq(SegType)
  BY HeapFields
<1>2. h.segs[i] \in SegType
  BY <1>1
<1> QED  BY <1>2 DEF SegType

LEMMA Between ==
  ASSUME NEW h \in HeapType, SegsRight(h), NEW x \in Int, NEW y \in Int, InSeg(h, x), Together(h, x, y),
         NEW a \in Int, x <= a, a <= y
  PROVE  InSeg(h, a) /\ Together(h, x, a)
<1>1. PICK i \in DOMAIN h.segs : Holds(h.segs[i], x)
  BY DEF InSeg
<1>2. Holds(h.segs[i], y)
  BY <1>1 DEF Together
<1>3. Holds(h.segs[i], a)
  BY <1>1, <1>2, SegFields DEF Holds
<1>4. \A j \in DOMAIN h.segs : j # i => ~ Holds(h.segs[j], x) /\ ~ Holds(h.segs[j], a)
  BY <1>1, <1>3 DEF SegsRight
<1> QED  BY <1>1, <1>3, <1>4 DEF InSeg, Together

LEMMA CutFormed ==
  ASSUME NEW h, NEW g \in HeapType, Formed(h),
         NEW x, NEW z, NEW y, NEW kind, Run(h, x, z, y, kind), Cut(h, g, x, z, y, kind),
         \A r \in Records(h) : ~ (x <= r /\ r < y), g.mapped = h.mapped
  PROVE  Formed(g) /\ Direct(g) = Direct(h)
<1>0. h \in HeapType /\ Layout(h) /\ Ends(h) /\ SegsRight(h) /\ h.topsize > 0
  BY DEF Formed, Ends, TopRight
<1>1. /\ Heads(h) \subseteq Int /\ Heads(g) \subseteq Int /\ h.top \in Int /\ h.topsize \in Int
      /\ h.head \in [Heads(h) -> TagType] /\ g.head \in [Heads(g) -> TagType] /\ h.segs \in Seq(SegType)
  BY <1>0, HeapFields
<1>2. /\ x \in Int /\ y \in Int /\ z \in Int /\ x <= z /\ z < y /\ x \in Heads(h) /\ y \in Heads(h)
      /\ x \in Heads(g) /\ z \in Heads(g) /\ y \in Heads(g) /\ x \in Chunks(h)
  BY <1>1 DEF Run, Chunks, Cut
<1>3. /\ \A a : a \in Chunks(g) <=> ((a \in Chunks(h) /\ ~ (x <= a /\ a < y)) \/ a = x \/ a = z)
      /\ \A a \in Chunks(h) : ~ (x <= a /\ a < y) =>
               g.head[a].size = h.head[a].size /\ (g.head[a].c <=> h.head[a].c)
      /\ \A a \in Chunks(h) : ~ (x <= a /\ a < y) => (a = g.top <=> a = h.top)
      /\ Mark(g) = Mark(h)
  BY <1>0, CutChunks
<1>4. Layout(g)
  BY <1>0, CutLayout
<1>5. /\ g.segs = h.segs /\ (\A a : InSeg(g, a) <=> InSeg(h, a)) /\ Records(g) = Records(h)
  BY DEF Cut, InSeg, Records
<1>6. \A a \in Int : x <= a /\ a <= y => InSeg(h, a) /\ Together(h, x, a)
  <2>1. InSeg(h, x) /\ Together(h, x, y)
    BY <1>2 DEF Chunks, Run
  <2> QED  BY <1>0, <1>2, <2>1, Between
<1>7. \A a \in Heads(h) : ~ (x <= a /\ a < y) =>
        a \in Heads(g) /\ g.head[a].size = h.head[a].size /\ (a # y => g.head[a] = h.head[a])
  BY <1>1, <1>2 DEF Cut
<1>8. \A a \in Heads(g) : a # x /\ a # z => a \in Heads(h) /\ ~ (x <= a /\ a < y)
  BY <1>1 DEF Cut
<1>9. \A a \in Heads(h) : ~ InSeg(h, a) => a \in Int /\ ~ (x <= a /\ a <= y) /\ a \in Heads(g) /\ g.head[a] = h.head[a]
  BY <1>1, <1>2, <1>6, <1>7
<1>10. Direct(g) = Direct(h)
  <2>1. \A a \in Direct(h) : a \in Direct(g)
    BY <1>5, <1>9 DEF Direct
  <2>2. \A a \in Direct(g) : a \in Direct(h)
    BY <1>2, <1>5, <1>6, <1>8, <1>9 DEF Direct
  <2> QED  BY <2>1, <2>2
<1>11. \A a \in Direct(h) : Behind(g, a) = Behind(h, a)
  BY <1>9 DEF Direct, Behind
<1>12. ASSUME NEW a \in Direct(h) PROVE DirectRight(g, a)
  <2>1. DirectRight(h, a)
    BY DEF Formed
  <2>2. a \in Heads(h) /\ a \in Int /\ g.head[a] = h.head[a] /\ Behind(h, a) \in Int /\ ~ InSeg(h, Behind(h, a))
    <3>1. a \in Heads(h) /\ a \in Int /\ g.head[a] = h.head[a]
      BY <1>9 DEF Direct
    <3>2. Behind(h, a) \in Int /\ a <= Behind(h, a)
      BY <1>1, <3>1 DEF Behind, TagType
    <3>3. InSpan(h, a, Behind(h, a))
      BY <3>2 DEF InSpan
    <3> QED  BY <2>1, <3>1, <3>2, <3>3 DEF DirectRight
  <2>3. Behind(h, a) \in Heads(g) /\ g.head[Behind(h, a)] = Fencepost
    BY <1>9, <2>1, <2>2 DEF DirectRight
  <2>4. ASSUME NEW b \in Int, InSpan(g, a, b) PROVE ~ InSeg(g, b) /\ (b \in Heads(g) => b = a \/ b = Behind(g, a))
    <3>1. InSpan(h, a, b)
      BY <1>11, <2>4 DEF InSpan
    <3>2. ~ InSeg(h, b) /\ (b \in Heads(h) => b = a \/ b = Behind(h, a))
      BY <2>1, <3>1 DEF DirectRight
    <3>3. b # x /\ b # z
      BY <1>2, <1>6, <3>2
    <3> QED  BY <1>5, <1>8, <1>11, <3>2, <3>3
  <2> QED  BY <1>11, <2>1, <2>2, <2>3, <2>4 DEF DirectRight
<1>13. TopRight(h)
  BY <1>0 DEF Ends
<1>14. TopRight(g)
  <2>1. CASE kind = "top"
    <3>1. g.top = z /\ g.topsize = y - z /\ y = Mark(h) /\ x <= h.top /\ h.top < y
      BY <2>1 DEF Cut, Run
    <3>2. g.head[z].size = y - z /\ ~ g.head[z].c /\ g.head[z].p
      BY <2>1 DEF Cut, Run
    <3>3. Holds(g.segs[1], z)
      <4>1. 1 \in DOMAIN h.segs
        BY <1>0, <1>1 DEF SegsRight
      <4>2. Together(h, x, h.top) /\ Together(h, x, z)
        BY <1>1, <1>2, <1>6, <3>1
      <4> QED  BY <1>5, <1>13, <4>1, <4>2 DEF Together, TopRight
    <3>4. z \in Chunks(g) /\ y - z > 0
      BY <1>2, <1>3
    <3>5. g.head[y].size = TopFoot /\ ~ g.head[y].p /\ ~ g.head[y].c
      BY <1>13, <2>1, <3>1 DEF TopRight, Cut
    <3>6. \A a \in Heads(g) : Holds(g.segs[1], a) => a <= y
      <4> SUFFICES ASSUME NEW a \in Heads(g), Holds(g.segs[1], a) PROVE a <= y
        OBVIOUS
      <4>1. CASE a = x \/ a = z
        BY <1>2, <4>1
      <4>2. CASE a # x /\ a # z
        BY <1>5, <1>8, <1>13, <3>1, <4>2 DEF TopRight
      <4> QED  BY <4>1, <4>2
    <3> QED  BY <1>2, <1>3, <1>5, <1>13, <3>1, <3>2, <3>3, <3>4, <3>5, <3>6 DEF TopRight
  <2>2. CASE kind # "top"
    <3>1. /\ g.top = h.top /\ g.topsize = h.topsize /\ ~ (x <= h.top /\ h.top < y)
          /\ ~ (x <= Mark(h) /\ Mark(h) <= y)
      BY <2>2 DEF Cut, Run, SameTop
    <3>2. h.top \in Chunks(g) /\ g.head[h.top].size = h.topsize /\ ~ g.head[h.top].c
      BY <1>3, <1>13, <3>1 DEF TopRight
    <3>3. g.head[h.top].p
      <4>1. CASE h.top = y
        <5>1. kind = "used"
          BY <1>13, <2>2, <4>1 DEF TopRight, Run
        <5> QED  BY <4>1, <5>1 DEF Cut
      <4>2. CASE h.top # y
        BY <1>7, <1>13, <3>1, <4>2 DEF TopRight, Chunks
      <4> QED  BY <4>1, <4>2
    <3>4. Mark(h) \in Heads(g) /\ g.head[Mark(h)] = h.head[Mark(h)]
      <4>1. Mark(h) \in Heads(h) /\ Mark(h) \in Int
        BY <1>1, <1>13 DEF TopRight, Mark
      <4>2. ~ (x <= Mark(h) /\ Mark(h) <= y)
        BY <3>1
      <4> QED  BY <1>2, <1>7, <4>1, <4>2
    <3>5. ASSUME NEW a \in Heads(g), Holds(g.segs[1], a) PROVE a <= Mark(h)
      <4>1. CASE a \in Heads(h)
        BY <1>5, <1>13, <3>5, <4>1 DEF TopRight
      <4>2. CASE a \notin Heads(h)
        <5>1. a = z
          BY <1>2, <1>8, <4>2
        <5>2. Together(h, x, z) /\ Together(h, x, y) /\ 1 \in DOMAIN h.segs
          BY <1>0, <1>1 DEF Run, SegsRight
        <5>3. Holds(h.segs[1], y)
          BY <1>5, <3>5, <5>1, <5>2 DEF Together
        <5>4. y <= Mark(h)
          BY <1>2, <1>13, <5>3 DEF TopRight
        <5> QED  BY <1>1, <1>2, <5>1, <5>4 DEF Mark
      <4> QED  BY <4>1, <4>2
    <3> QED  BY <1>3, <1>5, <1>13, <3>1, <3>2, <3>3, <3>4, <3>5 DEF TopRight
  <2> QED  BY <2>1, <2>2
<1>15. ASSUME NEW r \in Records(h), NEW f \in Int, r \in Useds(h), f = Behind(h, r), f \in Heads(h), f \notin Chunks(h), f # Mark(h)
      PROVE  /\ r \in Useds(g) /\ g.head[r].size = h.head[r].size
             /\ f \in Heads(g) /\ g.head[f] = h.head[f]
  <2>1. r \in Chunks(h) /\ r \in Int /\ ~ (x <= r /\ r < y) /\ h.head[r].c /\ r # h.top
    BY <1>1, <1>15 DEF Useds, Chunks
  <2>2. r \in Useds(g) /\ g.head[r].size = h.head[r].size
    BY <1>3, <2>1 DEF Useds
  <2>3. r < f /\ f # x
    BY <1>0, <1>2, <1>15, <2>1 DEF Layout, Laid
  <2>4. f # y
    BY <1>15 DEF Run
  <2>5. r < x => f < x
    BY <1>0, <1>2, <1>15, <2>1, <2>3, Apart
  <2>6. ~ (x <= f /\ f <= y)
    BY <1>2, <2>1, <2>3, <2>4, <2>5
  <2> QED  BY <1>2, <1>7, <1>15, <2>2, <2>6
<1>16. ASSUME NEW i \in DOMAIN h.segs, NEW a \in Heads(g), Holds(h.segs[i], a), a \notin Heads(h)
      PROVE  Holds(h.segs[i], y) /\ a < y /\ a \in Int
  <2>1. a = z
    BY <1>2, <1>8, <1>16
  <2>2. Together(h, x, z) /\ Together(h, x, y)
    BY DEF Run
  <2> QED  BY <1>2, <1>16, <2>1, <2>2 DEF Together
<1>17. ASSUME NEW i \in 2 .. Len(h.segs) PROVE RecordRight(g, i)
  <2> DEFINE r == h.segs[i].rec
             f == r + SegmentRecord
  <2>0. i \in DOMAIN h.segs /\ 1 \in DOMAIN h.segs
    BY <1>1
  <2>1. RecordRight(h, i)
    BY <1>0 DEF Ends
  <2>2. r \in Records(h) /\ r \in Int /\ f \in Int /\ f \in Heads(h) /\ r \in Useds(h) /\ f = Behind(h, r)
    BY <1>0, <1>1, <2>0, <2>1, SegFields, ConstantTypes DEF Records, RecordRight, Behind
  <2>3. h.head[f] = Fencepost /\ h.head[f].size = 0 /\ h.head[f].p
    BY <2>1 DEF RecordRight, Fencepost
  <2>4. f \notin Chunks(h) /\ f # Mark(h)
    BY <1>13, <2>3, ConstantTypes DEF Chunks, TopRight
  <2> HIDE DEF r, f
  <2>5. /\ r \in Useds(g) /\ g.head[r].size = h.head[r].size
        /\ f \in Heads(g) /\ g.head[f] = h.head[f]
    BY <1>15, <2>2, <2>4
  <2>6. ASSUME NEW a \in Heads(g), Holds(h.segs[i], a) PROVE a <= f
    <3>1. CASE a \in Heads(h)
      BY <2>1, <2>6, <3>1 DEF RecordRight, r, f
    <3>2. CASE a \notin Heads(h)
      <4>1. Holds(h.segs[i], y) /\ a < y /\ a \in Int
        BY <1>16, <2>0, <2>6, <3>2
      <4>2. y <= f
        BY <1>2, <2>1, <4>1 DEF RecordRight, r, f
      <4> QED  BY <1>2, <2>2, <4>1, <4>2
    <3> QED  BY <3>1, <3>2
  <2> QED  BY <1>5, <2>1, <2>3, <2>5, <2>6 DEF RecordRight, r, f
<1>18. ASSUME NEW a \in Heads(g), InSeg(g, a), g.head[a].size = 0
      PROVE  \E i \in 2 .. Len(g.segs) : a = g.segs[i].rec + SegmentRecord
  <2>1. a # x /\ a # z
    BY <1>3, <1>18 DEF Chunks
  <2>2. a \in Heads(h) /\ h.head[a].size = 0
    BY <1>7, <1>8, <1>18, <2>1
  <2> QED  BY <1>0, <1>5, <1>18, <2>2 DEF Ends
<1>19. g.segs[1].rec \in Useds(g) /\ g.head[g.segs[1].rec].size = StateChunk
  <2>0. 1 \in DOMAIN h.segs
    BY <1>0, <1>1 DEF SegsRight
  <2>1. h.segs[1].rec \in Records(h) /\ h.segs[1].rec \in Useds(h) /\ h.head[h.segs[1].rec].size = StateChunk
    BY <1>0, <2>0 DEF Ends, Records
  <2>2. h.segs[1].rec \in Chunks(h) /\ ~ (x <= h.segs[1].rec /\ h.segs[1].rec < y)
    BY <2>1 DEF Useds
  <2> QED  BY <1>3, <1>5, <2>1, <2>2 DEF Useds
<1>20. Ends(g)
  BY <1>5, <1>14, <1>17, <1>18, <1>19 DEF Ends
<1>21. ASSUME NEW i \in DOMAIN h.segs PROVE h.segs[i].base \in Chunks(g)
  <2> DEFINE b == h.segs[i].base
  <2>1. b \in Chunks(h) /\ b \in Int /\ b \in Heads(h)
    BY <1>0, <1>1 DEF SegsRight, Chunks
  <2>2. x <= b /\ b < y => b = x
    <3> SUFFICES ASSUME x < b, b < y PROVE FALSE
      BY <1>2, <2>1
    <3>1. Together(h, x, b)
      BY <1>2, <1>6, <2>1
    <3>2. Holds(h.segs[i], b)
      BY <1>0, <2>1, SegFields DEF Holds, SegsRight
    <3>3. Holds(h.segs[i], x)
      BY <3>1, <3>2 DEF Together
    <3> QED  BY <1>2, <2>1, <3>3 DEF Holds
  <2> QED  BY <1>3, <2>1, <2>2
<1>22. SegsRight(g)
  BY <1>0, <1>5, <1>21 DEF SegsRight
<1>23. \A a : Covered(g, a) <=> Covered(h, a)
  BY <1>5, <1>10, <1>11 DEF Covered, InSpan
<1>24. Backed(g)
  <2>1. ASSUME NEW a \in Heads(g) PROVE Covered(h, a)
    <3>1. CASE a = x \/ a = z
      BY <1>2, <1>6, <3>1 DEF Covered
    <3>2. CASE a # x /\ a # z
      BY <1>8, <3>2 DEF Formed, Backed
    <3> QED  BY <3>1, <3>2
  <2> QED  BY <1>23, <2>1 DEF Formed, Backed
<1> QED  BY <1>4, <1>10, <1>12, <1>20, <1>22, <1>24 DEF Formed

-----------------------------------------------------------------------------
(* The functions that write headers.                                       *)

(* What writing headers does to the headers and feet alone.                *)
PutTags(h, g, a, tag) ==
  /\ Heads(g) = (Heads(h) \ Inside(a, tag.size)) \cup {a}
  /\ g.head[a] = tag
  /\ \A b \in Heads(h) \ (Inside(a, tag.size) \cup {a}) : g.head[b] = h.head[b]
  /\ Feet(g) = Feet(h) \ Inside(a, tag.size)
  /\ \A b \in Feet(h) \ Inside(a, tag.size) : g.foot[b] = h.foot[b]

FreeTags(h, g, a, s) ==
  /\ Heads(g) = (Heads(h) \ Inside(a, s)) \cup {a}
  /\ g.head[a] = FreeTag(s)
  /\ \A b \in Heads(h) \ (Inside(a, s) \cup {a}) : g.head[b] = h.head[b]
  /\ Feet(g) = (Feet(h) \ Inside(a, s)) \cup {a + s}
  /\ g.foot[a + s] = s
  /\ \A b \in Feet(h) \ (Inside(a, s) \cup {a + s}) : g.foot[b] = h.foot[b]

InuseTags(h, g, a, s) ==
  /\ Heads(g) = (Heads(h) \ Inside(a, s)) \cup {a}
  /\ g.head[a] = InuseTag(s)
  /\ \A b \in Heads(h) \ (Inside(a, s) \cup {a}) : g.head[b] = h.head[b]
  /\ Feet(g) = Feet(h) \ (Inside(a, s) \cup {a + s})
  /\ \A b \in Feet(h) \ (Inside(a, s) \cup {a + s}) : g.foot[b] = h.foot[b]

(* set_inuse, or set_inuse_and_pinuse if the chunk before is in use.       *)
InuseSet(h, g, a, s, bit) ==
  /\ Heads(g) = (Heads(h) \ Inside(a, s)) \cup {a, a + s}
  /\ g.head[a].size = s /\ g.head[a].c /\ (g.head[a].p <=> bit)
  /\ g.head[a + s].size = Tag(h, a + s).size /\ (g.head[a + s].c <=> Tag(h, a + s).c) /\ g.head[a + s].p
  /\ \A b \in Heads(h) \ (Inside(a, s) \cup {a, a + s}) : g.head[b] = h.head[b]
  /\ Feet(g) = Feet(h) \ (Inside(a, s) \cup {a + s})
  /\ \A b \in Feet(h) \ (Inside(a, s) \cup {a + s}) : g.foot[b] = h.foot[b]

(* The headers and feet of a cut.                                          *)
TagCut(h, g, x, z, y, kind) ==
  /\ \A a \in Int : a \in Heads(g) <=> ((a \in Heads(h) /\ ~ (x <= a /\ a < y)) \/ a = x \/ a = z)
  /\ \A a \in Heads(h) : ~ (x <= a /\ a <= y) => g.head[a] = h.head[a]
  /\ g.head[y].size = h.head[y].size /\ (g.head[y].c <=> h.head[y].c) /\ (g.head[y].p <=> kind = "used")
  /\ z # x => g.head[x].size = z - x /\ g.head[x].c /\ (g.head[x].p <=> h.head[x].p)
  /\ g.head[z].size = y - z /\ (g.head[z].c <=> kind = "used") /\ (g.head[z].p <=> (z # x \/ h.head[x].p))
  /\ \A a \in Int : a \in Feet(g) <=> ((a \in Feet(h) /\ ~ (x < a /\ a <= y)) \/ (kind = "free" /\ a = y))
  /\ \A a \in Feet(h) : ~ (x < a /\ a <= y) => g.foot[a] = h.foot[a]
  /\ kind = "free" => g.foot[y] = y - z

LEMMA CutIs ==
  ASSUME NEW h, NEW g, NEW k, NEW x, NEW z, NEW y, NEW kind, TagCut(h, g, x, z, y, kind),
         SameTags(g, k), k.segs = h.segs,
         kind = "top" => k.top = z /\ k.topsize = y - z,
         kind # "top" => SameTop(h, k)
  PROVE  Cut(h, k, x, z, y, kind)
<1>1. k.head = g.head /\ k.foot = g.foot /\ Heads(k) = Heads(g) /\ Feet(k) = Feet(g)
  BY DEF SameTags, Heads, Feet
<1>2. TagCut(h, k, x, z, y, kind)
  BY <1>1, Zenon DEF TagCut
<1> QED  BY <1>2, Zenon DEF TagCut, Cut

(* The tags of a cut depend on nothing else.                               *)
LEMMA TagCutFrom ==
  ASSUME NEW h, NEW k, NEW g, NEW x, NEW z, NEW y, NEW kind, TagCut(k, g, x, z, y, kind), SameTags(h, k)
  PROVE  TagCut(h, g, x, z, y, kind)
<1>1. k.head = h.head /\ k.foot = h.foot /\ Heads(k) = Heads(h) /\ Feet(k) = Feet(h)
  BY DEF SameTags, Heads, Feet
<1> QED  BY <1>1, Zenon DEF TagCut

LEMMA TagsFrom ==
  ASSUME NEW h \in HeapType, NEW a \in Int, NEW s \in Nat
  PROVE  /\ OnlyTags(h, PutFree(h, a, s)) /\ FreeTags(h, PutFree(h, a, s), a, s)
         /\ OnlyTags(h, PutInuse(h, a, s)) /\ InuseTags(h, PutInuse(h, a, s), a, s)
         /\ OnlyTags(h, PutTop(h, a, s)) /\ PutTags(h, PutTop(h, a, s), a, FreeTag(s))
<1>1. OnlyTags(h, PutFree(h, a, s)) /\ FreeTags(h, PutFree(h, a, s), a, s)
  <2>1. FreePut(h, PutFree(h, a, s), a, s)
    BY PutFreeIs
  <2> QED  BY <2>1, Zenon DEF FreePut, FreeTags
<1>2. OnlyTags(h, PutInuse(h, a, s)) /\ InuseTags(h, PutInuse(h, a, s), a, s)
  <2>1. InusePut(h, PutInuse(h, a, s), a, s)
    BY PutInuseIs
  <2> QED  BY <2>1, Zenon DEF InusePut, InuseTags
<1>3. OnlyTags(h, PutTop(h, a, s)) /\ PutTags(h, PutTop(h, a, s), a, FreeTag(s))
  <2>0. PutTop(h, a, s) = PutTag(h, a, FreeTag(s))
    BY DEF PutTop, FreeTag
  <2>1. TagPut(h, PutTag(h, a, FreeTag(s)), a, FreeTag(s))
    BY PutTagIs, TagsTyped
  <2> QED  BY <2>0, <2>1, Zenon DEF TagPut, PutTags
<1> QED  BY <1>1, <1>2, <1>3

LEMMA SetInuseAndPinuseIs ==
  ASSUME NEW h \in HeapType, NEW a \in Int, NEW s \in Nat, s > 0
  PROVE  OnlyTags(h, SetInuseAndPinuse(h, a, s)) /\ InuseSet(h, SetInuseAndPinuse(h, a, s), a, s, TRUE)
<1> DEFINE g == PutInuse(h, a, s)
           k == SetPinuse(g, a + s)
<1>1. OnlyTags(h, g) /\ InuseTags(h, g, a, s) /\ g \in HeapType
  BY TagsFrom DEF OnlyTags
<1>2. k = SetInuseAndPinuse(h, a, s)
  BY DEF SetInuseAndPinuse
<1> HIDE DEF g
<1>3. PinusePut(g, k, a + s, TRUE)
  <2>1. a + s \in Int
    OBVIOUS
  <2> QED  BY <1>1, <2>1, PinuseIs
<1> HIDE DEF k
<1>4. a + s \notin Inside(a, s) /\ a + s # a
  BY DEF Inside
<1>5. Tag(g, a + s) = Tag(h, a + s) /\ Tag(g, a + s) \in TagType
  <2>1. a + s \in Heads(g) <=> a + s \in Heads(h)
    BY <1>1, <1>4 DEF InuseTags
  <2>2. a + s \in Heads(h) => g.head[a + s] = h.head[a + s]
    BY <1>1, <1>4 DEF InuseTags
  <2> QED  BY <1>1, <2>1, <2>2, TagTyped DEF Tag, Heads
<1>6. OnlyTags(h, k)
  BY <1>1, <1>3, OnlyTagsTwice DEF PinusePut, HeadIs
<1>7. /\ k.head[a + s].size = Tag(h, a + s).size /\ (k.head[a + s].c <=> Tag(h, a + s).c) /\ k.head[a + s].p
  BY <1>3, <1>5 DEF PinusePut, HeadIs, TagType
<1>8. /\ Heads(k) = Heads(g) \cup {a + s} /\ k.foot = g.foot /\ Feet(k) = Feet(g)
      /\ \A b \in Heads(g) \ {a + s} : k.head[b] = g.head[b]
  BY <1>3 DEF PinusePut, HeadIs, Feet
<1>9. k.head[a] = InuseTag(s) /\ InuseTag(s).size = s /\ InuseTag(s).c /\ InuseTag(s).p
  BY <1>1, <1>4, <1>8, TagsTyped DEF InuseTags
<1>10. \A b \in Heads(h) \ (Inside(a, s) \cup {a, a + s}) : k.head[b] = h.head[b]
  BY <1>1, <1>8 DEF InuseTags
<1> QED  BY <1>1, <1>2, <1>6, <1>7, <1>8, <1>9, <1>10 DEF InuseSet, InuseTags


LEMMA SetInuseIs ==
  ASSUME NEW h \in HeapType, NEW a \in Int, NEW s \in Nat, s > 0
  PROVE  OnlyTags(h, SetInuse(h, a, s)) /\ InuseSet(h, SetInuse(h, a, s), a, s, Tag(h, a).p)
<1> DEFINE g == SetInuseAndPinuse(h, a, s)
           t == [g.head[a] EXCEPT !.p = Tag(h, a).p]
           f == [g.head EXCEPT ![a] = t]
           k == Retagged(g, f, g.foot)
<1>1. OnlyTags(h, g) /\ InuseSet(h, g, a, s, TRUE) /\ g \in HeapType
  BY SetInuseAndPinuseIs DEF OnlyTags
<1>2. SetInuse(h, a, s) = k
  <2>1. SetInuse(h, a, s) = [g EXCEPT !.head = f]
    BY DEF SetInuse
  <2> HIDE DEF g, f
  <2>2. [g EXCEPT !.head = f] = k
    BY <1>1 DEF Retagged, HeapType
  <2> QED  BY <2>1, <2>2
<1> HIDE DEF g
<1>3. /\ Heads(g) \subseteq Int /\ g.head \in [Heads(g) -> TagType] /\ g.foot \in FootMaps /\ a \in Heads(g)
  BY <1>1, HeapFields DEF HeapType, InuseSet
<1>4. Tag(h, a).p \in BOOLEAN
  BY TagTyped DEF TagType
<1>5. t \in TagType /\ t.size = g.head[a].size /\ t.c = g.head[a].c /\ t.p = Tag(h, a).p
  BY <1>3, <1>4 DEF TagType
<1> HIDE DEF t
<1>6. f \in [Heads(g) -> TagType] /\ f[a] = t /\ \A b \in Heads(g) \ {a} : f[b] = g.head[b]
  BY <1>3, <1>5
<1> HIDE DEF f
<1>7. OnlyTags(g, k) /\ k.head = f /\ k.foot = g.foot
  <2>1. f \in TagMaps
    BY <1>3, <1>6 DEF TagMaps
  <2> QED  BY <1>1, <1>3, <2>1, NewTags
<1> HIDE DEF k
<1>8. Heads(k) = Heads(g) /\ Feet(k) = Feet(g)
  BY <1>3, <1>6, <1>7 DEF Heads, Feet
<1>9. OnlyTags(h, k)
  BY <1>1, <1>7, OnlyTagsTwice
<1>10. /\ k.head[a].size = s /\ k.head[a].c /\ (k.head[a].p <=> Tag(h, a).p)
  BY <1>1, <1>5, <1>6, <1>7 DEF InuseSet
<1>11. a + s # a /\ a + s \in Heads(g)
  BY <1>1 DEF InuseSet
<1>12. k.head[a + s] = g.head[a + s]
  BY <1>6, <1>7, <1>11
<1>13. \A b \in Heads(h) \ (Inside(a, s) \cup {a, a + s}) : k.head[b] = h.head[b]
  BY <1>1, <1>6, <1>7 DEF InuseSet
<1> QED  BY <1>1, <1>2, <1>7, <1>8, <1>9, <1>10, <1>12, <1>13 DEF InuseSet

FreeSet(h, g, a, s) ==
  /\ Heads(g) = (Heads(h) \ Inside(a, s)) \cup {a, a + s}
  /\ g.head[a] = FreeTag(s)
  /\ g.head[a + s].size = Tag(h, a + s).size /\ (g.head[a + s].c <=> Tag(h, a + s).c) /\ ~ g.head[a + s].p
  /\ \A b \in Heads(h) \ (Inside(a, s) \cup {a, a + s}) : g.head[b] = h.head[b]
  /\ Feet(g) = (Feet(h) \ Inside(a, s)) \cup {a + s}
  /\ g.foot[a + s] = s
  /\ \A b \in Feet(h) \ (Inside(a, s) \cup {a + s}) : g.foot[b] = h.foot[b]

LEMMA SetFreeIs ==
  ASSUME NEW h \in HeapType, NEW a \in Int, NEW s \in Nat, s > 0
  PROVE  OnlyTags(h, SetFree(h, a, s, a + s)) /\ FreeSet(h, SetFree(h, a, s, a + s), a, s)
<1> DEFINE g == ClearPinuse(h, a + s)
           k == PutFree(g, a, s)
<1>1. PinusePut(h, g, a + s, FALSE)
  <2>1. a + s \in Int
    OBVIOUS
  <2> QED  BY <2>1, PinuseIs
<1>2. k = SetFree(h, a, s, a + s)
  BY DEF SetFree
<1>3. g \in HeapType /\ OnlyTags(h, g)
  BY <1>1 DEF PinusePut, HeadIs, OnlyTags
<1> HIDE DEF g
<1>4. OnlyTags(g, k) /\ FreeTags(g, k, a, s)
  BY <1>3, TagsFrom
<1> HIDE DEF k
<1>5. OnlyTags(h, k)
  BY <1>3, <1>4, OnlyTagsTwice
<1>6. a + s \notin Inside(a, s) /\ a + s # a
  BY DEF Inside
<1>7. Tag(h, a + s) \in TagType
  BY TagTyped
<1>8. /\ Heads(g) = Heads(h) \cup {a + s} /\ g.foot = h.foot /\ Feet(g) = Feet(h)
      /\ \A b \in Heads(h) \ {a + s} : g.head[b] = h.head[b]
      /\ g.head[a + s] = [Tag(h, a + s) EXCEPT !.p = FALSE]
  BY <1>1 DEF PinusePut, HeadIs, Feet
<1>9. k.head[a + s] = g.head[a + s]
  BY <1>4, <1>6, <1>8 DEF FreeTags
<1>10. /\ k.head[a + s].size = Tag(h, a + s).size /\ (k.head[a + s].c <=> Tag(h, a + s).c) /\ ~ k.head[a + s].p
  BY <1>7, <1>8, <1>9 DEF TagType
<1>11. \A b \in Heads(h) \ (Inside(a, s) \cup {a, a + s}) : k.head[b] = h.head[b]
  BY <1>4, <1>8 DEF FreeTags
<1>12. Heads(k) = (Heads(h) \ Inside(a, s)) \cup {a, a + s}
  BY <1>4, <1>6, <1>8 DEF FreeTags
<1> QED  BY <1>2, <1>4, <1>5, <1>8, <1>10, <1>11, <1>12 DEF FreeSet, FreeTags

(* A chunk from x to y, and a block of it from x to z before the rest.     *)
Whole(h, g, x, y) == /\ h \in HeapType /\ g \in HeapType /\ x \in Heads(h) /\ y \in Heads(h)
                     /\ x \in Int /\ y \in Int /\ x < y

LEMMA WholeCuts ==
  ASSUME NEW h, NEW g, NEW x, NEW y, Whole(h, g, x, y)
  PROVE  /\ h.head[x].p /\ FreeSet(h, g, x, y - x) => TagCut(h, g, x, x, y, "free")
         /\ h.head[x].p /\ ~ h.head[y].p /\ FreeTags(h, g, x, y - x) => TagCut(h, g, x, x, y, "free")
         /\ h.head[x].p /\ ~ h.head[y].p /\ y \notin Feet(h) /\ PutTags(h, g, x, FreeTag(y - x)) =>
              TagCut(h, g, x, x, y, "top")
         /\ InuseSet(h, g, x, y - x, h.head[x].p) => TagCut(h, g, x, x, y, "used")
<1> DEFINE s == y - x
<1>1. /\ Heads(h) \subseteq Int /\ Heads(g) \subseteq Int /\ Feet(h) \subseteq Int /\ Feet(g) \subseteq Int
      /\ x \in Int /\ y \in Int /\ x < y /\ x \in Heads(h) /\ y \in Heads(h)
      /\ s \in Nat /\ s > 0 /\ x + s = y
  BY HeapFields DEF Whole
<1>2. \A a \in Int : a \in Inside(x, s) <=> x < a /\ a < y
  BY <1>1 DEF Inside
<1>3. FreeTag(s).size = s /\ FreeTag(s).p /\ ~ FreeTag(s).c
  BY <1>1, TagsTyped
<1>4. Tag(h, x) = h.head[x] /\ Tag(h, y) = h.head[y]
  BY <1>1 DEF Tag, Heads
<1> HIDE DEF s
<1>5. ASSUME h.head[x].p, FreeSet(h, g, x, s) PROVE TagCut(h, g, x, x, y, "free")
  BY <1>1, <1>2, <1>3, <1>4, <1>5 DEF FreeSet, TagCut
<1>6. ASSUME h.head[x].p, ~ h.head[y].p, FreeTags(h, g, x, s) PROVE TagCut(h, g, x, x, y, "free")
  BY <1>1, <1>2, <1>3, <1>4, <1>6 DEF FreeTags, TagCut
<1>7. ASSUME h.head[x].p, ~ h.head[y].p, y \notin Feet(h), PutTags(h, g, x, FreeTag(s)) PROVE TagCut(h, g, x, x, y, "top")
  BY <1>1, <1>2, <1>3, <1>4, <1>7 DEF PutTags, TagCut
<1>8. ASSUME InuseSet(h, g, x, s, h.head[x].p) PROVE TagCut(h, g, x, x, y, "used")
  BY <1>1, <1>2, <1>3, <1>4, <1>8 DEF InuseSet, TagCut
<1> QED  BY <1>5, <1>6, <1>7, <1>8 DEF s

LEMMA SplitCuts ==
  ASSUME NEW h, NEW k, NEW g, NEW x, NEW z \in Int, NEW y, Whole(h, g, x, y), x < z, z < y, k \in HeapType
  PROVE  /\ h.head[x].p /\ ~ h.head[y].p /\ InuseTags(h, k, x, z - x) /\ FreeTags(k, g, z, y - z) =>
              TagCut(h, g, x, z, y, "free")
         /\ h.head[x].p /\ InuseTags(h, k, x, z - x) /\ FreeSet(k, g, z, y - z) => TagCut(h, g, x, z, y, "free")
         /\ h.head[x].p /\ ~ h.head[y].p /\ y \notin Feet(h) /\ PutTags(h, k, z, FreeTag(y - z))
              /\ InuseTags(k, g, x, z - x) => TagCut(h, g, x, z, y, "top")
         /\ h.head[x].p /\ ~ h.head[y].p /\ y \notin Feet(h) /\ InuseTags(h, k, x, z - x)
              /\ PutTags(k, g, z, FreeTag(y - z)) => TagCut(h, g, x, z, y, "top")
         /\ InuseSet(h, k, x, z - x, h.head[x].p) /\ InuseSet(k, g, z, y - z, k.head[z].p) =>
              TagCut(h, g, x, z, y, "used")
         /\ ~ h.head[y].p /\ y \notin Feet(h) /\ InuseSet(h, k, x, z - x, h.head[x].p)
              /\ PutTags(k, g, z, FreeTag(y - z)) => TagCut(h, g, x, z, y, "top")
         /\ ~ h.head[y].p /\ InuseSet(h, k, x, z - x, h.head[x].p) /\ FreeTags(k, g, z, y - z) =>
              TagCut(h, g, x, z, y, "free")
<1> DEFINE s == z - x
           t == y - z
<1>1. /\ Heads(h) \subseteq Int /\ Heads(g) \subseteq Int /\ Feet(h) \subseteq Int /\ Feet(g) \subseteq Int
      /\ Heads(k) \subseteq Int /\ Feet(k) \subseteq Int
      /\ x \in Int /\ y \in Int /\ z \in Int /\ x < z /\ z < y /\ x < y /\ x \in Heads(h) /\ y \in Heads(h)
      /\ s \in Nat /\ s > 0 /\ x + s = z /\ t \in Nat /\ t > 0 /\ z + t = y
  <2>1. /\ h \in HeapType /\ g \in HeapType /\ k \in HeapType /\ x \in Heads(h) /\ y \in Heads(h)
        /\ x \in Int /\ y \in Int /\ x < y
    BY DEF Whole
  <2>2. Heads(h) \subseteq Int /\ Heads(g) \subseteq Int /\ Feet(h) \subseteq Int /\ Feet(g) \subseteq Int
    BY <2>1, HeapFields
  <2>3. Heads(k) \subseteq Int /\ Feet(k) \subseteq Int
    BY <2>1, HeapFields
  <2> QED  BY <2>1, <2>2, <2>3
<1>2. /\ \A a \in Int : a \in Inside(x, s) <=> x < a /\ a < z
      /\ \A a \in Int : a \in Inside(z, t) <=> z < a /\ a < y
  BY <1>1 DEF Inside
<1>3. /\ FreeTag(t).size = t /\ FreeTag(t).p /\ ~ FreeTag(t).c
      /\ InuseTag(s).size = s /\ InuseTag(s).p /\ InuseTag(s).c
  BY <1>1, TagsTyped
<1>4. Tag(h, x) = h.head[x] /\ Tag(h, y) = h.head[y] /\ (y \in Heads(k) => Tag(k, y) = k.head[y])
      /\ (z \in Heads(k) => Tag(k, z) = k.head[z])
  BY <1>1 DEF Tag, Heads
<1> HIDE DEF s, t
<1>5. ASSUME h.head[x].p, ~ h.head[y].p, InuseTags(h, k, x, s), FreeTags(k, g, z, t) PROVE TagCut(h, g, x, z, y, "free")
  BY <1>1, <1>2, <1>3, <1>4, <1>5 DEF InuseTags, FreeTags, TagCut
<1>6. ASSUME h.head[x].p, InuseTags(h, k, x, s), FreeSet(k, g, z, t) PROVE TagCut(h, g, x, z, y, "free")
  BY <1>1, <1>2, <1>3, <1>4, <1>6 DEF InuseTags, FreeSet, TagCut
<1>7. ASSUME h.head[x].p, ~ h.head[y].p, y \notin Feet(h), PutTags(h, k, z, FreeTag(t)), InuseTags(k, g, x, s)
      PROVE TagCut(h, g, x, z, y, "top")
  BY <1>1, <1>2, <1>3, <1>4, <1>7 DEF InuseTags, PutTags, TagCut
<1>8. ASSUME h.head[x].p, ~ h.head[y].p, y \notin Feet(h), InuseTags(h, k, x, s), PutTags(k, g, z, FreeTag(t))
      PROVE TagCut(h, g, x, z, y, "top")
  BY <1>1, <1>2, <1>3, <1>4, <1>8 DEF InuseTags, PutTags, TagCut
<1>9. ASSUME InuseSet(h, k, x, s, h.head[x].p), InuseSet(k, g, z, t, k.head[z].p) PROVE TagCut(h, g, x, z, y, "used")
  BY <1>1, <1>2, <1>3, <1>4, <1>9 DEF InuseSet, TagCut
<1>10. ASSUME ~ h.head[y].p, y \notin Feet(h), InuseSet(h, k, x, s, h.head[x].p), PutTags(k, g, z, FreeTag(t))
      PROVE TagCut(h, g, x, z, y, "top")
  BY <1>1, <1>2, <1>3, <1>4, <1>10 DEF InuseSet, PutTags, TagCut
<1>11. ASSUME ~ h.head[y].p, InuseSet(h, k, x, s, h.head[x].p), FreeTags(k, g, z, t)
      PROVE TagCut(h, g, x, z, y, "free")
  BY <1>1, <1>2, <1>3, <1>4, <1>11 DEF InuseSet, FreeTags, TagCut
<1> QED  BY <1>5, <1>6, <1>7, <1>8, <1>9, <1>10, <1>11 DEF s, t

-----------------------------------------------------------------------------
(* Bins, victim and blocks.                                                *)

(* Where the j-th element was before the k-th was removed.                 *)
Kept(j, k) == IF j < k THEN j ELSE j + 1

LEMMA RemoveAtIs ==
  ASSUME NEW S, NEW l \in Seq(S), NEW k \in 1 .. Len(l)
  PROVE  /\ RemoveAt(l, k) \in Seq(S) /\ Len(RemoveAt(l, k)) = Len(l) - 1
         /\ \A j \in 1 .. Len(l) - 1 : RemoveAt(l, k)[j] = l[Kept(j, k)]
<1> DEFINE L == Len(l)
           A == SubSeq(l, 1, k - 1)
           B == SubSeq(l, k + 1, L)
<1>1. L \in Nat /\ k \in Nat /\ 1 <= k /\ k <= L
  BY LenProperties
<1>2. l \in [1 .. L -> S]
  BY LenProperties
<1> HIDE DEF L
<1>3. A \in Seq(S) /\ Len(A) = k - 1 /\ \A i \in 1 .. k - 1 : A[i] = l[i]
  <2>1. \A i \in 1 .. k - 1 : l[i] \in S
    BY <1>1, <1>2
  <2>2. /\ A \in Seq(S) /\ Len(A) = IF 1 <= k - 1 THEN (k - 1) - 1 + 1 ELSE 0
        /\ \A i \in 1 .. (k - 1) - 1 + 1 : A[i] = l[1 + i - 1]
    BY <1>1, <2>1, SubSeqProperties
  <2> HIDE DEF A
  <2>3. Len(A) = k - 1 /\ (k - 1) - 1 + 1 = k - 1
    BY <1>1, <2>2
  <2>4. \A i \in 1 .. k - 1 : 1 + i - 1 = i
    BY <1>1
  <2> QED  BY <2>2, <2>3, <2>4
<1>4. B \in Seq(S) /\ Len(B) = L - k /\ \A i \in 1 .. L - k : B[i] = l[k + i]
  <2>1. \A i \in k + 1 .. L : l[i] \in S
    BY <1>1, <1>2
  <2>2. /\ B \in Seq(S) /\ Len(B) = IF k + 1 <= L THEN L - (k + 1) + 1 ELSE 0
        /\ \A i \in 1 .. L - (k + 1) + 1 : B[i] = l[(k + 1) + i - 1]
    BY <1>1, <2>1, SubSeqProperties
  <2> HIDE DEF B
  <2>3. Len(B) = L - k /\ L - (k + 1) + 1 = L - k
    BY <1>1, <2>2
  <2>4. \A i \in 1 .. L - k : (k + 1) + i - 1 = k + i
    BY <1>1
  <2> QED  BY <2>2, <2>3, <2>4
<1>5. RemoveAt(l, k) = A \o B
  BY DEF RemoveAt, L
<1> HIDE DEF A, B
<1>6. /\ A \o B \in Seq(S) /\ Len(A \o B) = Len(A) + Len(B)
      /\ \A i \in 1 .. Len(A) + Len(B) : (A \o B)[i] = IF i <= Len(A) THEN A[i] ELSE B[i - Len(A)]
  BY <1>3, <1>4, ConcatProperties
<1>7. Len(A) + Len(B) = L - 1
  BY <1>1, <1>3, <1>4
<1> HIDE DEF A, B
<1>8. ASSUME NEW i \in 1 .. L - 1 PROVE (A \o B)[i] = l[Kept(i, k)]
  <2>1. (A \o B)[i] = IF i <= k - 1 THEN A[i] ELSE B[i - (k - 1)]
    BY <1>3, <1>6, <1>7
  <2>2. CASE i <= k - 1
    <3>1. i \in 1 .. k - 1 /\ Kept(i, k) = i
      BY <1>1, <2>2 DEF Kept
    <3> QED  BY <1>3, <2>1, <2>2, <3>1
  <2>3. CASE ~ (i <= k - 1)
    <3>1. i - (k - 1) \in 1 .. L - k /\ k + (i - (k - 1)) = i + 1 /\ Kept(i, k) = i + 1
      BY <1>1, <2>3 DEF Kept
    <3> QED  BY <1>4, <2>1, <2>3, <3>1
  <2> QED  BY <2>2, <2>3
<1> QED  BY <1>5, <1>6, <1>7, <1>8 DEF A, B, L

In(l, e) == \E i \in DOMAIN l : l[i] = e

Once(l) == \A i, j \in DOMAIN l : l[i] = l[j] => i = j

(* Without one of its elements a sequence keeps the others.                *)
LEMMA WithoutOne ==
  ASSUME NEW S, NEW l \in Seq(S), Once(l), NEW p, In(l, p)
  PROVE  LET n == RemoveAt(l, CHOOSE i \in DOMAIN l : l[i] = p)
         IN  /\ n \in Seq(S) /\ Once(n) /\ Len(n) = Len(l) - 1 /\ \A e : In(n, e) <=> In(l, e) /\ e # p
<1> DEFINE k == CHOOSE i \in DOMAIN l : l[i] = p
           n == RemoveAt(l, k)
<1>1. k \in DOMAIN l /\ l[k] = p
  BY DEF In
<1> HIDE DEF k, n
<1>2. Len(l) \in Nat /\ DOMAIN l = 1 .. Len(l)
  BY LenProperties
<1> USE DEF n
<1>3. /\ n \in Seq(S) /\ Len(n) = Len(l) - 1 /\ \A j \in 1 .. Len(l) - 1 : n[j] = l[Kept(j, k)]
  BY <1>1, <1>2, RemoveAtIs, Zenon
<1> HIDE DEF n
<1>4. DOMAIN n = 1 .. Len(l) - 1
  BY <1>3, LenProperties
<1>5. \A j \in DOMAIN n : Kept(j, k) \in DOMAIN l /\ Kept(j, k) # k /\ n[j] = l[Kept(j, k)]
  BY <1>1, <1>2, <1>3, <1>4 DEF Kept
<1>6. \A i, j \in DOMAIN n : Kept(i, k) = Kept(j, k) => i = j
  BY <1>1, <1>2, <1>4 DEF Kept
<1>7. \A i \in DOMAIN l : i # k => \E j \in DOMAIN n : Kept(j, k) = i
  <2> SUFFICES ASSUME NEW i \in DOMAIN l, i # k PROVE \E j \in DOMAIN n : Kept(j, k) = i
    OBVIOUS
  <2>1. CASE i < k
    BY <1>1, <1>2, <1>4, <2>1 DEF Kept
  <2>2. CASE i > k
    <3>1. i - 1 \in DOMAIN n /\ Kept(i - 1, k) = i
      BY <1>1, <1>2, <1>4, <2>2 DEF Kept
    <3> QED  BY <3>1
  <2> QED  BY <1>1, <1>2, <2>1, <2>2
<1>8. Once(n)
  BY <1>5, <1>6 DEF Once
<1>9. \A e : In(n, e) <=> In(l, e) /\ e # p
  <2>1. ASSUME NEW e, In(n, e) PROVE In(l, e) /\ e # p
    BY <1>1, <1>5, <2>1 DEF In, Once
  <2>2. ASSUME NEW e, In(l, e), e # p PROVE In(n, e)
    BY <1>1, <1>5, <1>7, <2>2 DEF In
  <2> QED  BY <2>1, <2>2
<1> QED  BY <1>3, <1>8, <1>9, Zenon DEF n, k

LEMMA WithOneMore ==
  ASSUME NEW S, NEW l \in Seq(S), Once(l), NEW p \in S, ~ In(l, p)
  PROVE  /\ Append(l, p) \in Seq(S) /\ Once(Append(l, p)) /\ \A e : In(Append(l, p), e) <=> In(l, e) \/ e = p
         /\ <<p>> \o l \in Seq(S) /\ Once(<<p>> \o l) /\ \A e : In(<<p>> \o l, e) <=> In(l, e) \/ e = p
<1>1. Len(l) \in Nat /\ DOMAIN l = 1 .. Len(l)
  BY LenProperties
<1>2. /\ Append(l, p) \in Seq(S) /\ Once(Append(l, p)) /\ \A e : In(Append(l, p), e) <=> In(l, e) \/ e = p
  <2> DEFINE n == Append(l, p)
  <2>1. n \in Seq(S) /\ Len(n) = Len(l) + 1 /\ (\A i \in 1 .. Len(l) : n[i] = l[i]) /\ n[Len(l) + 1] = p
    BY AppendProperties
  <2> HIDE DEF n
  <2>2. DOMAIN n = 1 .. Len(l) + 1
    BY <2>1, LenProperties
  <2>3. \A e : In(n, e) <=> In(l, e) \/ e = p
    BY <1>1, <2>1, <2>2 DEF In
  <2>4. Once(n)
    BY <1>1, <2>1, <2>2 DEF In, Once
  <2> QED  BY <2>1, <2>3, <2>4 DEF n
<1>3. /\ <<p>> \o l \in Seq(S) /\ Once(<<p>> \o l) /\ \A e : In(<<p>> \o l, e) <=> In(l, e) \/ e = p
  <2> DEFINE o == <<p>>
             n == o \o l
  <2>1. o \in Seq(S) /\ Len(o) = 1 /\ o[1] = p
    OBVIOUS
  <2> HIDE DEF o
  <2>9. /\ n \in Seq(S) /\ Len(n) = Len(o) + Len(l)
        /\ \A i \in 1 .. Len(o) + Len(l) : n[i] = IF i <= Len(o) THEN o[i] ELSE l[i - Len(o)]
    BY <2>1, ConcatProperties
  <2> HIDE DEF n
  <2>2. n \in Seq(S) /\ Len(n) = 1 + Len(l) /\ \A i \in 1 .. 1 + Len(l) : n[i] = IF i <= 1 THEN o[i] ELSE l[i - 1]
    BY <1>1, <2>1, <2>9
  <2>3. DOMAIN n = 1 .. 1 + Len(l)
    BY <2>2, LenProperties
  <2>4. 1 \in DOMAIN n /\ n[1] = p /\ \A i \in DOMAIN n : i # 1 => i - 1 \in DOMAIN l /\ n[i] = l[i - 1]
    BY <1>1, <2>1, <2>2, <2>3
  <2>5. \A i \in DOMAIN l : i + 1 \in DOMAIN n /\ n[i + 1] = l[i]
    BY <1>1, <2>2, <2>3
  <2>6. \A e : In(n, e) <=> In(l, e) \/ e = p
    BY <2>4, <2>5 DEF In
  <2>7. Once(n)
    BY <1>1, <2>3, <2>4 DEF In, Once
  <2> QED  BY <2>2, <2>6, <2>7 DEF n, o
<1> QED  BY <1>2, <1>3

Sizes == MinChunk .. Memory

(* The bins and the victim of k hold the free chunks of h, but for X.      *)
Shelved(h, k, X) ==
  /\ \A s \in Sizes : /\ Once(k.bins[s])
                      /\ \A a : In(k.bins[s], a) <=> (a \in Frees(h) \ X /\ h.head[a].size = s /\ a # k.dv)
  /\ X \subseteq Frees(h)
  /\ k.dvsize = 0 => k.dv = NoMem
  /\ k.dvsize # 0 => k.dv \in Frees(h) \ X /\ h.head[k.dv].size = k.dvsize

OnlyShelf(h, g) == g \in HeapType /\ SameTags(h, g) /\ SameTop(h, g) /\ SameMap(h, g) /\ SameTimes(h, g)

LEMMA FreeSizes ==
  ASSUME NEW h, Formed(h), NEW p \in Frees(h)
  PROVE  p \in Nat /\ p # NoMem /\ h.head[p].size \in Sizes /\ p \in Heads(h) /\ p \in Chunks(h)
<1>1. h \in HeapType /\ Layout(h) /\ Backed(h)
  BY DEF Formed
<1>2. p \in Chunks(h) /\ p # h.top /\ p \in Heads(h)
  BY DEF Frees, Chunks
<1>3. p \in Int /\ h.head[p].size \in Nat /\ Heads(h) \subseteq Int
  BY <1>1, <1>2, HeapFields DEF TagType
<1>4. Behind(h, p) \in Heads(h) /\ Behind(h, p) - p >= MinChunk
  BY <1>1, <1>2 DEF Layout, Laid
<1>5. p >= 0 /\ Behind(h, p) >= 0 /\ Behind(h, p) < Memory
  BY <1>1, <1>2, <1>3, <1>4 DEF Backed
<1>6. Memory \in Nat /\ Behind(h, p) = p + h.head[p].size
  BY MallocAssumption DEF Behind
<1>7. h.head[p].size \in Sizes
  BY <1>3, <1>4, <1>5, <1>6, ConstantTypes DEF Sizes
<1> QED  BY <1>2, <1>3, <1>5, <1>7 DEF NoMem

Rebinned(h, b) == [h EXCEPT !.bins = b]

LEMMA NewBins ==
  ASSUME NEW k \in HeapType, NEW b \in [Sizes -> Seq(Int)]
  PROVE  /\ OnlyShelf(k, Rebinned(k, b)) /\ Rebinned(k, b).bins = b
         /\ Rebinned(k, b).dv = k.dv /\ Rebinned(k, b).dvsize = k.dvsize
BY DEF Rebinned, HeapType, OnlyShelf, SameTags, SameTop, SameMap, SameTimes, Sizes

(* The bins of size s have l instead of what they had.                     *)
BinPut(k, g, s, l) ==
  /\ OnlyShelf(k, g) /\ g.dv = k.dv /\ g.dvsize = k.dvsize
  /\ g.bins[s] = l /\ \A t \in Sizes : t # s => g.bins[t] = k.bins[t]

LEMMA BinPutIs ==
  ASSUME NEW k \in HeapType, NEW s \in Sizes, NEW l \in Seq(Int)
  PROVE  BinPut(k, Rebinned(k, [k.bins EXCEPT ![s] = l]), s, l)
<1> DEFINE b == [k.bins EXCEPT ![s] = l]
<1>1. k.bins \in [Sizes -> Seq(Int)]
  BY HeapFields DEF Sizes
<1>2. b \in [Sizes -> Seq(Int)] /\ b[s] = l /\ \A t \in Sizes : t # s => b[t] = k.bins[t]
  BY <1>1
<1> HIDE DEF b
<1>3. /\ OnlyShelf(k, Rebinned(k, b)) /\ Rebinned(k, b).bins = b
      /\ Rebinned(k, b).dv = k.dv /\ Rebinned(k, b).dvsize = k.dvsize
  BY <1>2, NewBins
<1>4. BinPut(k, Rebinned(k, b), s, l)
  BY <1>2, <1>3, Zenon DEF BinPut
<1> QED  BY <1>4 DEF b

LEMMA InsertIs ==
  ASSUME NEW h, NEW k \in HeapType, Formed(h), NEW X, Shelved(h, k, X), NEW p \in X
  PROVE  LET g == Insert(k, p, h.head[p].size)
         IN  OnlyShelf(k, g) /\ Shelved(h, g, X \ {p}) /\ g.dv = k.dv /\ g.dvsize = k.dvsize
<1> DEFINE s == h.head[p].size
           l == k.bins[s]
           n == IF IsSmall(s) THEN <<p>> \o l ELSE Append(l, p)
           g == Rebinned(k, [k.bins EXCEPT ![s] = n])
<1>1. p \in Frees(h) /\ p \in Int /\ p # NoMem /\ s \in Sizes
  BY FreeSizes DEF Shelved
<1>2. p # k.dv
  BY <1>1 DEF Shelved
<1>3. Insert(k, p, s) = g
  BY DEF Insert, Inserted, Rebinned
<1> HIDE DEF s
<1>4. l \in Seq(Int)
  BY <1>1, HeapFields DEF Sizes
<1>5. Once(l) /\ (\A a : In(l, a) <=> (a \in Frees(h) \ X /\ h.head[a].size = s /\ a # k.dv))
  BY <1>1 DEF Shelved
<1> HIDE DEF l
<1>6. n \in Seq(Int) /\ Once(n) /\ \A a : In(n, a) <=> In(l, a) \/ a = p
  <2>1. ~ In(l, p)
    BY <1>5
  <2> QED  BY <1>1, <1>4, <1>5, <2>1, WithOneMore
<1> HIDE DEF n
<1>7. BinPut(k, g, s, n)
  BY <1>1, <1>6, BinPutIs
<1> HIDE DEF g
<1>8. \A a : In(n, a) <=> (a \in Frees(h) \ (X \ {p}) /\ h.head[a].size = s /\ a # g.dv)
  BY <1>1, <1>2, <1>5, <1>6, <1>7 DEF BinPut, s
<1>9. ASSUME NEW t \in Sizes
      PROVE  Once(g.bins[t]) /\ \A a : In(g.bins[t], a) <=> (a \in Frees(h) \ (X \ {p}) /\ h.head[a].size = t /\ a # g.dv)
  <2>1. CASE t = s
    BY <1>6, <1>7, <1>8, <2>1 DEF BinPut
  <2>2. CASE t # s
    <3>1. g.bins[t] = k.bins[t] /\ g.dv = k.dv
      BY <1>7, <2>2 DEF BinPut
    <3>2. Once(k.bins[t]) /\ (\A a : In(k.bins[t], a) <=> (a \in Frees(h) \ X /\ h.head[a].size = t /\ a # k.dv))
      BY DEF Shelved
    <3> QED  BY <2>2, <3>1, <3>2 DEF s
  <2> QED  BY <2>1, <2>2
<1>10. OnlyShelf(k, g) /\ g.dv = k.dv /\ g.dvsize = k.dvsize
  BY <1>7 DEF BinPut
<1>11. Shelved(h, g, X \ {p})
  BY <1>1, <1>2, <1>9, <1>10 DEF Shelved
<1> QED  BY <1>3, <1>10, <1>11 DEF s

LEMMA UnlinkIs ==
  ASSUME NEW h, NEW k \in HeapType, Formed(h), NEW X, Shelved(h, k, X), NEW p \in Frees(h) \ X, p # k.dv
  PROVE  LET g == Unlink(k, p, h.head[p].size)
         IN  OnlyShelf(k, g) /\ Shelved(h, g, X \cup {p}) /\ g.dv = k.dv /\ g.dvsize = k.dvsize
<1> DEFINE s == h.head[p].size
           l == k.bins[s]
           n == RemoveAt(l, CHOOSE i \in DOMAIN l : l[i] = p)
           g == Rebinned(k, [k.bins EXCEPT ![s] = n])
<1>1. p \in Frees(h) /\ p \in Int /\ p # NoMem /\ s \in Sizes
  BY FreeSizes
<1>3. Unlink(k, p, s) = g
  BY DEF Unlink, Unlinked, Rebinned
<1> HIDE DEF s
<1>4. l \in Seq(Int)
  BY <1>1, HeapFields DEF Sizes
<1>5. Once(l) /\ (\A a : In(l, a) <=> (a \in Frees(h) \ X /\ h.head[a].size = s /\ a # k.dv))
  BY <1>1 DEF Shelved
<1> HIDE DEF l
<1>6. n \in Seq(Int) /\ Once(n) /\ \A a : In(n, a) <=> In(l, a) /\ a # p
  <2>1. In(l, p)
    BY <1>1, <1>5 DEF s
  <2> QED  BY <1>1, <1>4, <1>5, <2>1, WithoutOne
<1> HIDE DEF n
<1>7. BinPut(k, g, s, n)
  BY <1>1, <1>6, BinPutIs
<1> HIDE DEF g
<1>8. \A a : In(n, a) <=> (a \in Frees(h) \ (X \cup {p}) /\ h.head[a].size = s /\ a # g.dv)
  BY <1>1, <1>5, <1>6, <1>7 DEF BinPut, s
<1>9. ASSUME NEW t \in Sizes
      PROVE  Once(g.bins[t]) /\ \A a : In(g.bins[t], a) <=> (a \in Frees(h) \ (X \cup {p}) /\ h.head[a].size = t /\ a # g.dv)
  <2>1. CASE t = s
    BY <1>6, <1>7, <1>8, <2>1 DEF BinPut
  <2>2. CASE t # s
    <3>1. g.bins[t] = k.bins[t] /\ g.dv = k.dv
      BY <1>7, <2>2 DEF BinPut
    <3>2. Once(k.bins[t]) /\ (\A a : In(k.bins[t], a) <=> (a \in Frees(h) \ X /\ h.head[a].size = t /\ a # k.dv))
      BY DEF Shelved
    <3> QED  BY <2>2, <3>1, <3>2 DEF s
  <2> QED  BY <2>1, <2>2
<1>10. OnlyShelf(k, g) /\ g.dv = k.dv /\ g.dvsize = k.dvsize
  BY <1>7 DEF BinPut
<1>11. Shelved(h, g, X \cup {p})
  BY <1>1, <1>9, <1>10 DEF Shelved
<1> QED  BY <1>3, <1>10, <1>11 DEF s

LEMMA NoVictim ==
  ASSUME NEW h, Formed(h), NEW k, NEW g, NEW X, Shelved(h, k, X), k.dvsize # 0,
         g.bins = k.bins, g.dv = NoMem, g.dvsize = 0
  PROVE  Shelved(h, g, X \cup {k.dv})
<1>1. k.dv \in Frees(h) \ X /\ NoMem \notin Frees(h)
  BY FreeSizes DEF Shelved
<1>2. ASSUME NEW s \in Sizes
      PROVE  Once(g.bins[s]) /\ \A a : In(g.bins[s], a) <=> (a \in Frees(h) \ (X \cup {k.dv}) /\ h.head[a].size = s /\ a # g.dv)
  BY <1>1 DEF Shelved
<1> QED  BY <1>1, <1>2 DEF Shelved

LEMMA NewVictim ==
  ASSUME NEW h, Formed(h), NEW k, NEW g, NEW X, Shelved(h, k, X), k.dvsize = 0, NEW p \in X,
         g.bins = k.bins, g.dv = p, g.dvsize = h.head[p].size
  PROVE  Shelved(h, g, X \ {p})
<1>1. p \in Frees(h) /\ NoMem \notin Frees(h) /\ h.head[p].size # 0 /\ k.dv = NoMem
  BY FreeSizes, ConstantTypes DEF Shelved, Sizes
<1>2. ASSUME NEW s \in Sizes
      PROVE  Once(g.bins[s]) /\ \A a : In(g.bins[s], a) <=> (a \in Frees(h) \ (X \ {p}) /\ h.head[a].size = s /\ a # g.dv)
  BY <1>1 DEF Shelved
<1> QED  BY <1>1, <1>2 DEF Shelved

LEMMA SameShelved ==
  ASSUME NEW h, NEW k, NEW g, NEW X, Shelved(h, k, X), SameShelf(k, g)
  PROVE  Shelved(h, g, X)
BY Zenon DEF Shelved, SameShelf

Victim(k, p, s) == [k EXCEPT !.dv = p, !.dvsize = s]

LEMMA VictimFields ==
  ASSUME NEW k \in HeapType, NEW p \in Int, NEW s \in Int
  PROVE  /\ OnlyShelf(k, Victim(k, p, s)) /\ Victim(k, p, s).bins = k.bins
         /\ Victim(k, p, s).dv = p /\ Victim(k, p, s).dvsize = s
BY DEF Victim, HeapType, OnlyShelf, SameTags, SameTop, SameMap, SameTimes

LEMMA NoDvFields ==
  ASSUME NEW k \in HeapType
  PROVE  OnlyShelf(k, NoDv(k)) /\ NoDv(k).bins = k.bins /\ NoDv(k).dv = NoMem /\ NoDv(k).dvsize = 0
<1>1. NoDv(k) = Victim(k, NoMem, 0)
  BY DEF NoDv, Victim
<1> QED  BY <1>1, VictimFields DEF NoMem

LEMMA ShelfTwice ==
  ASSUME NEW h, NEW g, NEW k, OnlyShelf(h, g), OnlyShelf(g, k)
  PROVE  OnlyShelf(h, k)
BY DEF OnlyShelf, SameTags, SameTop, SameMap, SameTimes

LEMMA ReplaceDvIs ==
  ASSUME NEW h, NEW k \in HeapType, Formed(h), NEW X, Shelved(h, k, X), NEW p \in X
  PROVE  LET g == ReplaceDv(k, p, h.head[p].size) IN OnlyShelf(k, g) /\ Shelved(h, g, X \ {p})
<1> DEFINE s == h.head[p].size
           i == IF k.dvsize # 0 THEN Insert(k, k.dv, k.dvsize) ELSE k
           g == Victim(i, p, s)
           e == NoDv(i)
<1>1. p \in Int /\ s \in Int
  BY FreeSizes DEF Shelved, Sizes
<1>2. ReplaceDv(k, p, s) = g
  BY DEF ReplaceDv, Victim
<1>3. i \in HeapType /\ OnlyShelf(k, i) /\ Shelved(h, e, X)
  <2>1. CASE k.dvsize = 0
    <3>1. i = k /\ e = NoDv(k)
      BY <2>1
    <3>2. SameShelf(k, NoDv(k))
      BY <2>1, NoDvFields DEF SameShelf, Shelved
    <3> QED  BY <3>1, <3>2, SameShelved DEF OnlyShelf, SameTags, SameTop, SameMap, SameTimes
  <2>2. CASE k.dvsize # 0
    <3> DEFINE n == NoDv(k)
               v == k.dv
               j == Insert(n, v, h.head[v].size)
    <3>1. n \in HeapType /\ n.bins = k.bins /\ n.dv = NoMem /\ n.dvsize = 0
      BY NoDvFields DEF OnlyShelf
    <3> HIDE DEF n
    <3>2. Shelved(h, n, X \cup {v})
      BY <2>2, <3>1, NoVictim
    <3>3. OnlyShelf(n, j) /\ Shelved(h, j, (X \cup {v}) \ {v}) /\ j.dv = NoMem /\ j.dvsize = 0
      BY <3>1, <3>2, InsertIs
    <3>4. (X \cup {v}) \ {v} = X /\ v \in Frees(h) /\ h.head[v].size = k.dvsize
      BY <2>2 DEF Shelved
    <3>5. i = Insert(k, v, h.head[v].size)
      BY <2>2, <3>4
    <3>6. j.bins = Insert(k, v, h.head[v].size).bins
      BY <3>1 DEF Insert, HeapType
    <3>7. i \in HeapType /\ OnlyShelf(k, i)
      <4> DEFINE l == k.bins[k.dvsize]
                 m0 == IF IsSmall(k.dvsize) THEN <<v>> \o l ELSE Append(l, v)
                 b == [k.bins EXCEPT ![k.dvsize] = m0]
      <4>1. v \in Int /\ k.dvsize \in Sizes
        BY <3>4, FreeSizes
      <4>2. k.bins \in [Sizes -> Seq(Int)] /\ l \in Seq(Int)
        BY <4>1, HeapFields DEF Sizes
      <4> HIDE DEF l
      <4>3. m0 \in Seq(Int)
        BY <4>1, <4>2
      <4> HIDE DEF m0
      <4>4. b \in [Sizes -> Seq(Int)]
        BY <4>1, <4>2, <4>3
      <4>5. i = Rebinned(k, b)
        BY <2>2 DEF Insert, Inserted, Rebinned, m0, l
      <4> HIDE DEF b, i
      <4>6. OnlyShelf(k, Rebinned(k, b))
        BY <4>4, NewBins
      <4> QED  BY <4>5, <4>6 DEF OnlyShelf
    <3>8. SameShelf(j, e)
      <4>1. e.bins = i.bins /\ e.dv = NoMem /\ e.dvsize = 0
        BY <3>7, NoDvFields
      <4> QED  BY <3>3, <3>5, <3>6, <4>1 DEF SameShelf
    <3> QED  BY <3>3, <3>4, <3>7, <3>8, SameShelved
  <2> QED  BY <2>1, <2>2
<1> HIDE DEF i
<1>4. OnlyShelf(i, g) /\ g.bins = i.bins /\ g.dv = p /\ g.dvsize = s
  BY <1>1, <1>3, VictimFields
<1>5. e.bins = i.bins /\ e.dv = NoMem /\ e.dvsize = 0
  BY <1>3, NoDvFields
<1> HIDE DEF g, e
<1>6. Shelved(h, g, X \ {p})
  BY <1>3, <1>4, <1>5, NewVictim DEF s
<1>7. OnlyShelf(k, g)
  BY <1>3, <1>4, ShelfTwice
<1> QED  BY <1>2, <1>6, <1>7 DEF s

(* The chunks in use belong to the blocks of U and to the segments.        *)
Held(h, U) ==
  /\ U \cap Records(h) = {}
  /\ U \subseteq Useds(h) \cup Direct(h)
  /\ Useds(h) \subseteq U \cup Records(h)

Counted(h) == IsFiniteSet(h.mapped) /\ h.footprint = Page * Cardinality(h.mapped)

(* What is between x and y.                                                *)
Amid(x, y) == {a \in Int : x <= a /\ a < y}

Keeps(h, g, U) == \A a \in U : g.head[a].size = h.head[a].size /\ (a \in Direct(g) <=> a \in Direct(h))

Cutting(h, g, x, z, y, kind) ==
  /\ g \in HeapType /\ Formed(h) /\ Run(h, x, z, y, kind) /\ Cut(h, g, x, z, y, kind)
  /\ \A r \in Records(h) : ~ (x <= r /\ r < y)
  /\ g.mapped = h.mapped

LEMMA CutKinds ==
  ASSUME NEW h, NEW g, NEW x, NEW z, NEW y, NEW kind, Cutting(h, g, x, z, y, kind)
  PROVE  /\ Frees(g) = (Frees(h) \ Amid(x, y)) \cup (IF kind = "free" THEN {z} ELSE {})
         /\ Useds(g) = (Useds(h) \ Amid(x, y)) \cup (IF kind = "used" THEN {z} ELSE {}) \cup (IF z # x THEN {x} ELSE {})
         /\ \A a \in Chunks(h) \ Amid(x, y) : g.head[a].size = h.head[a].size
         /\ z \in Int /\ g.head[z].size = y - z /\ Records(g) = Records(h) /\ Direct(g) = Direct(h) /\ Formed(g)
         /\ \A a \in Direct(h) : a \notin Amid(x, y) /\ g.head[a] = h.head[a]
<1>0. h \in HeapType /\ Layout(h) /\ h.topsize > 0 /\ g \in HeapType /\ Run(h, x, z, y, kind) /\ Cut(h, g, x, z, y, kind)
      /\ SegsRight(h)
  BY DEF Cutting, Formed, Ends, TopRight
<1>1. /\ Heads(h) \subseteq Int /\ Heads(g) \subseteq Int /\ h.top \in Int /\ h.topsize \in Int
      /\ h.head \in [Heads(h) -> TagType] /\ g.head \in [Heads(g) -> TagType]
  BY <1>0, HeapFields
<1>2. /\ x \in Int /\ y \in Int /\ z \in Int /\ x <= z /\ z < y /\ x \in Heads(h) /\ y \in Heads(h)
      /\ x \in Chunks(h) /\ InSeg(h, x) /\ Together(h, x, y)
  BY <1>0, <1>1 DEF Run, Chunks
<1>3. /\ \A a : a \in Chunks(g) <=> ((a \in Chunks(h) /\ ~ (x <= a /\ a < y)) \/ a = x \/ a = z)
      /\ \A a \in Chunks(h) : ~ (x <= a /\ a < y) =>
               g.head[a].size = h.head[a].size /\ (g.head[a].c <=> h.head[a].c)
      /\ \A a \in Chunks(h) : ~ (x <= a /\ a < y) => (a = g.top <=> a = h.top)
  BY <1>0, CutChunks
<1>4. z = g.top <=> kind = "top"
  BY <1>0, <1>1, <1>2 DEF Cut, Run, SameTop
<1>5. z # x => x # g.top
  BY <1>0, <1>1, <1>2 DEF Cut, Run, SameTop
<1>6. \A a \in Chunks(h) : a \in Amid(x, y) <=> x <= a /\ a < y
  BY <1>1 DEF Amid, Chunks
<1>7. g.head[z].size = y - z /\ (g.head[z].c <=> kind = "used") /\ (z # x => g.head[x].c) /\ kind \in {"used", "free", "top"}
  BY <1>0 DEF Cut, Run
<1>8. x \in Amid(x, y) /\ z \in Amid(x, y)
  BY <1>2 DEF Amid
<1>9. \A a : a \in Frees(g) <=> (a \in Frees(h) /\ a \notin Amid(x, y)) \/ (kind = "free" /\ a = z)
  BY <1>3, <1>4, <1>5, <1>6, <1>7, <1>8 DEF Frees
<1>10. \A a : a \in Useds(g) <=> (a \in Useds(h) /\ a \notin Amid(x, y)) \/ (kind = "used" /\ a = z) \/ (z # x /\ a = x)
  BY <1>3, <1>4, <1>5, <1>6, <1>7, <1>8 DEF Useds
<1>11. \A a \in Chunks(h) \ Amid(x, y) : g.head[a].size = h.head[a].size
  BY <1>3, <1>6
<1>12. Formed(g) /\ Direct(g) = Direct(h)
  <2>1. (\A r \in Records(h) : ~ (x <= r /\ r < y)) /\ g.mapped = h.mapped /\ Formed(h)
    BY DEF Cutting
  <2> QED  BY <1>0, <2>1, CutFormed
<1>13. Records(g) = Records(h)
  BY <1>0 DEF Cut, Records
<1>14. ASSUME NEW a \in Direct(h) PROVE a \notin Amid(x, y) /\ g.head[a] = h.head[a]
  <2>1. a \in Int /\ a \in Heads(h) /\ ~ InSeg(h, a)
    BY <1>1 DEF Direct
  <2>2. ~ (x <= a /\ a <= y)
    BY <1>0, <1>2, <2>1, Between
  <2> QED  BY <1>0, <1>2, <2>1, <2>2 DEF Cut, Amid
<1>15. Frees(g) = (Frees(h) \ Amid(x, y)) \cup (IF kind = "free" THEN {z} ELSE {})
  BY <1>9
<1>16. Useds(g) = (Useds(h) \ Amid(x, y)) \cup (IF kind = "used" THEN {z} ELSE {}) \cup (IF z # x THEN {x} ELSE {})
  BY <1>10
<1> QED  BY <1>2, <1>7, <1>11, <1>12, <1>13, <1>14, <1>15, <1>16

LEMMA CutShelved ==
  ASSUME NEW h, NEW g, NEW x, NEW z, NEW y, NEW kind, Cutting(h, g, x, z, y, kind),
         NEW k, NEW X, Shelved(h, k, X), Frees(h) \cap Amid(x, y) \subseteq X
  PROVE  Shelved(g, k, (X \ Amid(x, y)) \cup (IF kind = "free" THEN {z} ELSE {}))
<1> DEFINE Y == (X \ Amid(x, y)) \cup (IF kind = "free" THEN {z} ELSE {})
<1>1. /\ Frees(g) = (Frees(h) \ Amid(x, y)) \cup (IF kind = "free" THEN {z} ELSE {})
      /\ \A a \in Chunks(h) \ Amid(x, y) : g.head[a].size = h.head[a].size
  BY CutKinds
<1>2. Frees(g) \ Y = Frees(h) \ X
  <2>1. kind = "free" => z \in Amid(x, y)
    <3>1. h \in HeapType /\ Run(h, x, z, y, kind)
      BY DEF Cutting, Formed
    <3>2. Heads(h) \subseteq Int
      BY <3>1, HeapFields
    <3> QED  BY <3>1, <3>2 DEF Run, Amid, Chunks
  <2> QED  BY <1>1, <2>1
<1>3. \A a \in Frees(h) \ X : g.head[a].size = h.head[a].size
  BY <1>1 DEF Frees
<1>4. Y \subseteq Frees(g)
  BY <1>1 DEF Shelved
<1> HIDE DEF Y
<1>5. \A s \in Sizes : Once(k.bins[s]) /\ (\A a : In(k.bins[s], a) <=> (a \in Frees(h) \ X /\ h.head[a].size = s /\ a # k.dv))
  BY DEF Shelved
<1>6. k.dvsize = 0 => k.dv = NoMem
  BY DEF Shelved
<1>7. k.dvsize # 0 => k.dv \in Frees(h) \ X /\ h.head[k.dv].size = k.dvsize
  BY DEF Shelved
<1>8. \A s \in Sizes : Once(k.bins[s]) /\ (\A a : In(k.bins[s], a) <=> (a \in Frees(g) \ Y /\ g.head[a].size = s /\ a # k.dv))
  BY <1>2, <1>3, <1>5
<1>9. k.dvsize # 0 => k.dv \in Frees(g) \ Y /\ g.head[k.dv].size = k.dvsize
  BY <1>2, <1>3, <1>7
<1>10. Shelved(g, k, Y)
  BY <1>4, <1>6, <1>8, <1>9 DEF Shelved
<1> QED  BY <1>10 DEF Y

LEMMA CutHeld ==
  ASSUME NEW h, NEW g, NEW x, NEW z, NEW y, NEW kind, Cutting(h, g, x, z, y, kind), NEW U, Held(h, U)
  PROVE  /\ Held(g, (U \ Amid(x, y)) \cup (IF kind = "used" THEN {z} ELSE {}) \cup (IF z # x THEN {x} ELSE {}))
         /\ Keeps(h, g, U \ Amid(x, y))
<1> DEFINE N == (IF kind = "used" THEN {z} ELSE {}) \cup (IF z # x THEN {x} ELSE {})
<1>1. /\ Useds(g) = (Useds(h) \ Amid(x, y)) \cup (IF kind = "used" THEN {z} ELSE {}) \cup (IF z # x THEN {x} ELSE {})
      /\ \A a \in Chunks(h) \ Amid(x, y) : g.head[a].size = h.head[a].size
      /\ Records(g) = Records(h) /\ Direct(g) = Direct(h)
      /\ \A a \in Direct(h) : a \notin Amid(x, y) /\ g.head[a] = h.head[a]
  BY CutKinds
<1>2. x \in Amid(x, y) /\ z \in Amid(x, y)
  <2>1. h \in HeapType /\ Run(h, x, z, y, kind)
    BY DEF Cutting, Formed
  <2>2. Heads(h) \subseteq Int
    BY <2>1, HeapFields
  <2> QED  BY <2>1, <2>2 DEF Run, Amid, Chunks
<1>3. Records(h) \cap Amid(x, y) = {}
  BY DEF Cutting, Amid
<1>4. Useds(g) = (Useds(h) \ Amid(x, y)) \cup N /\ N \cap Records(h) = {}
  BY <1>1, <1>2, <1>3
<1> HIDE DEF N
<1>5. Held(g, (U \ Amid(x, y)) \cup N)
  BY <1>1, <1>4 DEF Held
<1>6. Keeps(h, g, U \ Amid(x, y))
  <2> SUFFICES ASSUME NEW a \in U \ Amid(x, y) PROVE g.head[a].size = h.head[a].size /\ (a \in Direct(g) <=> a \in Direct(h))
    BY DEF Keeps
  <2>1. a \in Direct(h) \/ a \in Chunks(h)
    BY DEF Held, Useds
  <2> QED  BY <1>1, <2>1
<1>7. (U \ Amid(x, y)) \cup N = (U \ Amid(x, y)) \cup (IF kind = "used" THEN {z} ELSE {}) \cup (IF z # x THEN {x} ELSE {})
  BY DEF N
<1> QED  BY <1>5, <1>6, <1>7

-----------------------------------------------------------------------------
(* The neighbours of a chunk.                                              *)

LEMMA HeapTypes ==
  ASSUME NEW h, Formed(h)
  PROVE  /\ h \in HeapType /\ Layout(h) /\ Ends(h) /\ TopRight(h) /\ SegsRight(h) /\ h.topsize > 0
         /\ Heads(h) \subseteq Int /\ Feet(h) \subseteq Int /\ h.top \in Int /\ h.topsize \in Int
         /\ h.head \in [Heads(h) -> TagType] /\ h.foot \in [Feet(h) -> Nat] /\ h.segs \in Seq(SegType)
         /\ DOMAIN h.segs = 1 .. Len(h.segs) /\ 1 \in DOMAIN h.segs /\ Len(h.segs) \in Nat
<1>1. h \in HeapType /\ Layout(h) /\ Ends(h) /\ TopRight(h) /\ SegsRight(h) /\ h.topsize > 0
  BY DEF Formed, Ends, TopRight
<1>2. /\ Heads(h) \subseteq Int /\ Feet(h) \subseteq Int /\ h.top \in Int /\ h.topsize \in Int
      /\ h.head \in [Heads(h) -> TagType] /\ h.foot \in [Feet(h) -> Nat] /\ h.segs \in Seq(SegType)
  BY <1>1, HeapFields
<1>3. DOMAIN h.segs = 1 .. Len(h.segs) /\ 1 \in DOMAIN h.segs /\ Len(h.segs) \in Nat
  BY <1>1, <1>2 DEF SegsRight
<1> QED  BY <1>1, <1>2, <1>3

LEMMA RecordsUsed ==
  ASSUME NEW h, Formed(h), NEW r \in Records(h)
  PROVE  r \in Useds(h)
<1>1. PICK i \in DOMAIN h.segs : r = h.segs[i].rec
  BY DEF Records
<1>2. i = 1 \/ i \in 2 .. Len(h.segs)
  BY <1>1, HeapTypes
<1> QED  BY <1>1, <1>2, HeapTypes DEF Ends, RecordRight

LEMMA ChunkIs ==
  ASSUME NEW h, Formed(h), NEW a \in Chunks(h)
  PROVE  /\ a \in Int /\ a \in Heads(h) /\ h.head[a] \in TagType /\ h.head[a].size > 0
         /\ Behind(h, a) \in Int /\ Behind(h, a) \in Heads(h) /\ a < Behind(h, a)
         /\ Behind(h, a) = a + h.head[a].size /\ h.head[a].size = Behind(h, a) - a
         /\ Together(h, a, Behind(h, a)) /\ InSeg(h, a) /\ a # Mark(h)
         /\ \A b \in Heads(h) \cup Feet(h) : ~ (a < b /\ b < Behind(h, a))
         /\ a # h.top => h.head[a].size >= MinChunk
         /\ Tag(h, a) = h.head[a]
<1>1. a \in Heads(h) /\ a \in Int /\ h.head[a] \in TagType /\ h.head[a].size # 0 /\ InSeg(h, a) /\ a # Mark(h)
  BY HeapTypes DEF Chunks
<1>2. h.head[a].size \in Nat
  BY <1>1 DEF TagType
<1>3. Laid(h, a)
  BY HeapTypes DEF Layout
<1>4. Behind(h, a) = a + h.head[a].size
  BY DEF Behind
<1>5. Tag(h, a) = h.head[a]
  BY <1>1 DEF Tag, Heads
<1> HIDE DEF Behind
<1>6. Behind(h, a) \in Int /\ h.head[a].size = Behind(h, a) - a /\ h.head[a].size > 0
  BY <1>1, <1>2, <1>4
<1> QED  BY <1>1, <1>3, <1>4, <1>5, <1>6 DEF Laid

(* Behind a chunk that is no record is another one, never the overhead of  *)
(* the top chunk, or a fencepost.                                          *)
LEMMA NextChunk ==
  ASSUME NEW h, Formed(h), NEW a \in Chunks(h), a # h.top, a \notin Records(h)
  PROVE  /\ Behind(h, a) \in Chunks(h)
         /\ ~ (a <= h.top /\ h.top < Behind(h, a)) /\ ~ (a <= Mark(h) /\ Mark(h) <= Behind(h, a))
         /\ Heads(h) \cap Amid(a, Behind(h, a)) = {a}
<1> DEFINE e == Behind(h, a)
<1>1. /\ a \in Int /\ a \in Heads(h) /\ e \in Int /\ e \in Heads(h) /\ a < e /\ Together(h, a, e) /\ InSeg(h, a)
      /\ a # Mark(h) /\ \A b \in Heads(h) \cup Feet(h) : ~ (a < b /\ b < e)
  BY ChunkIs
<1>2. h.top \in Chunks(h) /\ h.top \in Heads(h) /\ h.top \in Int /\ h.topsize > 0 /\ h.topsize \in Int
      /\ Mark(h) = Behind(h, h.top) /\ Mark(h) \in Heads(h) /\ Mark(h) \in Int /\ h.top < Mark(h) /\ h \in HeapType /\ Layout(h)
  BY HeapTypes, ConstantTypes DEF TopRight, Behind, Mark, Chunks
<1> HIDE DEF e
<1>3. e # Mark(h)
  <2>1. a < h.top => e <= h.top
    BY <1>1, <1>2, Apart DEF e
  <2>2. h.top < a => Mark(h) <= a
    BY <1>1, <1>2, Apart
  <2> QED  BY <1>1, <1>2, <2>1, <2>2
<1>4. h.head[e].size # 0
  <2> SUFFICES ASSUME h.head[e].size = 0 PROVE FALSE
    OBVIOUS
  <2>1. InSeg(h, e)
    BY <1>1 DEF InSeg, Together
  <2>2. PICK i \in 2 .. Len(h.segs) : e = h.segs[i].rec + SegmentRecord
    BY <1>1, <2>1, HeapTypes DEF Ends
  <2> DEFINE r == h.segs[i].rec
  <2>3. RecordRight(h, i) /\ i \in DOMAIN h.segs
    BY HeapTypes DEF Ends
  <2>4. r \in Chunks(h) /\ h.head[r].size = SegmentRecord /\ r \in Records(h)
    BY <2>3 DEF RecordRight, Useds, Records
  <2> HIDE DEF r
  <2>5. r \in Int /\ Behind(h, r) = e /\ r < e /\ r \in Heads(h)
    BY <2>2, <2>4, ChunkIs, ConstantTypes, SMTT(30) DEF r
  <2>6. a < r => e <= r
    BY <1>1, <1>2, <2>5, Apart DEF e
  <2>7. r < a => e <= a
    BY <1>1, <1>2, <2>4, <2>5, Apart
  <2> QED  BY <1>1, <2>4, <2>5, <2>6, <2>7
<1>5. e \in Chunks(h)
  <2>1. InSeg(h, e)
    BY <1>1 DEF InSeg, Together
  <2> QED  BY <1>1, <1>3, <1>4, <2>1 DEF Chunks
<1>6. ~ (a <= h.top /\ h.top < e) /\ ~ (a <= Mark(h) /\ Mark(h) <= e)
  BY <1>1, <1>2, <1>3
<1>7. Heads(h) \cap Amid(a, e) = {a}
  BY <1>1 DEF Amid
<1> QED  BY <1>5, <1>6, <1>7 DEF e

LEMMA TopIs ==
  ASSUME NEW h, Formed(h)
  PROVE  /\ h.top \in Chunks(h) /\ h.top \in Int /\ h.top < Mark(h) /\ Mark(h) \in Heads(h) /\ Mark(h) \in Int
         /\ Mark(h) = h.top + h.topsize /\ h.topsize = Mark(h) - h.top /\ h.topsize \in Nat
         /\ h.head[h.top].p /\ ~ h.head[h.top].c /\ h.head[h.top].size = h.topsize
         /\ ~ h.head[Mark(h)].p /\ Mark(h) \notin Feet(h) /\ Together(h, h.top, Mark(h))
         /\ Heads(h) \cap Amid(h.top, Mark(h)) = {h.top} /\ h.top \notin Records(h) /\ Behind(h, h.top) = Mark(h)
<1>1. /\ h.top \in Chunks(h) /\ h.top \in Heads(h) /\ h.top \in Int /\ h.topsize > 0 /\ h.topsize \in Int
      /\ Mark(h) = Behind(h, h.top) /\ Mark(h) \in Heads(h) /\ Mark(h) \in Int /\ h.top < Mark(h)
      /\ h.head[h.top].p /\ ~ h.head[h.top].c /\ h.head[h.top].size = h.topsize /\ ~ h.head[Mark(h)].p
  BY HeapTypes, ConstantTypes DEF TopRight, Behind, Mark, Chunks
<1>2. Mark(h) = h.top + h.topsize
  BY DEF Mark
<1>3. /\ Together(h, h.top, Mark(h)) /\ \A b \in Heads(h) \cup Feet(h) : ~ (h.top < b /\ b < Mark(h))
  BY <1>1, ChunkIs
<1> HIDE DEF Mark
<1>4. Heads(h) \cap Amid(h.top, Mark(h)) = {h.top}
  BY <1>1, <1>3 DEF Amid
<1>5. h.top \notin Records(h)
  BY RecordsUsed DEF Useds
<1>6. Mark(h) \notin Feet(h)
  <2> SUFFICES ASSUME Mark(h) \in Feet(h) PROVE FALSE
    OBVIOUS
  <2> DEFINE b == Mark(h) - h.foot[Mark(h)]
  <2>1. b \in Frees(h) /\ h.head[b].size = h.foot[Mark(h)] /\ h.foot[Mark(h)] \in Nat
    BY HeapTypes DEF Layout, FootRight
  <2>2. b \in Chunks(h) /\ b # h.top /\ b \notin Records(h)
    BY <2>1, RecordsUsed DEF Frees, Useds
  <2>3. Behind(h, b) = Mark(h)
    BY <1>1, <2>1 DEF Behind
  <2>4. b <= Mark(h)
    BY <1>1, <2>1
  <2> QED  BY <1>1, <2>2, <2>3, <2>4, NextChunk DEF Chunks
<1>7. h.topsize = Mark(h) - h.top /\ h.topsize \in Nat
  BY <1>1, <1>2
<1> QED  BY <1>1, <1>2, <1>3, <1>4, <1>5, <1>6, <1>7

LEMMA FreeIs ==
  ASSUME NEW h, Formed(h), NEW f \in Frees(h)
  PROVE  /\ f \in Chunks(h) /\ f # h.top /\ f \notin Records(h) /\ h.head[f].p /\ ~ h.head[f].c
         /\ Behind(h, f) \in Useds(h) /\ h.head[Behind(h, f)].c /\ ~ h.head[Behind(h, f)].p
         /\ Behind(h, f) \in Feet(h) /\ h.foot[Behind(h, f)] = Behind(h, f) - f
<1>1. f \in Chunks(h) /\ f # h.top /\ ~ h.head[f].c
  BY DEF Frees
<1>2. f \notin Records(h)
  BY <1>1, RecordsUsed DEF Useds
<1>3. Behind(h, f) \in Chunks(h)
  BY <1>1, <1>2, NextChunk
<1>4. /\ h.head[f].p /\ ~ h.head[Behind(h, f)].p /\ h.head[Behind(h, f)].c
      /\ Behind(h, f) \in Feet(h) /\ h.foot[Behind(h, f)] = Behind(h, f) - f
  BY <1>1, HeapTypes DEF Layout, Laid
<1>5. Behind(h, f) \in Useds(h)
  BY <1>3, <1>4, TopIs DEF Useds
<1> QED  BY <1>1, <1>2, <1>4, <1>5

(* Where the free chunk before p starts, if there is one.                  *)
Start(h, p) == IF h.head[p].p THEN p ELSE p - h.foot[p]

(* The chunks of a stretch of memory behind q.                             *)
Stretch(h, q, e, C) ==
  /\ q \in Chunks(h) /\ q \in Int /\ e \in Int /\ q < e /\ Together(h, q, e) /\ C \subseteq Chunks(h)
  /\ Heads(h) \cap Amid(q, e) = C
  /\ ~ (q <= h.top /\ h.top < e) /\ ~ (q <= Mark(h) /\ Mark(h) <= e)
  /\ C \cap Records(h) = {}

LEMMA OneStretch ==
  ASSUME NEW h, Formed(h), NEW a \in Chunks(h), a # h.top, a \notin Records(h)
  PROVE  Stretch(h, a, Behind(h, a), {a})
<1>1. /\ a \in Int /\ Behind(h, a) \in Int /\ a < Behind(h, a) /\ Together(h, a, Behind(h, a))
  BY ChunkIs
<1>2. /\ ~ (a <= h.top /\ h.top < Behind(h, a)) /\ ~ (a <= Mark(h) /\ Mark(h) <= Behind(h, a))
      /\ Heads(h) \cap Amid(a, Behind(h, a)) = {a}
  BY NextChunk
<1> QED  BY <1>1, <1>2 DEF Stretch

LEMMA StretchOn ==
  ASSUME NEW h, Formed(h), NEW q, NEW e, NEW C, Stretch(h, q, e, C), e \in Chunks(h), e # h.top, e \notin Records(h)
  PROVE  Stretch(h, q, Behind(h, e), C \cup {e})
<1> DEFINE y == Behind(h, e)
<1>1. Stretch(h, e, y, {e})
  BY OneStretch
<1> HIDE DEF y
<1>2. q \in Int /\ e \in Int /\ y \in Int /\ q < e /\ e < y /\ h.top \in Int /\ Mark(h) \in Int
  BY <1>1, TopIs DEF Stretch
<1>3. Amid(q, y) = Amid(q, e) \cup Amid(e, y)
  BY <1>2 DEF Amid
<1>4. Together(h, q, y)
  BY <1>1 DEF Stretch, Together
<1>5. Heads(h) \cap Amid(q, y) = C \cup {e}
  BY <1>1, <1>3 DEF Stretch
<1>6. ~ (q <= h.top /\ h.top < y) /\ ~ (q <= Mark(h) /\ Mark(h) <= y)
  BY <1>1, <1>2 DEF Stretch
<1>7. C \cup {e} \subseteq Chunks(h) /\ (C \cup {e}) \cap Records(h) = {}
  BY DEF Stretch
<1>8. q < y /\ q \in Chunks(h)
  BY <1>2 DEF Stretch
<1>9. Stretch(h, q, y, C \cup {e})
  BY <1>2, <1>4, <1>5, <1>6, <1>7, <1>8 DEF Stretch
<1> QED  BY <1>9 DEF y

LEMMA BeforeIs ==
  ASSUME NEW h, Formed(h), NEW p \in Chunks(h), ~ h.head[p].p
  PROVE  /\ p \in Feet(h) /\ Foot(h, p) = h.foot[p] /\ h.foot[p] \in Nat
         /\ p - h.foot[p] \in Frees(h) /\ h.head[p - h.foot[p]].size = h.foot[p] /\ Behind(h, p - h.foot[p]) = p
<1>1. p \in Feet(h) /\ p \in Int
  BY HeapTypes, ChunkIs DEF Layout
<1>2. FootRight(h, p) /\ h.foot[p] \in Nat
  BY <1>1, HeapTypes DEF Layout
<1>3. Foot(h, p) = h.foot[p]
  BY <1>1 DEF Foot, Feet
<1> QED  BY <1>1, <1>2, <1>3 DEF FootRight, Behind

LEMMA AroundIs ==
  ASSUME NEW h, NEW p, Formed(h), p \in Useds(h) \ Records(h)
  PROVE  /\ Behind(h, p) = p + h.head[p].size /\ Tag(h, p) = h.head[p] /\ Behind(h, p) \in Chunks(h)
         /\ h.head[Behind(h, p)].p /\ Tag(h, Behind(h, p)) = h.head[Behind(h, p)]
         /\ (h.head[p].p => Start(h, p) = p)
         /\ (~ h.head[p].p => Start(h, p) # p)
<1>1. p \in Chunks(h) /\ p # h.top /\ h.head[p].c /\ p \notin Records(h)
  BY DEF Useds
<1>2. Behind(h, p) = p + h.head[p].size /\ Tag(h, p) = h.head[p]
  BY <1>1, ChunkIs
<1>3. Behind(h, p) \in Chunks(h)
  BY <1>1, NextChunk
<1>4. h.head[Behind(h, p)].p /\ Tag(h, Behind(h, p)) = h.head[Behind(h, p)]
  <2>1. Laid(h, p)
    BY <1>1, HeapTypes DEF Layout
  <2> QED  BY <1>1, <1>3, <2>1, ChunkIs DEF Laid
<1>5. h.head[p].p => Start(h, p) = p
  BY DEF Start
<1>6. ~ h.head[p].p => Start(h, p) # p
  <2> SUFFICES ASSUME ~ h.head[p].p PROVE Start(h, p) # p
    OBVIOUS
  <2> DEFINE q == p - h.foot[p]
  <2>1. Start(h, p) = q
    BY DEF Start
  <2>2. q \in Frees(h) /\ Behind(h, q) = p
    BY <1>1, BeforeIs
  <2>3. q \in Chunks(h) /\ q # h.top
    BY <2>2, FreeIs
  <2>4. q < p
    BY <2>2, <2>3, ChunkIs
  <2>5. q \in Int /\ p \in Int
    BY <1>1, <2>3, ChunkIs
  <2> HIDE DEF q
  <2> QED  BY <2>1, <2>4, <2>5
<1> QED  BY <1>1, <1>2, <1>3, <1>4, <1>5, <1>6

LEMMA Around ==
  ASSUME NEW h, Formed(h), NEW p \in Useds(h) \ Records(h)
  PROVE  LET e == Behind(h, p)
             q == Start(h, p)
         IN  /\ p \in Chunks(h) /\ p # h.top /\ p \in Int /\ q \in Int /\ e \in Int /\ p < e /\ q <= p
             /\ e = p + h.head[p].size /\ Tag(h, p) = h.head[p]
             /\ e \in Chunks(h) /\ h.head[e].p /\ Tag(h, e) = h.head[e] /\ h.head[q].p /\ q \in Heads(h) /\ e \in Heads(h)
             /\ Stretch(h, q, e, {q, p})
             /\ (q # p => q \in Frees(h))
             /\ (h.head[p].p => q = p)
             /\ (~ h.head[p].p => q # p /\ Foot(h, p) = p - q /\ h.head[q].size = p - q /\ p - Foot(h, p) = q)
<1> DEFINE e == Behind(h, p)
           q == Start(h, p)
<1>1. p \in Chunks(h) /\ p # h.top /\ h.head[p].c /\ p \notin Records(h)
  BY DEF Useds
<1>2. p \in Int /\ e \in Int /\ p < e /\ e = p + h.head[p].size /\ Tag(h, p) = h.head[p] /\ p \in Heads(h)
  BY <1>1, ChunkIs
<1>3. e \in Chunks(h)
  BY <1>1, NextChunk
<1>4. h.head[e].p /\ Tag(h, e) = h.head[e] /\ e \in Heads(h)
  <2>1. Laid(h, p)
    BY <1>1, HeapTypes DEF Layout
  <2> QED  BY <1>3, <2>1, ChunkIs DEF Laid
<1>5. CASE h.head[p].p
  <2>1. q = p
    BY <1>5 DEF Start
  <2>2. Stretch(h, q, e, {q, p})
    <3>1. Stretch(h, p, e, {p}) /\ {p} = {p, p}
      BY <1>1, OneStretch
    <3> QED  BY <2>1, <3>1
  <2> QED  BY <1>1, <1>2, <1>3, <1>4, <1>5, <2>1, <2>2
<1>6. CASE ~ h.head[p].p
  <2>1. q = p - h.foot[p]
    BY <1>6 DEF Start
  <2>2. Foot(h, p) = h.foot[p] /\ h.foot[p] \in Nat /\ q \in Frees(h) /\ h.head[q].size = h.foot[p] /\ Behind(h, q) = p
    BY <1>1, <1>6, <2>1, BeforeIs
  <2>3. q \in Chunks(h) /\ q # h.top /\ q \notin Records(h) /\ h.head[q].p
    BY <2>2, FreeIs
  <2>4. q \in Int /\ q < p /\ q \in Heads(h)
    BY <2>2, <2>3, ChunkIs
  <2>5. Stretch(h, q, p, {q})
    BY <2>2, <2>3, OneStretch
  <2>6. Stretch(h, q, e, {q} \cup {p})
    BY <1>1, <2>5, StretchOn
  <2>7. Stretch(h, q, e, {q, p})
    <3>1. {q} \cup {p} = {q, p}
      OBVIOUS
    <3> QED  BY <2>6, <3>1
  <2>8. p - q = h.foot[p] /\ p - Foot(h, p) = q
    BY <1>2, <2>1, <2>2
  <2> QED  BY <1>1, <1>2, <1>3, <1>4, <1>6, <2>2, <2>3, <2>4, <2>7, <2>8
<1> QED  BY <1>5, <1>6

LEMMA StretchCutting ==
  ASSUME NEW h, NEW g \in HeapType, Formed(h), NEW x, NEW z \in Int, NEW y \in Chunks(h), NEW C, Stretch(h, x, y, C),
         NEW kind \in {"used", "free"}, x <= z, z < y, z # x => z - x >= MinChunk, y - z >= MinChunk,
         kind = "free" => h.head[y].c /\ (z = x => h.head[x].p),
         Cut(h, g, x, z, y, kind), g.mapped = h.mapped
  PROVE  Cutting(h, g, x, z, y, kind)
<1>1. x \in Int /\ y \in Int /\ x \in Chunks(h) /\ x \in Heads(h) /\ y \in Heads(h) /\ InSeg(h, x) /\ h \in HeapType /\ SegsRight(h)
  BY ChunkIs, HeapTypes DEF Stretch
<1>2. Together(h, x, z)
  BY <1>1, Between DEF Stretch
<1>3. Run(h, x, z, y, kind)
  BY <1>1, <1>2 DEF Run, Stretch
<1>4. \A r \in Records(h) : ~ (x <= r /\ r < y)
  <2> SUFFICES ASSUME NEW r \in Records(h), x <= r, r < y PROVE FALSE
    OBVIOUS
  <2>1. r \in Heads(h) /\ r \in Int
    BY RecordsUsed, ChunkIs DEF Useds
  <2>2. r \in Heads(h) \cap Amid(x, y)
    BY <2>1 DEF Amid
  <2> QED  BY <2>2 DEF Stretch
<1> QED  BY <1>3, <1>4 DEF Cutting

(* The same up to the end of the top chunk.                                *)
LEMMA TopCutting ==
  ASSUME NEW h, NEW g \in HeapType, Formed(h), NEW x \in Int, NEW z \in Int, NEW C,
         x = h.top \/ Stretch(h, x, h.top, C),
         x <= z, z < Mark(h), z # x => z - x >= MinChunk, z = x => h.head[x].p,
         Cut(h, g, x, z, Mark(h), "top"), g.mapped = h.mapped
  PROVE  Cutting(h, g, x, z, Mark(h), "top")
<1> DEFINE y == Mark(h)
<1>1. y \in Int /\ y \in Heads(h) /\ h.top \in Int /\ h.top < y /\ h.top \in Chunks(h) /\ Together(h, h.top, y)
      /\ Heads(h) \cap Amid(h.top, y) = {h.top} /\ h.top \notin Records(h) /\ h \in HeapType /\ SegsRight(h)
  BY TopIs, HeapTypes
<1> HIDE DEF y
<1>2. x \in Chunks(h) /\ x <= h.top /\ Together(h, x, y) /\ InSeg(h, x)
  <2>1. CASE x = h.top
    BY <1>1, <2>1 DEF Chunks
  <2>2. CASE Stretch(h, x, h.top, C)
    BY <1>1, <2>2 DEF Stretch, Together, Chunks
  <2> QED  BY <2>1, <2>2
<1>3. Together(h, x, z)
  BY <1>1, <1>2, Between DEF y
<1>4. Run(h, x, z, y, "top")
  BY <1>1, <1>2, <1>3 DEF Run, y
<1>5. \A r \in Records(h) : ~ (x <= r /\ r < y)
  <2> SUFFICES ASSUME NEW r \in Records(h), x <= r, r < y PROVE FALSE
    OBVIOUS
  <2>1. r \in Heads(h) /\ r \in Int
    BY RecordsUsed, ChunkIs DEF Useds
  <2>2. r < h.top
    <3>1. ~ (h.top <= r /\ r < y)
      <4> SUFFICES ASSUME h.top <= r PROVE FALSE
        OBVIOUS
      <4>1. r \in Heads(h) \cap Amid(h.top, y)
        BY <2>1 DEF Amid
      <4> QED  BY <1>1, <4>1
    <3> QED  BY <1>1, <2>1, <3>1
  <2>3. Stretch(h, x, h.top, C)
    BY <2>1, <2>2, <1>1
  <2>4. r \in Heads(h) \cap Amid(x, h.top)
    BY <2>1, <2>2 DEF Amid
  <2> QED  BY <2>3, <2>4 DEF Stretch
<1> QED  BY <1>4, <1>5 DEF Cutting, y

LEMMA MergeHeld ==
  ASSUME NEW h, NEW g, NEW q, NEW y, NEW kind, Cutting(h, g, q, q, y, kind), kind # "used", NEW U, Held(h, U),
         NEW p, Useds(h) \cap Amid(q, y) = {p}
  PROVE  Held(g, U \ {p}) /\ Keeps(h, g, U \ {p})
<1>1. Held(g, (U \ Amid(q, y)) \cup {} \cup {}) /\ Keeps(h, g, U \ Amid(q, y))
  BY CutHeld
<1>2. \A a \in Direct(h) : a \notin Amid(q, y)
  BY CutKinds
<1>3. U \ Amid(q, y) = U \ {p}
  <2>1. p \in Useds(h) /\ p \notin Direct(h) /\ p \in Amid(q, y)
    BY <1>2
  <2> QED  BY <1>2, <2>1 DEF Held
<1> QED  BY <1>1, <1>3

SetTop(k, t, s) == [k EXCEPT !.top = t, !.topsize = s]

OnlyTop(h, g) == g \in HeapType /\ SameTags(h, g) /\ SameShelf(h, g) /\ SameMap(h, g) /\ SameTimes(h, g)

LEMMA SetTopFields ==
  ASSUME NEW k \in HeapType, NEW t \in Int, NEW s \in Int
  PROVE  OnlyTop(k, SetTop(k, t, s)) /\ SetTop(k, t, s).top = t /\ SetTop(k, t, s).topsize = s
BY DEF SetTop, HeapType, OnlyTop, SameTags, SameShelf, SameMap, SameTimes

(* The chunk p, and a free one before it, becomes free.                    *)
LEMMA MergeUsed ==
  ASSUME NEW h, Formed(h), NEW p \in Useds(h) \ Records(h), h.head[Behind(h, p)].c,
         NEW g, OnlyShelf(h, g), NEW r \in HeapType,
         SameTags(SetFree(g, Start(h, p), Behind(h, p) - Start(h, p), Behind(h, p)), r), SameTop(h, r), SameMap(h, r)
  PROVE  Cutting(h, r, Start(h, p), Start(h, p), Behind(h, p), "free")
<1> DEFINE q == Start(h, p)
           e == Behind(h, p)
           s == e - q
           k == SetFree(g, q, s, e)
<1>1. /\ p \in Int /\ q \in Int /\ e \in Int /\ p < e /\ q <= p /\ e \in Chunks(h) /\ h.head[q].p
      /\ q \in Heads(h) /\ e \in Heads(h) /\ Stretch(h, q, e, {q, p}) /\ p # h.top /\ p \in Chunks(h)
      /\ (q # p => q \in Frees(h))
  BY Around, ZenonT(40)
<1>2. g \in HeapType /\ SameTags(h, g) /\ h \in HeapType
  BY HeapTypes DEF OnlyShelf
<1> HIDE DEF q, e
<1>3. s \in Nat /\ s > 0 /\ q + s = e /\ q < e
  BY <1>1
<1>4. s >= MinChunk
  <2>1. e - p >= MinChunk
    BY <1>1, ChunkIs DEF e
  <2> QED  BY <1>1, <2>1, ConstantTypes
<1>5. OnlyTags(g, k) /\ FreeSet(g, k, q, s) /\ k \in HeapType
  <2>1. OnlyTags(g, SetFree(g, q, s, q + s)) /\ FreeSet(g, SetFree(g, q, s, q + s), q, s)
    BY <1>1, <1>2, <1>3, SetFreeIs
  <2> QED  BY <1>3, <2>1 DEF OnlyTags
<1> HIDE DEF k
<1>6. /\ Heads(g) = Heads(h) /\ g.head = h.head
  BY <1>2 DEF SameTags, Heads
<1>7. TagCut(g, k, q, q, e, "free")
  <2>1. Whole(g, k, q, e)
    BY <1>1, <1>2, <1>3, <1>5, <1>6 DEF Whole
  <2>2. g.head[q].p
    BY <1>1, <1>6
  <2> QED  BY <1>5, <2>1, <2>2, WholeCuts
<1>8. TagCut(h, k, q, q, e, "free")
  BY <1>2, <1>7, TagCutFrom
<1>9. SameTags(k, r) /\ r.segs = h.segs /\ SameTop(h, r) /\ r.mapped = h.mapped
  BY DEF SameMap, k, q, e
<1>10. Cut(h, r, q, q, e, "free")
  BY <1>8, <1>9, CutIs
<1>11. h.head[e].c
  BY DEF e
<1>12. Cutting(h, r, q, q, e, "free")
  BY <1>1, <1>3, <1>4, <1>9, <1>10, <1>11, StretchCutting
<1> QED  BY <1>12 DEF q, e

(* The chunk p joins the top chunk behind it.                              *)
LEMMA MergeTop ==
  ASSUME NEW h, Formed(h), NEW p \in Useds(h) \ Records(h), Behind(h, p) = h.top,
         NEW g, OnlyShelf(h, g), NEW r \in HeapType,
         SameTags(PutTop(g, Start(h, p), Mark(h) - Start(h, p)), r),
         r.top = Start(h, p), r.topsize = Mark(h) - Start(h, p), SameMap(h, r)
  PROVE  Cutting(h, r, Start(h, p), Start(h, p), Mark(h), "top")
<1> DEFINE q == Start(h, p)
           y == Mark(h)
           s == y - q
           k == PutTop(g, q, s)
<1>1. /\ p \in Int /\ q \in Int /\ q <= p /\ p < h.top /\ h.head[q].p
      /\ q \in Heads(h) /\ Stretch(h, q, h.top, {q, p})
  BY Around
<1>2. g \in HeapType /\ SameTags(h, g) /\ h \in HeapType
  BY HeapTypes DEF OnlyShelf
<1>3. h.top \in Int /\ h.top < y /\ y \in Heads(h) /\ y \in Int /\ ~ h.head[y].p /\ y \notin Feet(h)
  BY TopIs
<1>9. SameTags(k, r) /\ r.segs = h.segs /\ r.mapped = h.mapped /\ r.top = q /\ r.topsize = s
  BY DEF SameMap
<1> HIDE DEF q, y
<1>4. s \in Nat /\ s > 0 /\ q + s = y /\ q < y
  BY <1>1, <1>3
<1>5. OnlyTags(g, k) /\ PutTags(g, k, q, FreeTag(s)) /\ k \in HeapType
  BY <1>1, <1>2, <1>4, TagsFrom DEF OnlyTags
<1> HIDE DEF k
<1>6. Heads(g) = Heads(h) /\ g.head = h.head /\ Feet(g) = Feet(h)
  BY <1>2 DEF SameTags, Heads, Feet
<1>7. TagCut(g, k, q, q, y, "top")
  <2>1. Whole(g, k, q, y)
    BY <1>1, <1>2, <1>3, <1>4, <1>5, <1>6 DEF Whole
  <2>2. g.head[q].p /\ ~ g.head[y].p /\ y \notin Feet(g)
    BY <1>1, <1>3, <1>6
  <2> QED  BY <1>5, <2>1, <2>2, WholeCuts
<1>8. TagCut(h, k, q, q, y, "top")
  BY <1>2, <1>7, TagCutFrom
<1>10. Cut(h, r, q, q, y, "top")
  BY <1>8, <1>9, CutIs
<1>12. Cutting(h, r, q, q, Mark(h), "top")
  BY <1>1, <1>3, <1>4, <1>9, <1>10, TopCutting DEF y
<1> QED  BY <1>12 DEF q

(* The chunk p joins the free chunk behind it.                             *)
LEMMA MergeFree ==
  ASSUME NEW h, Formed(h), NEW p \in Useds(h) \ Records(h), Behind(h, p) \in Frees(h),
         NEW y, y = Behind(h, Behind(h, p)), NEW g, OnlyShelf(h, g), NEW r \in HeapType,
         SameTags(PutFree(g, Start(h, p), y - Start(h, p)), r), SameTop(h, r), SameMap(h, r)
  PROVE  Cutting(h, r, Start(h, p), Start(h, p), y, "free")
<1> DEFINE q == Start(h, p)
           e == Behind(h, p)
           s == y - q
           k == PutFree(g, q, s)
<1>1. /\ p \in Int /\ q \in Int /\ e \in Int /\ p < e /\ q <= p /\ h.head[q].p
      /\ q \in Heads(h) /\ Stretch(h, q, e, {q, p})
  BY Around
<1>2. g \in HeapType /\ SameTags(h, g) /\ h \in HeapType
  BY HeapTypes DEF OnlyShelf
<1>3. e \in Chunks(h) /\ e # h.top /\ e \notin Records(h) /\ y \in Useds(h) /\ h.head[y].c /\ ~ h.head[y].p
  BY FreeIs
<1>11. y \in Chunks(h) /\ y \in Heads(h) /\ y \in Int /\ e < y /\ y - e >= MinChunk
  BY <1>3, ChunkIs DEF Useds
<1>12. Stretch(h, q, y, {q, p} \cup {e})
  BY <1>1, <1>3, StretchOn
<1>9. SameTags(k, r) /\ r.segs = h.segs /\ SameTop(h, r) /\ r.mapped = h.mapped
  BY DEF SameMap
<1> HIDE DEF q, e
<1>4. s \in Nat /\ s > 0 /\ q + s = y /\ q < y /\ s >= MinChunk
  BY <1>1, <1>11, ConstantTypes
<1>5. OnlyTags(g, k) /\ FreeTags(g, k, q, s) /\ k \in HeapType
  BY <1>1, <1>2, <1>4, TagsFrom DEF OnlyTags
<1> HIDE DEF k
<1>6. Heads(g) = Heads(h) /\ g.head = h.head
  BY <1>2 DEF SameTags, Heads
<1>7. TagCut(g, k, q, q, y, "free")
  <2>1. Whole(g, k, q, y)
    BY <1>1, <1>2, <1>4, <1>5, <1>6, <1>11 DEF Whole
  <2>2. g.head[q].p /\ ~ g.head[y].p
    BY <1>1, <1>3, <1>6
  <2> QED  BY <1>5, <2>1, <2>2, WholeCuts
<1>8. TagCut(h, k, q, q, y, "free")
  BY <1>2, <1>7, TagCutFrom
<1>10. Cut(h, r, q, q, y, "free")
  BY <1>8, <1>9, CutIs
<1>13. Cutting(h, r, q, q, y, "free")
  BY <1>1, <1>3, <1>4, <1>9, <1>10, <1>11, <1>12, StretchCutting
<1> QED  BY <1>13 DEF q

-----------------------------------------------------------------------------
(* coalesce: a chunk merges with its neighbours.                           *)

(* What Coalesce has at hand.                                              *)
Unbound(h, p, q) == IF ~ Tag(h, p).p /\ q # h.dv THEN Unlink(h, q, Foot(h, p)) ELSE h

LEMMA CoalesceIs ==
  ASSUME NEW h, NEW p, NEW s
  PROVE  LET f == Coalesce(h, p, s)
             next == p + s
             q == IF ~ Tag(h, p).p THEN p - Foot(h, p) ELSE p
             size == next - q
             g == Unbound(h, p, q)
             n == Tag(h, next)
             both == size + n.size
         IN  /\ n.c /\ n.p /\ ~ Tag(h, p).p /\ q = h.dv =>
                  f = [to |-> "dv", m |-> [SetFree(g, q, size, next) EXCEPT !.dvsize = size], p |-> q, size |-> size]
             /\ n.c /\ ~ (n.p /\ ~ Tag(h, p).p /\ q = h.dv) =>
                  f = [to |-> "bin", m |-> SetFree(g, q, size, next), p |-> q, size |-> size]
             /\ ~ n.c /\ next = h.top /\ next # h.dv =>
                  f = [to |-> "top", m |-> [PutTop(IF q = h.dv THEN NoDv(g) ELSE g, q, size + h.topsize)
                                              EXCEPT !.top = q, !.topsize = @ + size], p |-> q, size |-> size + h.topsize]
             /\ ~ n.c /\ next # h.top /\ next = h.dv =>
                  f = [to |-> "dv", m |-> [PutFree(g, q, size + h.dvsize) EXCEPT !.dv = q, !.dvsize = @ + size],
                       p |-> q, size |-> size + h.dvsize]
             /\ ~ n.c /\ next # h.top /\ next # h.dv /\ q = h.dv =>
                  f = [to |-> "dv", m |-> [PutFree(Unlink(g, next, n.size), q, both) EXCEPT !.dvsize = both],
                       p |-> q, size |-> both]
             /\ ~ n.c /\ next # h.top /\ next # h.dv /\ q # h.dv =>
                  f = [to |-> "bin", m |-> PutFree(Unlink(g, next, n.size), q, both), p |-> q, size |-> both]
<1> DEFINE f == Coalesce(h, p, s)
           back == ~ Tag(h, p).p
           next == p + s
           q == IF back THEN p - Foot(h, p) ELSE p
           size == next - q
           g == IF back /\ q # h.dv THEN Unlink(h, q, Foot(h, p)) ELSE h
           n == Tag(h, next)
           both == size + n.size
           merged == PutFree(Unlink(g, next, n.size), q, both)
           result(to, k, sz) == [to |-> to, m |-> k, p |-> q, size |-> sz]
           a == result("dv", [SetFree(g, q, size, next) EXCEPT !.dvsize = size], size)
           b == result("bin", SetFree(g, q, size, next), size)
           c == result("top", [PutTop(IF q = h.dv THEN NoDv(g) ELSE g, q, size + h.topsize)
                  EXCEPT !.top = q, !.topsize = @ + size], size + h.topsize)
           d == result("dv", [PutFree(g, q, size + h.dvsize) EXCEPT !.dv = q, !.dvsize = @ + size], size + h.dvsize)
           e == result("dv", [merged EXCEPT !.dvsize = both], both)
           j == result("bin", merged, both)
<1> DEFINE ka == n.c /\ n.p /\ back /\ q = h.dv
           kb == n.c /\ ~ (n.p /\ back /\ q = h.dv)
           kc == ~ n.c /\ next = h.top
           kd == ~ n.c /\ next = h.dv
<1>1. f = CASE ka -> a [] kb -> b [] kc -> c [] kd -> d [] OTHER -> IF q = h.dv THEN e ELSE j
  BY DEF Coalesce
<1>2. /\ n.c /\ n.p /\ back /\ q = h.dv => ka /\ ~ kb /\ ~ kc /\ ~ kd
      /\ n.c /\ ~ (n.p /\ back /\ q = h.dv) => ~ ka /\ kb /\ ~ kc /\ ~ kd
      /\ ~ n.c /\ next = h.top /\ next # h.dv => ~ ka /\ ~ kb /\ kc /\ ~ kd
      /\ ~ n.c /\ next # h.top /\ next = h.dv => ~ ka /\ ~ kb /\ ~ kc /\ kd
      /\ ~ n.c /\ next # h.top /\ next # h.dv => ~ ka /\ ~ kb /\ ~ kc /\ ~ kd
  OBVIOUS
<1> HIDE DEF f, a, b, c, d, e, j, n, q, next, back, size, both, merged, g, result, ka, kb, kc, kd
<1>3. ka /\ ~ kb /\ ~ kc /\ ~ kd => f = a
  BY <1>1, Zenon
<1>4. ~ ka /\ kb /\ ~ kc /\ ~ kd => f = b
  BY <1>1, Zenon
<1>5. ~ ka /\ ~ kb /\ kc /\ ~ kd => f = c
  BY <1>1, Zenon
<1>6. ~ ka /\ ~ kb /\ ~ kc /\ kd => f = d
  BY <1>1, Zenon
<1>7. ~ ka /\ ~ kb /\ ~ kc /\ ~ kd => f = IF q = h.dv THEN e ELSE j
  BY <1>1, Zenon
<1>8. /\ n.c /\ n.p /\ back /\ q = h.dv => f = a
      /\ n.c /\ ~ (n.p /\ back /\ q = h.dv) => f = b
      /\ ~ n.c /\ next = h.top /\ next # h.dv => f = c
      /\ ~ n.c /\ next # h.top /\ next = h.dv => f = d
      /\ ~ n.c /\ next # h.top /\ next # h.dv /\ q = h.dv => f = e
      /\ ~ n.c /\ next # h.top /\ next # h.dv /\ q # h.dv => f = j
  BY <1>2, <1>3, <1>4, <1>5, <1>6, <1>7
<1> QED  BY <1>8, Zenon DEF f, a, b, c, d, e, j, n, q, next, back, size, both, merged, g, result, Unbound

LEMMA InMemory ==
  ASSUME NEW h, Formed(h), NEW a \in Heads(h)
  PROVE  a \in Nat /\ a # NoMem /\ a < Memory
<1>1. a \in Int /\ a >= 0 /\ a < Memory
  BY HeapTypes DEF Formed, Backed
<1> QED  BY <1>1 DEF NoMem

LEMMA SameHeap ==
  ASSUME NEW h \in HeapType
  PROVE  OnlyShelf(h, h) /\ OnlyTags(h, h) /\ SameTop(h, h) /\ SameMap(h, h) /\ SameTimes(h, h) /\ SameShelf(h, h) /\ SameTags(h, h)
BY DEF OnlyShelf, OnlyTags, SameTop, SameMap, SameTimes, SameShelf, SameTags

LEMMA VictimIs ==
  ASSUME NEW h, Formed(h), NEW k, NEW X, Shelved(h, k, X)
  PROVE  /\ k.dv # NoMem => k.dv \in Frees(h) \ X /\ k.dvsize # 0 /\ h.head[k.dv].size = k.dvsize
         /\ \A a \in Chunks(h) : a = k.dv => k.dv \in Frees(h) \ X
         /\ k.dv # h.top
<1>1. k.dv # NoMem => k.dv \in Frees(h) \ X /\ k.dvsize # 0 /\ h.head[k.dv].size = k.dvsize
  BY DEF Shelved
<1>2. \A a \in Chunks(h) : a # NoMem
  BY InMemory DEF Chunks
<1>3. h.top \in Chunks(h) /\ h.top \notin Frees(h)
  BY TopIs DEF Frees
<1> QED  BY <1>1, <1>2, <1>3

LEMMA UnboundIs ==
  ASSUME NEW h, Formed(h), Shelved(h, h, {}), NEW p \in Useds(h) \ Records(h)
  PROVE  LET q == Start(h, p)
             g == Unbound(h, p, q)
         IN  /\ OnlyShelf(h, g) /\ g.dv = h.dv /\ g.dvsize = h.dvsize
             /\ q # h.dv => Shelved(h, g, {q} \ {p})
             /\ q = h.dv => g = h /\ q # p /\ h.dvsize # 0
<1> DEFINE q == Start(h, p)
           g == Unbound(h, p, q)
<1>1. /\ (q # p => q \in Frees(h)) /\ (h.head[p].p => q = p) /\ (~ h.head[p].p => q # p) /\ p \in Chunks(h) /\ Tag(h, p) = h.head[p]
      /\ (~ h.head[p].p => Foot(h, p) = h.head[q].size) /\ h \in HeapType /\ p # h.dv
  <2>3. (q # p => q \in Frees(h)) /\ p \in Chunks(h) /\ Tag(h, p) = h.head[p]
    <3> HIDE DEF g
    <3>1. p \in Chunks(h)
      BY DEF Useds
    <3>2. q # p => q \in Frees(h)
      BY <3>1, BeforeIs DEF Start
    <3> QED  BY <3>1, <3>2, AroundIs
  <2>4. (h.head[p].p => q = p) /\ (~ h.head[p].p => q # p)
    BY AroundIs
  <2>5. ~ h.head[p].p => Foot(h, p) = h.head[q].size
    <3>1. ~ h.head[p].p => q = p - h.foot[p]
      BY DEF Start
    <3>2. ~ h.head[p].p => Foot(h, p) = h.foot[p] /\ h.head[p - h.foot[p]].size = h.foot[p]
      BY <2>3, BeforeIs
    <3> QED  BY <3>1, <3>2
  <2>1. /\ (q # p => q \in Frees(h)) /\ (h.head[p].p => q = p) /\ (~ h.head[p].p => q # p) /\ p \in Chunks(h) /\ Tag(h, p) = h.head[p]
        /\ (~ h.head[p].p => Foot(h, p) = h.head[q].size)
    BY <2>3, <2>4, <2>5
  <2>2. p # h.dv
    BY <2>1, VictimIs DEF Frees, Useds
  <2> QED  BY <2>1, <2>2, HeapTypes
<1> HIDE DEF q
<1>2. CASE q = p
  <2>1. g = h /\ {q} \ {p} = {}
    BY <1>1, <1>2 DEF Unbound
  <2>2. q # h.dv /\ OnlyShelf(h, g) /\ g.dv = h.dv /\ g.dvsize = h.dvsize
    BY <1>1, <1>2, <2>1, SameHeap
  <2>3. Shelved(h, g, {q} \ {p})
    BY <2>1
  <2> HIDE DEF g
  <2>4. /\ OnlyShelf(h, g) /\ g.dv = h.dv /\ g.dvsize = h.dvsize
        /\ q # h.dv => Shelved(h, g, {q} \ {p})
        /\ q = h.dv => g = h /\ q # p /\ h.dvsize # 0
    BY <2>2, <2>3
  <2> QED  BY <2>4 DEF g, q
<1>3. CASE q # p /\ q = h.dv
  <2>1. g = h
    BY <1>3 DEF Unbound
  <2>2. h.dvsize # 0
    <3>1. q \in Chunks(h)
      BY <1>1, <1>3 DEF Frees
    <3>2. h.dv # NoMem
      BY <1>3, <3>1, InMemory DEF Chunks
    <3> QED  BY <3>2, VictimIs
  <2> QED  BY <1>1, <1>3, <2>1, <2>2, SameHeap DEF q
<1>4. CASE q # p /\ q # h.dv
  <2>1. g = Unlink(h, q, h.head[q].size)
    BY <1>1, <1>4 DEF Unbound
  <2>2. OnlyShelf(h, g) /\ Shelved(h, g, {} \cup {q}) /\ g.dv = h.dv /\ g.dvsize = h.dvsize
    BY <1>1, <1>4, <2>1, UnlinkIs
  <2>3. {} \cup {q} = {q} \ {p}
    BY <1>4
  <2> QED  BY <1>4, <2>2, <2>3 DEF q
<1> QED  BY <1>2, <1>3, <1>4

(* What merging the chunk p of a heap leaves.                              *)
Merged(h, f, p, U) ==
  /\ f.m \in HeapType /\ Formed(f.m) /\ Held(f.m, U \ {p}) /\ Keeps(h, f.m, U \ {p}) /\ SameMap(h, f.m)
  /\ f.to \in {"dv", "top", "bin"}
  /\ f.to = "bin" => f.p \in Frees(f.m) /\ f.m.head[f.p].size = f.size /\ Shelved(f.m, f.m, {f.p})
  /\ f.to # "bin" => Shelved(f.m, f.m, {})

(* The free chunk that results has what was loose before.                  *)
LEMMA MergeShelved ==
  ASSUME NEW h, NEW g, NEW q, NEW y, NEW kind, Cutting(h, g, q, q, y, kind), kind \in {"free", "top"},
         NEW k, NEW X, Shelved(h, k, X), NEW C, Stretch(h, q, y, C) \/ Heads(h) \cap Amid(q, y) = C, C \cap Frees(h) = X
  PROVE  /\ kind = "free" => Shelved(g, k, {q}) /\ q \in Frees(g) /\ g.head[q].size = y - q
         /\ kind = "top" => Shelved(g, k, {})
<1>1. Heads(h) \cap Amid(q, y) = C
  BY DEF Stretch
<1>2. Frees(h) \cap Amid(q, y) = X
  BY <1>1 DEF Frees, Chunks
<1>3. Shelved(g, k, (X \ Amid(q, y)) \cup (IF kind = "free" THEN {q} ELSE {}))
  BY <1>2, CutShelved
<1>4. X \ Amid(q, y) = {}
  BY <1>2
<1>5. Frees(g) = (Frees(h) \ Amid(q, y)) \cup (IF kind = "free" THEN {q} ELSE {}) /\ g.head[q].size = y - q
  BY CutKinds
<1>6. kind = "free" => (X \ Amid(q, y)) \cup (IF kind = "free" THEN {q} ELSE {}) = {q}
  BY <1>4
<1>7. kind = "top" => (X \ Amid(q, y)) \cup (IF kind = "free" THEN {q} ELSE {}) = {}
  BY <1>4
<1> QED  BY <1>3, <1>5, <1>6, <1>7

(* The chunks of C, the one in use p and the free ones of X, become one.   *)
Joined(h, r, p, q, y, kind, C, k, X, U) ==
  /\ Formed(h) /\ Held(h, U) /\ Cutting(h, r, q, q, y, kind) /\ Heads(h) \cap Amid(q, y) = C
  /\ C \cap Useds(h) = {p} /\ C \cap Frees(h) = X /\ Shelved(h, k, X) /\ SameMap(h, r)

LEMMA JoinedIs ==
  ASSUME NEW h, NEW r, NEW p, NEW q, NEW y, NEW kind \in {"free", "top"}, NEW C, NEW k, NEW X, NEW U,
         Joined(h, r, p, q, y, kind, C, k, X, U)
  PROVE  /\ r \in HeapType /\ Formed(r) /\ Held(r, U \ {p}) /\ Keeps(h, r, U \ {p}) /\ SameMap(h, r)
         /\ kind = "free" => Shelved(r, k, {q}) /\ q \in Frees(r) /\ r.head[q].size = y - q
         /\ kind = "top" => Shelved(r, k, {})
<1>1. /\ Held(h, U) /\ Cutting(h, r, q, q, y, kind) /\ Heads(h) \cap Amid(q, y) = C
      /\ C \cap Useds(h) = {p} /\ C \cap Frees(h) = X /\ Shelved(h, k, X) /\ SameMap(h, r)
  BY DEF Joined
<1>2. r \in HeapType
  BY <1>1 DEF Cutting
<1>3. Formed(r)
  BY <1>1, CutKinds
<1>4. Held(r, U \ {p}) /\ Keeps(h, r, U \ {p})
  <2>1. Useds(h) \cap Amid(q, y) = {p}
    BY <1>1 DEF Useds, Chunks
  <2>2. kind # "used"
    OBVIOUS
  <2> QED  BY <1>1, <2>1, <2>2, MergeHeld
<1>5. /\ kind = "free" => Shelved(r, k, {q}) /\ q \in Frees(r) /\ r.head[q].size = y - q
      /\ kind = "top" => Shelved(r, k, {})
  BY <1>1, MergeShelved
<1> QED  BY <1>1, <1>2, <1>3, <1>4, <1>5

(* The chunk q of r, up to y, is free and not yet on the shelf of k.       *)
JoinedTo(h, r, p, q, y, k, U) ==
  /\ r \in HeapType /\ Formed(r) /\ Held(r, U \ {p}) /\ Keeps(h, r, U \ {p}) /\ SameMap(h, r)
  /\ Shelved(r, k, {q}) /\ q \in Frees(r) /\ r.head[q].size = y - q

LEMMA JoinedFree ==
  ASSUME NEW h, NEW r, NEW p, NEW q, NEW y, NEW C, NEW k, NEW X, NEW U,
         Joined(h, r, p, q, y, "free", C, k, X, U)
  PROVE  JoinedTo(h, r, p, q, y, k, U)
<1>1. r \in HeapType /\ Formed(r) /\ Held(r, U \ {p}) /\ Keeps(h, r, U \ {p}) /\ SameMap(h, r)
  BY JoinedIs
<1>2. Shelved(r, k, {q})
  BY JoinedIs
<1>3. q \in Frees(r)
  BY JoinedIs
<1>4. r.head[q].size = y - q
  BY JoinedIs
<1> QED  BY <1>1, <1>2, <1>3, <1>4, ZenonT(60) DEF JoinedTo

LEMMA MergedBin ==
  ASSUME NEW h, NEW r, NEW p, NEW q, NEW y, NEW C, NEW k, NEW X, NEW U,
         Joined(h, r, p, q, y, "free", C, k, X, U), SameShelf(k, r)
  PROVE  Merged(h, [to |-> "bin", m |-> r, p |-> q, size |-> y - q], p, U)
<1>1. JoinedTo(h, r, p, q, y, k, U)
  BY JoinedFree
<1>2. Shelved(r, r, {q})
  BY <1>1, SameShelved DEF JoinedTo
<1> QED  BY <1>1, <1>2 DEF JoinedTo, Merged

DvPut(k, r, q, s) == k.dvsize = 0 /\ r.bins = k.bins /\ r.dv = q /\ r.dvsize = s

LEMMA MergedDv ==
  ASSUME NEW h, NEW r, NEW p, NEW q, NEW y, NEW C, NEW k, NEW X, NEW U,
         Joined(h, r, p, q, y, "free", C, k, X, U), DvPut(k, r, q, y - q)
  PROVE  Merged(h, [to |-> "dv", m |-> r, p |-> q, size |-> y - q], p, U)
<1>1. JoinedTo(h, r, p, q, y, k, U)
  BY JoinedFree
<1>2. Shelved(r, r, {q} \ {q})
  BY <1>1, NewVictim DEF JoinedTo, DvPut
<1>3. {q} \ {q} = {}
  OBVIOUS
<1> QED  BY <1>1, <1>2, <1>3 DEF JoinedTo, Merged

LEMMA MergedTop ==
  ASSUME NEW h, NEW r, NEW p, NEW q, NEW y, NEW C, NEW k, NEW X, NEW U,
         Joined(h, r, p, q, y, "top", C, k, X, U), SameShelf(k, r)
  PROVE  Merged(h, [to |-> "top", m |-> r, p |-> q, size |-> y - q], p, U)
<1>1. /\ r \in HeapType /\ Formed(r) /\ Held(r, U \ {p}) /\ Keeps(h, r, U \ {p}) /\ SameMap(h, r)
      /\ Shelved(r, k, {})
  BY JoinedIs
<1>2. Shelved(r, r, {})
  BY <1>1, SameShelved
<1> QED  BY <1>1, <1>2 DEF Merged

(* The chunk p of a sound heap is to be merged with its neighbours.        *)
Merging(h, p, U) == Formed(h) /\ Shelved(h, h, {}) /\ Held(h, U) /\ p \in Useds(h) \ Records(h)

Result(to, k, q, s) == [to |-> to, m |-> k, p |-> q, size |-> s]

LEMMA CoalesceCases ==
  ASSUME NEW h, NEW p, NEW U, Merging(h, p, U)
  PROVE  LET f == Coalesce(h, p, h.head[p].size)
             q == Start(h, p)
             e == Behind(h, p)
             g == Unbound(h, p, q)
             n == h.head[e]
             both == (e - q) + n.size
         IN  /\ n.c /\ q = h.dv => f = Result("dv", [SetFree(g, q, e - q, e) EXCEPT !.dvsize = e - q], q, e - q)
             /\ n.c /\ q # h.dv => f = Result("bin", SetFree(g, q, e - q, e), q, e - q)
             /\ e = h.top =>
                  f = Result("top", [PutTop(IF q = h.dv THEN NoDv(g) ELSE g, q, (e - q) + h.topsize)
                                              EXCEPT !.top = q, !.topsize = @ + (e - q)], q, (e - q) + h.topsize)
             /\ e # h.top /\ e = h.dv =>
                  f = Result("dv", [PutFree(g, q, (e - q) + h.dvsize) EXCEPT !.dv = q, !.dvsize = @ + (e - q)],
                             q, (e - q) + h.dvsize)
             /\ ~ n.c /\ e # h.top /\ e # h.dv /\ q = h.dv =>
                  f = Result("dv", [PutFree(Unlink(g, e, n.size), q, both) EXCEPT !.dvsize = both], q, both)
             /\ ~ n.c /\ e # h.top /\ e # h.dv /\ q # h.dv =>
                  f = Result("bin", PutFree(Unlink(g, e, n.size), q, both), q, both)
<1> DEFINE f == Coalesce(h, p, h.head[p].size)
           q == Start(h, p)
           e == Behind(h, p)
           g == Unbound(h, p, q)
           n == h.head[e]
           both == (e - q) + n.size
<1>0. Formed(h) /\ Shelved(h, h, {}) /\ Held(h, U) /\ p \in Useds(h) \ Records(h)
  BY DEF Merging
<1>a. /\ e = p + h.head[p].size /\ Tag(h, p) = h.head[p] /\ e \in Chunks(h)
      /\ h.head[e].p /\ Tag(h, e) = h.head[e]
      /\ (h.head[p].p => q = p)
      /\ (~ h.head[p].p => q # p)
  BY <1>0, AroundIs
<1>1. p + h.head[p].size = e
  BY <1>a
<1>2. Tag(h, e) = n
  BY <1>a
<1>3. (IF ~ Tag(h, p).p THEN p - Foot(h, p) ELSE p) = q
  <2>1. Tag(h, p) = h.head[p]
    BY <1>a
  <2>2. h.head[p].p => q = p
    BY <1>a
  <2>3. ~ h.head[p].p => q = p - Foot(h, p)
    <3>1. ~ h.head[p].p => q = p - h.foot[p]
      BY DEF Start
    <3>2. p \in Chunks(h)
      BY <1>0 DEF Useds
    <3>3. ~ h.head[p].p => Foot(h, p) = h.foot[p]
      BY <1>0, <3>2, BeforeIs
    <3> QED  BY <3>1, <3>3
  <2> QED  BY <2>1, <2>2, <2>3
<1>4. n.p
  BY <1>a
<1>5. q = h.dv => ~ Tag(h, p).p
  <2>1. Tag(h, p) = h.head[p]
    BY <1>a
  <2>2. h.head[p].p => q = p
    BY <1>a
  <2>3. q = h.dv => q # p
    BY <1>0, UnboundIs
  <2> QED  BY <2>1, <2>2, <2>3
<1>6. e = h.top => ~ n.c /\ e # h.dv
  BY <1>0, TopIs, VictimIs
<1>7. e = h.dv => ~ n.c
  <2>1. e \in Chunks(h)
    BY <1>a
  <2> QED  BY <1>0, <2>1, VictimIs DEF Frees
<1> DEFINE e0 == p + h.head[p].size
           q0 == IF ~ Tag(h, p).p THEN p - Foot(h, p) ELSE p
           n0 == Tag(h, e0)
           g0 == Unbound(h, p, q0)
           both0 == (e0 - q0) + n0.size
<1>11. /\ n0.c /\ n0.p /\ ~ Tag(h, p).p /\ q0 = h.dv =>
            f = Result("dv", [SetFree(g0, q0, e0 - q0, e0) EXCEPT !.dvsize = e0 - q0], q0, e0 - q0)
       /\ n0.c /\ ~ (n0.p /\ ~ Tag(h, p).p /\ q0 = h.dv) => f = Result("bin", SetFree(g0, q0, e0 - q0, e0), q0, e0 - q0)
       /\ ~ n0.c /\ e0 = h.top /\ e0 # h.dv =>
            f = Result("top", [PutTop(IF q0 = h.dv THEN NoDv(g0) ELSE g0, q0, (e0 - q0) + h.topsize)
                                        EXCEPT !.top = q0, !.topsize = @ + (e0 - q0)], q0, (e0 - q0) + h.topsize)
       /\ ~ n0.c /\ e0 # h.top /\ e0 = h.dv =>
            f = Result("dv", [PutFree(g0, q0, (e0 - q0) + h.dvsize) EXCEPT !.dv = q0, !.dvsize = @ + (e0 - q0)],
                       q0, (e0 - q0) + h.dvsize)
       /\ ~ n0.c /\ e0 # h.top /\ e0 # h.dv /\ q0 = h.dv =>
            f = Result("dv", [PutFree(Unlink(g0, e0, n0.size), q0, both0) EXCEPT !.dvsize = both0], q0, both0)
       /\ ~ n0.c /\ e0 # h.top /\ e0 # h.dv /\ q0 # h.dv =>
            f = Result("bin", PutFree(Unlink(g0, e0, n0.size), q0, both0), q0, both0)
  BY CoalesceIs, ZenonT(40) DEF Result
<1>12. e0 = e /\ q0 = q
  BY <1>1, <1>3
<1>13. n0 = n
  BY <1>2, <1>12, Zenon
<1> HIDE DEF f, q, e, n, q0, e0, n0
<1>14. g0 = g /\ both0 = both
  BY <1>12, <1>13, Zenon
<1> HIDE DEF g, both, g0, both0
<1>8.  /\ n.c /\ n.p /\ ~ Tag(h, p).p /\ q = h.dv =>
            f = Result("dv", [SetFree(g, q, e - q, e) EXCEPT !.dvsize = e - q], q, e - q)
       /\ n.c /\ ~ (n.p /\ ~ Tag(h, p).p /\ q = h.dv) => f = Result("bin", SetFree(g, q, e - q, e), q, e - q)
       /\ ~ n.c /\ e = h.top /\ e # h.dv =>
            f = Result("top", [PutTop(IF q = h.dv THEN NoDv(g) ELSE g, q, (e - q) + h.topsize)
                                        EXCEPT !.top = q, !.topsize = @ + (e - q)], q, (e - q) + h.topsize)
       /\ ~ n.c /\ e # h.top /\ e = h.dv =>
            f = Result("dv", [PutFree(g, q, (e - q) + h.dvsize) EXCEPT !.dv = q, !.dvsize = @ + (e - q)],
                       q, (e - q) + h.dvsize)
       /\ ~ n.c /\ e # h.top /\ e # h.dv /\ q = h.dv =>
            f = Result("dv", [PutFree(Unlink(g, e, n.size), q, both) EXCEPT !.dvsize = both], q, both)
       /\ ~ n.c /\ e # h.top /\ e # h.dv /\ q # h.dv =>
            f = Result("bin", PutFree(Unlink(g, e, n.size), q, both), q, both)
  BY <1>11, <1>12, <1>13, <1>14, Zenon
<1> DEFINE A == f = Result("dv", [SetFree(g, q, e - q, e) EXCEPT !.dvsize = e - q], q, e - q)
           B == f = Result("bin", SetFree(g, q, e - q, e), q, e - q)
           C == f = Result("top", [PutTop(IF q = h.dv THEN NoDv(g) ELSE g, q, (e - q) + h.topsize)
                                        EXCEPT !.top = q, !.topsize = @ + (e - q)], q, (e - q) + h.topsize)
           D == f = Result("dv", [PutFree(g, q, (e - q) + h.dvsize) EXCEPT !.dv = q, !.dvsize = @ + (e - q)],
                       q, (e - q) + h.dvsize)
<1> HIDE DEF A, B, C, D
<1>9. /\ n.c /\ n.p /\ ~ Tag(h, p).p /\ q = h.dv => A
      /\ n.c /\ ~ (n.p /\ ~ Tag(h, p).p /\ q = h.dv) => B
      /\ ~ n.c /\ e = h.top /\ e # h.dv => C
      /\ ~ n.c /\ e # h.top /\ e = h.dv => D
  BY <1>8, Zenon DEF A, B, C, D
<1>10. (n.c /\ q = h.dv => A) /\ (n.c /\ q # h.dv => B) /\ (e = h.top => C) /\ (e # h.top /\ e = h.dv => D)
  BY <1>4, <1>5, <1>6, <1>7, <1>9
<1> QED  BY <1>8, <1>10, Zenon DEF A, B, C, D, f, q, e, g, n, both

DvSized(k, s)    == [k EXCEPT !.dvsize = s]
DvGrown(k, q, d) == [k EXCEPT !.dv = q, !.dvsize = @ + d]
TopGrown(k, q, d) == [k EXCEPT !.top = q, !.topsize = @ + d]

LEMMA EditFields ==
  ASSUME NEW k \in HeapType, NEW q \in Int, NEW s \in Int
  PROVE  /\ OnlyShelf(k, DvSized(k, s)) /\ DvSized(k, s).bins = k.bins
         /\ DvSized(k, s).dv = k.dv /\ DvSized(k, s).dvsize = s
         /\ OnlyShelf(k, DvGrown(k, q, s)) /\ DvGrown(k, q, s).bins = k.bins
         /\ DvGrown(k, q, s).dv = q /\ DvGrown(k, q, s).dvsize = k.dvsize + s
         /\ OnlyTop(k, TopGrown(k, q, s)) /\ TopGrown(k, q, s).top = q /\ TopGrown(k, q, s).topsize = k.topsize + s
<1>1. k.dvsize \in Int /\ k.topsize \in Int /\ k.dv \in Int
  BY DEF HeapType
<1>2. DvSized(k, s) = Victim(k, k.dv, s)
  BY DEF HeapType, Victim, DvSized
<1>3. DvGrown(k, q, s) = Victim(k, q, k.dvsize + s)
  BY DEF HeapType, Victim, DvGrown
<1>4. TopGrown(k, q, s) = SetTop(k, q, k.topsize + s)
  BY DEF HeapType, SetTop, TopGrown
<1>5. k.dvsize + s \in Int /\ k.topsize + s \in Int
  BY <1>1
<1>6. /\ OnlyShelf(k, DvSized(k, s)) /\ DvSized(k, s).bins = k.bins
      /\ DvSized(k, s).dv = k.dv /\ DvSized(k, s).dvsize = s
  BY <1>1, <1>2, VictimFields
<1>7. /\ OnlyShelf(k, DvGrown(k, q, s)) /\ DvGrown(k, q, s).bins = k.bins
      /\ DvGrown(k, q, s).dv = q /\ DvGrown(k, q, s).dvsize = k.dvsize + s
  BY <1>3, <1>5, VictimFields
<1>8. OnlyTop(k, TopGrown(k, q, s)) /\ TopGrown(k, q, s).top = q /\ TopGrown(k, q, s).topsize = k.topsize + s
  BY <1>4, <1>5, SetTopFields
<1> QED  BY <1>6, <1>7, <1>8

(* What is merged in front of the chunk that follows.                      *)
LEMMA MergingIs ==
  ASSUME NEW h, NEW p, NEW U, Merging(h, p, U)
  PROVE  LET q == Start(h, p)
             e == Behind(h, p)
         IN  /\ h \in HeapType /\ Formed(h) /\ Held(h, U) /\ q \in Int /\ e \in Int /\ q < e /\ e \in Chunks(h)
             /\ Stretch(h, q, e, {q, p}) /\ Heads(h) \cap Amid(q, e) = {q, p}
             /\ {q, p} \cap Useds(h) = {p} /\ {q, p} \cap Frees(h) = {q} \ {p} /\ e \notin {q, p}
<1> DEFINE q == Start(h, p)
           e == Behind(h, p)
<1>1. Formed(h) /\ Held(h, U) /\ p \in Useds(h) \ Records(h) /\ h \in HeapType
  BY HeapTypes DEF Merging
<1>2. q \in Int /\ e \in Int /\ p < e /\ q <= p /\ e \in Chunks(h) /\ Stretch(h, q, e, {q, p}) /\ p \in Int
  BY <1>1, Around
<1>3. q # p => q \in Frees(h)
  BY <1>1, Around
<1>4. p \in Useds(h) /\ p \notin Frees(h)
  BY <1>1 DEF Useds, Frees
<1> HIDE DEF q, e
<1>5. Heads(h) \cap Amid(q, e) = {q, p}
  BY <1>2 DEF Stretch
<1>6. {q, p} \cap Useds(h) = {p} /\ {q, p} \cap Frees(h) = {q} \ {p}
  BY <1>3, <1>4 DEF Useds, Frees
<1>7. q < e /\ e \notin {q, p}
  BY <1>2
<1> QED  BY <1>1, <1>2, <1>5, <1>6, <1>7 DEF q, e

LEMMA MergeInuse ==
  ASSUME NEW h, NEW p, NEW U, Merging(h, p, U), h.head[Behind(h, p)].c
  PROVE  Merged(h, Coalesce(h, p, h.head[p].size), p, U)
<1> DEFINE f == Coalesce(h, p, h.head[p].size)
           q == Start(h, p)
           e == Behind(h, p)
           g == Unbound(h, p, q)
           s == e - q
           k == SetFree(g, q, s, e)
<1>1. /\ h \in HeapType /\ Formed(h) /\ Held(h, U) /\ q \in Int /\ e \in Int /\ q < e /\ e \in Chunks(h)
      /\ Heads(h) \cap Amid(q, e) = {q, p} /\ {q, p} \cap Useds(h) = {p} /\ {q, p} \cap Frees(h) = {q} \ {p}
  BY MergingIs
<1>2. p \in Useds(h) \ Records(h) /\ Shelved(h, h, {})
  BY DEF Merging
<1>3. /\ OnlyShelf(h, g) /\ g.dv = h.dv /\ g.dvsize = h.dvsize
      /\ q # h.dv => Shelved(h, g, {q} \ {p})
      /\ q = h.dv => g = h /\ q # p /\ h.dvsize # 0
  <2> HIDE DEF f, e, s, k
  <2>1. OnlyShelf(h, g) /\ g.dv = h.dv /\ g.dvsize = h.dvsize
    BY <1>1, <1>2, UnboundIs
  <2>2. q # h.dv => Shelved(h, g, {q} \ {p})
    BY <1>1, <1>2, UnboundIs
  <2>3. q = h.dv => g = h /\ q # p /\ h.dvsize # 0
    BY <1>1, <1>2, UnboundIs
  <2> QED  BY <2>1, <2>2, <2>3
<1>4. /\ q = h.dv => f = Result("dv", DvSized(k, s), q, s)
      /\ q # h.dv => f = Result("bin", k, q, s)
  BY CoalesceCases, Zenon DEF DvSized
<1>5. ASSUME NEW r \in HeapType, SameTags(k, r), SameTop(h, r), SameMap(h, r) PROVE Cutting(h, r, q, q, e, "free")
  BY <1>1, <1>2, <1>3, <1>5, MergeUsed
<1> HIDE DEF f, q, e, g
<1>6. g \in HeapType /\ s \in Nat /\ s > 0 /\ q + s = e
  BY <1>1, <1>3 DEF OnlyShelf
<1>7. OnlyTags(g, k)
  <2>1. OnlyTags(g, SetFree(g, q, s, q + s))
    BY <1>1, <1>6, SetFreeIs
  <2> QED  BY <1>6, <2>1
<1> HIDE DEF k, s
<1>8. k \in HeapType /\ SameTop(h, k) /\ SameMap(h, k) /\ SameShelf(g, k) /\ SameTags(k, k)
  BY <1>3, <1>7 DEF OnlyTags, OnlyShelf, SameTop, SameMap, SameTags
<1>9. CASE q # h.dv
  <2>1. Cutting(h, k, q, q, e, "free")
    BY <1>5, <1>8
  <2>2. Joined(h, k, p, q, e, "free", {q, p}, g, {q} \ {p}, U)
    BY <1>1, <1>3, <1>8, <1>9, <2>1 DEF Joined
  <2>3. Merged(h, [to |-> "bin", m |-> k, p |-> q, size |-> e - q], p, U)
    BY <1>8, <2>2, MergedBin
  <2> QED  BY <1>4, <1>9, <2>3 DEF Result, f, s
<1>10. CASE q = h.dv
  <2> DEFINE r == DvSized(k, s)
             j == NoDv(h)
  <2>1. OnlyShelf(k, r) /\ r.bins = k.bins /\ r.dv = k.dv /\ r.dvsize = s
    BY <1>1, <1>6, <1>8, EditFields
  <2>2. j.bins = h.bins /\ j.dv = NoMem /\ j.dvsize = 0
    BY <1>1, NoDvFields
  <2> HIDE DEF r, j
  <2>3. Cutting(h, r, q, q, e, "free") /\ SameMap(h, r)
    <3>1. r \in HeapType /\ SameTags(k, r) /\ SameTop(h, r) /\ SameMap(h, r)
      BY <1>8, <2>1 DEF OnlyShelf, SameTop, SameMap
    <3> QED  BY <1>5, <3>1
  <2>4. Shelved(h, j, {} \cup {h.dv})
    BY <1>1, <1>2, <1>3, <1>10, <2>2, NoVictim
  <2>5. {} \cup {h.dv} = {q} \ {p}
    BY <1>3, <1>10
  <2>6. Joined(h, r, p, q, e, "free", {q, p}, j, {q} \ {p}, U)
    BY <1>1, <2>3, <2>4, <2>5 DEF Joined
  <2>7. DvPut(j, r, q, e - q)
    BY <1>3, <1>8, <1>10, <2>1, <2>2 DEF DvPut, SameShelf, s
  <2>8. Merged(h, [to |-> "dv", m |-> r, p |-> q, size |-> e - q], p, U)
    BY <2>6, <2>7, MergedDv
  <2> QED  BY <1>4, <1>10, <2>8 DEF Result, f, s, r
<1> QED  BY <1>9, <1>10

LEMMA MergeWithTop ==
  ASSUME NEW h, NEW p, NEW U, Merging(h, p, U), Behind(h, p) = h.top
  PROVE  Merged(h, Coalesce(h, p, h.head[p].size), p, U)
<1> DEFINE f == Coalesce(h, p, h.head[p].size)
           q == Start(h, p)
           e == Behind(h, p)
           g == Unbound(h, p, q)
           y == Mark(h)
           i == IF q = h.dv THEN NoDv(g) ELSE g
           s == y - q
           k == PutTop(i, q, s)
           d == e - q
           r == TopGrown(k, q, d)
<1>1. /\ h \in HeapType /\ Formed(h) /\ Held(h, U) /\ q \in Int /\ e \in Int /\ q < e /\ e = h.top
      /\ Heads(h) \cap Amid(q, e) = {q, p} /\ {q, p} \cap Useds(h) = {p} /\ {q, p} \cap Frees(h) = {q} \ {p}
  BY MergingIs
<1>2. p \in Useds(h) \ Records(h) /\ Shelved(h, h, {})
  BY DEF Merging
<1>3. /\ OnlyShelf(h, g) /\ g.dv = h.dv /\ g.dvsize = h.dvsize
      /\ q # h.dv => Shelved(h, g, {q} \ {p})
      /\ q = h.dv => g = h /\ q # p /\ h.dvsize # 0
  BY <1>1, <1>2, UnboundIs
<1>4. y \in Int /\ h.topsize \in Int /\ y = h.top + h.topsize /\ h.top < y /\ h.topsize \in Nat
      /\ Heads(h) \cap Amid(h.top, y) = {h.top} /\ h.top \in Chunks(h)
  BY <1>1, TopIs
<1> HIDE DEF q, e, y
<1>5. s = d + h.topsize /\ s \in Nat /\ d \in Int /\ d \in Nat
  BY <1>1, <1>4
<1>6. f = Result("top", r, q, s)
  BY <1>1, <1>5, CoalesceCases, Zenon DEF TopGrown, q, e, f
<1>7. OnlyShelf(h, i) /\ Shelved(h, i, {q} \ {p}) /\ i \in HeapType
  <2>1. CASE q # h.dv
    BY <1>3, <2>1 DEF OnlyShelf
  <2>2. CASE q = h.dv
    <3> DEFINE j == NoDv(h)
    <3>1. j.bins = h.bins /\ j.dv = NoMem /\ j.dvsize = 0 /\ OnlyShelf(h, j)
      BY <1>1, NoDvFields
    <3>2. i = j
      BY <1>3, <2>2
    <3> HIDE DEF j, i
    <3>3. Shelved(h, j, {} \cup {h.dv})
      BY <1>1, <1>2, <1>3, <2>2, <3>1, NoVictim
    <3>4. {} \cup {h.dv} = {q} \ {p}
      BY <1>3, <2>2
    <3> QED  BY <3>1, <3>2, <3>3, <3>4 DEF OnlyShelf
  <2> QED  BY <2>1, <2>2
<1>8. ASSUME NEW t \in HeapType, SameTags(k, t), t.top = q, t.topsize = s, SameMap(h, t)
      PROVE  Cutting(h, t, q, q, y, "top")
  BY <1>1, <1>2, <1>7, <1>8, MergeTop DEF q, e, y
<1> HIDE DEF g, i
<1>9. OnlyTags(i, k) /\ k \in HeapType
  <2>1. q \in Int /\ s \in Nat /\ i \in HeapType
    BY <1>1, <1>5, <1>7
  <2> HIDE DEF s
  <2> QED  BY <2>1, TagsFrom DEF OnlyTags
<1> HIDE DEF k, s, d
<1>10. k.topsize = h.topsize /\ SameMap(h, k) /\ SameShelf(i, k)
  BY <1>7, <1>9 DEF OnlyTags, OnlyShelf, SameTop, SameMap
<1>11. OnlyTop(k, r) /\ r.top = q /\ r.topsize = k.topsize + d
  BY <1>1, <1>5, <1>9, EditFields
<1> HIDE DEF r
<1>12. r \in HeapType /\ SameTags(k, r) /\ r.topsize = s /\ SameMap(h, r) /\ SameShelf(i, r)
  BY <1>4, <1>5, <1>10, <1>11 DEF OnlyTop, SameMap, SameShelf
<1>13. Cutting(h, r, q, q, y, "top")
  BY <1>8, <1>11, <1>12
<1>14. Heads(h) \cap Amid(q, y) = {q, p} \cup {h.top}
  <2>1. Amid(q, y) = Amid(q, e) \cup Amid(h.top, y)
    BY <1>1, <1>4 DEF Amid
  <2> QED  BY <1>1, <1>4, <2>1
<1>15. ({q, p} \cup {h.top}) \cap Useds(h) = {p} /\ ({q, p} \cup {h.top}) \cap Frees(h) = {q} \ {p}
  <2>1. h.top \notin Useds(h) /\ h.top \notin Frees(h)
    BY DEF Useds, Frees
  <2> QED  BY <1>1, <2>1
<1>16. Joined(h, r, p, q, y, "top", {q, p} \cup {h.top}, i, {q} \ {p}, U)
  BY <1>1, <1>7, <1>12, <1>13, <1>14, <1>15 DEF Joined
<1>17. Merged(h, [to |-> "top", m |-> r, p |-> q, size |-> y - q], p, U)
  BY <1>12, <1>16, MergedTop
<1> QED  BY <1>6, <1>17 DEF Result, f, s

LEMMA MergeWithDv ==
  ASSUME NEW h, NEW p, NEW U, Merging(h, p, U), Behind(h, p) = h.dv
  PROVE  Merged(h, Coalesce(h, p, h.head[p].size), p, U)
<1> DEFINE f == Coalesce(h, p, h.head[p].size)
           q == Start(h, p)
           e == Behind(h, p)
           y == Behind(h, e)
           g == Unbound(h, p, q)
           s == y - q
           k == PutFree(g, q, s)
           d == e - q
           r == DvGrown(k, q, d)
           j == NoDv(g)
<1>1. /\ h \in HeapType /\ Formed(h) /\ Held(h, U) /\ q \in Int /\ e \in Int /\ q < e /\ e \in Chunks(h) /\ e = h.dv
      /\ Heads(h) \cap Amid(q, e) = {q, p} /\ {q, p} \cap Useds(h) = {p} /\ {q, p} \cap Frees(h) = {q} \ {p}
      /\ Stretch(h, q, e, {q, p})
  BY MergingIs
<1>2. p \in Useds(h) \ Records(h) /\ Shelved(h, h, {})
  BY DEF Merging
<1>3. /\ OnlyShelf(h, g) /\ g.dv = h.dv /\ g.dvsize = h.dvsize /\ Shelved(h, g, {q} \ {p})
  BY <1>1, <1>2, UnboundIs
<1>4. e \in Frees(h) /\ h.dvsize # 0 /\ h.head[e].size = h.dvsize /\ e # h.top
  <2>1. h.dv # NoMem
    BY <1>1, InMemory DEF Chunks
  <2> HIDE DEF e
  <2>2. h.dv \in Frees(h) \ {} /\ h.dvsize # 0 /\ h.head[h.dv].size = h.dvsize
    BY <1>1, <1>2, <2>1, VictimIs
  <2> QED  BY <1>1, <2>2 DEF Frees
<1>5. y \in Int /\ y = e + h.dvsize /\ e < y /\ h.dvsize \in Int
  <2> HIDE DEF e
  <2> QED  BY <1>1, <1>4, ChunkIs
<1>6. e \notin Records(h) /\ Stretch(h, q, y, {q, p} \cup {e})
  <2> HIDE DEF q, e
  <2>1. e \notin Records(h)
    BY <1>1, <1>4, FreeIs
  <2> QED  BY <1>1, <1>4, <2>1, StretchOn
<1>7. ASSUME NEW t \in HeapType, SameTags(k, t), SameTop(h, t), SameMap(h, t) PROVE Cutting(h, t, q, q, y, "free")
  BY <1>1, <1>2, <1>3, <1>4, <1>7, MergeFree
<1>8. s = d + h.dvsize /\ s \in Nat /\ d \in Int /\ d \in Nat
  <2> HIDE DEF e, q, y
  <2> QED  BY <1>1, <1>5
<1>9. f = Result("dv", r, q, s)
  <2>1. f = Result("dv", DvGrown(PutFree(g, q, d + h.dvsize), q, d), q, d + h.dvsize)
    BY <1>1, <1>4, CoalesceCases, Zenon DEF DvGrown
  <2> HIDE DEF f, q, g, d, s
  <2> QED  BY <1>8, <2>1, ZenonT(40)
<1> HIDE DEF f, q, e, y, g
<1>10. OnlyTags(g, k) /\ k \in HeapType
  <2>1. q \in Int /\ s \in Nat /\ g \in HeapType
    BY <1>1, <1>3, <1>8 DEF OnlyShelf
  <2> HIDE DEF s
  <2> QED  BY <2>1, TagsFrom DEF OnlyTags
<1> HIDE DEF k, s, d
<1>11. k.dvsize = h.dvsize /\ k.bins = g.bins /\ SameMap(h, k) /\ SameTop(h, k)
  BY <1>3, <1>10 DEF OnlyTags, OnlyShelf, SameTop, SameMap, SameShelf
<1>12. OnlyShelf(k, r) /\ r.bins = k.bins /\ r.dv = q /\ r.dvsize = k.dvsize + d
  BY <1>1, <1>8, <1>10, EditFields
<1> HIDE DEF r
<1>13. r \in HeapType /\ SameTags(k, r) /\ SameTop(h, r) /\ SameMap(h, r) /\ r.dvsize = s
  BY <1>5, <1>8, <1>11, <1>12 DEF OnlyShelf, SameMap, SameTop
<1>14. Cutting(h, r, q, q, y, "free")
  BY <1>7, <1>13
<1>15. j.bins = g.bins /\ j.dv = NoMem /\ j.dvsize = 0
  BY <1>3, NoDvFields DEF OnlyShelf
<1> HIDE DEF j
<1>16. Shelved(h, j, ({q} \ {p}) \cup {e})
  <2>1. Shelved(h, j, ({q} \ {p}) \cup {g.dv})
    BY <1>1, <1>3, <1>4, <1>15, NoVictim
  <2> QED  BY <1>1, <1>3, <2>1
<1>17. /\ ({q, p} \cup {e}) \cap Useds(h) = {p}
       /\ ({q, p} \cup {e}) \cap Frees(h) = ({q} \ {p}) \cup {e}
  <2>1. e \notin Useds(h)
    BY <1>4 DEF Useds, Frees
  <2> QED  BY <1>1, <1>4, <2>1
<1>18. Joined(h, r, p, q, y, "free", {q, p} \cup {e}, j, ({q} \ {p}) \cup {e}, U)
  BY <1>1, <1>6, <1>13, <1>14, <1>16, <1>17 DEF Joined, Stretch
<1>19. DvPut(j, r, q, y - q)
  BY <1>11, <1>12, <1>13, <1>15 DEF DvPut, s
<1>20. Merged(h, [to |-> "dv", m |-> r, p |-> q, size |-> y - q], p, U)
  BY <1>18, <1>19, MergedDv
<1> QED  BY <1>9, <1>20 DEF Result, f, s

LEMMA MergeWithFree ==
  ASSUME NEW h, NEW p, NEW U, Merging(h, p, U), Behind(h, p) # h.dv, Behind(h, p) \in Frees(h)
  PROVE  Merged(h, Coalesce(h, p, h.head[p].size), p, U)
<1> DEFINE f == Coalesce(h, p, h.head[p].size)
           q == Start(h, p)
           e == Behind(h, p)
           y == Behind(h, e)
           g == Unbound(h, p, q)
           u == Unlink(g, e, h.head[e].size)
           s == y - q
           k == PutFree(u, q, s)
           r == DvSized(k, s)
           j == NoDv(u)
           X == ({q} \ {p}) \cup {e}
<1>1. /\ h \in HeapType /\ Formed(h) /\ Held(h, U) /\ q \in Int /\ e \in Int /\ q < e /\ e \in Chunks(h) /\ e # h.dv
      /\ Heads(h) \cap Amid(q, e) = {q, p} /\ {q, p} \cap Useds(h) = {p} /\ {q, p} \cap Frees(h) = {q} \ {p}
      /\ Stretch(h, q, e, {q, p}) /\ e \notin {q, p}
  BY MergingIs
<1>2. p \in Useds(h) \ Records(h) /\ Shelved(h, h, {}) /\ e \in Frees(h)
  BY DEF Merging
<1>3. /\ OnlyShelf(h, g) /\ g.dv = h.dv /\ g.dvsize = h.dvsize
      /\ q # h.dv => Shelved(h, g, {q} \ {p})
      /\ q = h.dv => g = h /\ q # p /\ h.dvsize # 0
  BY <1>1, <1>2, UnboundIs
<1>4. e # h.top /\ e \notin Records(h) /\ ~ h.head[e].c
  BY <1>1, <1>2, FreeIs
<1>5. y \in Int /\ y = e + h.head[e].size /\ e < y /\ h.head[e].size = y - e
  <2> HIDE DEF e
  <2> QED  BY <1>1, ChunkIs
<1>6. Stretch(h, q, y, {q, p} \cup {e})
  <2> HIDE DEF q, e
  <2> QED  BY <1>1, <1>4, StretchOn
<1>7. (e - q) + h.head[e].size = s /\ s \in Nat
  <2> HIDE DEF e, q, y
  <2> QED  BY <1>1, <1>5
<1>8. /\ q = h.dv => f = Result("dv", r, q, s)
      /\ q # h.dv => f = Result("bin", k, q, s)
  <2> DEFINE both == (e - q) + h.head[e].size
  <2>1. /\ ~ h.head[e].c /\ e # h.top /\ e # h.dv /\ q = h.dv => f = Result("dv", DvSized(PutFree(u, q, both), both), q, both)
        /\ ~ h.head[e].c /\ e # h.top /\ e # h.dv /\ q # h.dv => f = Result("bin", PutFree(u, q, both), q, both)
    BY CoalesceCases, Zenon DEF DvSized
  <2>2. both = s
    BY <1>7
  <2> HIDE DEF both, s, f, u, q, e
  <2>3. /\ ~ h.head[e].c /\ e # h.top /\ e # h.dv /\ q = h.dv => f = Result("dv", r, q, s)
        /\ ~ h.head[e].c /\ e # h.top /\ e # h.dv /\ q # h.dv => f = Result("bin", k, q, s)
    BY <2>1, <2>2, Zenon
  <2> HIDE DEF r, k
  <2> QED  BY <1>1, <1>4, <2>3
<1>9. OnlyShelf(h, u) /\ u.dv = h.dv /\ u.dvsize = h.dvsize
      /\ (q # h.dv => Shelved(h, u, X)) /\ (q = h.dv => Shelved(h, u, {e}))
  <2> HIDE DEF q, e, g
  <2>1. g \in HeapType
    BY <1>3 DEF OnlyShelf
  <2>2. CASE q # h.dv
    <3>1. e \in Frees(h) \ ({q} \ {p}) /\ e # g.dv /\ Shelved(h, g, {q} \ {p})
      BY <1>1, <1>2, <1>3, <2>2
    <3>2. OnlyShelf(g, u) /\ Shelved(h, u, ({q} \ {p}) \cup {e}) /\ u.dv = g.dv /\ u.dvsize = g.dvsize
      BY <1>1, <2>1, <3>1, UnlinkIs
    <3> HIDE DEF u
    <3> QED  BY <1>3, <2>2, <3>2, ShelfTwice
  <2>3. CASE q = h.dv
    <3>1. e \in Frees(h) \ {} /\ e # h.dv /\ g = h
      BY <1>1, <1>2, <1>3, <2>3
    <3>2. OnlyShelf(g, u) /\ Shelved(h, u, {} \cup {e}) /\ u.dv = g.dv /\ u.dvsize = g.dvsize
      BY <1>1, <1>2, <2>1, <3>1, UnlinkIs
    <3>3. {} \cup {e} = {e}
      OBVIOUS
    <3> HIDE DEF u
    <3> QED  BY <1>3, <2>3, <3>2, <3>3, ShelfTwice
  <2> QED  BY <2>2, <2>3
<1>10. ASSUME NEW t \in HeapType, SameTags(k, t), SameTop(h, t), SameMap(h, t) PROVE Cutting(h, t, q, q, y, "free")
  BY <1>1, <1>2, <1>9, <1>10, MergeFree
<1> HIDE DEF f, q, e, y, g, u
<1>11. OnlyTags(u, k) /\ k \in HeapType /\ u \in HeapType
  <2>1. q \in Int /\ s \in Nat /\ u \in HeapType
    BY <1>1, <1>7, <1>9 DEF OnlyShelf
  <2> HIDE DEF s
  <2> QED  BY <2>1, TagsFrom DEF OnlyTags
<1> HIDE DEF k
<1>12. SameShelf(u, k) /\ SameMap(h, k) /\ SameTop(h, k) /\ SameTags(k, k)
  BY <1>9, <1>11 DEF OnlyTags, OnlyShelf, SameTop, SameMap, SameTags
<1>13. ({q, p} \cup {e}) \cap Useds(h) = {p} /\ ({q, p} \cup {e}) \cap Frees(h) = X
  <2>1. e \notin Useds(h)
    BY <1>2 DEF Useds, Frees
  <2> QED  BY <1>1, <1>2, <2>1
<1> HIDE DEF X
<1>14. CASE q # h.dv
  <2>1. Cutting(h, k, q, q, y, "free")
    BY <1>10, <1>11, <1>12
  <2>2. Joined(h, k, p, q, y, "free", {q, p} \cup {e}, u, X, U)
    BY <1>1, <1>6, <1>9, <1>12, <1>13, <1>14, <2>1 DEF Joined, Stretch
  <2>3. Merged(h, [to |-> "bin", m |-> k, p |-> q, size |-> y - q], p, U)
    BY <1>12, <2>2, MergedBin
  <2> QED  BY <1>8, <1>14, <2>3 DEF Result, f, s
<1>15. CASE q = h.dv
  <2>1. OnlyShelf(k, r) /\ r.bins = k.bins /\ r.dv = k.dv /\ r.dvsize = s
    <3>1. s \in Int
      BY <1>7
    <3>2. q \in Int /\ k \in HeapType
      BY <1>1, <1>11
    <3> HIDE DEF s
    <3> QED  BY <3>1, <3>2, EditFields
  <2> HIDE DEF r
  <2>2. r \in HeapType /\ SameTags(k, r) /\ SameTop(h, r) /\ SameMap(h, r)
    BY <1>12, <2>1 DEF OnlyShelf, SameMap, SameTop
  <2>3. Cutting(h, r, q, q, y, "free")
    BY <1>10, <2>2
  <2>4. j.bins = u.bins /\ j.dv = NoMem /\ j.dvsize = 0
    BY <1>11, NoDvFields
  <2> HIDE DEF j
  <2>5. Shelved(h, j, {e} \cup {u.dv})
    BY <1>1, <1>3, <1>9, <1>15, <2>4, NoVictim
  <2>6. {e} \cup {u.dv} = X
    BY <1>3, <1>9, <1>15 DEF X
  <2>7. Joined(h, r, p, q, y, "free", {q, p} \cup {e}, j, X, U)
    BY <1>1, <1>6, <1>13, <2>2, <2>3, <2>5, <2>6 DEF Joined, Stretch
  <2>8. DvPut(j, r, q, y - q)
    BY <1>9, <1>12, <1>15, <2>1, <2>4 DEF DvPut, SameShelf, s
  <2>9. Merged(h, [to |-> "dv", m |-> r, p |-> q, size |-> y - q], p, U)
    BY <2>7, <2>8, MergedDv
  <2> QED  BY <1>8, <1>15, <2>9 DEF Result, f, s, r
<1> QED  BY <1>14, <1>15

(* Merging leaves a sound heap, and the result to be binned, if it is not  *)
(* the victim or the top chunk.                                            *)
LEMMA CoalesceSound ==
  ASSUME NEW h, NEW p, NEW U, Merging(h, p, U)
  PROVE  Merged(h, Coalesce(h, p, h.head[p].size), p, U)
<1> DEFINE e == Behind(h, p)
<1>1. e \in Chunks(h)
  BY MergingIs
<1>2. e \in Useds(h) \/ e = h.top \/ e = h.dv \/ (e \in Frees(h) /\ e # h.dv)
  BY <1>1 DEF Useds, Frees
<1>3. CASE e \in Useds(h)
  BY <1>3, MergeInuse DEF Useds
<1>4. CASE e = h.top
  BY <1>4, MergeWithTop
<1>5. CASE e = h.dv
  BY <1>5, MergeWithDv
<1>6. CASE e \in Frees(h) /\ e # h.dv
  BY <1>6, MergeWithFree
<1> QED  BY <1>2, <1>3, <1>4, <1>5, <1>6

-----------------------------------------------------------------------------
(* Sound spaces.                                                           *)

(* Heaps that differ in the bins, the victim and the counters.             *)
SameForm(h, g) == g \in HeapType /\ SameTags(h, g) /\ SameTop(h, g) /\ g.segs = h.segs /\ g.mapped = h.mapped

LEMMA SameFormed ==
  ASSUME NEW h, NEW g, SameForm(h, g)
  PROVE  /\ Heads(g) = Heads(h) /\ Frees(g) = Frees(h) /\ Useds(g) = Useds(h) /\ Chunks(g) = Chunks(h)
         /\ Records(g) = Records(h) /\ Direct(g) = Direct(h) /\ Mark(g) = Mark(h)
         /\ Formed(h) => Formed(g)
<1>1. /\ g.head = h.head /\ g.foot = h.foot /\ g.top = h.top /\ g.topsize = h.topsize /\ g.segs = h.segs
      /\ g.mapped = h.mapped /\ g \in HeapType
  BY DEF SameForm, SameTags, SameTop
<1>2. Heads(g) = Heads(h) /\ Feet(g) = Feet(h) /\ Mark(g) = Mark(h) /\ Records(g) = Records(h)
  BY <1>1 DEF Heads, Feet, Mark, Records
<1>3. \A a : InSeg(g, a) <=> InSeg(h, a)
  BY <1>1 DEF InSeg
<1>4. Chunks(g) = Chunks(h)
  BY <1>1, <1>2, <1>3 DEF Chunks
<1>5. Frees(g) = Frees(h) /\ Useds(g) = Useds(h)
  BY <1>1, <1>4 DEF Frees, Useds
<1>6. Direct(g) = Direct(h)
  BY <1>1, <1>2, <1>3 DEF Direct
<1>7. (\A a : Behind(g, a) = Behind(h, a)) /\ (\A a, b : Together(g, a, b) <=> Together(h, a, b))
  BY <1>1 DEF Behind, Together
<1>8. \A a : Laid(h, a) => Laid(g, a)
  BY <1>1, <1>2, <1>5, <1>7 DEF Laid
<1>9. \A a : FootRight(h, a) => FootRight(g, a)
  BY <1>1, <1>5 DEF FootRight
<1>10. ASSUME Formed(h) PROVE Formed(g)
  <2>1. Layout(g)
    BY <1>1, <1>2, <1>4, <1>8, <1>9, <1>10 DEF Formed, Layout
  <2>2. TopRight(g)
    BY <1>1, <1>2, <1>4, <1>10 DEF Formed, Ends, TopRight
  <2>3. \A i : RecordRight(h, i) => RecordRight(g, i)
    BY <1>1, <1>2, <1>5 DEF RecordRight
  <2>4. Ends(g)
    BY <1>1, <1>2, <1>3, <1>5, <1>10, <2>2, <2>3 DEF Formed, Ends
  <2>5. SegsRight(g)
    BY <1>1, <1>4, <1>10 DEF Formed, SegsRight
  <2>6. \A a, x : InSpan(g, a, x) <=> InSpan(h, a, x)
    BY <1>7 DEF InSpan
  <2>7. \A a : DirectRight(h, a) => DirectRight(g, a)
    BY <1>1, <1>2, <1>3, <1>7, <2>6 DEF DirectRight
  <2>8. \A x : Covered(g, x) <=> Covered(h, x)
    BY <1>3, <1>6, <2>6 DEF Covered
  <2>9. Backed(g)
    BY <1>1, <1>2, <1>10, <2>8 DEF Formed, Backed
  <2> QED  BY <1>1, <1>6, <1>10, <2>1, <2>4, <2>5, <2>7, <2>9 DEF Formed
<1> QED  BY <1>2, <1>4, <1>5, <1>6, <1>10

LEMMA SameSound ==
  ASSUME NEW h, NEW g, SameForm(h, g)
  PROVE  /\ \A U : Held(h, U) => Held(g, U)
         /\ \A U : Keeps(h, g, U)
         /\ \A k, X : Shelved(h, k, X) => Shelved(g, k, X)
<1>1. /\ Frees(g) = Frees(h) /\ Useds(g) = Useds(h) /\ Records(g) = Records(h) /\ Direct(g) = Direct(h) /\ g.head = h.head
  BY SameFormed DEF SameForm, SameTags
<1>2. \A U : Held(h, U) => Held(g, U)
  BY <1>1 DEF Held
<1>3. \A U : Keeps(h, g, U)
  BY <1>1 DEF Keeps
<1>4. \A k, X : Shelved(h, k, X) => Shelved(g, k, X)
  BY <1>1, ZenonT(60) DEF Shelved
<1> QED  BY <1>2, <1>3, <1>4

(* A sound heap whose blocks are in the chunks of U.                       *)
Sound(h, U) == Formed(h) /\ Shelved(h, h, {}) /\ Held(h, U)

(* A sound heap in which the blocks of U are as they were.                 *)
Became(h, g, U) == Sound(g, U) /\ Keeps(h, g, U) /\ SameMap(h, g)

LEMMA KeepsOn ==
  ASSUME NEW h, NEW g, NEW k, NEW U, NEW V, Keeps(h, g, U), Keeps(g, k, V), V \subseteq U
  PROVE  Keeps(h, k, V)
BY DEF Keeps

LEMMA MapTwice ==
  ASSUME NEW h, NEW g, NEW k, SameMap(h, g), SameMap(g, k)
  PROVE  SameMap(h, k)
BY DEF SameMap

LEMMA ShelfForm ==
  ASSUME NEW h, NEW g, OnlyShelf(h, g)
  PROVE  SameForm(h, g) /\ SameMap(h, g)
BY DEF OnlyShelf, SameForm, SameMap

(* The free chunk that is loose goes to its bin.                           *)
LEMMA InsertSound ==
  ASSUME NEW h, NEW p, NEW U, Formed(h), Held(h, U), p \in Frees(h), Shelved(h, h, {p})
  PROVE  Became(h, Insert(h, p, h.head[p].size), U)
<1> DEFINE g == Insert(h, p, h.head[p].size)
<1>1. h \in HeapType /\ p \in {p}
  BY HeapTypes
<1>2. OnlyShelf(h, g) /\ Shelved(h, g, {p} \ {p})
  BY <1>1, InsertIs
<1> HIDE DEF g
<1>3. SameForm(h, g) /\ SameMap(h, g)
  BY <1>2, ShelfForm
<1>4. Formed(g)
  BY <1>3, SameFormed
<1>5. Held(g, U) /\ Keeps(h, g, U) /\ Shelved(g, g, {p} \ {p})
  BY <1>2, <1>3, SameSound
<1>6. {p} \ {p} = {}
  OBVIOUS
<1>7. Became(h, g, U)
  BY <1>3, <1>4, <1>5, <1>6 DEF Became, Sound
<1> QED  BY <1>7 DEF g

LEMMA DisposeSound ==
  ASSUME NEW h, NEW p, NEW U, Sound(h, U), p \in Useds(h) \ Records(h)
  PROVE  Became(h, DisposeChunk(h, p, h.head[p].size), U \ {p})
<1> DEFINE f == Coalesce(h, p, h.head[p].size)
           g == DisposeChunk(h, p, h.head[p].size)
           V == U \ {p}
<1>1. Merged(h, f, p, U)
  BY CoalesceSound DEF Sound, Merging
<1>2. g = IF f.to = "bin" THEN Insert(f.m, f.p, f.size) ELSE f.m
  BY DEF DisposeChunk
<1> HIDE DEF f, g
<1>3. /\ Formed(f.m) /\ Held(f.m, V) /\ Keeps(h, f.m, V) /\ SameMap(h, f.m)
      /\ f.to = "bin" => f.p \in Frees(f.m) /\ f.m.head[f.p].size = f.size /\ Shelved(f.m, f.m, {f.p})
      /\ f.to # "bin" => Shelved(f.m, f.m, {})
  BY <1>1 DEF Merged
<1> HIDE DEF V
<1>4. CASE f.to = "bin"
  <2>1. Became(f.m, Insert(f.m, f.p, f.m.head[f.p].size), V)
    BY <1>3, <1>4, InsertSound
  <2>2. g = Insert(f.m, f.p, f.m.head[f.p].size)
    BY <1>2, <1>3, <1>4
  <2>3. Became(f.m, g, V)
    BY <2>1, <2>2
  <2> QED  BY <1>3, <2>3, KeepsOn, MapTwice DEF Became, g, V
<1>5. CASE f.to # "bin"
  <2>1. g = f.m
    BY <1>2, <1>5
  <2> QED  BY <1>3, <1>5, <2>1 DEF Became, Sound, g, V
<1> QED  BY <1>4, <1>5

Fits(g, p, nb) == g.head[p].size >= nb /\ (p \in Direct(g) \/ g.head[p].size < nb + MinChunk)

-----------------------------------------------------------------------------
(* malloc from the bins, the victim and the top chunk.                     *)

(* A new block of nb units.                                                *)
Given(h, r, U, nb) ==
  /\ r.mem \in Int /\ r.mem # NoMem /\ r.mem \notin U /\ Sound(r.m, U \cup {r.mem}) /\ Keeps(h, r.m, U)
  /\ Fits(r.m, r.mem, nb)

(* The shelf of a formed heap may change as long as it is right.           *)
LEMMA ShelfSound ==
  ASSUME NEW h, NEW g, NEW U, Formed(h), Held(h, U), SameForm(h, g), SameMap(h, g), Shelved(h, g, {})
  PROVE  Became(h, g, U)
<1>1. Formed(g)
  BY SameFormed
<1>2. Held(g, U) /\ Keeps(h, g, U) /\ Shelved(g, g, {})
  BY SameSound
<1> QED  BY <1>1, <1>2 DEF Became, Sound

LEMMA BecameOn ==
  ASSUME NEW h, NEW g, NEW k, NEW U, NEW V, Keeps(h, g, U), SameMap(h, g), Became(g, k, V), U \subseteq V
  PROVE  Sound(k, V) /\ Keeps(h, k, U) /\ SameMap(h, k)
<1>1. Keeps(g, k, U)
  BY DEF Became, Keeps
<1> QED  BY <1>1, KeepsOn, MapTwice DEF Became

LEMMA Unheld ==
  ASSUME NEW h, NEW g, NEW x, NEW z, NEW y, NEW kind, Cutting(h, g, x, z, y, kind), NEW U, Held(h, U),
         Useds(h) \cap Amid(x, y) = {}
  PROVE  U \ Amid(x, y) = U /\ x \notin U
<1>1. \A a \in Direct(h) : a \notin Amid(x, y)
  BY CutKinds
<1>2. x \in Amid(x, y)
  <2>1. h \in HeapType /\ Run(h, x, z, y, kind)
    BY DEF Cutting, Formed
  <2>2. Heads(h) \subseteq Int
    BY <2>1, HeapFields
  <2> QED  BY <2>1, <2>2 DEF Run, Amid, Chunks
<1>3. \A a \in U : a \notin Amid(x, y)
  BY <1>1 DEF Held
<1> QED  BY <1>2, <1>3

(* What a chunk of a formed heap is given away from: the free chunk p is   *)
(* loose in k, which is h but for its shelf.                               *)
Loose(h, k, p, U) == Formed(h) /\ Held(h, U) /\ p \in Frees(h) /\ OnlyShelf(h, k) /\ Shelved(h, k, {p})

LooseAt(h, k, p, y) ==
  /\ h \in HeapType /\ k \in HeapType /\ p \in Int /\ y \in Int /\ p < y /\ h.head[p].size = y - p
  /\ p \in Chunks(h) /\ y \in Chunks(h) /\ p \in Heads(h) /\ y \in Heads(h)
  /\ h.head[p].p /\ ~ h.head[y].p /\ h.head[y].c
  /\ Stretch(h, p, y, {p}) /\ Heads(h) \cap Amid(p, y) = {p} /\ p \notin Useds(h)
  /\ SameTags(h, k) /\ Heads(k) = Heads(h) /\ Feet(k) = Feet(h) /\ SameTop(h, k) /\ SameMap(h, k)

LEMMA LooseIs ==
  ASSUME NEW h, NEW k, NEW p, NEW U, Loose(h, k, p, U)
  PROVE  LooseAt(h, k, p, Behind(h, p))
<1> DEFINE y == Behind(h, p)
<1>0. Formed(h) /\ p \in Frees(h) /\ OnlyShelf(h, k)
  BY DEF Loose
<1>1. p \in Chunks(h) /\ p # h.top /\ p \notin Records(h) /\ h.head[p].p /\ y \in Useds(h) /\ h.head[y].c /\ ~ h.head[y].p
  BY <1>0, FreeIs
<1>2. p \in Int /\ y \in Int /\ p < y /\ h.head[p].size = y - p /\ p \in Heads(h) /\ y \in Heads(h)
  BY <1>0, <1>1, ChunkIs
<1>3. Stretch(h, p, y, {p})
  BY <1>0, <1>1, OneStretch
<1>4. h \in HeapType
  BY <1>0, HeapTypes
<1> HIDE DEF y
<1>5. y \in Chunks(h) /\ p \notin Useds(h)
  BY <1>0, <1>1 DEF Useds, Frees
<1>6. Heads(h) \cap Amid(p, y) = {p}
  BY <1>3 DEF Stretch
<1>7. k \in HeapType /\ SameTags(h, k) /\ Heads(k) = Heads(h) /\ Feet(k) = Feet(h) /\ SameTop(h, k) /\ SameMap(h, k)
  BY <1>0 DEF OnlyShelf, SameTags, Heads, Feet
<1> QED  BY <1>1, <1>2, <1>3, <1>4, <1>5, <1>6, <1>7 DEF y, LooseAt

(* The whole chunk is given away.                                          *)
LEMMA WholeGiven ==
  ASSUME NEW h, NEW k, NEW p, NEW U, Loose(h, k, p, U), NEW nb \in Nat,
         nb <= h.head[p].size, h.head[p].size - nb < MinChunk
  PROVE  LET g == SetInuseAndPinuse(k, p, h.head[p].size)
         IN  Given(h, [m |-> g, mem |-> p], U, nb) /\ SameMap(h, g)
<1> DEFINE y == Behind(h, p)
           s == y - p
           g == SetInuseAndPinuse(k, p, s)
<1>0. Formed(h) /\ Held(h, U) /\ Shelved(h, k, {p})
  BY DEF Loose
<1>1. /\ h \in HeapType /\ k \in HeapType /\ p \in Int /\ y \in Int /\ p < y /\ h.head[p].size = s
      /\ p \in Chunks(h) /\ y \in Chunks(h) /\ p \in Heads(h) /\ y \in Heads(h) /\ h.head[p].p
      /\ Stretch(h, p, y, {p}) /\ Heads(h) \cap Amid(p, y) = {p} /\ p \notin Useds(h)
      /\ SameTags(h, k) /\ Heads(k) = Heads(h) /\ SameTop(h, k) /\ SameMap(h, k)
  <2>1. LooseAt(h, k, p, y)
    BY LooseIs
  <2> HIDE DEF y
  <2> QED  BY <2>1 DEF LooseAt
<1>2. s >= MinChunk
  BY <1>0, <1>1, ChunkIs, FreeIs DEF Loose
<1> HIDE DEF y
<1>3. s \in Nat /\ s > 0 /\ p + s = y
  BY <1>1
<1>4. OnlyTags(k, g) /\ InuseSet(k, g, p, s, TRUE) /\ g \in HeapType
  <2> HIDE DEF s
  <2> QED  BY <1>1, <1>3, SetInuseAndPinuseIs DEF OnlyTags
<1> HIDE DEF g
<1>5. TagCut(k, g, p, p, y, "used")
  <2>1. Whole(k, g, p, y)
    BY <1>1, <1>4 DEF Whole
  <2>2. k.head[p].p = TRUE
    <3>1. k.head = h.head /\ k.head \in [Heads(k) -> TagType]
      BY <1>1, HeapFields DEF SameTags
    <3> QED  BY <1>1, <3>1 DEF TagType
  <2>3. InuseSet(k, g, p, y - p, k.head[p].p)
    BY <1>4, <2>2 DEF s
  <2> QED  BY <2>1, <2>3, WholeCuts
<1>6. TagCut(h, g, p, p, y, "used")
  BY <1>1, <1>5, TagCutFrom
<1>7. SameTop(h, g) /\ SameMap(h, g) /\ SameShelf(k, g) /\ SameTags(g, g)
  BY <1>1, <1>4 DEF OnlyTags, SameTop, SameMap, SameTags
<1>8. Cut(h, g, p, p, y, "used")
  BY <1>6, <1>7, CutIs DEF SameMap
<1>9. Cutting(h, g, p, p, y, "used")
  <2>1. g.mapped = h.mapped
    BY <1>7 DEF SameMap
  <2> QED  BY <1>0, <1>1, <1>2, <1>4, <1>8, <2>1, StretchCutting
<1>10. Shelved(g, k, {})
  <2>1. Frees(h) \cap Amid(p, y) \subseteq {p}
    BY <1>1 DEF Frees, Chunks
  <2>2. Shelved(g, k, ({p} \ Amid(p, y)) \cup (IF "used" = "free" THEN {p} ELSE {}))
    BY <1>0, <1>9, <2>1, CutShelved
  <2>3. ({p} \ Amid(p, y)) \cup (IF "used" = "free" THEN {p} ELSE {}) = {}
    BY <1>1 DEF Amid
  <2> QED  BY <2>2, <2>3
<1>11. Held(g, U \cup {p}) /\ Keeps(h, g, U) /\ p \notin U
  <2>1. Useds(h) \cap Amid(p, y) = {}
    BY <1>1 DEF Useds, Chunks
  <2>2. U \ Amid(p, y) = U /\ p \notin U
    BY <1>0, <1>9, <2>1, Unheld
  <2>3. Held(g, (U \ Amid(p, y)) \cup (IF "used" = "used" THEN {p} ELSE {}) \cup (IF p # p THEN {p} ELSE {}))
        /\ Keeps(h, g, U \ Amid(p, y))
    BY <1>0, <1>9, CutHeld
  <2>4. (U \ Amid(p, y)) \cup (IF "used" = "used" THEN {p} ELSE {}) \cup (IF p # p THEN {p} ELSE {}) = U \cup {p}
    BY <2>2
  <2> QED  BY <2>2, <2>3, <2>4
<1>12. Formed(g) /\ g.head[p].size = s
  BY <1>9, CutKinds DEF s
<1>13. Shelved(g, g, {})
  BY <1>7, <1>10, SameShelved
<1>14. p # NoMem
  BY <1>0, <1>1, InMemory
<1>15. nb <= s /\ s - nb < MinChunk
  BY <1>1
<1>16. Fits(g, p, nb)
  <2> HIDE DEF s
  <2> QED  BY <1>3, <1>12, <1>15, ConstantTypes DEF Fits
<1>17. Given(h, [m |-> g, mem |-> p], U, nb)
  BY <1>1, <1>11, <1>12, <1>13, <1>14, <1>16 DEF Given, Sound
<1>18. h.head[p].size = s
  BY <1>1
<1> QED  BY <1>7, <1>17, <1>18 DEF g

(* The first nb units are given away, and the rest is shelved.             *)
LEMMA PartGiven ==
  ASSUME NEW h, NEW k, NEW p, NEW U, Loose(h, k, p, U), NEW nb \in Nat,
         nb >= MinChunk, h.head[p].size - nb >= MinChunk, NEW victim \in BOOLEAN
  PROVE  LET s == h.head[p].size
             g == PutFree(PutInuse(k, p, nb), p + nb, s - nb)
             r == KeepRest(g, p + nb, s - nb, victim)
         IN  Given(h, [m |-> r, mem |-> p], U, nb) /\ SameMap(h, r)
<1> DEFINE y == Behind(h, p)
           z == p + nb
           s == y - p
           j == PutInuse(k, p, nb)
           g == PutFree(j, z, s - nb)
           r == KeepRest(g, z, s - nb, victim)
<1>0. Formed(h) /\ Held(h, U) /\ Shelved(h, k, {p})
  BY DEF Loose
<1>1. /\ h \in HeapType /\ k \in HeapType /\ p \in Int /\ y \in Int /\ p < y /\ h.head[p].size = s
      /\ p \in Chunks(h) /\ y \in Chunks(h) /\ p \in Heads(h) /\ y \in Heads(h)
      /\ h.head[p].p /\ ~ h.head[y].p /\ h.head[y].c
      /\ Stretch(h, p, y, {p}) /\ Heads(h) \cap Amid(p, y) = {p} /\ p \notin Useds(h)
      /\ SameTags(h, k) /\ Heads(k) = Heads(h) /\ SameTop(h, k) /\ SameMap(h, k)
  <2>1. LooseAt(h, k, p, y)
    BY LooseIs
  <2> HIDE DEF y
  <2> QED  BY <2>1 DEF LooseAt
<1>15. s - nb >= MinChunk
  BY <1>1
<1> HIDE DEF y
<1>3. /\ s - nb \in Nat /\ s - nb = y - z /\ z \in Int /\ p < z /\ z < y /\ z - p = nb /\ y - z >= MinChunk /\ z - p >= MinChunk
      /\ p <= z /\ z # p
  BY <1>1, <1>15, ConstantTypes
<1>4. OnlyTags(k, j) /\ InuseTags(k, j, p, nb) /\ j \in HeapType
  BY <1>1, TagsFrom DEF OnlyTags
<1> HIDE DEF j, s, z
<1>5. OnlyTags(j, g) /\ FreeTags(j, g, z, s - nb) /\ g \in HeapType
  <2> DEFINE t == s - nb
  <2>1. t \in Nat /\ z \in Int
    BY <1>3
  <2> HIDE DEF t
  <2>2. OnlyTags(j, PutFree(j, z, t)) /\ FreeTags(j, PutFree(j, z, t), z, t)
    BY <1>4, <2>1, TagsFrom
  <2> QED  BY <2>2 DEF t, OnlyTags
<1> HIDE DEF g
<1>6. TagCut(h, g, p, z, y, "free")
  <2>1. k.head = h.head
    BY <1>1 DEF SameTags
  <2>2. Whole(k, g, p, y)
    BY <1>1, <1>5 DEF Whole
  <2>3. k.head[p].p /\ ~ k.head[y].p /\ InuseTags(k, j, p, z - p) /\ FreeTags(j, g, z, y - z)
    BY <1>1, <1>3, <1>4, <1>5, <2>1
  <2>4. TagCut(k, g, p, z, y, "free")
    BY <1>3, <1>4, <2>2, <2>3, SplitCuts
  <2> QED  BY <1>1, <2>4, TagCutFrom
<1>7. SameTop(h, g) /\ SameMap(h, g) /\ SameShelf(k, g) /\ SameTags(g, g)
  <2>1. OnlyTags(k, g)
    BY <1>4, <1>5, OnlyTagsTwice
  <2> QED  BY <1>1, <2>1 DEF OnlyTags, SameTop, SameMap, SameTags
<1>8. Cut(h, g, p, z, y, "free")
  BY <1>6, <1>7, CutIs DEF SameMap
<1>9. Cutting(h, g, p, z, y, "free")
  <2>1. g.mapped = h.mapped
    BY <1>7 DEF SameMap
  <2> QED  BY <1>0, <1>1, <1>3, <1>5, <1>8, <2>1, StretchCutting
<1>10. Shelved(g, k, {z})
  <2>1. Frees(h) \cap Amid(p, y) \subseteq {p}
    BY <1>1 DEF Frees, Chunks
  <2>2. Shelved(g, k, ({p} \ Amid(p, y)) \cup (IF "free" = "free" THEN {z} ELSE {}))
    BY <1>0, <1>9, <2>1, CutShelved
  <2>3. ({p} \ Amid(p, y)) \cup (IF "free" = "free" THEN {z} ELSE {}) = {z}
    BY <1>1 DEF Amid
  <2> QED  BY <2>2, <2>3
<1>11. Held(g, U \cup {p}) /\ Keeps(h, g, U) /\ p \notin U
  <2>1. Useds(h) \cap Amid(p, y) = {}
    BY <1>1 DEF Useds, Chunks
  <2>2. U \ Amid(p, y) = U /\ p \notin U
    BY <1>0, <1>9, <2>1, Unheld
  <2>3. Held(g, (U \ Amid(p, y)) \cup (IF "free" = "used" THEN {z} ELSE {}) \cup (IF z # p THEN {p} ELSE {}))
        /\ Keeps(h, g, U \ Amid(p, y))
    BY <1>0, <1>9, CutHeld
  <2>4. (U \ Amid(p, y)) \cup (IF "free" = "used" THEN {z} ELSE {}) \cup (IF z # p THEN {p} ELSE {}) = U \cup {p}
    BY <1>3, <2>2
  <2> QED  BY <2>2, <2>3, <2>4
<1>12. Formed(g) /\ g.head[z].size = y - z
  BY <1>9, CutKinds
<1>20. g.head[p].size = nb
  BY <1>3, <1>8 DEF Cut
<1>13. Shelved(g, g, {z}) /\ z \in {z}
  BY <1>7, <1>10, SameShelved
<1>14. p # NoMem
  BY <1>0, <1>1, InMemory
<1>16. OnlyShelf(g, r) /\ Shelved(g, r, {z} \ {z})
  <2> DEFINE t == s - nb
  <2>1. t = g.head[z].size
    BY <1>3, <1>12
  <2> HIDE DEF t
  <2>2. r = KeepRest(g, z, g.head[z].size, victim)
    BY <2>1 DEF t
  <2>3. CASE victim
    <3>1. OnlyShelf(g, ReplaceDv(g, z, g.head[z].size)) /\ Shelved(g, ReplaceDv(g, z, g.head[z].size), {z} \ {z})
      BY <1>5, <1>12, <1>13, ReplaceDvIs
    <3> QED  BY <2>2, <2>3, <3>1 DEF KeepRest
  <2>4. CASE ~ victim
    <3>1. OnlyShelf(g, Insert(g, z, g.head[z].size)) /\ Shelved(g, Insert(g, z, g.head[z].size), {z} \ {z})
      BY <1>5, <1>12, <1>13, InsertIs
    <3> QED  BY <2>2, <2>4, <3>1 DEF KeepRest
  <2> QED  BY <2>3, <2>4
<1> HIDE DEF r
<1>17. Became(g, r, U \cup {p})
  <2>1. SameForm(g, r) /\ SameMap(g, r)
    BY <1>16, ShelfForm
  <2>2. Shelved(g, r, {})
    <3>1. {z} \ {z} = {}
      OBVIOUS
    <3> QED  BY <1>16, <3>1
  <2> QED  BY <1>11, <1>12, <2>1, <2>2, ShelfSound
<1>18. Sound(r, U \cup {p}) /\ Keeps(h, r, U) /\ SameMap(h, r)
  <2>1. U \subseteq U \cup {p}
    OBVIOUS
  <2> QED  BY <1>7, <1>11, <1>17, <2>1, BecameOn
<1>19. Fits(r, p, nb)
  <2>1. r.head[p].size = nb
    BY <1>16, <1>20 DEF OnlyShelf, SameTags
  <2> QED  BY <2>1, ConstantTypes DEF Fits
<1>21. Given(h, [m |-> r, mem |-> p], U, nb)
  BY <1>1, <1>11, <1>14, <1>18, <1>19 DEF Given
<1>22. h.head[p].size = s
  BY <1>1
<1> QED  BY <1>18, <1>21, <1>22 DEF r, g, j, z

LEMMA CarveGiven ==
  ASSUME NEW h, NEW k, NEW p, NEW U, Loose(h, k, p, U), NEW nb \in Nat,
         nb >= MinChunk, nb <= h.head[p].size, NEW victim \in BOOLEAN
  PROVE  LET r == Carve(k, p, h.head[p].size, nb, victim) IN Given(h, r, U, nb) /\ SameMap(h, r.m)
<1> DEFINE s == h.head[p].size
           g == SetInuseAndPinuse(k, p, s)
           j == KeepRest(PutFree(PutInuse(k, p, nb), p + nb, s - nb), p + nb, s - nb, victim)
           r == Carve(k, p, s, nb, victim)
<1>1. r = [m |-> IF s - nb < MinChunk THEN g ELSE j, mem |-> p]
  BY DEF Carve
<1>2. s \in Int
  <2>1. LooseAt(h, k, p, Behind(h, p))
    BY LooseIs
  <2> QED  BY <2>1 DEF LooseAt
<1> HIDE DEF r, g, j, s
<1>3. CASE s - nb < MinChunk
  <2>1. Given(h, [m |-> g, mem |-> p], U, nb) /\ SameMap(h, g)
    BY <1>3, WholeGiven DEF g, s
  <2>2. r = [m |-> g, mem |-> p] /\ r.m = g
    BY <1>1, <1>3
  <2> QED  BY <2>1, <2>2, Zenon DEF r, s
<1>4. CASE ~ (s - nb < MinChunk)
  <2>0. s - nb >= MinChunk
    BY <1>2, <1>4, ConstantTypes
  <2>1. Given(h, [m |-> j, mem |-> p], U, nb) /\ SameMap(h, j)
    BY <2>0, PartGiven DEF j, s
  <2>2. r = [m |-> j, mem |-> p] /\ r.m = j
    BY <1>1, <1>4
  <2> QED  BY <2>1, <2>2, Zenon DEF r, s
<1> QED  BY <1>3, <1>4

LEMMA TakeGiven ==
  ASSUME NEW h, NEW U, Sound(h, U), NEW s \in Sizes, h.bins[s] # <<>>, NEW nb \in Nat,
         nb >= MinChunk, nb <= s, NEW victim \in BOOLEAN
  PROVE  LET r == Take(h, s, nb, victim) IN Given(h, r, U, nb) /\ SameMap(h, r.m)
<1> DEFINE l == h.bins[s]
           p == Head(l)
           k == Unlink(h, p, s)
           r == Carve(k, p, h.head[p].size, nb, victim)
<1>1. h \in HeapType /\ Formed(h) /\ Held(h, U) /\ Shelved(h, h, {})
  BY HeapTypes DEF Sound
<1>2. l \in Seq(Int) /\ l # <<>>
  BY <1>1, HeapFields DEF Sizes
<1>3. In(l, p)
  <2> HIDE DEF l
  <2>1. 1 \in DOMAIN l /\ l[1] = p
    BY <1>2
  <2> QED  BY <2>1 DEF In
<1> HIDE DEF p
<1>4. p \in Frees(h) \ {} /\ h.head[p].size = s /\ p # h.dv
  BY <1>1, <1>3 DEF Shelved
<1>5. LET g == Unlink(h, p, h.head[p].size)
      IN  OnlyShelf(h, g) /\ Shelved(h, g, {} \cup {p}) /\ g.dv = h.dv /\ g.dvsize = h.dvsize
  BY <1>1, <1>4, UnlinkIs
<1>6. Loose(h, k, p, U)
  <2>1. OnlyShelf(h, k) /\ Shelved(h, k, {} \cup {p})
    BY <1>4, <1>5
  <2>2. {} \cup {p} = {p}
    OBVIOUS
  <2> HIDE DEF k
  <2> QED  BY <1>1, <1>4, <2>1, <2>2 DEF Loose
<1>7. Take(h, s, nb, victim) = Carve(k, p, s, nb, victim)
  BY DEF Take, p
<1> HIDE DEF k
<1>8. Given(h, r, U, nb) /\ SameMap(h, r.m)
  BY <1>4, <1>6, CarveGiven
<1> QED  BY <1>4, <1>7, <1>8

LEMMA TakeDvGiven ==
  ASSUME NEW h, NEW U, Sound(h, U), NEW nb \in Nat, nb >= MinChunk, nb <= h.dvsize
  PROVE  LET r == TakeDv(h, nb) IN Given(h, r, U, nb) /\ SameMap(h, r.m)
<1> DEFINE p == h.dv
           k == NoDv(h)
           r == Carve(k, p, h.head[p].size, nb, TRUE)
<1>1. h \in HeapType /\ Formed(h) /\ Held(h, U) /\ Shelved(h, h, {}) /\ h.dvsize # 0
  BY HeapTypes, ConstantTypes DEF Sound
<1>2. p \in Frees(h) /\ h.head[p].size = h.dvsize
  BY <1>1 DEF Shelved
<1>3. k.bins = h.bins /\ k.dv = NoMem /\ k.dvsize = 0 /\ OnlyShelf(h, k)
  BY <1>1, NoDvFields
<1>7. TakeDv(h, nb) = Carve(k, p, h.dvsize, nb, TRUE)
  BY DEF TakeDv
<1> HIDE DEF k
<1>4. Shelved(h, k, {} \cup {p})
  BY <1>1, <1>3, NoVictim
<1>5. {} \cup {p} = {p}
  OBVIOUS
<1>6. Loose(h, k, p, U)
  BY <1>1, <1>2, <1>3, <1>4, <1>5 DEF Loose
<1>8. Given(h, r, U, nb) /\ SameMap(h, r.m)
  BY <1>2, <1>6, CarveGiven
<1> QED  BY <1>2, <1>7, <1>8

(* The first nb units of the top chunk are given away; k is h but for its  *)
(* bins.                                                                   *)
LEMMA SplitTopGiven ==
  ASSUME NEW h, NEW U, Sound(h, U), NEW nb \in Nat, nb >= MinChunk, nb < h.topsize
  PROVE  LET r == SplitTop(h, nb) IN Given(h, r, U, nb) /\ SameMap(h, r.m)
<1> DEFINE p == h.top
           y == Mark(h)
           z == p + nb
           t == h.topsize - nb
           j == PutTop(h, z, t)
           k == SetTop(j, z, t)
           g == PutInuse(k, p, nb)
<1>1. h \in HeapType /\ Formed(h) /\ Held(h, U) /\ Shelved(h, h, {})
  BY HeapTypes DEF Sound
<1>2. /\ p \in Chunks(h) /\ p \in Int /\ p < y /\ y \in Heads(h) /\ y \in Int /\ h.topsize = y - p /\ h.topsize \in Nat
      /\ h.head[p].p /\ ~ h.head[y].p /\ y \notin Feet(h) /\ Heads(h) \cap Amid(p, y) = {p}
  BY <1>1, TopIs
<1>3. SplitTop(h, nb) = [m |-> g, mem |-> p]
  <2>0. OnlyTags(h, j)
    <3>1. z \in Int /\ t \in Nat
      BY <1>2
    <3> HIDE DEF z, t
    <3> QED  BY <1>1, <3>1, TagsFrom
  <2>1. j.top = p /\ j.topsize = h.topsize /\ j \in HeapType
    BY <2>0 DEF OnlyTags, SameTop
  <2> HIDE DEF j
  <2>2. [j EXCEPT !.top = @ + nb, !.topsize = @ - nb] = k
    BY <2>1 DEF SetTop, HeapType
  <2>3. SplitTop(h, nb) = [m |-> PutInuse([j EXCEPT !.top = @ + nb, !.topsize = @ - nb], p, nb), mem |-> p]
    BY DEF SplitTop, j
  <2> HIDE DEF k
  <2> QED  BY <2>2, <2>3
<1> HIDE DEF y
<1>4. z \in Int /\ t \in Nat /\ p < z /\ z < y /\ t = y - z /\ nb = z - p /\ z # p /\ p <= z /\ z - p >= MinChunk
  BY <1>2, ConstantTypes
<1> HIDE DEF z, t
<1>5. OnlyTags(h, j) /\ PutTags(h, j, z, FreeTag(t)) /\ j \in HeapType
  BY <1>1, <1>4, TagsFrom DEF OnlyTags
<1> HIDE DEF j
<1>6. OnlyTop(j, k) /\ k.top = z /\ k.topsize = t
  BY <1>4, <1>5, SetTopFields
<1> HIDE DEF k
<1>7. k \in HeapType /\ PutTags(h, k, z, FreeTag(t))
  <2>1. k.head = j.head /\ k.foot = j.foot /\ Heads(k) = Heads(j) /\ Feet(k) = Feet(j)
    BY <1>6 DEF OnlyTop, SameTags, Heads, Feet
  <2>2. PutTags(h, k, z, FreeTag(t))
    BY <1>5, <2>1, Zenon DEF PutTags
  <2> QED  BY <1>6, <2>2 DEF OnlyTop
<1>8. OnlyTags(k, g) /\ InuseTags(k, g, p, nb) /\ g \in HeapType
  BY <1>2, <1>7, TagsFrom DEF OnlyTags
<1> HIDE DEF g
<1>9. TagCut(h, g, p, z, y, "top")
  <2>1. Whole(h, g, p, y)
    BY <1>1, <1>2, <1>8 DEF Whole, Chunks
  <2>2. PutTags(h, k, z, FreeTag(y - z)) /\ InuseTags(k, g, p, z - p)
    BY <1>4, <1>7, <1>8
  <2> QED  BY <1>2, <1>4, <1>7, <2>1, <2>2, SplitCuts
<1>10. g.top = z /\ g.topsize = y - z /\ SameMap(h, g) /\ SameShelf(h, g) /\ SameTags(g, g)
  BY <1>4, <1>5, <1>6, <1>8 DEF OnlyTags, OnlyTop, SameTop, SameMap, SameShelf, SameTags
<1>11. Cut(h, g, p, z, y, "top")
  BY <1>9, <1>10, CutIs DEF SameMap
<1>12. Cutting(h, g, p, z, y, "top")
  <2>1. g.mapped = h.mapped
    BY <1>10 DEF SameMap
  <2> QED  BY <1>1, <1>2, <1>4, <1>8, <1>11, <2>1, TopCutting DEF y
<1>13. Useds(h) \cap Amid(p, y) = {} /\ Frees(h) \cap Amid(p, y) = {}
  BY <1>2 DEF Useds, Frees, Chunks
<1>14. Shelved(g, g, {})
  <2>1. Shelved(g, h, ({} \ Amid(p, y)) \cup (IF "top" = "free" THEN {z} ELSE {}))
    BY <1>1, <1>12, <1>13, CutShelved
  <2>2. ({} \ Amid(p, y)) \cup (IF "top" = "free" THEN {z} ELSE {}) = {}
    OBVIOUS
  <2> QED  BY <1>10, <2>1, <2>2, SameShelved
<1>15. Held(g, U \cup {p}) /\ Keeps(h, g, U) /\ p \notin U
  <2>1. U \ Amid(p, y) = U /\ p \notin U
    BY <1>1, <1>12, <1>13, Unheld
  <2>2. Held(g, (U \ Amid(p, y)) \cup (IF "top" = "used" THEN {z} ELSE {}) \cup (IF z # p THEN {p} ELSE {}))
        /\ Keeps(h, g, U \ Amid(p, y))
    BY <1>1, <1>12, CutHeld
  <2>3. (U \ Amid(p, y)) \cup (IF "top" = "used" THEN {z} ELSE {}) \cup (IF z # p THEN {p} ELSE {}) = U \cup {p}
    BY <1>4, <2>1
  <2> QED  BY <2>1, <2>2, <2>3
<1>16. Formed(g)
  BY <1>12, CutKinds
<1>17. Fits(g, p, nb)
  <2>1. g.head[p].size = nb
    BY <1>4, <1>11 DEF Cut
  <2> QED  BY <2>1, ConstantTypes DEF Fits
<1>18. p # NoMem
  BY <1>1, <1>2, InMemory DEF Chunks
<1>19. Given(h, [m |-> g, mem |-> p], U, nb)
  BY <1>2, <1>14, <1>15, <1>16, <1>17, <1>18 DEF Given, Sound
<1> QED  BY <1>3, <1>10, <1>19

-----------------------------------------------------------------------------
(* realloc in place.                                                       *)

(* The block p may take the memory up to y, of the chunks of C.            *)
Growing(h, p, y, C, U) ==
  /\ Formed(h) /\ Held(h, U) /\ p \in U /\ p \in Useds(h)
  /\ Stretch(h, p, y, C) /\ C \cap Useds(h) = {p}

GrowAt(h, p, y, C, U) ==
  /\ h \in HeapType /\ p \in Int /\ y \in Int /\ p < y /\ p \in Chunks(h) /\ p \in Heads(h) /\ y \in Heads(h)
  /\ p # NoMem /\ U \cap Amid(p, y) = {p} /\ Heads(h) \cap Amid(p, y) = C /\ Frees(h) \cap Amid(p, y) = C \cap Frees(h)

LEMMA GrowIs ==
  ASSUME NEW h, NEW p, NEW y, NEW C, NEW U, Growing(h, p, y, C, U), y \in Heads(h)
  PROVE  GrowAt(h, p, y, C, U)
<1>0. /\ Formed(h) /\ Held(h, U) /\ p \in U /\ p \in Useds(h)
      /\ Stretch(h, p, y, C) /\ C \cap Useds(h) = {p}
  BY DEF Growing
<1>1. h \in HeapType /\ p \in Chunks(h) /\ p \in Heads(h) /\ SegsRight(h)
  BY <1>0, HeapTypes DEF Useds, Chunks
<1>2. p \in Int /\ y \in Int /\ p < y /\ Heads(h) \cap Amid(p, y) = C /\ Together(h, p, y)
  BY <1>0 DEF Stretch
<1>3. \A a \in Amid(p, y) : InSeg(h, a)
  <2> TAKE a \in Amid(p, y)
  <2>1. a \in Int /\ p <= a /\ a <= y
    BY <1>2 DEF Amid
  <2>2. InSeg(h, p)
    BY <1>1 DEF Chunks
  <2> QED  BY <1>1, <1>2, <2>1, <2>2, Between
<1>4. \A a \in U \cap Amid(p, y) : a = p
  <2> TAKE a \in U \cap Amid(p, y)
  <2>1. a \in Useds(h)
    BY <1>0, <1>3 DEF Held, Direct
  <2>2. a \in C
    BY <1>2, <2>1 DEF Useds, Chunks
  <2> QED  BY <1>0, <2>1, <2>2
<1>5. p \in Amid(p, y)
  BY <1>2 DEF Amid
<1>6. Frees(h) \cap Amid(p, y) = C \cap Frees(h)
  BY <1>2 DEF Frees, Chunks
<1>7. p # NoMem
  BY <1>0, <1>1, InMemory
<1> QED  BY <1>0, <1>1, <1>2, <1>4, <1>5, <1>6, <1>7 DEF GrowAt

(* The block is as large as it should be, and the others are as before.    *)
Regrown(h, g, p, U, V, s) ==
  /\ Formed(g) /\ Held(g, V) /\ Keeps(h, g, U \ {p}) /\ SameMap(h, g)
  /\ g.head[p].size = s /\ p \in Useds(g)

LEMMA CutKept ==
  ASSUME NEW h, NEW g, NEW p, NEW z, NEW y, NEW kind, Cutting(h, g, p, z, y, kind), NEW U, Held(h, U),
         U \cap Amid(p, y) = {p}, z # p \/ kind = "used", SameMap(h, g)
  PROVE  Regrown(h, g, p, U, U \cup (IF kind = "used" THEN {z} ELSE {}), IF z # p THEN z - p ELSE y - p)
<1>1. U \ Amid(p, y) = U \ {p} /\ p \in U
  OBVIOUS
<1>2. /\ Held(g, (U \ Amid(p, y)) \cup (IF kind = "used" THEN {z} ELSE {}) \cup (IF z # p THEN {p} ELSE {}))
      /\ Keeps(h, g, U \ Amid(p, y))
  BY CutHeld
<1>3. (U \ Amid(p, y)) \cup (IF kind = "used" THEN {z} ELSE {}) \cup (IF z # p THEN {p} ELSE {})
        = U \cup (IF kind = "used" THEN {z} ELSE {})
  BY <1>1
<1>4. /\ Useds(g) = (Useds(h) \ Amid(p, y)) \cup (IF kind = "used" THEN {z} ELSE {}) \cup (IF z # p THEN {p} ELSE {})
      /\ Formed(g) /\ g.head[z].size = y - z
  BY CutKinds
<1>5. p \in Useds(g)
  BY <1>4
<1>6. g.head[p].size = IF z # p THEN z - p ELSE y - p
  <2>1. z # p => g.head[p].size = z - p
    BY DEF Cutting, Cut
  <2> QED  BY <1>4, <2>1
<1> QED  BY <1>1, <1>2, <1>3, <1>4, <1>5, <1>6 DEF Regrown

(* In k the free chunks of C are loose.                                    *)
Spare(h, k, p, y, C, U) ==
  Growing(h, p, y, C, U) /\ y \in Chunks(h) /\ y - p >= MinChunk /\ OnlyShelf(h, k) /\ Shelved(h, k, C \cap Frees(h))

SpareAt(h, k, p, y, C, U) ==
  /\ GrowAt(h, p, y, C, U) /\ y \in Chunks(h) /\ y \in Heads(h) /\ Stretch(h, p, y, C) /\ y - p >= MinChunk
  /\ Formed(h) /\ Held(h, U) /\ k \in HeapType /\ k.head = h.head /\ SameTags(h, k) /\ Heads(k) = Heads(h) /\ SameTop(h, k)
  /\ SameMap(h, k) /\ (k.head[p].p <=> h.head[p].p) /\ k.head[p].p \in BOOLEAN /\ Tag(k, p).p = k.head[p].p
  /\ Feet(k) = Feet(h)

LEMMA SpareIs ==
  ASSUME NEW h, NEW k, NEW p, NEW y, NEW C, NEW U, Spare(h, k, p, y, C, U)
  PROVE  SpareAt(h, k, p, y, C, U)
<1>1. Growing(h, p, y, C, U) /\ y \in Chunks(h) /\ y - p >= MinChunk /\ OnlyShelf(h, k)
  BY DEF Spare
<1>2. y \in Heads(h)
  BY <1>1 DEF Chunks
<1>3. GrowAt(h, p, y, C, U)
  BY <1>1, <1>2, GrowIs
<1>4. Formed(h) /\ Held(h, U) /\ Stretch(h, p, y, C)
  BY <1>1 DEF Growing
<1>5. k \in HeapType /\ SameTags(h, k) /\ SameTop(h, k) /\ SameMap(h, k) /\ k.head = h.head
  BY <1>1 DEF OnlyShelf, SameTags
<1>6. Heads(k) = Heads(h) /\ Feet(k) = Feet(h)
  BY <1>5 DEF Heads, Feet, SameTags
<1>7. p \in Heads(k)
  BY <1>3, <1>6 DEF GrowAt
<1>8. k.head[p] \in TagType /\ Tag(k, p) = k.head[p]
  BY <1>5, <1>7, TagTyped
<1>9. k.head[p].p \in BOOLEAN
  BY <1>8 DEF TagType
<1> QED  BY <1>1, <1>2, <1>3, <1>4, <1>5, <1>6, <1>8, <1>9 DEF SpareAt

(* The block takes all of it; f has the tags of h, and g the shelf of k.    *)
LEMMA WholeTaken ==
  ASSUME NEW h, NEW k, NEW p, NEW y, NEW C, NEW U, Spare(h, k, p, y, C, U),
         NEW f \in HeapType, SameTags(h, f),
         NEW g \in HeapType, SameTags(SetInuse(f, p, y - p), g), SameTop(h, g), SameMap(h, g), SameShelf(k, g)
  PROVE  Regrown(h, g, p, U, U, y - p) /\ Shelved(g, g, {})
<1> DEFINE s == y - p
           j == SetInuse(f, p, s)
<1>1. SpareAt(h, k, p, y, C, U)
  BY SpareIs
<1>2. /\ h \in HeapType /\ p \in Int /\ y \in Int /\ p < y /\ p \in Heads(h) /\ y \in Heads(h)
      /\ y \in Chunks(h) /\ Stretch(h, p, y, C) /\ s >= MinChunk /\ Formed(h) /\ Held(h, U)
      /\ U \cap Amid(p, y) = {p} /\ Frees(h) \cap Amid(p, y) = C \cap Frees(h)
      /\ h.head[p].p \in BOOLEAN
  <2>1. (k.head[p].p <=> h.head[p].p) /\ k.head = h.head /\ k.head[p].p \in BOOLEAN
    BY <1>1 DEF SpareAt
  <2>2. h.head[p].p \in BOOLEAN
    BY <2>1
  <2> QED  BY <1>1, <2>2 DEF SpareAt, GrowAt
<1>3. s \in Nat /\ s > 0 /\ s = y - p /\ p <= p
  BY <1>2
<1> HIDE DEF s
<1>4. OnlyTags(f, j) /\ InuseSet(f, j, p, s, Tag(f, p).p) /\ j \in HeapType /\ SameTags(j, g)
  BY <1>2, <1>3, SetInuseIs DEF OnlyTags, s
<1> HIDE DEF j
<1>5. TagCut(f, j, p, p, y, "used")
  <2>0. Heads(f) = Heads(h) /\ f.head = h.head
    BY DEF SameTags, Heads
  <2>1. Whole(f, j, p, y)
    BY <1>2, <1>4, <2>0 DEF Whole
  <2>2. Tag(f, p) = f.head[p]
    BY <1>2, <2>0, TagTyped
  <2>3. InuseSet(f, j, p, y - p, f.head[p].p)
    BY <1>3, <1>4, <2>2
  <2> QED  BY <2>1, <2>3, WholeCuts
<1>6. TagCut(h, j, p, p, y, "used")
  BY <1>2, <1>5, TagCutFrom
<1>8. Cut(h, g, p, p, y, "used")
  BY <1>4, <1>6, CutIs DEF SameMap
<1>9. Cutting(h, g, p, p, y, "used")
  <2>1. g.mapped = h.mapped
    BY DEF SameMap
  <2> QED  BY <1>2, <1>3, <1>8, <2>1, StretchCutting
<1>10. Shelved(g, k, {})
  <2> DEFINE X == C \cap Frees(h)
  <2>1. Shelved(h, k, X) /\ Frees(h) \cap Amid(p, y) \subseteq X /\ X \subseteq Amid(p, y)
    BY <1>2 DEF Spare
  <2> HIDE DEF X
  <2>2. Shelved(g, k, (X \ Amid(p, y)) \cup (IF "used" = "free" THEN {p} ELSE {}))
    BY <1>9, <2>1, CutShelved
  <2>3. (X \ Amid(p, y)) \cup (IF "used" = "free" THEN {p} ELSE {}) = {}
    BY <2>1
  <2> QED  BY <2>2, <2>3
<1>11. Regrown(h, g, p, U, U, s)
  <2>1. Regrown(h, g, p, U, U \cup (IF "used" = "used" THEN {p} ELSE {}), IF p # p THEN p - p ELSE y - p)
    BY <1>2, <1>9, CutKept
  <2>2. U \cup (IF "used" = "used" THEN {p} ELSE {}) = U
    BY <1>2
  <2> QED  BY <1>3, <2>1, <2>2
<1>13. Shelved(g, g, {})
  BY <1>10, SameShelved
<1> QED  BY <1>11, <1>13 DEF s

LEMMA WholeKept ==
  ASSUME NEW h, NEW k, NEW p, NEW y, NEW C, NEW U, Spare(h, k, p, y, C, U)
  PROVE  LET g == SetInuse(k, p, y - p)
         IN  Regrown(h, g, p, U, U, y - p) /\ Shelved(g, g, {})
<1> DEFINE s == y - p
           g == SetInuse(k, p, s)
<1>1. SpareAt(h, k, p, y, C, U)
  BY SpareIs
<1>2. k \in HeapType /\ p \in Int /\ s \in Nat /\ s > 0 /\ SameTags(h, k) /\ SameTop(h, k) /\ SameMap(h, k)
  BY <1>1, ConstantTypes DEF SpareAt, GrowAt
<1>3. OnlyTags(k, g)
  <2> HIDE DEF s
  <2> QED  BY <1>2, SetInuseIs
<1>4. SameTags(g, g) /\ SameTop(h, g) /\ SameMap(h, g) /\ SameShelf(k, g) /\ g \in HeapType
  BY <1>2, <1>3 DEF OnlyTags, SameTags, SameTop, SameMap, SameShelf
<1> QED  BY <1>2, <1>4, WholeTaken

(* The block takes nb units of it, and the rest becomes a chunk in use.    *)
LEMMA PartKept ==
  ASSUME NEW h, NEW k, NEW p, NEW y, NEW C, NEW U, Spare(h, k, p, y, C, U), NEW z \in Int,
         z - p >= MinChunk, y - z >= MinChunk
  PROVE  LET g == SetInuse(SetInuse(k, p, z - p), z, y - z)
         IN  /\ Regrown(h, g, p, U, U \cup {z}, z - p) /\ Shelved(g, g, {}) /\ g \in HeapType
             /\ z \in Useds(g) \ Records(g) /\ g.head[z].size = y - z /\ z \notin U
<1> DEFINE s == z - p
           t == y - z
           j == SetInuse(k, p, s)
           g == SetInuse(j, z, t)
<1>1. SpareAt(h, k, p, y, C, U)
  BY SpareIs
<1>2. /\ h \in HeapType /\ k \in HeapType /\ p \in Int /\ y \in Int /\ p < y /\ p \in Heads(h) /\ y \in Heads(h)
      /\ y \in Chunks(h) /\ Stretch(h, p, y, C) /\ Formed(h) /\ Held(h, U)
      /\ SameTags(h, k) /\ Heads(k) = Heads(h) /\ SameTop(h, k) /\ SameMap(h, k)
      /\ U \cap Amid(p, y) = {p} /\ Frees(h) \cap Amid(p, y) = C \cap Frees(h)
  BY <1>1 DEF SpareAt, GrowAt
<1>3. s \in Nat /\ s > 0 /\ t \in Nat /\ t > 0 /\ p < z /\ z < y /\ z # p /\ p <= z /\ p + s = z
  BY <1>2, ConstantTypes
<1> HIDE DEF s, t
<1>4. OnlyTags(k, j) /\ InuseSet(k, j, p, s, Tag(k, p).p) /\ j \in HeapType
  BY <1>2, <1>3, SetInuseIs DEF OnlyTags
<1> HIDE DEF j
<1>5. OnlyTags(j, g) /\ InuseSet(j, g, z, t, Tag(j, z).p) /\ g \in HeapType
  BY <1>3, <1>4, SetInuseIs DEF OnlyTags
<1> HIDE DEF g
<1>6. TagCut(k, g, p, z, y, "used")
  <2>1. Whole(k, g, p, y)
    BY <1>2, <1>5 DEF Whole
  <2>2. Tag(k, p).p = k.head[p].p
    BY <1>1 DEF SpareAt
  <2>3. InuseSet(k, j, p, z - p, k.head[p].p)
    BY <1>4, <2>2 DEF s
  <2>4. z \in Heads(j)
    <3>1. Heads(j) = (Heads(k) \ Inside(p, s)) \cup {p, p + s}
      BY <1>4 DEF InuseSet
    <3> QED  BY <1>3, <3>1
  <2>5. Tag(j, z).p = j.head[z].p
    BY <1>4, <2>4, TagTyped
  <2>6. InuseSet(j, g, z, y - z, j.head[z].p)
    BY <1>5, <2>5 DEF t
  <2> QED  BY <1>2, <1>3, <1>4, <2>1, <2>3, <2>6, SplitCuts
<1>7. TagCut(h, g, p, z, y, "used")
  BY <1>2, <1>6, TagCutFrom
<1>8. SameTop(h, g) /\ SameMap(h, g) /\ SameShelf(k, g) /\ SameTags(g, g)
  <2>1. OnlyTags(k, g)
    BY <1>4, <1>5, OnlyTagsTwice
  <2> QED  BY <1>2, <2>1 DEF OnlyTags, SameTop, SameMap, SameTags
<1>9. Cut(h, g, p, z, y, "used")
  BY <1>7, <1>8, CutIs DEF SameMap
<1>10. Cutting(h, g, p, z, y, "used")
  <2>1. g.mapped = h.mapped
    BY <1>8 DEF SameMap
  <2> QED  BY <1>2, <1>3, <1>5, <1>9, <2>1, StretchCutting
<1>11. Shelved(g, k, {})
  <2> DEFINE X == C \cap Frees(h)
  <2>1. Shelved(h, k, X) /\ Frees(h) \cap Amid(p, y) \subseteq X /\ X \subseteq Amid(p, y)
    BY <1>2 DEF Spare
  <2> HIDE DEF X
  <2>2. Shelved(g, k, (X \ Amid(p, y)) \cup (IF "used" = "free" THEN {z} ELSE {}))
    BY <1>10, <2>1, CutShelved
  <2>3. (X \ Amid(p, y)) \cup (IF "used" = "free" THEN {z} ELSE {}) = {}
    BY <2>1
  <2> QED  BY <2>2, <2>3
<1>12. Regrown(h, g, p, U, U \cup {z}, s)
  <2>1. Regrown(h, g, p, U, U \cup (IF "used" = "used" THEN {z} ELSE {}), IF z # p THEN z - p ELSE y - p)
    BY <1>2, <1>8, <1>10, CutKept
  <2> QED  BY <1>3, <2>1 DEF s
<1>13. Shelved(g, g, {})
  BY <1>8, <1>11, SameShelved
<1>14. z \in Useds(g) /\ g.head[z].size = y - z /\ Records(g) = Records(h)
  BY <1>10, CutKinds
<1>15. z \in Amid(p, y)
  BY <1>3 DEF Amid
<1>16. z \notin Records(h)
  BY <1>10, <1>15 DEF Cutting, Amid
<1>17. z \notin U
  BY <1>2, <1>3, <1>15
<1> QED  BY <1>5, <1>12, <1>13, <1>14, <1>16, <1>17 DEF g, j, s, t

(* What reallocating the block p in place leaves.                          *)
Again(h, g, p, U, nb) == Sound(g, U) /\ Keeps(h, g, U \ {p}) /\ SameMap(h, g) /\ Fits(g, p, nb)

CutBlock(k, p, nb, size) ==
  IF size - nb < MinChunk THEN SetInuse(k, p, size)
  ELSE DisposeChunk(SetInuse(SetInuse(k, p, nb), p + nb, size - nb), p + nb, size - nb)

LEMMA UsedDirect ==
  ASSUME NEW h, NEW p \in Useds(h)
  PROVE  p \notin Direct(h)
BY DEF Useds, Chunks, Direct

LEMMA CutBlockIs ==
  ASSUME NEW h, NEW k, NEW p, NEW y, NEW C, NEW U, Spare(h, k, p, y, C, U), NEW nb \in Nat,
         nb >= MinChunk, nb <= y - p
  PROVE  Again(h, CutBlock(k, p, nb, y - p), p, U, nb)
<1> DEFINE size == y - p
           z == p + nb
           g == SetInuse(k, p, size)
           j == SetInuse(SetInuse(k, p, nb), z, size - nb)
           d == DisposeChunk(j, z, size - nb)
<1>1. SpareAt(h, k, p, y, C, U)
  BY SpareIs
<1>2. p \in Int /\ y \in Int /\ p < y /\ p \in U
  BY <1>1 DEF SpareAt, GrowAt
<1>3. CutBlock(k, p, nb, size) = IF size - nb < MinChunk THEN g ELSE d
  BY DEF CutBlock
<1>4. CASE size - nb < MinChunk
  <2>1. Regrown(h, g, p, U, U, size) /\ Shelved(g, g, {})
    BY WholeKept
  <2>2. p \notin Direct(g) /\ g.head[p].size = size
    BY <2>1, UsedDirect DEF Regrown
  <2> HIDE DEF g
  <2>3. Fits(g, p, nb)
    BY <1>2, <1>4, <2>2, ConstantTypes DEF Fits
  <2> QED  BY <1>3, <1>4, <2>1, <2>3 DEF Regrown, Again, Sound
<1>5. CASE ~ (size - nb < MinChunk)
  <2>1. z \in Int /\ nb = z - p /\ size - nb = y - z /\ z - p >= MinChunk /\ y - z >= MinChunk
    BY <1>2, <1>5, ConstantTypes
  <2>2. j = SetInuse(SetInuse(k, p, z - p), z, y - z)
    BY <2>1
  <2> HIDE DEF z
  <2>3. /\ Regrown(h, j, p, U, U \cup {z}, z - p) /\ Shelved(j, j, {}) /\ j \in HeapType
        /\ z \in Useds(j) \ Records(j) /\ j.head[z].size = y - z /\ z \notin U
    BY <2>1, <2>2, PartKept
  <2> HIDE DEF j, d, g
  <2>4. d = DisposeChunk(j, z, j.head[z].size)
    BY <2>1, <2>3 DEF d
  <2>5. Became(j, d, (U \cup {z}) \ {z})
    <3>1. Sound(j, U \cup {z})
      BY <2>3 DEF Regrown, Sound
    <3> QED  BY <2>3, <2>4, <3>1, DisposeSound
  <2>6. (U \cup {z}) \ {z} = U
    BY <2>3
  <2>7. Sound(d, U) /\ Keeps(j, d, U) /\ SameMap(j, d)
    BY <2>5, <2>6 DEF Became
  <2>8. Keeps(h, d, U \ {p}) /\ SameMap(h, d)
    <3>1. Keeps(h, j, U \ {p}) /\ Keeps(j, d, U \ {p}) /\ SameMap(h, j)
      BY <2>3, <2>7 DEF Regrown, Keeps
    <3> QED  BY <2>7, <3>1, KeepsOn, MapTwice
  <2>9. d.head[p].size = nb
    BY <1>2, <2>1, <2>3, <2>7 DEF Keeps, Regrown
  <2>10. Fits(d, p, nb)
    BY <2>9, ConstantTypes DEF Fits
  <2> QED  BY <1>3, <1>5, <2>7, <2>8, <2>10 DEF Again
<1> QED  BY <1>4, <1>5

(* The block takes units of the top chunk behind it, or gives some to it.  *)
LEMMA TopKept ==
  ASSUME NEW h, NEW p, NEW C, NEW U, Sound(h, U), Growing(h, p, h.top, C, U), C = {p},
         NEW nb \in Nat, nb >= MinChunk, p + nb < Mark(h)
  PROVE  LET t == Mark(h) - (p + nb)
             g == SetTop(PutTop(SetInuse(h, p, nb), p + nb, t), p + nb, t)
         IN  Again(h, g, p, U, nb)
<1> DEFINE y == Mark(h)
           z == p + nb
           t == y - z
           j == SetInuse(h, p, nb)
           k == PutTop(j, z, t)
           g == SetTop(k, z, t)
<1>1. h \in HeapType /\ Formed(h) /\ Held(h, U) /\ Shelved(h, h, {})
  BY HeapTypes DEF Sound
<1>2. /\ y \in Heads(h) /\ y \in Int /\ ~ h.head[y].p /\ y \notin Feet(h) /\ h.top \in Int /\ h.top < y
      /\ h.top \in Heads(h)
  BY <1>1, TopIs DEF Chunks
<1>3. GrowAt(h, p, h.top, C, U) /\ Stretch(h, p, h.top, C)
  BY <1>2, GrowIs DEF Growing
<1>4. p \in Int /\ p < h.top /\ p \in Heads(h) /\ p \in Chunks(h) /\ Heads(h) \cap Amid(p, h.top) = {p} /\ p \in U
  BY <1>3 DEF GrowAt
<1> HIDE DEF y
<1>5. z \in Int /\ t \in Nat /\ p < z /\ z < y /\ t = y - z /\ nb = z - p /\ z # p /\ p <= z /\ z - p >= MinChunk /\ p < y /\ nb > 0
  BY <1>2, <1>4, ConstantTypes DEF y
<1> HIDE DEF z, t
<1>6. OnlyTags(h, j) /\ InuseSet(h, j, p, nb, Tag(h, p).p) /\ j \in HeapType
  BY <1>1, <1>4, <1>5, SetInuseIs DEF OnlyTags
<1> HIDE DEF j
<1>7. OnlyTags(j, k) /\ PutTags(j, k, z, FreeTag(t)) /\ k \in HeapType
  BY <1>5, <1>6, TagsFrom DEF OnlyTags
<1> HIDE DEF k
<1>8. OnlyTop(k, g) /\ g.top = z /\ g.topsize = t
  BY <1>5, <1>7, SetTopFields
<1> HIDE DEF g
<1>9. g \in HeapType /\ SameTags(k, g) /\ SameMap(h, g) /\ SameShelf(h, g)
  BY <1>6, <1>7, <1>8 DEF OnlyTags, OnlyTop, SameMap, SameShelf
<1>10. TagCut(h, k, p, z, y, "top")
  <2>1. Whole(h, k, p, y)
    BY <1>1, <1>2, <1>4, <1>5, <1>7 DEF Whole
  <2>2. Tag(h, p).p = h.head[p].p
    BY <1>1, <1>4, TagTyped
  <2>3. InuseSet(h, j, p, z - p, h.head[p].p) /\ PutTags(j, k, z, FreeTag(y - z))
    BY <1>5, <1>6, <1>7, <2>2
  <2>4. ~ h.head[y].p /\ y \notin Feet(h)
    BY <1>2 DEF y
  <2> QED  BY <1>5, <1>6, <2>1, <2>3, <2>4, SplitCuts
<1>11. Cut(h, g, p, z, y, "top")
  BY <1>5, <1>8, <1>9, <1>10, CutIs DEF SameMap
<1>12. Cutting(h, g, p, z, y, "top")
  <2>1. g.mapped = h.mapped
    BY <1>9 DEF SameMap
  <2>2. Cut(h, g, p, z, Mark(h), "top") /\ z < Mark(h)
    BY <1>5, <1>11 DEF y
  <2> QED  BY <1>1, <1>3, <1>4, <1>5, <1>9, <2>1, <2>2, TopCutting DEF y
<1>13. Heads(h) \cap Amid(p, y) = {p, h.top}
  <2>1. Amid(p, y) = Amid(p, h.top) \cup Amid(h.top, y)
    BY <1>2, <1>4 DEF Amid, y
  <2>2. Heads(h) \cap Amid(h.top, y) = {h.top}
    BY <1>1, TopIs DEF y
  <2> QED  BY <1>4, <2>1, <2>2
<1>14. Frees(h) \cap Amid(p, y) = {} /\ Useds(h) \cap Amid(p, y) \subseteq {p}
  <2>1. p \in Useds(h)
    BY DEF Growing
  <2> QED  BY <1>13, <2>1 DEF Frees, Useds, Chunks
<1>15. U \cap Amid(p, y) = {p}
  <2>1. \A a \in Direct(h) : a \notin Amid(p, y)
    BY <1>12, CutKinds
  <2>2. U \subseteq Useds(h) \cup Direct(h)
    BY <1>1 DEF Held
  <2>3. p \in Amid(p, y)
    BY <1>4, <1>5 DEF Amid
  <2> QED  BY <1>4, <1>14, <2>1, <2>2, <2>3
<1>16. Shelved(g, g, {})
  <2>1. Shelved(g, h, ({} \ Amid(p, y)) \cup (IF "top" = "free" THEN {z} ELSE {}))
    BY <1>1, <1>12, <1>14, CutShelved
  <2>2. ({} \ Amid(p, y)) \cup (IF "top" = "free" THEN {z} ELSE {}) = {}
    OBVIOUS
  <2> QED  BY <1>9, <2>1, <2>2, SameShelved
<1>17. Regrown(h, g, p, U, U, nb)
  <2>1. Regrown(h, g, p, U, U \cup (IF "top" = "used" THEN {z} ELSE {}), IF z # p THEN z - p ELSE y - p)
    BY <1>1, <1>5, <1>9, <1>12, <1>15, CutKept
  <2>2. U \cup (IF "top" = "used" THEN {z} ELSE {}) = U
    OBVIOUS
  <2> QED  BY <1>5, <2>1, <2>2
<1>18. Fits(g, p, nb)
  BY <1>17, ConstantTypes DEF Fits, Regrown
<1>19. Again(h, g, p, U, nb)
  BY <1>16, <1>17, <1>18, Zenon DEF Again, Sound, Regrown
<1> QED  BY <1>19 DEF g, k, j, t, z, y

(* Behind the block p is the free chunk e, and then y.                     *)
FreeBehind(h, p, e, y, U) ==
  Sound(h, U) /\ p \in U /\ p \in Useds(h) /\ e = Behind(h, p) /\ e \in Frees(h) /\ y = Behind(h, e)

FreeBehindAt(h, p, e, y, U) ==
  /\ Growing(h, p, y, {p, e}, U) /\ y \in Chunks(h) /\ y \in Int /\ p \in Int /\ e \in Int
  /\ y - p = h.head[p].size + h.head[e].size /\ y - p >= MinChunk /\ {p, e} \cap Frees(h) = {e}
  /\ y \in Heads(h) /\ h.head[y].c /\ ~ h.head[y].p /\ e = p + h.head[p].size /\ y = e + h.head[e].size

LEMMA FreeBehindIs ==
  ASSUME NEW h, NEW p, NEW e, NEW y, NEW U, FreeBehind(h, p, e, y, U)
  PROVE  FreeBehindAt(h, p, e, y, U)
<1>1. /\ Formed(h) /\ Held(h, U) /\ p \in U /\ p \in Useds(h) /\ e = Behind(h, p) /\ e \in Frees(h) /\ y = Behind(h, e)
      /\ h \in HeapType
  BY HeapTypes DEF FreeBehind, Sound
<1>2. p \in Chunks(h) /\ p # h.top /\ p \notin Records(h) /\ p \notin Frees(h)
  BY <1>1 DEF Useds, Frees, Held
<1>3. e \in Chunks(h) /\ e # h.top /\ e \notin Records(h) /\ y \in Useds(h) /\ h.head[y].c /\ ~ h.head[y].p
  BY <1>1, FreeIs
<1>4. Stretch(h, p, e, {p})
  BY <1>1, <1>2, OneStretch
<1>5. Stretch(h, p, y, {p} \cup {e})
  BY <1>1, <1>3, <1>4, StretchOn
<1>6. {p} \cup {e} = {p, e}
  OBVIOUS
<1>7. e \notin Useds(h) /\ y \in Chunks(h) /\ y \in Heads(h)
  BY <1>1, <1>3 DEF Frees, Useds, Chunks
<1>8. Growing(h, p, y, {p, e}, U)
  BY <1>1, <1>5, <1>6, <1>7 DEF Growing
<1>9. /\ p \in Int /\ e \in Int /\ y \in Int /\ e = p + h.head[p].size /\ y = e + h.head[e].size /\ h.head[p].size >= MinChunk
      /\ h.head[e].size > 0 /\ h.head[p].size \in Nat /\ h.head[e].size \in Nat
  BY <1>1, <1>2, <1>3, ChunkIs DEF TagType
<1>10. y - p = h.head[p].size + h.head[e].size /\ y - p >= MinChunk
  <2> DEFINE a == h.head[p].size
             b == h.head[e].size
  <2>1. p \in Int /\ e \in Int /\ y \in Int /\ e = p + a /\ y = e + b /\ a >= MinChunk /\ b > 0 /\ a \in Nat /\ b \in Nat
    BY <1>9
  <2> HIDE DEF a, b
  <2>2. y - p = a + b /\ y - p >= MinChunk
    BY <2>1, ConstantTypes
  <2> QED  BY <2>2 DEF a, b
<1>11. {p, e} \cap Frees(h) = {e}
  BY <1>1, <1>2
<1> QED  BY <1>3, <1>7, <1>8, <1>9, <1>10, <1>11, Zenon DEF FreeBehindAt

(* The chunk behind is no longer in the shelf of k.                        *)
LEMMA SpareBehind ==
  ASSUME NEW h, NEW k, NEW p, NEW e, NEW y, NEW U, FreeBehind(h, p, e, y, U), OnlyShelf(h, k), Shelved(h, k, {e})
  PROVE  Spare(h, k, p, y, {p, e}, U)
<1>1. Growing(h, p, y, {p, e}, U) /\ y \in Chunks(h) /\ y - p >= MinChunk /\ {p, e} \cap Frees(h) = {e}
  BY FreeBehindIs DEF FreeBehindAt
<1> QED  BY <1>1 DEF Spare

LEMMA VictimGone ==
  ASSUME NEW h, NEW U, Sound(h, U), h.dv # NoMem
  PROVE  /\ OnlyShelf(h, NoDv(h)) /\ Shelved(h, NoDv(h), {h.dv}) /\ h.dv \in Frees(h) /\ h.head[h.dv].size = h.dvsize
         /\ NoDv(h).bins = h.bins /\ NoDv(h).dv = NoMem /\ NoDv(h).dvsize = 0
<1>1. h \in HeapType /\ Formed(h) /\ Shelved(h, h, {})
  BY HeapTypes DEF Sound
<1>2. h.dv \in Frees(h) /\ h.dvsize # 0 /\ h.head[h.dv].size = h.dvsize
  BY <1>1, VictimIs
<1>3. OnlyShelf(h, NoDv(h)) /\ NoDv(h).bins = h.bins /\ NoDv(h).dv = NoMem /\ NoDv(h).dvsize = 0
  BY <1>1, NoDvFields
<1>4. Shelved(h, NoDv(h), {} \cup {h.dv})
  BY <1>1, <1>2, <1>3, NoVictim
<1>5. {} \cup {h.dv} = {h.dv}
  OBVIOUS
<1> QED  BY <1>2, <1>3, <1>4, <1>5

(* The block takes the whole victim.                                       *)
LEMMA DvWhole ==
  ASSUME NEW h, NEW p, NEW y, NEW U, FreeBehind(h, p, h.dv, y, U), h.dv # NoMem,
         NEW nb \in Nat, nb <= y - p, y - p < nb + MinChunk
  PROVE  Again(h, NoDv(SetInuse(h, p, y - p)), p, U, nb)
<1> DEFINE s == y - p
           k == NoDv(h)
           j == SetInuse(h, p, s)
           g == NoDv(j)
<1>1. Sound(h, U) /\ h \in HeapType /\ p \in Int /\ y \in Int /\ s >= MinChunk
  BY FreeBehindIs, HeapTypes DEF FreeBehind, Sound, FreeBehindAt
<1>2. OnlyShelf(h, k) /\ Shelved(h, k, {h.dv}) /\ k.bins = h.bins /\ k.dv = NoMem /\ k.dvsize = 0
  BY <1>1, VictimGone
<1> HIDE DEF k
<1>3. Spare(h, k, p, y, {p, h.dv}, U)
  BY <1>2, SpareBehind
<1>4. OnlyTags(h, j) /\ j \in HeapType
  <2>1. s \in Nat /\ s > 0
    BY <1>1, ConstantTypes
  <2> HIDE DEF s
  <2> QED  BY <1>1, <2>1, SetInuseIs DEF OnlyTags
<1>5. OnlyShelf(j, g) /\ g.bins = j.bins /\ g.dv = NoMem /\ g.dvsize = 0
  BY <1>4, NoDvFields
<1> HIDE DEF g
<1>6. SameTags(j, g) /\ SameTop(h, g) /\ SameMap(h, g) /\ SameShelf(k, g) /\ g \in HeapType /\ SameTags(h, h)
  <2> HIDE DEF j
  <2> QED  BY <1>2, <1>4, <1>5 DEF OnlyTags, OnlyShelf, SameTags, SameTop, SameMap, SameShelf
<1>7. Regrown(h, g, p, U, U, s) /\ Shelved(g, g, {})
  BY <1>1, <1>3, <1>6, WholeTaken
<1> HIDE DEF s
<1>8. Fits(g, p, nb)
  <2>1. g.head[p].size = s
    BY <1>7 DEF Regrown
  <2> QED  BY <2>1 DEF Fits, s
<1>9. Again(h, g, p, U, nb)
  BY <1>7, <1>8 DEF Again, Sound, Regrown
<1> QED  BY <1>9 DEF g, s

LEMMA ClearedCut ==
  ASSUME NEW h \in HeapType, NEW i \in HeapType, NEW c, NEW x, NEW z, NEW y, y \in Int, x \in Int, z \in Int, x <= z, z < y,
         TagCut(h, i, x, z, y, "free"), y \in Heads(i), HeadIs(i, c, y, [Tag(i, y) EXCEPT !.p = FALSE])
  PROVE  TagCut(h, c, x, z, y, "free")
<1>1. Tag(i, y) = i.head[y] /\ i.head[y] \in TagType
  BY TagTyped
<1>2. /\ c.head[y].size = i.head[y].size /\ (c.head[y].c <=> i.head[y].c) /\ ~ c.head[y].p
      /\ Heads(c) = Heads(i) /\ (\A b \in Heads(i) : b # y => c.head[b] = i.head[b]) /\ c.foot = i.foot /\ Feet(c) = Feet(i)
  <2>1. c.head[y] = [Tag(i, y) EXCEPT !.p = FALSE]
    BY DEF HeadIs
  <2>2. c.head[y].size = i.head[y].size /\ (c.head[y].c <=> i.head[y].c) /\ ~ c.head[y].p
    BY <1>1, <2>1 DEF TagType
  <2>3. Heads(c) = Heads(i) /\ (\A b \in Heads(i) : b # y => c.head[b] = i.head[b])
    BY DEF HeadIs
  <2> QED  BY <2>2, <2>3 DEF HeadIs, Feet
<1>3. \A a \in Int : a \in Heads(i) <=> ((a \in Heads(h) /\ ~ (x <= a /\ a < y)) \/ a = x \/ a = z)
  BY DEF TagCut
<1>4. Heads(h) \subseteq Int
  BY HeapFields
<1>5. \A a \in Heads(h) : ~ (x <= a /\ a <= y) => c.head[a] = h.head[a]
  <2>1. \A a \in Heads(h) : ~ (x <= a /\ a <= y) => a \in Heads(i) /\ a # y /\ i.head[a] = h.head[a]
    BY <1>3, <1>4 DEF TagCut
  <2> QED  BY <1>2, <2>1
<1>6. x \in Heads(i) /\ z \in Heads(i) /\ x # y /\ z # y
  BY <1>3
<1>7. c.head[x] = i.head[x] /\ c.head[z] = i.head[z]
  BY <1>2, <1>6
<1> QED  BY <1>2, <1>3, <1>5, <1>7 DEF TagCut

(* The block takes the first units of the victim.                          *)
LEMMA DvPart ==
  ASSUME NEW h, NEW p, NEW y, NEW U, FreeBehind(h, p, h.dv, y, U), h.dv # NoMem,
         NEW z \in Int, z - p >= MinChunk, y - z >= MinChunk
  PROVE  LET t == y - z
             g == Victim(ClearPinuse(PutFree(SetInuse(h, p, z - p), z, t), y), z, t)
         IN  Again(h, g, p, U, z - p)
<1> DEFINE s == z - p
           t == y - z
           e == h.dv
           C == {p, e}
           k == NoDv(h)
           j == SetInuse(h, p, s)
           i == PutFree(j, z, t)
           c == ClearPinuse(i, y)
           g == Victim(c, z, t)
<1>0. Sound(h, U) /\ Formed(h)
  BY DEF FreeBehind, Sound
<1>1. OnlyShelf(h, k) /\ Shelved(h, k, {e}) /\ k.bins = h.bins /\ k.dv = NoMem /\ k.dvsize = 0
  BY <1>0, VictimGone
<1> HIDE DEF k
<1>2. Spare(h, k, p, y, C, U)
  BY <1>1, SpareBehind
<1>3. C \cap Frees(h) = {e} /\ h.head[y].c /\ ~ h.head[y].p
  BY FreeBehindIs DEF FreeBehindAt
<1>4. SpareAt(h, k, p, y, C, U)
  BY <1>2, SpareIs
<1> HIDE DEF e, C
<1>5. /\ h \in HeapType /\ p \in Int /\ y \in Int /\ p < y /\ p \in Heads(h) /\ y \in Heads(h)
      /\ y \in Chunks(h) /\ Stretch(h, p, y, C) /\ Formed(h) /\ Held(h, U)
      /\ U \cap Amid(p, y) = {p} /\ Frees(h) \cap Amid(p, y) = C \cap Frees(h)
  BY <1>4 DEF SpareAt, GrowAt
<1>6. s \in Nat /\ s > 0 /\ t \in Nat /\ t > 0 /\ p < z /\ z < y /\ z # p /\ p <= z /\ s = z - p /\ t = y - z /\ t # 0
  BY <1>5, ConstantTypes
<1> HIDE DEF s, t
<1>7. OnlyTags(h, j) /\ InuseSet(h, j, p, s, Tag(h, p).p) /\ j \in HeapType
  BY <1>5, <1>6, SetInuseIs DEF OnlyTags
<1> HIDE DEF j
<1>8. OnlyTags(j, i) /\ FreeTags(j, i, z, t) /\ i \in HeapType
  BY <1>6, <1>7, TagsFrom DEF OnlyTags
<1> HIDE DEF i
<1>9. OnlyTags(i, c) /\ HeadIs(i, c, y, [Tag(i, y) EXCEPT !.p = FALSE]) /\ c \in HeapType
  BY <1>5, <1>8, PinuseIs DEF PinusePut, HeadIs, OnlyTags
<1> HIDE DEF c
<1>10. OnlyShelf(c, g) /\ g.bins = c.bins /\ g.dv = z /\ g.dvsize = t
  BY <1>6, <1>9, VictimFields
<1> HIDE DEF g
<1>11. SameTags(c, g) /\ SameTop(h, g) /\ SameMap(h, g) /\ g.bins = k.bins /\ g \in HeapType
  BY <1>1, <1>7, <1>8, <1>9, <1>10 DEF OnlyTags, OnlyShelf, SameTop, SameMap, SameShelf
<1>12. TagCut(h, i, p, z, y, "free")
  <2>1. Whole(h, i, p, y)
    BY <1>5, <1>8 DEF Whole
  <2>2. Tag(h, p) = h.head[p]
    BY <1>5, TagTyped
  <2>3. InuseSet(h, j, p, z - p, h.head[p].p) /\ FreeTags(j, i, z, y - z) /\ ~ h.head[y].p
    BY <1>3, <1>6, <1>7, <1>8, <2>2
  <2> QED  BY <1>6, <1>7, <2>1, <2>3, SplitCuts
<1>13. y \in Heads(i)
  BY <1>5, <1>6, <1>12 DEF TagCut
<1>14. TagCut(h, c, p, z, y, "free")
  BY <1>5, <1>6, <1>8, <1>9, <1>12, <1>13, ClearedCut
<1>15. Cut(h, g, p, z, y, "free")
  BY <1>11, <1>14, CutIs DEF SameMap
<1>16. Cutting(h, g, p, z, y, "free")
  <2>1. g.mapped = h.mapped
    BY <1>11 DEF SameMap
  <2>2. z - p >= MinChunk /\ y - z >= MinChunk
    OBVIOUS
  <2> QED  BY <1>3, <1>5, <1>6, <1>11, <1>15, <2>1, <2>2, StretchCutting
<1>17. Shelved(g, k, {z}) /\ z \in {z}
  <2>1. Shelved(g, k, ({e} \ Amid(p, y)) \cup (IF "free" = "free" THEN {z} ELSE {}))
    BY <1>1, <1>3, <1>5, <1>16, CutShelved
  <2>2. e \in Amid(p, y)
    BY <1>3, <1>5
  <2>3. ({e} \ Amid(p, y)) \cup (IF "free" = "free" THEN {z} ELSE {}) = {z}
    BY <2>2
  <2> QED  BY <2>1, <2>3
<1>18. Regrown(h, g, p, U, U, s)
  <2>1. Regrown(h, g, p, U, U \cup (IF "free" = "used" THEN {z} ELSE {}), IF z # p THEN z - p ELSE y - p)
    BY <1>5, <1>6, <1>11, <1>16, CutKept
  <2>2. U \cup (IF "free" = "used" THEN {z} ELSE {}) = U
    OBVIOUS
  <2> QED  BY <1>6, <2>1, <2>2
<1>19. Shelved(g, g, {})
  <2>1. g.head[z].size = t /\ Formed(g)
    BY <1>6, <1>16, CutKinds
  <2>2. Shelved(g, g, {z} \ {z})
    BY <1>1, <1>10, <1>11, <1>17, <2>1, NewVictim
  <2>3. {z} \ {z} = {}
    OBVIOUS
  <2> QED  BY <2>2, <2>3
<1>20. Fits(g, p, s)
  BY <1>6, <1>18, ConstantTypes DEF Fits, Regrown
<1>21. Again(h, g, p, U, s)
  BY <1>18, <1>19, <1>20 DEF Again, Sound, Regrown
<1> QED  BY <1>21 DEF g, c, i, j, s, t

(* Results of a reallocation in place.                                     *)
Stays(g, p) == {[m |-> g, mem |-> p]}
Failed(h)   == {[m |-> h, mem |-> NoMem]}

TopGiven(h, p, nb, top) ==
  [PutTop(SetInuse(h, p, nb), p + nb, top) EXCEPT !.top = p + nb, !.topsize = top]

DvGiven(h, p, nb, dvs) ==
  [ClearPinuse(PutFree(SetInuse(h, p, nb), p + nb, dvs), p + nb + dvs) EXCEPT !.dv = p + nb, !.dvsize = dvs]

LEMMA TryReallocIs ==
  ASSUME NEW h, NEW p, NEW nb \in Int, Tag(h, p).size \in Int
  PROVE  LET T == TryRealloc(h, p, nb)
             s == Tag(h, p).size
             next == p + s
             n == Tag(h, next)
         IN  /\ IsMmapped(Tag(h, p)) => T = MmapResize(h, p, nb)
             /\ ~ IsMmapped(Tag(h, p)) /\ s >= nb =>
                  T = IF s - nb < MinChunk THEN Stays(h, p) ELSE Stays(CutBlock(h, p, nb, s), p)
             /\ ~ IsMmapped(Tag(h, p)) /\ s < nb /\ next = h.top /\ next # h.dv =>
                  T = IF s + h.topsize - nb <= 0 THEN Failed(h) ELSE Stays(TopGiven(h, p, nb, s + h.topsize - nb), p)
             /\ ~ IsMmapped(Tag(h, p)) /\ s < nb /\ next # h.top /\ next = h.dv =>
                  T = IF s + h.dvsize - nb < 0 THEN Failed(h)
                      ELSE IF s + h.dvsize - nb < MinChunk THEN Stays(NoDv(SetInuse(h, p, s + h.dvsize)), p)
                      ELSE Stays(DvGiven(h, p, nb, s + h.dvsize - nb), p)
             /\ ~ IsMmapped(Tag(h, p)) /\ s < nb /\ next # h.top /\ next # h.dv =>
                  T = IF n.c \/ s + n.size < nb THEN Failed(h)
                      ELSE Stays(CutBlock(Unlink(h, next, n.size), p, nb, s + n.size), p)
<1> DEFINE T == TryRealloc(h, p, nb)
           s == Tag(h, p).size
           next == p + s
           n == Tag(h, next)
           at(g) == {[m |-> g, mem |-> p]}
           cut(g, size) ==
             IF size - nb < MinChunk THEN at(SetInuse(g, p, size))
             ELSE at(DisposeChunk(SetInuse(SetInuse(g, p, nb), p + nb, size - nb), p + nb, size - nb))
           failed == {[m |-> h, mem |-> NoMem]}
           top == s + h.topsize - nb
           dvs == s + h.dvsize - nb
           x == MmapResize(h, p, nb)
           a == IF s - nb < MinChunk THEN at(h) ELSE cut(h, s)
           b == IF top <= 0 THEN failed
                ELSE at([PutTop(SetInuse(h, p, nb), p + nb, top) EXCEPT !.top = p + nb, !.topsize = top])
           c == IF dvs < 0 THEN failed
                ELSE IF dvs < MinChunk THEN at(NoDv(SetInuse(h, p, s + h.dvsize)))
                ELSE at([ClearPinuse(PutFree(SetInuse(h, p, nb), p + nb, dvs), p + nb + dvs)
                           EXCEPT !.dv = p + nb, !.dvsize = dvs])
           d == IF n.c \/ s + n.size < nb THEN failed ELSE cut(Unlink(h, next, n.size), s + n.size)
           mm == IsMmapped(Tag(h, p))
           ka == mm
           kb == ~ mm /\ s >= nb
           kc == ~ mm /\ s < nb /\ next = h.top
           kd == ~ mm /\ s < nb /\ next = h.dv
<1>1. T = CASE ka -> x [] kb -> a [] kc -> b [] kd -> c [] OTHER -> d
  BY DEF TryRealloc
<1>2. /\ mm => ka /\ ~ kb /\ ~ kc /\ ~ kd
      /\ ~ mm /\ s >= nb => ~ ka /\ kb /\ ~ kc /\ ~ kd
      /\ ~ mm /\ s < nb /\ next = h.top /\ next # h.dv => ~ ka /\ ~ kb /\ kc /\ ~ kd
      /\ ~ mm /\ s < nb /\ next # h.top /\ next = h.dv => ~ ka /\ ~ kb /\ ~ kc /\ kd
      /\ ~ mm /\ s < nb /\ next # h.top /\ next # h.dv => ~ ka /\ ~ kb /\ ~ kc /\ ~ kd
  <2>1. ~ (s >= nb /\ s < nb)
    BY SMT
  <2> HIDE DEF mm, next, s, n
  <2> QED  BY <2>1
<1>3. \A g, size : cut(g, size) = Stays(CutBlock(g, p, nb, size), p)
  BY DEF Stays, CutBlock
<1>4. a = IF s - nb < MinChunk THEN Stays(h, p) ELSE Stays(CutBlock(h, p, nb, s), p)
  <2> HIDE DEF cut
  <2> QED  BY <1>3 DEF Stays
<1>5. b = IF top <= 0 THEN Failed(h) ELSE Stays(TopGiven(h, p, nb, top), p)
  BY DEF Stays, Failed, TopGiven
<1>6. c = IF dvs < 0 THEN Failed(h)
          ELSE IF dvs < MinChunk THEN Stays(NoDv(SetInuse(h, p, s + h.dvsize)), p)
          ELSE Stays(DvGiven(h, p, nb, dvs), p)
  BY DEF Stays, Failed, DvGiven
<1>7. d = IF n.c \/ s + n.size < nb THEN Failed(h) ELSE Stays(CutBlock(Unlink(h, next, n.size), p, nb, s + n.size), p)
  <2> HIDE DEF cut
  <2> QED  BY <1>3 DEF Failed
<1> HIDE DEF T, x, a, b, c, d, ka, kb, kc, kd, mm, top, dvs, n, next, s, cut, at, failed
<1>8. ka /\ ~ kb /\ ~ kc /\ ~ kd => T = x
  BY <1>1, Zenon
<1>9. ~ ka /\ kb /\ ~ kc /\ ~ kd => T = a
  BY <1>1, Zenon
<1>10. ~ ka /\ ~ kb /\ kc /\ ~ kd => T = b
  BY <1>1, Zenon
<1>11. ~ ka /\ ~ kb /\ ~ kc /\ kd => T = c
  BY <1>1, Zenon
<1>12. ~ ka /\ ~ kb /\ ~ kc /\ ~ kd => T = d
  BY <1>1, Zenon
<1>13. mm => T = x
  BY <1>2, <1>8
<1>14. ~ mm /\ s >= nb => T = IF s - nb < MinChunk THEN Stays(h, p) ELSE Stays(CutBlock(h, p, nb, s), p)
  BY <1>2, <1>4, <1>9
<1>15. ~ mm /\ s < nb /\ next = h.top /\ next # h.dv =>
          T = IF top <= 0 THEN Failed(h) ELSE Stays(TopGiven(h, p, nb, top), p)
  BY <1>2, <1>5, <1>10
<1>16. ~ mm /\ s < nb /\ next # h.top /\ next = h.dv =>
          T = IF dvs < 0 THEN Failed(h)
              ELSE IF dvs < MinChunk THEN Stays(NoDv(SetInuse(h, p, s + h.dvsize)), p)
              ELSE Stays(DvGiven(h, p, nb, dvs), p)
  BY <1>2, <1>6, <1>11
<1>17. ~ mm /\ s < nb /\ next # h.top /\ next # h.dv =>
          T = IF n.c \/ s + n.size < nb THEN Failed(h) ELSE Stays(CutBlock(Unlink(h, next, n.size), p, nb, s + n.size), p)
  BY <1>2, <1>7, <1>12
<1> QED  BY <1>13, <1>14, <1>15, <1>16, <1>17 DEF T, x, mm, top, dvs, n, next, s

Retried(h, r, p, U, nb) == (r.m = h /\ r.mem = NoMem) \/ (r.mem = p /\ Again(h, r.m, p, U, nb))

LEMMA FailedIs ==
  ASSUME NEW h, NEW p, NEW U, NEW nb, NEW r \in Failed(h)
  PROVE  Retried(h, r, p, U, nb)
BY DEF Failed, Retried

LEMMA StaysIs ==
  ASSUME NEW h, NEW p, NEW U, NEW nb, NEW g, Again(h, g, p, U, nb), NEW r \in Stays(g, p)
  PROVE  Retried(h, r, p, U, nb)
BY DEF Stays, Retried

(* A block of the heap that is to be nb units.                             *)
Resizing(h, p, U, nb) == Sound(h, U) /\ p \in U /\ p \in Useds(h) /\ nb \in Nat /\ nb >= MinChunk

ResizeAt(h, p, e, s, U) ==
  /\ h \in HeapType /\ Formed(h) /\ Held(h, U) /\ Shelved(h, h, {})
  /\ p \in Chunks(h) /\ p # h.top /\ p \notin Records(h) /\ p \notin Frees(h) /\ p \in Int /\ s \in Nat /\ s >= MinChunk
  /\ e = p + s /\ e \in Int /\ e \in Chunks(h) /\ e \in Heads(h) /\ h.head[p].size = s /\ Growing(h, p, e, {p}, U)
  /\ Tag(h, p) = h.head[p] /\ Tag(h, e) = h.head[e] /\ e # NoMem /\ h.dvsize \in Int /\ h.topsize \in Nat
  /\ h.head[e].size \in Nat

LEMMA ResizingIs ==
  ASSUME NEW h, NEW p, NEW U, NEW nb, Resizing(h, p, U, nb)
  PROVE  ResizeAt(h, p, Behind(h, p), h.head[p].size, U)
<1> DEFINE e == Behind(h, p)
           s == h.head[p].size
<1>1. /\ h \in HeapType /\ Formed(h) /\ Held(h, U) /\ Shelved(h, h, {}) /\ p \in U /\ p \in Useds(h)
      /\ Heads(h) \subseteq Int
  BY HeapTypes DEF Resizing, Sound
<1>2. p \in Chunks(h) /\ p # h.top /\ p \notin Records(h) /\ p \notin Frees(h)
  BY <1>1 DEF Useds, Frees, Held
<1>3. p \in Int /\ h.head[p] \in TagType /\ s >= MinChunk /\ e = p + s /\ Tag(h, p) = h.head[p]
  BY <1>1, <1>2, ChunkIs
<1>4. Stretch(h, p, e, {p})
  BY <1>1, <1>2, OneStretch
<1>5. e \in Chunks(h)
  BY <1>1, <1>2, NextChunk
<1> HIDE DEF e
<1>6. e \in Int /\ e \in Heads(h) /\ Tag(h, e) = h.head[e] /\ h.head[e] \in TagType
  BY <1>1, <1>5, ChunkIs
<1>7. Growing(h, p, e, {p}, U)
  BY <1>1, <1>4 DEF Growing
<1>8. e # NoMem
  BY <1>1, <1>6, InMemory
<1>9. h.dvsize \in Int /\ h.topsize \in Nat
  BY <1>1, HeapFields, TopIs
<1>10. s \in Nat /\ h.head[e].size \in Nat
  BY <1>3, <1>6 DEF TagType
<1> QED  BY <1>1, <1>2, <1>3, <1>5, <1>6, <1>7, <1>8, <1>9, <1>10 DEF ResizeAt, e

LEMMA ShrinkIs ==
  ASSUME NEW h, NEW p, NEW U, NEW nb, Resizing(h, p, U, nb), h.head[p].size >= nb
  PROVE  /\ h.head[p].size - nb < MinChunk => Again(h, h, p, U, nb)
         /\ Again(h, CutBlock(h, p, nb, h.head[p].size), p, U, nb)
<1> DEFINE e == Behind(h, p)
           s == h.head[p].size
<1>1. ResizeAt(h, p, e, s, U) /\ nb \in Nat /\ nb >= MinChunk
  BY ResizingIs DEF Resizing
<1> HIDE DEF e
<1>2. /\ h \in HeapType /\ Formed(h) /\ Held(h, U) /\ Shelved(h, h, {}) /\ p \notin Frees(h)
      /\ p \in Int /\ s \in Nat /\ e = p + s /\ e \in Chunks(h) /\ Growing(h, p, e, {p}, U) /\ s >= MinChunk
  BY <1>1 DEF ResizeAt
<1>3. ASSUME s - nb < MinChunk PROVE Again(h, h, p, U, nb)
  <2>1. Fits(h, p, nb)
    <3>1. s < nb + MinChunk
      BY <1>1, <1>2, <1>3, ConstantTypes
    <3> QED  BY <3>1 DEF Fits
  <2> QED  BY <1>2, <2>1 DEF Again, Sound, Keeps, SameMap
<1>4. Again(h, CutBlock(h, p, nb, s), p, U, nb)
  <2>1. OnlyShelf(h, h)
    BY <1>2, SameHeap
  <2>2. {p} \cap Frees(h) = {}
    BY <1>2
  <2>3. e - p = s
    BY <1>2
  <2> HIDE DEF s
  <2>4. Spare(h, h, p, e, {p}, U)
    BY <1>2, <2>1, <2>2, <2>3 DEF Spare
  <2>5. Again(h, CutBlock(h, p, nb, e - p), p, U, nb)
    <3>1. nb <= e - p
      BY <1>1, <1>2, <2>3 DEF s
    <3> QED  BY <1>1, <2>4, <3>1, CutBlockIs
  <2> QED  BY <2>3, <2>5
<1> QED  BY <1>3, <1>4

LEMMA GrowTopIs ==
  ASSUME NEW h, NEW p, NEW U, NEW nb, Resizing(h, p, U, nb), Behind(h, p) = h.top,
         h.head[p].size + h.topsize - nb > 0
  PROVE  Again(h, TopGiven(h, p, nb, h.head[p].size + h.topsize - nb), p, U, nb)
<1> DEFINE s == h.head[p].size
           t == s + h.topsize - nb
<1>1. ResizeAt(h, p, h.top, s, U) /\ nb \in Nat /\ nb >= MinChunk /\ Sound(h, U)
  BY ResizingIs DEF Resizing
<1>2. /\ h.top = p + s /\ p \in Int /\ s \in Nat /\ h.topsize \in Nat /\ Growing(h, p, h.top, {p}, U)
  BY <1>1 DEF ResizeAt
<1> HIDE DEF s
<1>3. t = Mark(h) - (p + nb) /\ p + nb < Mark(h)
  BY <1>1, <1>2 DEF Mark, s
<1>4. LET u == Mark(h) - (p + nb)
          g == SetTop(PutTop(SetInuse(h, p, nb), p + nb, u), p + nb, u)
      IN  Again(h, g, p, U, nb)
  BY <1>1, <1>2, <1>3, TopKept
<1>5. Again(h, SetTop(PutTop(SetInuse(h, p, nb), p + nb, t), p + nb, t), p, U, nb)
  BY <1>3, <1>4
<1> QED  BY <1>5 DEF SetTop, TopGiven, s

LEMMA GrowFree ==
  ASSUME NEW h, NEW p, NEW U, NEW nb, Resizing(h, p, U, nb), Behind(h, p) \in Frees(h)
  PROVE  LET e == Behind(h, p)
         IN  /\ FreeBehind(h, p, e, Behind(h, e), U)
             /\ Behind(h, e) - p = h.head[p].size + h.head[e].size
<1> DEFINE e == Behind(h, p)
           y == Behind(h, e)
<1>1. FreeBehind(h, p, e, y, U)
  BY SMTT(30) DEF Resizing, FreeBehind
<1> HIDE DEF e, y
<1>2. y - p = h.head[p].size + h.head[e].size
  <2>1. FreeBehindAt(h, p, e, y, U)
    BY <1>1, FreeBehindIs
  <2> QED  BY <2>1 DEF FreeBehindAt
<1> QED  BY <1>1, <1>2, Zenon DEF e, y

LEMMA GrowDvIs ==
  ASSUME NEW h, NEW p, NEW U, NEW nb, Resizing(h, p, U, nb), Behind(h, p) = h.dv
  PROVE  LET s == h.head[p].size
             dvs == s + h.dvsize - nb
         IN  /\ dvs >= 0 /\ dvs < MinChunk => Again(h, NoDv(SetInuse(h, p, s + h.dvsize)), p, U, nb)
             /\ ~ (dvs < 0) /\ ~ (dvs < MinChunk) => Again(h, DvGiven(h, p, nb, dvs), p, U, nb)
<1> DEFINE s == h.head[p].size
           d == h.dvsize
           e == h.dv
           dvs == s + d - nb
           y == Behind(h, e)
           z == p + nb
<1>1. ResizeAt(h, p, e, s, U) /\ nb \in Nat /\ nb >= MinChunk /\ Sound(h, U)
  BY ResizingIs DEF Resizing
<1>2. p \in Int /\ s \in Nat /\ d \in Int /\ e # NoMem /\ e \in Chunks(h) /\ Formed(h) /\ Shelved(h, h, {})
  BY <1>1 DEF ResizeAt
<1>3. e \in Frees(h)
  BY <1>2, VictimIs
<1>4. h.head[e].size = d
  BY <1>1, <1>2, VictimGone
<1>5. FreeBehind(h, p, h.dv, y, U) /\ y - p = s + d
  BY <1>3, <1>4, GrowFree
<1>6. y \in Int
  BY <1>5, FreeBehindIs DEF FreeBehindAt
<1> HIDE DEF y
<1>7. ASSUME dvs >= 0, dvs < MinChunk PROVE Again(h, NoDv(SetInuse(h, p, s + d)), p, U, nb)
  <2> HIDE DEF s, d
  <2>1. nb <= y - p /\ y - p < nb + MinChunk
    BY <1>1, <1>2, <1>5, <1>6, <1>7, ConstantTypes
  <2>2. Again(h, NoDv(SetInuse(h, p, y - p)), p, U, nb)
    BY <1>1, <1>2, <1>5, <2>1, DvWhole
  <2> QED  BY <1>5, <2>2
<1>8. ASSUME ~ (dvs < 0), ~ (dvs < MinChunk) PROVE Again(h, DvGiven(h, p, nb, dvs), p, U, nb)
  <2> HIDE DEF s, d
  <2>1. z \in Int /\ z - p >= MinChunk /\ y - z >= MinChunk /\ y - z = dvs /\ z - p = nb /\ y = p + nb + dvs
    BY <1>1, <1>2, <1>5, <1>6, <1>8, ConstantTypes
  <2>2. LET t == y - z
            g == Victim(ClearPinuse(PutFree(SetInuse(h, p, z - p), z, t), y), z, t)
        IN  Again(h, g, p, U, z - p)
    BY <1>2, <1>5, <2>1, DvPart
  <2> HIDE DEF dvs
  <2>3. Again(h, Victim(ClearPinuse(PutFree(SetInuse(h, p, nb), p + nb, dvs), p + nb + dvs), p + nb, dvs), p, U, nb)
    BY <2>1, <2>2
  <2> QED  BY <2>3 DEF Victim, DvGiven
<1> QED  BY <1>7, <1>8

LEMMA GrowFreeIs ==
  ASSUME NEW h, NEW p, NEW U, NEW nb, Resizing(h, p, U, nb), Behind(h, p) \in Frees(h), Behind(h, p) # h.dv
  PROVE  LET s == h.head[p].size
             e == Behind(h, p)
             t == h.head[e].size
         IN  s + t >= nb => Again(h, CutBlock(Unlink(h, e, t), p, nb, s + t), p, U, nb)
<1> DEFINE s == h.head[p].size
           e == Behind(h, p)
           t == h.head[e].size
           k == Unlink(h, e, t)
           y == Behind(h, e)
<1>1. ResizeAt(h, p, e, s, U) /\ nb \in Nat /\ nb >= MinChunk /\ Sound(h, U)
  BY ResizingIs DEF Resizing
<1> HIDE DEF e
<1>2. p \in Int /\ s \in Nat /\ Formed(h) /\ Shelved(h, h, {}) /\ h \in HeapType
  BY <1>1 DEF ResizeAt
<1>3. FreeBehind(h, p, e, y, U) /\ y - p = s + t /\ e \in Frees(h) \ {} /\ e # h.dv
  BY GrowFree DEF e
<1>4. OnlyShelf(h, k) /\ Shelved(h, k, {e})
  <2>1. OnlyShelf(h, k) /\ Shelved(h, k, {} \cup {e})
    BY <1>2, <1>3, UnlinkIs
  <2>2. {} \cup {e} = {e}
    OBVIOUS
  <2> QED  BY <2>1, <2>2
<1> HIDE DEF k, y
<1>5. Spare(h, k, p, y, {p, e}, U)
  BY <1>3, <1>4, SpareBehind
<1> HIDE DEF s, t
<1>6. ASSUME s + t >= nb PROVE Again(h, CutBlock(k, p, nb, s + t), p, U, nb)
  <2>1. nb <= y - p
    <3>1. s + t \in Int
      <4>1. t \in Nat
        BY <1>1 DEF ResizeAt, t
      <4> QED  BY <1>2, <4>1
    <3> QED  BY <1>1, <1>3, <1>6, <3>1
  <2>2. Again(h, CutBlock(k, p, nb, y - p), p, U, nb)
    BY <1>1, <1>5, <2>1, CutBlockIs
  <2> QED  BY <1>3, <2>2
<1> QED  BY <1>6 DEF k, t, s, e

(* In place a block gets what was asked for, or nothing is done.           *)
LEMMA TryReallocSound ==
  ASSUME NEW h, NEW p, NEW U, NEW nb, Resizing(h, p, U, nb), NEW r \in TryRealloc(h, p, nb)
  PROVE  Retried(h, r, p, U, nb)
<1> DEFINE T == TryRealloc(h, p, nb)
           s == h.head[p].size
           e == Behind(h, p)
           n == h.head[e]
<1>1. ResizeAt(h, p, e, s, U) /\ nb \in Nat /\ nb >= MinChunk /\ Sound(h, U) /\ p \in Useds(h)
  BY ResizingIs DEF Resizing
<1>2. /\ p \in Int /\ s \in Nat /\ Formed(h) /\ Shelved(h, h, {}) /\ h \in HeapType /\ h.dvsize \in Int /\ h.topsize \in Nat
      /\ Tag(h, p) = h.head[p] /\ e = p + s /\ e \in Chunks(h) /\ n.size \in Nat /\ e \in Int /\ Tag(h, e) = n
  BY <1>1 DEF ResizeAt
<1>3. ~ IsMmapped(Tag(h, p)) /\ Tag(h, p).size = s
  BY <1>1, <1>2 DEF Useds, IsMmapped
<1>4. /\ s >= nb => T = IF s - nb < MinChunk THEN Stays(h, p) ELSE Stays(CutBlock(h, p, nb, s), p)
      /\ s < nb /\ e = h.top /\ e # h.dv =>
           T = IF s + h.topsize - nb <= 0 THEN Failed(h) ELSE Stays(TopGiven(h, p, nb, s + h.topsize - nb), p)
      /\ s < nb /\ e # h.top /\ e = h.dv =>
           T = IF s + h.dvsize - nb < 0 THEN Failed(h)
               ELSE IF s + h.dvsize - nb < MinChunk THEN Stays(NoDv(SetInuse(h, p, s + h.dvsize)), p)
               ELSE Stays(DvGiven(h, p, nb, s + h.dvsize - nb), p)
      /\ s < nb /\ e # h.top /\ e # h.dv =>
           T = IF n.c \/ s + n.size < nb THEN Failed(h) ELSE Stays(CutBlock(Unlink(h, e, n.size), p, nb, s + n.size), p)
  <2>1. nb \in Int /\ Tag(h, p).size \in Int
    BY <1>1, <1>2, <1>3
  <2> HIDE DEF T, e, n
  <2> QED  BY <1>2, <1>3, <2>1, TryReallocIs DEF T
<1>5. h.dv # h.top
  BY <1>2, VictimIs
<1>6. CASE s >= nb
  <2>1. CASE s - nb < MinChunk
    <3>1. Again(h, h, p, U, nb)
      BY <1>6, <2>1, ShrinkIs
    <3>2. r \in Stays(h, p)
      BY <1>4, <1>6, <2>1
    <3> QED  BY <3>1, <3>2, StaysIs
  <2>2. CASE ~ (s - nb < MinChunk)
    <3>1. Again(h, CutBlock(h, p, nb, s), p, U, nb)
      BY <1>6, ShrinkIs
    <3>2. r \in Stays(CutBlock(h, p, nb, s), p)
      BY <1>4, <1>6, <2>2
    <3> QED  BY <3>1, <3>2, StaysIs
  <2> QED  BY <2>1, <2>2
<1>7. CASE s < nb /\ e = h.top
  <2>0. T = IF s + h.topsize - nb <= 0 THEN Failed(h) ELSE Stays(TopGiven(h, p, nb, s + h.topsize - nb), p)
    BY <1>4, <1>5, <1>7
  <2>1. CASE s + h.topsize - nb <= 0
    BY <2>0, <2>1, FailedIs
  <2>2. CASE ~ (s + h.topsize - nb <= 0)
    <3>0. s + h.topsize - nb > 0
      <4> HIDE DEF s
      <4> QED  BY <1>1, <1>2, <2>2
    <3>1. Again(h, TopGiven(h, p, nb, s + h.topsize - nb), p, U, nb)
      BY <1>7, <3>0, GrowTopIs
    <3>2. r \in Stays(TopGiven(h, p, nb, s + h.topsize - nb), p)
      BY <2>0, <2>2
    <3> QED  BY <3>1, <3>2, StaysIs
  <2> QED  BY <2>1, <2>2
<1>8. CASE s < nb /\ e = h.dv
  <2> DEFINE dvs == s + h.dvsize - nb
             a == NoDv(SetInuse(h, p, s + h.dvsize))
             b == DvGiven(h, p, nb, dvs)
  <2>0. T = IF dvs < 0 THEN Failed(h) ELSE IF dvs < MinChunk THEN Stays(a, p) ELSE Stays(b, p)
    BY <1>4, <1>5, <1>8
  <2>1. /\ dvs >= 0 /\ dvs < MinChunk => Again(h, a, p, U, nb)
        /\ ~ (dvs < 0) /\ ~ (dvs < MinChunk) => Again(h, b, p, U, nb)
    BY <1>8, GrowDvIs
  <2>2. dvs \in Int
    BY <1>1, <1>2
  <2>3. r \in T
    OBVIOUS
  <2> HIDE DEF dvs, a, b, T
  <2>4. CASE dvs < 0
    BY <2>0, <2>3, <2>4, FailedIs
  <2>5. CASE ~ (dvs < 0) /\ dvs < MinChunk
    <3>1. dvs >= 0
      BY <2>2, <2>5
    <3>2. Again(h, a, p, U, nb) /\ r \in Stays(a, p)
      BY <2>0, <2>1, <2>3, <2>5, <3>1
    <3> QED  BY <3>2, StaysIs
  <2>6. CASE ~ (dvs < 0) /\ ~ (dvs < MinChunk)
    <3>2. Again(h, b, p, U, nb) /\ r \in Stays(b, p)
      BY <2>0, <2>1, <2>3, <2>6
    <3> QED  BY <3>2, StaysIs
  <2> QED  BY <2>4, <2>5, <2>6
<1>9. CASE s < nb /\ e # h.top /\ e # h.dv
  <2> DEFINE a == CutBlock(Unlink(h, e, n.size), p, nb, s + n.size)
  <2>0. T = IF n.c \/ s + n.size < nb THEN Failed(h) ELSE Stays(a, p)
    BY <1>4, <1>9
  <2>1. CASE n.c \/ s + n.size < nb
    BY <2>0, <2>1, FailedIs
  <2>2. CASE ~ (n.c \/ s + n.size < nb)
    <3>1. e \in Frees(h)
      BY <1>2, <1>9, <2>2 DEF Frees
    <3>2. s + n.size >= nb
      <4> HIDE DEF s, n
      <4> QED  BY <1>1, <1>2, <2>2
    <3>3. Again(h, a, p, U, nb)
      BY <1>9, <3>1, <3>2, GrowFreeIs
    <3>4. r \in Stays(a, p)
      BY <2>0, <2>2
    <3> QED  BY <3>3, <3>4, StaysIs
  <2> QED  BY <2>1, <2>2
<1>10. s >= nb \/ s < nb
  BY <1>1, <1>2
<1> QED  BY <1>6, <1>7, <1>8, <1>9, <1>10

-----------------------------------------------------------------------------
(* malloc: which chunk is taken.                                           *)

LEMMA LeastOf ==
  ASSUME NEW T \in SUBSET Nat, T # {}
  PROVE  Min(T) \in T /\ \A y \in T : Min(T) <= y
<1>1. PICK x \in T : \A y \in T : ~ (<<y, x>> \in OpToRel(<, Nat))
  BY NatLessThanWellFounded, WFMin
<1>2. \A y \in T : ~ (y < x)
  BY <1>1 DEF OpToRel
<1>3. \E z \in T : \A y \in T : z <= y
  BY <1>2
<1> QED  BY <1>3 DEF Min

LEMMA FitsAre ==
  ASSUME NEW h \in HeapType, NEW nb \in Nat
  PROVE  /\ SmallFits(h.bins, nb) # {} => LET s == Min(SmallFits(h.bins, nb)) IN s \in Sizes /\ h.bins[s] # <<>> /\ nb <= s
         /\ LargeFits(h.bins, nb) # {} => LET s == Min(LargeFits(h.bins, nb)) IN s \in Sizes /\ h.bins[s] # <<>> /\ nb <= s
<1>1. DOMAIN h.bins = Sizes /\ Sizes \subseteq Nat
  BY HeapFields, ConstantTypes DEF Sizes
<1>2. SmallFits(h.bins, nb) \subseteq Nat /\ LargeFits(h.bins, nb) \subseteq Nat
  BY <1>1 DEF SmallFits, LargeFits
<1>3. \A s \in SmallFits(h.bins, nb) \cup LargeFits(h.bins, nb) : s \in Sizes /\ h.bins[s] # <<>> /\ nb <= s
  <2>1. \A s \in SmallFits(h.bins, nb) \cup LargeFits(h.bins, nb) : s \in Sizes /\ h.bins[s] # <<>> /\ s >= nb
    BY <1>1 DEF SmallFits, LargeFits
  <2> QED  BY <1>1, <2>1
<1>4. SmallFits(h.bins, nb) # {} => Min(SmallFits(h.bins, nb)) \in SmallFits(h.bins, nb)
  BY <1>2, LeastOf
<1>5. LargeFits(h.bins, nb) # {} => Min(LargeFits(h.bins, nb)) \in LargeFits(h.bins, nb)
  BY <1>2, LeastOf
<1> QED  BY <1>3, <1>4, <1>5

(* A request that the space can meet without the system.                   *)
LEMMA PickGiven ==
  ASSUME NEW h, NEW U, Sound(h, U), MinLarge <= Memory, NEW nb \in Nat, nb >= MinChunk, NEW r \in MallocChunk(h, nb)
  PROVE  r \in SysAlloc(h, nb) \/ (Given(h, r, U, nb) /\ SameMap(h, r.m))
<1> DEFINE smalls == SmallFits(h.bins, nb)
           larges == LargeFits(h.bins, nb)
           least  == Min(smalls)
           best   == Min(larges)
           A == IsSmall(nb) /\ h.bins[nb] # <<>>
           B == IsSmall(nb) /\ nb > h.dvsize /\ smalls # {}
           C == IsSmall(nb) /\ nb > h.dvsize /\ larges # {}
           D == ~ IsSmall(nb) /\ larges # {} /\ (h.dvsize < nb \/ best < h.dvsize)
           E == nb <= h.dvsize
           F == nb < h.topsize
           ta == Take(h, nb, nb, FALSE)
           tb == Take(h, least, nb, TRUE)
           tc == Take(h, best, nb, TRUE)
           td == Take(h, best, nb, FALSE)
           te == TakeDv(h, nb)
           tf == SplitTop(h, nb)
           Good(x) == Given(h, x, U, nb) /\ SameMap(h, x.m)
<1>1. MallocChunk(h, nb) = IF A THEN {ta} ELSE IF B THEN {tb} ELSE IF C THEN {tc} ELSE IF D THEN {td}
                           ELSE IF E THEN {te} ELSE IF F THEN {tf} ELSE SysAlloc(h, nb)
  BY DEF MallocChunk
<1>2. h \in HeapType
  BY HeapTypes DEF Sound
<1>3. smalls # {} => least \in Sizes /\ h.bins[least] # <<>> /\ nb <= least
  BY <1>2, FitsAre
<1>4. larges # {} => best \in Sizes /\ h.bins[best] # <<>> /\ nb <= best
  BY <1>2, FitsAre
<1>5. A => nb \in Sizes /\ nb <= nb
  BY ConstantTypes, MinLargeAssumption, MallocAssumption DEF IsSmall, Sizes
<1> HIDE DEF smalls, larges, least, best
<1>6. A => Good(ta)
  BY <1>5, TakeGiven
<1>7. B => Good(tb)
  BY <1>3, TakeGiven
<1>8. C => Good(tc)
  BY <1>4, TakeGiven
<1>9. D => Good(td)
  BY <1>4, TakeGiven
<1>10. E => Good(te)
  BY TakeDvGiven
<1>11. F => Good(tf)
  BY SplitTopGiven
<1>12. r \in MallocChunk(h, nb)
  OBVIOUS
<1> HIDE DEF A, B, C, D, E, F, ta, tb, tc, td, te, tf, Good
<1>13. \/ r \in SysAlloc(h, nb) \/ (A /\ r = ta) \/ (B /\ r = tb) \/ (C /\ r = tc) \/ (D /\ r = td) \/ (E /\ r = te) \/ (F /\ r = tf)
  BY <1>1, <1>12
<1>14. r \in SysAlloc(h, nb) \/ Good(r)
  BY <1>6, <1>7, <1>8, <1>9, <1>10, <1>11, <1>13
<1> QED  BY <1>14 DEF Good

-----------------------------------------------------------------------------
(* Pages.                                                                  *)

LEMMA TimesMonotone ==
  ASSUME NEW d \in Nat \ {0}, NEW i \in Int, NEW j \in Int
  PROVE  (d * i < d * j => i < j) /\ (i <= j => d * i <= d * j) /\ d * i \in Int /\ d * (i + j) = d * i + d * j
<1>1. d * i \in Int /\ d * j \in Int /\ d * (i + j) = d * i + d * j /\ d * (j - i) = d * j - d * i /\ d * (i - j) = d * i - d * j
  BY SMT
<1>2. \A k \in Nat : d * k \in Nat
  BY SMT
<1>3. ASSUME i <= j PROVE d * i <= d * j
  <2>1. j - i \in Nat
    BY <1>3
  <2>2. d * (j - i) \in Nat
    BY <1>2, <2>1
  <2> QED  BY <1>1, <2>2
<1>4. ASSUME d * i < d * j PROVE i < j
  <2>1. ASSUME i >= j PROVE FALSE
    <3>1. i - j \in Nat
      BY <2>1
    <3>2. d * (i - j) \in Nat
      BY <1>2, <3>1
    <3> QED  BY <1>1, <1>4, <3>2
  <2> QED  BY <2>1
<1> QED  BY <1>1, <1>3, <1>4

LEMMA DivIs ==
  ASSUME NEW d \in Nat \ {0}, NEW x \in Int
  PROVE  x \div d \in Int /\ x % d \in Int /\ x = d * (x \div d) + (x % d) /\ 0 <= x % d /\ x % d < d
BY SMT

LEMMA DivBetween ==
  ASSUME NEW d \in Nat \ {0}, NEW x \in Int, NEW i \in Int
  PROVE  (d * i <= x => i <= x \div d) /\ (i <= x \div d => d * i <= x)
<1> DEFINE q == x \div d
<1>1. q \in Int /\ d * q <= x /\ x < d * q + d
  BY DivIs
<1> HIDE DEF q
<1>2. d * (q + 1) = d * q + d /\ d * i \in Int /\ d * (q + 1) \in Int /\ d * q \in Int
  BY <1>1, SMT
<1>3. ASSUME d * i <= x PROVE i <= q
  <2>1. d * i < d * (q + 1)
    BY <1>1, <1>2, <1>3
  <2>2. i < q + 1
    BY <1>1, <2>1, TimesMonotone
  <2> QED  BY <1>1, <2>2
<1>4. ASSUME i <= q PROVE d * i <= x
  <2>1. d * i <= d * q
    BY <1>1, <1>4, TimesMonotone
  <2> QED  BY <1>1, <1>2, <2>1
<1> QED  BY <1>3, <1>4 DEF q

(* Memory in whole pages.                                                  *)
InMem(a, n, x) == a <= x /\ x < a + n

Paged(a, n) == a \in Nat /\ n \in Nat \ {0} /\ a % Page = 0 /\ n % Page = 0

LEMMA PagedIs ==
  ASSUME NEW a, NEW n, Paged(a, n)
  PROVE  /\ a \div Page \in Nat /\ n \div Page \in Nat \ {0} /\ a = Page * (a \div Page) /\ n = Page * (n \div Page)
         /\ Pages(a, n) = a \div Page .. (a \div Page + n \div Page) - 1
<1> DEFINE i == a \div Page
           j == n \div Page
<1>1. a \in Nat /\ n \in Nat \ {0} /\ a % Page = 0 /\ n % Page = 0 /\ Page \in Nat \ {0}
  BY ConstantTypes DEF Paged
<1>2. i \in Int /\ j \in Int /\ a = Page * i /\ n = Page * j
  BY <1>1, DivIs
<1>3. Page * 0 = 0 /\ 0 \in Int
  BY <1>1, SMT
<1>4. i \in Nat
  <2>1. 0 <= i
    BY <1>1, <1>3, DivBetween
  <2> QED  BY <1>2, <2>1
<1>5. j \in Nat \ {0}
  <2>1. Page * 0 < Page * j
    BY <1>1, <1>2, <1>3
  <2> HIDE DEF j
  <2>2. 0 < j
    BY <1>1, <1>2, <1>3, <2>1, TimesMonotone
  <2> QED  BY <1>2, <2>2
<1>6. (a + n - 1) \div Page = (i + j) - 1
  <2> DEFINE x == a + n - 1
             q == x \div Page
  <2> HIDE DEF i, j
  <2>1. Page * (i + j) = a + n /\ Page * ((i + j) - 1) = a + n - Page
    BY <1>1, <1>2, SMT
  <2>2. x \in Int /\ q \in Int /\ a + n - Page <= x
    BY <1>1, DivIs
  <2>3. (i + j) - 1 \in Int /\ i + j \in Int
    BY <1>2
  <2>4. Page * ((i + j) - 1) <= x /\ ~ (Page * (i + j) <= x)
    BY <1>1, <2>1, <2>2
  <2> HIDE DEF x
  <2>5. (i + j) - 1 <= q
    BY <1>1, <2>2, <2>3, <2>4, DivBetween
  <2>6. ~ (i + j <= q)
    BY <1>1, <2>2, <2>3, <2>4, DivBetween
  <2> HIDE DEF q
  <2>7. q = (i + j) - 1
    BY <2>2, <2>3, <2>5, <2>6
  <2> QED  BY <2>7 DEF q, x
<1> HIDE DEF i, j
<1>7. Pages(a, n) = i .. (i + j) - 1
  BY <1>6 DEF Pages, i
<1> QED  BY <1>2, <1>4, <1>5, <1>7 DEF i, j

(* The pages of a stretch are those that its units are in.                 *)
LEMMA PagesAre ==
  ASSUME NEW a, NEW n, Paged(a, n), NEW x \in Int
  PROVE  (x \div Page \in Pages(a, n) => InMem(a, n, x)) /\ (InMem(a, n, x) => x \div Page \in Pages(a, n))
<1> DEFINE i == a \div Page
           j == n \div Page
           q == x \div Page
<1>1. i \in Nat /\ j \in Nat \ {0} /\ a = Page * i /\ n = Page * j /\ Pages(a, n) = i .. (i + j) - 1
  BY PagedIs
<1>2. Page \in Nat \ {0} /\ q \in Int /\ a \in Nat /\ n \in Nat
  BY ConstantTypes, DivIs DEF Paged
<1> HIDE DEF i, j
<1>3. Page * (i + j) = a + n /\ i \in Int /\ i + j \in Int
  BY <1>1, <1>2, SMT
<1>4. (Page * i <= x => i <= q) /\ (i <= q => Page * i <= x)
  BY <1>2, <1>3, DivBetween
<1>5. (Page * (i + j) <= x => i + j <= q) /\ (i + j <= q => Page * (i + j) <= x)
  BY <1>2, <1>3, DivBetween
<1> HIDE DEF q
<1>6. q \in Pages(a, n) => i <= q /\ ~ (i + j <= q)
  BY <1>1, <1>2
<1>7. i <= q /\ ~ (i + j <= q) => q \in Pages(a, n)
  BY <1>1, <1>2
<1>8. q \in Pages(a, n) => InMem(a, n, x)
  <2>1. ASSUME q \in Pages(a, n) PROVE a <= x /\ ~ (a + n <= x)
    BY <1>1, <1>3, <1>4, <1>5, <1>6, <2>1
  <2> QED  BY <1>2, <2>1 DEF InMem
<1>9. InMem(a, n, x) => q \in Pages(a, n)
  <2>1. ASSUME InMem(a, n, x) PROVE a <= x /\ ~ (a + n <= x)
    BY <1>2, <2>1 DEF InMem
  <2>2. ASSUME InMem(a, n, x) PROVE i <= q /\ ~ (i + j <= q)
    BY <1>1, <1>3, <1>4, <1>5, <2>1, <2>2
  <2> QED  BY <1>7, <2>2
<1> QED  BY <1>8, <1>9 DEF q

LEMMA PagesCount ==
  ASSUME NEW a, NEW n, Paged(a, n)
  PROVE  IsFiniteSet(Pages(a, n)) /\ Page * Cardinality(Pages(a, n)) = n /\ Pages(a, n) \subseteq Nat
<1> DEFINE i == a \div Page
           j == n \div Page
<1>1. i \in Nat /\ j \in Nat \ {0} /\ n = Page * j /\ Pages(a, n) = i .. (i + j) - 1
  BY PagedIs
<1> HIDE DEF i, j
<1>2. IsFiniteSet(i .. (i + j) - 1) /\ Cardinality(i .. (i + j) - 1) = IF i > (i + j) - 1 THEN 0 ELSE ((i + j) - 1) - i + 1
  BY <1>1, FS_Interval
<1>3. Cardinality(i .. (i + j) - 1) = j
  BY <1>1, <1>2
<1> QED  BY <1>1, <1>2, <1>3

(* Memory the system has given to nobody.                                  *)
Fresh(h, a, n) == Paged(a, n) /\ a + n <= Memory /\ Pages(a, n) \cap h.mapped = {}

LEMMA FreeBasesAre ==
  ASSUME NEW h, NEW n \in Nat \ {0}, n % Page = 0, NEW a \in FreeBases(h, n)
  PROVE  Fresh(h, a, n)
<1>1. a \in Addresses(n) /\ Pages(a, n) \cap h.mapped = {}
  BY DEF FreeBases
<1>2. PICK k \in 0 .. (Memory - n) \div Page : a = k * Page
  BY <1>1 DEF Addresses
<1>3. Page \in Nat \ {0} /\ Memory - n \in Int
  BY ConstantTypes, MallocAssumption
<1>4. k \in Nat /\ k <= (Memory - n) \div Page
  BY <1>2, <1>3, DivIs
<1>5. Page * k <= Memory - n
  BY <1>3, <1>4, DivBetween
<1>6. a = Page * k /\ a \in Nat
  BY <1>2, <1>3, <1>4, SMT
<1>7. a % Page = 0
  <2>1. a \div Page \in Int /\ a % Page \in Int /\ a = Page * (a \div Page) + (a % Page) /\ 0 <= a % Page /\ a % Page < Page
    <3>1. a \in Int /\ Page \in Nat \ {0}
      BY <1>3, <1>6
    <3> QED  BY <3>1, DivIs
  <2> DEFINE q == a \div Page
             r == a % Page
  <2>2. k <= q /\ (Page * (k + 1) <= a => FALSE)
    <3>1. k <= q
      BY <1>3, <1>4, <1>6, DivBetween
    <3>2. Page * (k + 1) = Page * k + Page
      BY <1>3, <1>4, SMT
    <3> QED  BY <1>3, <1>6, <3>1, <3>2
  <2>3. ~ (k + 1 <= q)
    BY <1>3, <1>4, <1>6, <2>2, DivBetween
  <2> HIDE DEF q, r
  <2>4. q = k
    BY <1>4, <2>1, <2>2, <2>3 DEF q
  <2>5. r = 0
    BY <1>6, <2>1, <2>4 DEF q, r
  <2> QED  BY <2>5 DEF r
<1> QED  BY <1>1, <1>3, <1>5, <1>6, <1>7, MallocAssumption DEF Fresh, Paged

MappedTo(h, g, a, n) ==
  /\ g \in HeapType /\ SameTags(h, g) /\ SameTop(h, g) /\ SameShelf(h, g) /\ SameTimes(h, g) /\ g.segs = h.segs
  /\ g.mapped = h.mapped \cup Pages(a, n) /\ g.footprint = h.footprint + n

LEMMA MappedIs ==
  ASSUME NEW h \in HeapType, NEW a, NEW n, Paged(a, n)
  PROVE  MappedTo(h, Mapped(h, a, n), a, n)
<1>1. Pages(a, n) \subseteq Nat /\ n \in Nat
  BY PagesCount DEF Paged
<1> HIDE DEF Pages
<1>2. h.mapped \cup Pages(a, n) \in SUBSET Nat /\ h.footprint + n \in Int
  BY <1>1, HeapFields
<1>3. Mapped(h, a, n) \in HeapType
  <2>1. Mapped(h, a, n) = [h EXCEPT !.mapped = h.mapped \cup Pages(a, n), !.footprint = h.footprint + n]
    BY DEF Mapped
  <2> QED  BY <1>2, <2>1 DEF HeapType
<1>4. SameTags(h, Mapped(h, a, n)) /\ SameTop(h, Mapped(h, a, n)) /\ SameShelf(h, Mapped(h, a, n))
  BY DEF Mapped, HeapType, SameTags, SameTop, SameShelf
<1>5. SameTimes(h, Mapped(h, a, n)) /\ Mapped(h, a, n).segs = h.segs
  BY DEF Mapped, HeapType, SameTimes
<1>6. Mapped(h, a, n).mapped = h.mapped \cup Pages(a, n) /\ Mapped(h, a, n).footprint = h.footprint + n
  BY DEF Mapped, HeapType
<1> QED  BY <1>3, <1>4, <1>5, <1>6 DEF MappedTo

LEMMA WithoutIs ==
  ASSUME NEW f, NEW gone
  PROVE  /\ DOMAIN Without(f, gone) = DOMAIN f \ gone
         /\ \A b \in DOMAIN f \ gone : Without(f, gone)[b] = f[b]
BY DEF Without

UnmappedTo(h, g, a, n) ==
  /\ g \in HeapType /\ SameTop(h, g) /\ SameShelf(h, g) /\ SameTimes(h, g) /\ g.segs = h.segs
  /\ g.mapped = h.mapped \ Pages(a, n) /\ g.footprint = h.footprint - n
  /\ (\A x \in Int : (x \in Heads(g) => x \in Heads(h) /\ ~ InMem(a, n, x) /\ g.head[x] = h.head[x])
                  /\ (x \in Heads(h) /\ ~ InMem(a, n, x) => x \in Heads(g)))
  /\ (\A x \in Int : (x \in Feet(g) => x \in Feet(h) /\ ~ InMem(a, n, x) /\ g.foot[x] = h.foot[x])
                  /\ (x \in Feet(h) /\ ~ InMem(a, n, x) => x \in Feet(g)))

LEMMA UnmappedIs ==
  ASSUME NEW h \in HeapType, NEW a \in Int, NEW n \in Nat
  PROVE  UnmappedTo(h, Unmapped(h, a, n), a, n)
<1> DEFINE g == Unmapped(h, a, n)
           f == Without(h.head, a .. a + n - 1)
           k == Without(h.foot, a .. a + n - 1)
<1>1. /\ Heads(h) \subseteq Int /\ h.head \in [Heads(h) -> TagType] /\ Feet(h) \subseteq Int /\ h.foot \in [Feet(h) -> Nat]
      /\ h.mapped \subseteq Nat /\ h.footprint \in Int
  BY HeapFields
<1>2. f \in [Heads(h) \ (a .. a + n - 1) -> TagType]
  BY <1>1 DEF Without, Heads
<1>3. k \in [Feet(h) \ (a .. a + n - 1) -> Nat]
  BY <1>1 DEF Without, Feet
<1>4. f \in TagMaps /\ k \in FootMaps
  <2>1. Heads(h) \ (a .. a + n - 1) \in SUBSET Int /\ Feet(h) \ (a .. a + n - 1) \in SUBSET Int
    BY <1>1
  <2> HIDE DEF f, k
  <2> QED  BY <1>2, <1>3, <2>1 DEF TagMaps, FootMaps
<1>5. g = [h EXCEPT !.mapped = h.mapped \ Pages(a, n), !.footprint = h.footprint - n, !.head = f, !.foot = k]
  BY DEF Unmapped
<1> HIDE DEF f, k, g
<1>6. h.mapped \ Pages(a, n) \in SUBSET Nat /\ h.footprint - n \in Int
  BY <1>1
<1>7. g \in HeapType
  BY <1>4, <1>5, <1>6 DEF HeapType
<1>8. SameTop(h, g) /\ SameShelf(h, g) /\ SameTimes(h, g) /\ g.segs = h.segs
  BY <1>5 DEF HeapType, SameTop, SameShelf, SameTimes
<1>9. g.mapped = h.mapped \ Pages(a, n) /\ g.footprint = h.footprint - n /\ g.head = f /\ g.foot = k
  BY <1>5 DEF HeapType
<1> DEFINE gone == a .. a + n - 1
<1>15. /\ DOMAIN f = DOMAIN h.head \ gone /\ (\A b \in DOMAIN h.head \ gone : f[b] = h.head[b])
       /\ DOMAIN k = DOMAIN h.foot \ gone /\ (\A b \in DOMAIN h.foot \ gone : k[b] = h.foot[b])
  <2> HIDE DEF gone
  <2> QED  BY WithoutIs DEF f, k, gone
<1>10. Heads(g) = Heads(h) \ gone /\ Feet(g) = Feet(h) \ gone
  <2> HIDE DEF gone
  <2> QED  BY <1>9, <1>15 DEF Heads, Feet
<1>11. /\ \A x \in Heads(h) \ gone : g.head[x] = h.head[x]
       /\ \A x \in Feet(h) \ gone : g.foot[x] = h.foot[x]
  <2> HIDE DEF gone
  <2> QED  BY <1>9, <1>15 DEF Heads, Feet
<1>12. \A x \in Int : x \in gone <=> InMem(a, n, x)
  BY DEF InMem
<1>13. \A x \in Int : (x \in Heads(g) => x \in Heads(h) /\ ~ InMem(a, n, x) /\ g.head[x] = h.head[x])
                   /\ (x \in Heads(h) /\ ~ InMem(a, n, x) => x \in Heads(g))
  BY <1>10, <1>11, <1>12
<1>14. \A x \in Int : (x \in Feet(g) => x \in Feet(h) /\ ~ InMem(a, n, x) /\ g.foot[x] = h.foot[x])
                   /\ (x \in Feet(h) /\ ~ InMem(a, n, x) => x \in Feet(g))
  BY <1>10, <1>11, <1>12
<1> QED  BY <1>7, <1>8, <1>9, <1>13, <1>14 DEF UnmappedTo, g

(* The footprint stays exact.                                              *)
LEMMA GainCounted ==
  ASSUME NEW h \in HeapType, Counted(h), NEW a, NEW n, Fresh(h, a, n), NEW g,
         g.mapped = h.mapped \cup Pages(a, n), g.footprint = h.footprint + n
  PROVE  Counted(g)
<1> DEFINE P == Pages(a, n)
           M == h.mapped
<1>1. IsFiniteSet(P) /\ Page * Cardinality(P) = n /\ P \cap M = {} /\ IsFiniteSet(M) /\ h.footprint = Page * Cardinality(M)
  BY PagesCount DEF Fresh, Counted
<1> HIDE DEF P, M
<1>2. IsFiniteSet(M \cup P) /\ Cardinality(M \cup P) = Cardinality(M) + Cardinality(P) - Cardinality(M \cap P)
  BY <1>1, FS_Union
<1>3. Cardinality(M \cap P) = 0
  <2>1. M \cap P = {}
    BY <1>1
  <2> QED  BY <2>1, FS_EmptySet
<1>4. Cardinality(M) \in Nat /\ Cardinality(P) \in Nat
  BY <1>1, FS_CardinalityType
<1>5. Page * (Cardinality(M) + Cardinality(P)) = Page * Cardinality(M) + Page * Cardinality(P)
  BY <1>4, ConstantTypes, TimesMonotone
<1>6. Cardinality(M \cup P) = Cardinality(M) + Cardinality(P)
  BY <1>2, <1>3, <1>4
<1> QED  BY <1>1, <1>2, <1>5, <1>6 DEF Counted, P, M

LEMMA LossCounted ==
  ASSUME NEW h \in HeapType, Counted(h), NEW a, NEW n, Paged(a, n), Pages(a, n) \subseteq h.mapped, NEW g,
         g.mapped = h.mapped \ Pages(a, n), g.footprint = h.footprint - n
  PROVE  Counted(g)
<1> DEFINE P == Pages(a, n)
           M == h.mapped
<1>1. IsFiniteSet(P) /\ Page * Cardinality(P) = n /\ P \subseteq M /\ IsFiniteSet(M) /\ h.footprint = Page * Cardinality(M)
  BY PagesCount DEF Counted
<1> HIDE DEF P, M
<1>2. IsFiniteSet(M \ P) /\ Cardinality(M \ P) = Cardinality(M) - Cardinality(M \cap P)
  BY <1>1, FS_Difference
<1>3. M \cap P = P
  BY <1>1
<1>4. Cardinality(M) \in Nat /\ Cardinality(P) \in Nat /\ Cardinality(M \ P) \in Nat
  BY <1>1, <1>2, FS_CardinalityType
<1>5. Cardinality(M) = Cardinality(M \ P) + Cardinality(P)
  <2>1. Cardinality(M \cap P) = Cardinality(P)
    BY <1>3
  <2> QED  BY <1>2, <1>4, <2>1
<1>6. Page * (Cardinality(M \ P) + Cardinality(P)) = Page * Cardinality(M \ P) + Page * Cardinality(P)
  BY <1>4, ConstantTypes, TimesMonotone
<1>7. Page * Cardinality(M \ P) \in Int /\ Page * Cardinality(P) \in Int /\ Page * Cardinality(M) \in Int
  BY <1>4, ConstantTypes, TimesMonotone
<1>8. Page * Cardinality(M) = Page * Cardinality(M \ P) + n
  BY <1>1, <1>5, <1>6
<1>9. n \in Int
  BY DEF Paged
<1>10. Page * Cardinality(M) - n = Page * Cardinality(M \ P)
  BY <1>7, <1>8, <1>9
<1> QED  BY <1>1, <1>2, <1>10 DEF Counted, P, M

(* The headers and feet of g outside the segments are those of h.          *)
SameAt(h, g, x) == (x \in Heads(g) => x \in Heads(h) /\ g.head[x] = h.head[x]) /\ (x \in Heads(h) => x \in Heads(g))

DirectsRight(g) == (\A d \in Direct(g) : DirectRight(g, d)) /\ Backed(g)

Gain(h, g, a, n) ==
  /\ Fresh(h, a, n) /\ g.mapped = h.mapped \cup Pages(a, n)
  /\ \A x \in Int : (InSeg(g, x) => InSeg(h, x) \/ InMem(a, n, x)) /\ (InSeg(h, x) => InSeg(g, x)) /\ (InMem(a, n, x) => InSeg(g, x))
  /\ \A x \in Int : ~ InSeg(g, x) => SameAt(h, g, x)

LEMMA FreshIs ==
  ASSUME NEW h, Formed(h), NEW a, NEW n, Fresh(h, a, n), NEW x \in Int
  PROVE  InMem(a, n, x) => ~ Covered(h, x) /\ x >= 0 /\ x < Memory
<1>1. SUFFICES ASSUME InMem(a, n, x) PROVE ~ Covered(h, x) /\ x >= 0 /\ x < Memory
  OBVIOUS
<1>2. Paged(a, n) /\ Pages(a, n) \cap h.mapped = {} /\ a + n <= Memory
  BY DEF Fresh
<1>3. x \div Page \in Pages(a, n)
  BY <1>1, <1>2, PagesAre
<1>4. x \div Page \notin h.mapped
  BY <1>2, <1>3
<1>5. ~ Covered(h, x)
  BY <1>4 DEF Formed, Backed
<1>6. a \in Nat /\ n \in Nat /\ Memory \in Nat
  BY <1>2, MallocAssumption DEF Paged
<1>7. x >= 0 /\ x < Memory
  BY <1>1, <1>2, <1>6 DEF InMem
<1> QED  BY <1>5, <1>7

LEMMA GainDirects ==
  ASSUME NEW h, Formed(h), NEW g \in HeapType, NEW a, NEW n, Gain(h, g, a, n)
  PROVE  Direct(g) = Direct(h) /\ DirectsRight(g) /\ \A d \in Direct(h) : g.head[d] = h.head[d]
<1>1. h \in HeapType /\ Heads(h) \subseteq Int /\ Heads(g) \subseteq Int /\ Backed(h) /\ \A d \in Direct(h) : DirectRight(h, d)
  BY HeapTypes, HeapFields DEF Formed
<1>2. \A x \in Int : (InSeg(g, x) => InSeg(h, x) \/ InMem(a, n, x)) /\ (InSeg(h, x) => InSeg(g, x)) /\ (InMem(a, n, x) => InSeg(g, x))
  BY DEF Gain
<1>3. \A x \in Int : ~ InSeg(g, x) => SameAt(h, g, x)
  BY DEF Gain
<1>4. \A x \in Int : InMem(a, n, x) => ~ Covered(h, x) /\ x >= 0 /\ x < Memory
  BY FreshIs DEF Gain
<1>5. \A x \in Int : Covered(h, x) /\ ~ InSeg(h, x) => ~ InSeg(g, x)
  BY <1>2, <1>4
<1>6. \A d \in Direct(h) : d \in Heads(h) /\ d \in Int /\ ~ InSeg(g, d) /\ g.head[d] = h.head[d] /\ Behind(g, d) = Behind(h, d)
  <2> TAKE d \in Direct(h)
  <2>1. d \in Heads(h) /\ d \in Int /\ ~ InSeg(h, d) /\ Covered(h, d)
    BY <1>1 DEF Direct, Backed
  <2>2. ~ InSeg(g, d)
    BY <1>5, <2>1
  <2>3. g.head[d] = h.head[d]
    BY <1>3, <2>1, <2>2 DEF SameAt
  <2> QED  BY <2>1, <2>2, <2>3 DEF Behind
<1>7. Direct(g) = Direct(h)
  <2>1. ASSUME NEW d \in Direct(h) PROVE d \in Direct(g)
    <3>1. d \in Heads(g)
      BY <1>3, <1>6 DEF SameAt
    <3> QED  BY <1>6, <3>1 DEF Direct
  <2>2. ASSUME NEW d \in Direct(g) PROVE d \in Direct(h)
    <3>1. d \in Int /\ ~ InSeg(g, d) /\ g.head[d].size # 0 /\ d \in Heads(g)
      BY <1>1 DEF Direct
    <3>2. d \in Heads(h) /\ g.head[d] = h.head[d] /\ ~ InSeg(h, d)
      BY <1>2, <1>3, <3>1 DEF SameAt
    <3> QED  BY <3>1, <3>2 DEF Direct
  <2> QED  BY <2>1, <2>2
<1>8. ASSUME NEW d \in Direct(h) PROVE DirectRight(g, d)
  <2> DEFINE e == Behind(h, d)
  <2>1. /\ ~ h.head[d].p /\ ~ h.head[d].c /\ ~ IsSmall(h.head[d].size)
        /\ d % Page = 0 /\ (h.head[d].size + 2) % Page = 0
        /\ e \in Heads(h) /\ h.head[e] = Fencepost
        /\ \A x \in Int : InSpan(h, d, x) => ~ InSeg(h, x) /\ (x \in Heads(h) => x = d \/ x = e)
    BY <1>1 DEF DirectRight
  <2>2. e \in Int /\ InSpan(h, d, e)
    <3>1. h.head[d] \in TagType /\ d \in Int
      BY <1>1, <1>6, HeapFields
    <3> QED  BY <3>1 DEF InSpan, Behind, TagType
  <2>3. \A x \in Int : InSpan(h, d, x) => ~ InSeg(g, x) /\ SameAt(h, g, x)
    <3>1. \A x \in Int : InSpan(h, d, x) => Covered(h, x)
      BY DEF Covered
    <3> QED  BY <1>3, <1>5, <2>1, <3>1
  <2>4. e \in Heads(g) /\ g.head[e] = Fencepost
    BY <2>1, <2>2, <2>3 DEF SameAt
  <2>5. \A x \in Int : InSpan(g, d, x) <=> InSpan(h, d, x)
    BY <1>6 DEF InSpan
  <2>6. \A x \in Int : InSpan(g, d, x) => ~ InSeg(g, x) /\ (x \in Heads(g) => x = d \/ x = e)
    BY <2>1, <2>3, <2>5 DEF SameAt
  <2>7. g.head[d] = h.head[d] /\ Behind(g, d) = e
    BY <1>6
  <2> HIDE DEF e
  <2> QED  BY <2>1, <2>4, <2>6, <2>7 DEF DirectRight
<1>9. \A x \in Int : (Covered(g, x) => Covered(h, x) \/ InMem(a, n, x)) /\ (Covered(h, x) => Covered(g, x)) /\ (InMem(a, n, x) => Covered(g, x))
  <2>1. \A d \in Direct(h), x \in Int : InSpan(g, d, x) <=> InSpan(h, d, x)
    BY <1>6 DEF InSpan
  <2> QED  BY <1>2, <1>7, <2>1 DEF Covered
<1>10. Backed(g)
  <2>1. ASSUME NEW x \in Heads(g) PROVE Covered(g, x)
    <3>1. x \in Int
      BY <1>1
    <3>2. CASE InSeg(g, x)
      BY <3>2 DEF Covered
    <3>3. CASE ~ InSeg(g, x)
      <4>1. x \in Heads(h)
        BY <1>3, <3>1, <3>3 DEF SameAt
      <4> QED  BY <1>1, <1>9, <3>1, <4>1 DEF Backed
    <3> QED  BY <3>2, <3>3
  <2>2. \A x \in Int : x \div Page \in g.mapped <=> x \div Page \in h.mapped \/ x \div Page \in Pages(a, n)
    BY DEF Gain
  <2>3. \A x \in Int : (x \div Page \in Pages(a, n) => InMem(a, n, x)) /\ (InMem(a, n, x) => x \div Page \in Pages(a, n))
    BY PagesAre DEF Gain, Fresh
  <2>4. ASSUME NEW x \in Int PROVE Covered(g, x) <=> (x >= 0 /\ x \div Page \in g.mapped)
    <3>1. Covered(h, x) <=> (x >= 0 /\ x \div Page \in h.mapped)
      BY <1>1 DEF Backed
    <3> QED  BY <1>4, <1>9, <2>2, <2>3, <3>1
  <2>5. ASSUME NEW x \in Int, Covered(g, x) PROVE x < Memory
    BY <1>1, <1>4, <1>9, <2>5 DEF Backed
  <2> QED  BY <2>1, <2>4, <2>5 DEF Backed
<1> QED  BY <1>6, <1>7, <1>8, <1>10 DEF DirectsRight

Loss(h, g, a, n) ==
  /\ Paged(a, n) /\ g.mapped = h.mapped \ Pages(a, n)
  /\ \A x \in Int : (InSeg(g, x) => InSeg(h, x) /\ ~ InMem(a, n, x)) /\ (InSeg(h, x) /\ ~ InMem(a, n, x) => InSeg(g, x))
                    /\ (InMem(a, n, x) => InSeg(h, x) /\ x \notin Heads(g))
  /\ \A x \in Int : ~ InSeg(h, x) => SameAt(h, g, x)

LEMMA PageStart ==
  ASSUME NEW q \in Nat
  PROVE  Page * q \in Nat /\ (Page * q) \div Page = q
<1>1. Page \in Nat \ {0}
  BY ConstantTypes
<1>2. Page * q \in Nat
  BY <1>1, SMT
<1> DEFINE x == Page * q
           r == x \div Page
<1>3. Page * (q + 1) = Page * q + Page
  BY <1>1, SMT
<1>4. x \in Int /\ r \in Int /\ Page * q <= x /\ ~ (Page * (q + 1) <= x)
  BY <1>1, <1>2, <1>3, DivIs
<1> HIDE DEF x
<1>5. q <= r /\ ~ (q + 1 <= r)
  BY <1>1, <1>4, DivBetween
<1> HIDE DEF r
<1>6. r = q
  BY <1>4, <1>5
<1> QED  BY <1>2, <1>6 DEF r, x

(* What lies in the segments, or is mapped directly, is mapped.            *)
LEMMA PagesMapped ==
  ASSUME NEW h, Formed(h), NEW a, NEW n, Paged(a, n), \A x \in Int : InMem(a, n, x) => Covered(h, x)
  PROVE  Pages(a, n) \subseteq h.mapped
<1> SUFFICES ASSUME NEW q \in Pages(a, n) PROVE q \in h.mapped
  OBVIOUS
<1>1. q \in Nat
  BY PagesCount
<1>2. Page * q \in Int /\ (Page * q) \div Page = q
  BY <1>1, PageStart
<1> DEFINE x == Page * q
<1>3. x \in Int /\ x \div Page \in Pages(a, n)
  BY <1>2
<1> HIDE DEF x
<1>4. InMem(a, n, x)
  BY <1>3, PagesAre
<1>6. Covered(h, x)
  BY <1>3, <1>4
<1>5. x \div Page \in h.mapped
  BY <1>3, <1>6 DEF Formed, Backed
<1> QED  BY <1>2, <1>5 DEF x

LEMMA LossDirects ==
  ASSUME NEW h, Formed(h), NEW g \in HeapType, NEW a, NEW n, Loss(h, g, a, n)
  PROVE  /\ Direct(g) = Direct(h) /\ DirectsRight(g) /\ \A d \in Direct(h) : g.head[d] = h.head[d]
         /\ Pages(a, n) \subseteq h.mapped
<1>1. h \in HeapType /\ Heads(h) \subseteq Int /\ Heads(g) \subseteq Int /\ Backed(h) /\ \A d \in Direct(h) : DirectRight(h, d)
  BY HeapTypes, HeapFields DEF Formed
<1>2. /\ \A x \in Int : (InSeg(g, x) => InSeg(h, x) /\ ~ InMem(a, n, x)) /\ (InSeg(h, x) /\ ~ InMem(a, n, x) => InSeg(g, x))
                        /\ (InMem(a, n, x) => InSeg(h, x) /\ x \notin Heads(g))
      /\ \A x \in Int : ~ InSeg(h, x) => SameAt(h, g, x)
  BY DEF Loss
<1>6. \A d \in Direct(h) : d \in Heads(h) /\ d \in Int /\ ~ InSeg(h, d) /\ g.head[d] = h.head[d] /\ Behind(g, d) = Behind(h, d)
  <2> TAKE d \in Direct(h)
  <2>1. d \in Heads(h) /\ d \in Int /\ ~ InSeg(h, d)
    BY <1>1 DEF Direct
  <2>3. g.head[d] = h.head[d]
    BY <1>2, <2>1 DEF SameAt
  <2> QED  BY <2>1, <2>3 DEF Behind
<1>7. Direct(g) = Direct(h)
  <2>1. ASSUME NEW d \in Direct(h) PROVE d \in Direct(g)
    <3>1. d \in Heads(g) /\ ~ InSeg(g, d)
      BY <1>2, <1>6 DEF SameAt
    <3> QED  BY <1>6, <3>1 DEF Direct
  <2>2. ASSUME NEW d \in Direct(g) PROVE d \in Direct(h)
    <3>1. d \in Int /\ ~ InSeg(g, d) /\ g.head[d].size # 0 /\ d \in Heads(g)
      BY <1>1 DEF Direct
    <3>2. ~ InSeg(h, d)
      BY <1>2, <3>1
    <3>3. d \in Heads(h) /\ g.head[d] = h.head[d]
      BY <1>2, <3>1, <3>2 DEF SameAt
    <3> QED  BY <3>1, <3>2, <3>3 DEF Direct
  <2> QED  BY <2>1, <2>2
<1>8. ASSUME NEW d \in Direct(h) PROVE DirectRight(g, d)
  <2> DEFINE e == Behind(h, d)
  <2>1. /\ ~ h.head[d].p /\ ~ h.head[d].c /\ ~ IsSmall(h.head[d].size)
        /\ d % Page = 0 /\ (h.head[d].size + 2) % Page = 0
        /\ e \in Heads(h) /\ h.head[e] = Fencepost
        /\ \A x \in Int : InSpan(h, d, x) => ~ InSeg(h, x) /\ (x \in Heads(h) => x = d \/ x = e)
    BY <1>1 DEF DirectRight
  <2>2. e \in Int /\ InSpan(h, d, e)
    <3>1. h.head[d] \in TagType /\ d \in Int
      BY <1>1, <1>6, HeapFields
    <3> QED  BY <3>1 DEF InSpan, Behind, TagType
  <2>3. \A x \in Int : InSpan(h, d, x) => ~ InSeg(g, x) /\ SameAt(h, g, x)
    BY <1>2, <2>1
  <2>4. e \in Heads(g) /\ g.head[e] = Fencepost
    BY <2>1, <2>2, <2>3 DEF SameAt
  <2>5. \A x \in Int : InSpan(g, d, x) <=> InSpan(h, d, x)
    BY <1>6 DEF InSpan
  <2>6. \A x \in Int : InSpan(g, d, x) => ~ InSeg(g, x) /\ (x \in Heads(g) => x = d \/ x = e)
    BY <2>1, <2>3, <2>5 DEF SameAt
  <2>7. g.head[d] = h.head[d] /\ Behind(g, d) = e
    BY <1>6
  <2> HIDE DEF e
  <2> QED  BY <2>1, <2>4, <2>6, <2>7 DEF DirectRight
<1>9. \A x \in Int : (Covered(g, x) => Covered(h, x) /\ ~ InMem(a, n, x)) /\ (Covered(h, x) /\ ~ InMem(a, n, x) => Covered(g, x))
  <2>1. \A d \in Direct(h), x \in Int : InSpan(g, d, x) <=> InSpan(h, d, x)
    BY <1>6 DEF InSpan
  <2>2. \A d \in Direct(h), x \in Int : InSpan(h, d, x) => ~ InSeg(h, x)
    BY <1>1 DEF DirectRight
  <2> QED  BY <1>2, <1>7, <2>1, <2>2 DEF Covered
<1>10. Backed(g)
  <2>1. ASSUME NEW x \in Heads(g) PROVE Covered(g, x)
    <3>1. x \in Int /\ ~ InMem(a, n, x)
      BY <1>1, <1>2
    <3>2. CASE InSeg(g, x)
      BY <3>2 DEF Covered
    <3>3. CASE ~ InSeg(g, x)
      <4>1. x \in Heads(h)
        BY <1>2, <3>1, <3>3 DEF SameAt
      <4> QED  BY <1>1, <1>9, <3>1, <4>1 DEF Backed
    <3> QED  BY <3>2, <3>3
  <2>2. \A x \in Int : x \div Page \in g.mapped <=> x \div Page \in h.mapped /\ ~ (x \div Page \in Pages(a, n))
    BY DEF Loss
  <2>3. \A x \in Int : (x \div Page \in Pages(a, n) => InMem(a, n, x)) /\ (InMem(a, n, x) => x \div Page \in Pages(a, n))
    BY PagesAre DEF Loss
  <2>4. ASSUME NEW x \in Int PROVE Covered(g, x) <=> (x >= 0 /\ x \div Page \in g.mapped)
    <3>1. Covered(h, x) <=> (x >= 0 /\ x \div Page \in h.mapped)
      BY <1>1 DEF Backed
    <3> QED  BY <1>9, <2>2, <2>3, <3>1
  <2>5. ASSUME NEW x \in Int, Covered(g, x) PROVE x < Memory
    BY <1>1, <1>9, <2>5 DEF Backed
  <2> QED  BY <2>1, <2>4, <2>5 DEF Backed
<1>11. Pages(a, n) \subseteq h.mapped
  <2>1. \A x \in Int : InMem(a, n, x) => Covered(h, x)
    BY <1>2 DEF Covered
  <2> QED  BY <2>1, PagesMapped DEF Loss
<1> QED  BY <1>6, <1>7, <1>8, <1>10, <1>11 DEF DirectsRight

(* The headers and feet at x are the same.                                 *)
FootAt(h, g, x) == (x \in Feet(g) => x \in Feet(h) /\ g.foot[x] = h.foot[x]) /\ (x \in Feet(h) => x \in Feet(g))

SameOn(h, g, x) == SameAt(h, g, x) /\ FootAt(h, g, x)

(* The bits of the header at x are the same.                               *)
SameBits(h, g, x) ==
  /\ (g.head[x].p => h.head[x].p) /\ (h.head[x].p => g.head[x].p)
  /\ (g.head[x].c => h.head[x].c) /\ (h.head[x].c => g.head[x].c)

(* The same chunk with the same surroundings.                              *)
SameChunk(h, g, a) ==
  LET e == Behind(h, a)
  IN  /\ a \in Chunks(h) /\ a \in Chunks(g)
      /\ g.head[a] = h.head[a] /\ e \in Heads(g) /\ SameBits(h, g, e)
      /\ \A x \in Int : a <= x /\ x <= e => (x \in Heads(g) => x \in Heads(h)) /\ FootAt(h, g, x)
      /\ (a = g.top => a = h.top) /\ (a = h.top => a = g.top)
      /\ Together(g, a, e)

LEMMA SameChunkIs ==
  ASSUME NEW h \in HeapType, NEW g \in HeapType, Layout(h), NEW a, SameChunk(h, g, a)
  PROVE  /\ Laid(g, a) /\ (~ g.head[a].p => a \in Feet(g))
         /\ (a \in Frees(h) => a \in Frees(g)) /\ (a \in Useds(h) => a \in Useds(g))
         /\ (a \in Frees(g) => a \in Frees(h)) /\ (a \in Useds(g) => a \in Useds(h))
<1> DEFINE e == Behind(h, a)
<1>1. /\ a \in Chunks(h) /\ a \in Chunks(g) /\ g.head[a] = h.head[a] /\ e \in Heads(g) /\ SameBits(h, g, e)
      /\ \A x \in Int : a <= x /\ x <= e => (x \in Heads(g) => x \in Heads(h)) /\ FootAt(h, g, x)
      /\ (a = g.top => a = h.top) /\ (a = h.top => a = g.top) /\ Together(g, a, e)
  BY DEF SameChunk
<1>2. Laid(h, a) /\ (~ h.head[a].p => a \in Feet(h))
  BY <1>1 DEF Layout
<1>3. a \in Int /\ e \in Int /\ Heads(g) \subseteq Int /\ Feet(g) \subseteq Int
  <2>1. a \in Heads(h) /\ h.head[a] \in TagType /\ a \in Int
    BY <1>1, HeapFields DEF Chunks
  <2> QED  BY <2>1, HeapFields DEF Behind, TagType
<1>4. Behind(g, a) = e
  BY <1>1 DEF Behind
<1>5. (a \in Frees(h) => a \in Frees(g)) /\ (a \in Useds(h) => a \in Useds(g)) /\ (a \in Frees(g) => a \in Frees(h)) /\ (a \in Useds(g) => a \in Useds(h))
  BY <1>1 DEF Frees, Useds
<1>6. /\ e > a /\ e \in Heads(h)
      /\ \A b \in Heads(h) \cup Feet(h) : ~ (a < b /\ b < e)
      /\ a # h.top => e - a >= MinChunk
      /\ a \in Useds(h) => h.head[e].p /\ e \notin Feet(h)
      /\ a \in Frees(h) => /\ h.head[a].p /\ ~ h.head[e].p /\ h.head[e].c
                           /\ e \in Feet(h) /\ h.foot[e] = e - a
  BY <1>2 DEF Laid
<1> HIDE DEF e
<1>7. FootAt(h, g, e)
  <2>1. a <= e /\ e <= e
    BY <1>3, <1>6
  <2> QED  BY <1>1, <1>3, <2>1
<1>8. \A b \in Heads(g) \cup Feet(g) : ~ (a < b /\ b < e)
  <2> SUFFICES ASSUME NEW b \in Heads(g) \cup Feet(g), a < b, b < e PROVE FALSE
    OBVIOUS
  <2>1. b \in Int /\ a <= b /\ b <= e
    BY <1>3
  <2>2. b \in Heads(h) \cup Feet(h)
    BY <1>1, <2>1 DEF FootAt
  <2> QED  BY <1>6, <2>2
<1>12. a \in Useds(g) => g.head[e].p /\ e \notin Feet(g)
  BY <1>1, <1>5, <1>6, <1>7 DEF SameBits, FootAt
<1>13. a \in Frees(g) => /\ g.head[a].p /\ ~ g.head[e].p /\ g.head[e].c
                         /\ e \in Feet(g) /\ g.foot[e] = e - a
  BY <1>1, <1>5, <1>6, <1>7 DEF SameBits, FootAt
<1>14. a # g.top => e - a >= MinChunk
  BY <1>1, <1>6
<1>9. Laid(g, a)
  BY <1>1, <1>4, <1>6, <1>8, <1>12, <1>13, <1>14 DEF Laid
<1>10. ~ g.head[a].p => a \in Feet(g)
  <2>1. a <= a /\ a <= e
    BY <1>3, <1>6
  <2> QED  BY <1>1, <1>2, <1>3, <2>1 DEF FootAt
<1> QED  BY <1>5, <1>9, <1>10

(* A foot of which the free chunk before it is the same.                   *)
LEMMA SameFoot ==
  ASSUME NEW h \in HeapType, NEW g \in HeapType, Layout(h), NEW a \in Feet(h), NEW b, b = a - h.foot[a], SameChunk(h, g, b),
         g.foot[a] = h.foot[a]
  PROVE  FootRight(g, a)
<1>1. FootRight(h, a)
  BY DEF Layout
<1>2. b \in Frees(h) /\ h.head[b].size = h.foot[a]
  BY <1>1 DEF FootRight
<1>3. b \in Frees(g)
  BY <1>2, SameChunkIs
<1>4. g.head[b] = h.head[b]
  BY DEF SameChunk
<1> QED  BY <1>2, <1>3, <1>4 DEF FootRight

(* A heap is laid out if its parts are, or are those of one that is.       *)
LEMMA LayoutFrom ==
  ASSUME NEW h \in HeapType, NEW g \in HeapType, Layout(h),
         \A a \in Chunks(g) : SameChunk(h, g, a) \/ (Laid(g, a) /\ (~ g.head[a].p => a \in Feet(g))),
         \A a \in Feet(g) : (a \in Feet(h) /\ g.foot[a] = h.foot[a] /\ SameChunk(h, g, a - h.foot[a])) \/ FootRight(g, a)
  PROVE  Layout(g)
<1>1. ASSUME NEW a \in Chunks(g) PROVE Laid(g, a) /\ (~ g.head[a].p => a \in Feet(g))
  BY SameChunkIs
<1>2. ASSUME NEW a \in Feet(g) PROVE FootRight(g, a)
  BY SameFoot
<1> QED  BY <1>1, <1>2 DEF Layout

(* The feet of a heap are in its segments, behind its free chunks.         *)
LEMMA FootIs ==
  ASSUME NEW h, Formed(h), NEW a \in Feet(h)
  PROVE  /\ a \in Int /\ InSeg(h, a) /\ a \in Useds(h) /\ ~ h.head[a].p
         /\ a - h.foot[a] \in Frees(h) /\ Behind(h, a - h.foot[a]) = a
<1> DEFINE b == a - h.foot[a]
<1>1. FootRight(h, a) /\ a \in Int /\ h.foot[a] \in Nat
  BY HeapTypes DEF Layout
<1>2. b \in Frees(h) /\ h.head[b].size = h.foot[a] /\ b \in Int
  BY <1>1 DEF FootRight
<1>3. b + h.head[b].size = a
  BY <1>1, <1>2
<1> HIDE DEF b
<1>4. Behind(h, b) = a
  BY <1>3 DEF Behind
<1>5. Behind(h, b) \in Useds(h) /\ ~ h.head[Behind(h, b)].p
  BY <1>2, FreeIs
<1>6. a \in Useds(h) /\ ~ h.head[a].p
  BY <1>4, <1>5
<1>7. InSeg(h, a)
  BY <1>6 DEF Useds, Chunks
<1> QED  BY <1>1, <1>2, <1>4, <1>6, <1>7 DEF b

(* Heaps with the same segments and the same in them.                      *)
SameInside(h, g) ==
  /\ g \in HeapType /\ g.segs = h.segs /\ SameTop(h, g)
  /\ \A x \in Int : FootAt(h, g, x) /\ (InSeg(h, x) => SameAt(h, g, x))

InsideSame(h, g) ==
  /\ Chunks(g) = Chunks(h) /\ Frees(g) = Frees(h) /\ Useds(g) = Useds(h) /\ Records(g) = Records(h)
  /\ \A a \in Chunks(h) : g.head[a] = h.head[a]
  /\ Layout(g) /\ Ends(g) /\ SegsRight(g)

LEMMA InsideIs ==
  ASSUME NEW h, Formed(h), NEW g, SameInside(h, g)
  PROVE  InsideSame(h, g)
<1>1. /\ h \in HeapType /\ Layout(h) /\ Ends(h) /\ TopRight(h) /\ SegsRight(h) /\ g \in HeapType
      /\ Heads(h) \subseteq Int /\ Heads(g) \subseteq Int /\ Feet(g) \subseteq Int /\ h.segs \in Seq(SegType)
  BY HeapTypes, HeapFields DEF SameInside
<1>2. /\ g.segs = h.segs /\ g.top = h.top /\ g.topsize = h.topsize /\ Mark(g) = Mark(h)
      /\ \A x \in Int : FootAt(h, g, x) /\ (InSeg(h, x) => SameAt(h, g, x))
  BY DEF SameInside, SameTop, Mark
<1>3. \A x : (InSeg(g, x) => InSeg(h, x)) /\ (InSeg(h, x) => InSeg(g, x))
  BY <1>2 DEF InSeg
<1>4. \A x \in Int : InSeg(h, x) => (x \in Heads(g) => x \in Heads(h) /\ g.head[x] = h.head[x]) /\ (x \in Heads(h) => x \in Heads(g))
  BY <1>2 DEF SameAt
<1>5. Chunks(g) = Chunks(h) /\ \A a \in Chunks(h) : g.head[a] = h.head[a]
  <2>1. ASSUME NEW a \in Chunks(g) PROVE a \in Chunks(h)
    <3>1. a \in Int /\ a \in Heads(g) /\ InSeg(h, a) /\ g.head[a].size # 0 /\ a # Mark(g)
      BY <1>1, <1>3 DEF Chunks
    <3>2. a \in Heads(h) /\ g.head[a] = h.head[a]
      BY <1>4, <3>1
    <3> QED  BY <1>2, <3>1, <3>2 DEF Chunks
  <2>2. ASSUME NEW a \in Chunks(h) PROVE a \in Chunks(g) /\ g.head[a] = h.head[a]
    <3>1. a \in Int /\ a \in Heads(h) /\ InSeg(h, a) /\ h.head[a].size # 0 /\ a # Mark(h)
      BY <1>1 DEF Chunks
    <3>2. a \in Heads(g) /\ g.head[a] = h.head[a] /\ InSeg(g, a)
      BY <1>3, <1>4, <3>1
    <3> QED  BY <1>2, <3>1, <3>2 DEF Chunks
  <2> QED  BY <2>1, <2>2
<1>6. Frees(g) = Frees(h) /\ Useds(g) = Useds(h)
  BY <1>2, <1>5 DEF Frees, Useds
<1>7. ASSUME NEW a \in Chunks(h) PROVE SameChunk(h, g, a)
  <2> DEFINE e == Behind(h, a)
  <2>1. a \in Int /\ e \in Int /\ e \in Heads(h) /\ a < e /\ Together(h, a, e) /\ InSeg(h, a)
    BY ChunkIs
  <2> HIDE DEF e
  <2>2. \A x \in Int : a <= x /\ x <= e => InSeg(h, x)
    BY <1>1, <2>1, Between
  <2>3. \A x \in Int : a <= x /\ x <= e => (x \in Heads(g) => x \in Heads(h)) /\ FootAt(h, g, x)
    BY <1>2, <1>4, <2>2
  <2>4. InSeg(h, e)
    BY <2>1, <2>2
  <2>5. e \in Heads(g) /\ g.head[e] = h.head[e]
    BY <1>4, <2>1, <2>4
  <2>6. SameBits(h, g, e)
    BY <2>5 DEF SameBits
  <2>7. Together(g, a, e)
    BY <1>2, <2>1 DEF Together
  <2>8. a \in Chunks(g) /\ g.head[a] = h.head[a]
    BY <1>5
  <2> QED  BY <1>2, <2>3, <2>5, <2>6, <2>7, <2>8 DEF SameChunk, e
<1>8. Layout(g)
  <2>1. \A a \in Chunks(g) : SameChunk(h, g, a)
    BY <1>5, <1>7
  <2>2. ASSUME NEW a \in Feet(g) PROVE a \in Feet(h) /\ g.foot[a] = h.foot[a] /\ SameChunk(h, g, a - h.foot[a])
    <3>1. a \in Feet(h) /\ g.foot[a] = h.foot[a]
      BY <1>1, <1>2 DEF FootAt
    <3>2. a - h.foot[a] \in Chunks(h)
      BY <3>1, FootIs DEF Frees
    <3> QED  BY <1>7, <3>1, <3>2
  <2> QED  BY <1>1, <2>1, <2>2, LayoutFrom
<1>9. Records(g) = Records(h)
  BY <1>2 DEF Records
<1>10. SegsRight(g)
  BY <1>1, <1>2, <1>5 DEF SegsRight
<1>11. \A x \in Heads(g) : \A i \in DOMAIN h.segs : Holds(h.segs[i], x) => x \in Heads(h) /\ g.head[x] = h.head[x]
  BY <1>1, <1>4 DEF InSeg
<1>12. \A x \in Heads(h) : \A i \in DOMAIN h.segs : Holds(h.segs[i], x) => x \in Heads(g) /\ g.head[x] = h.head[x]
  BY <1>1, <1>4 DEF InSeg
<1>13. DOMAIN h.segs = 1 .. Len(h.segs) /\ 1 \in DOMAIN h.segs
  BY HeapTypes
<1>14. TopRight(g)
  <2>1. Mark(h) \in Heads(g) /\ g.head[Mark(h)] = h.head[Mark(h)] /\ g.head[h.top] = h.head[h.top]
    <3>1. Mark(h) \in Heads(h) /\ InSeg(h, h.top) /\ Together(h, h.top, Mark(h)) /\ Mark(h) \in Int /\ h.top \in Int /\ h.top < Mark(h) /\ h.top \in Chunks(h)
      BY TopIs DEF Chunks
    <3>2. InSeg(h, Mark(h))
      BY <3>1 DEF Together, InSeg
    <3> QED  BY <1>4, <1>5, <3>1, <3>2
  <2>2. h.top \in Chunks(g)
    BY <1>1, <1>5 DEF TopRight
  <2> QED  BY <1>1, <1>2, <1>11, <1>13, <2>1, <2>2 DEF TopRight
<1>15. ASSUME NEW i \in 2 .. Len(h.segs) PROVE RecordRight(g, i)
  <2> DEFINE r == h.segs[i].rec
             f == r + SegmentRecord
  <2>1. /\ r \in Useds(h) /\ h.head[r].size = SegmentRecord /\ Holds(h.segs[i], r)
        /\ r + TopFoot <= EndOf(h.segs[i]) /\ EndOf(h.segs[i]) <= r + TopFoot + 1
        /\ f \in Heads(h) /\ h.head[f] = Fencepost
        /\ (\A x \in Heads(h) : Holds(h.segs[i], x) => x <= f)
        /\ r # h.segs[1].rec
    BY <1>1 DEF Ends, RecordRight
  <2>2. i \in DOMAIN h.segs
    BY <1>13
  <2>3. Holds(h.segs[i], f)
    <3>1. h.segs[i].base \in Nat /\ h.segs[i].size \in Nat /\ r \in Int
      BY <1>1, <2>2, SegFields
    <3> DEFINE b == h.segs[i].base
               n == h.segs[i].size
    <3>2. b <= r /\ r + TopFoot <= b + n
      BY <2>1 DEF Holds, EndOf
    <3>3. b \in Nat /\ n \in Nat /\ r \in Int
      BY <3>1
    <3> HIDE DEF b, n, r
    <3>4. b <= r + SegmentRecord /\ r + SegmentRecord < b + n
      BY <3>2, <3>3 DEF TopFoot, SegmentRecord, MinChunk
    <3> QED  BY <3>4 DEF Holds, b, n, f
  <2>4. f \in Heads(g) /\ g.head[f] = h.head[f]
    BY <1>12, <2>1, <2>2, <2>3
  <2>5. r \in Useds(g) /\ g.head[r] = h.head[r]
    BY <1>5, <1>6, <2>1 DEF Useds
  <2>6. \A x \in Heads(g) : Holds(h.segs[i], x) => x <= f
    BY <1>11, <2>1, <2>2
  <2> HIDE DEF f
  <2> QED  BY <1>2, <2>1, <2>4, <2>5, <2>6 DEF RecordRight, f
<1>16. Ends(g)
  <2>1. \A x \in Heads(g) : InSeg(g, x) /\ g.head[x].size = 0 => \E i \in 2 .. Len(g.segs) : x = g.segs[i].rec + SegmentRecord
    <3> SUFFICES ASSUME NEW x \in Heads(g), InSeg(g, x), g.head[x].size = 0
                 PROVE \E i \in 2 .. Len(g.segs) : x = g.segs[i].rec + SegmentRecord
      OBVIOUS
    <3>1. x \in Heads(h) /\ InSeg(h, x) /\ h.head[x].size = 0
      BY <1>1, <1>3, <1>4
    <3> QED  BY <1>1, <1>2, <3>1 DEF Ends
  <2>2. h.segs[1].rec \in Useds(h) /\ h.head[h.segs[1].rec].size = StateChunk
    BY <1>1 DEF Ends
  <2>3. h.segs[1].rec \in Useds(g) /\ g.head[h.segs[1].rec].size = StateChunk
    BY <1>5, <1>6, <2>2 DEF Useds
  <2> QED  BY <1>2, <1>14, <1>15, <2>1, <2>3 DEF Ends
<1> QED  BY <1>5, <1>6, <1>8, <1>9, <1>10, <1>16 DEF InsideSame

LEMMA FreshBare ==
  ASSUME NEW h, Formed(h), NEW a, NEW n, Fresh(h, a, n), NEW x \in Int, InMem(a, n, x)
  PROVE  x \notin Heads(h) /\ x \notin Feet(h) /\ ~ InSeg(h, x) /\ ~ Covered(h, x)
<1>1. ~ Covered(h, x)
  BY FreshIs
<1>2. x \notin Heads(h)
  BY <1>1 DEF Formed, Backed
<1>3. ~ InSeg(h, x)
  BY <1>1 DEF Covered
<1>4. x \notin Feet(h)
  BY <1>3, FootIs
<1> QED  BY <1>1, <1>2, <1>3, <1>4

(* A chunk that is mapped directly.                                        *)
DirectTag(n) == [size |-> n - 2, p |-> FALSE, c |-> FALSE]

Mmapped(h, g, a, n) ==
  /\ g \in HeapType /\ SameTop(h, g) /\ SameShelf(h, g) /\ SameTimes(h, g) /\ g.segs = h.segs
  /\ g.mapped = h.mapped \cup Pages(a, n) /\ g.footprint = h.footprint + n
  /\ \A x \in Int : FootAt(h, g, x) /\ (~ InMem(a, n, x) => SameAt(h, g, x))
  /\ \A x \in Heads(g) : InMem(a, n, x) => x = a \/ x = a + (n - 2)
  /\ a \in Heads(g) /\ g.head[a] = DirectTag(n)
  /\ a + (n - 2) \in Heads(g) /\ g.head[a + (n - 2)] = Fencepost

LEMMA MmapAllocIs ==
  ASSUME NEW h, Formed(h), NEW nb \in Nat, NEW a, NEW n, n = DirectSize(nb), n > 2, Fresh(h, a, n)
  PROVE  Mmapped(h, MmapAlloc(h, nb, a).m, a, n) /\ MmapAlloc(h, nb, a).mem = a
<1> DEFINE s == n - 2
           k == Mapped(h, a, n)
           j == PutTag(k, a, DirectTag(n))
           g == PutTag(j, a + s, Fencepost)
<1>1. MmapAlloc(h, nb, a).m = g /\ MmapAlloc(h, nb, a).mem = a
  BY DEF MmapAlloc, DirectTag
<1>2. h \in HeapType /\ Paged(a, n) /\ a \in Nat /\ n \in Nat /\ s \in Nat /\ s > 0 /\ a + s \in Int
  BY HeapTypes DEF Fresh, Paged
<1>3. MappedTo(h, k, a, n)
  BY <1>2, MappedIs
<1>4. DirectTag(n) \in TagType /\ DirectTag(n).size = s /\ Fencepost \in TagType /\ Fencepost.size = 0
  BY <1>2 DEF DirectTag, Fencepost, TagType
<1> HIDE DEF k
<1>5. k \in HeapType /\ SameTags(h, k)
  BY <1>3 DEF MappedTo
<1>6. TagPut(k, j, a, DirectTag(n))
  BY <1>2, <1>4, <1>5, PutTagIs
<1> HIDE DEF j
<1>7. j \in HeapType
  BY <1>6 DEF TagPut, OnlyTags
<1>8. TagPut(j, g, a + s, Fencepost)
  BY <1>2, <1>4, <1>7, PutTagIs
<1> HIDE DEF g
<1>9. OnlyTags(k, g)
  BY <1>6, <1>8, OnlyTagsTwice DEF TagPut
<1>10. /\ g \in HeapType /\ SameTop(h, g) /\ SameShelf(h, g) /\ SameTimes(h, g) /\ g.segs = h.segs
       /\ g.mapped = h.mapped \cup Pages(a, n) /\ g.footprint = h.footprint + n
  <2> HIDE DEF Pages
  <2> QED  BY <1>3, <1>9 DEF MappedTo, OnlyTags, SameTop, SameShelf, SameTimes, SameMap
<1>11. \A x \in Int : InMem(a, n, x) => x \notin Heads(h) /\ x \notin Feet(h)
  BY FreshBare
<1>12. /\ Heads(j) = (Heads(h) \ Inside(a, s)) \cup {a} /\ j.head[a] = DirectTag(n)
       /\ \A b \in Heads(h) \ (Inside(a, s) \cup {a}) : j.head[b] = h.head[b]
       /\ Feet(j) = Feet(h) \ Inside(a, s)
       /\ \A b \in Feet(h) \ Inside(a, s) : j.foot[b] = h.foot[b]
  BY <1>4, <1>5, <1>6 DEF TagPut, SameTags, Heads, Feet
<1>13. /\ Heads(g) = (Heads(j) \ Inside(a + s, 0)) \cup {a + s} /\ g.head[a + s] = Fencepost
       /\ \A b \in Heads(j) \ (Inside(a + s, 0) \cup {a + s}) : g.head[b] = j.head[b]
       /\ Feet(g) = Feet(j) \ Inside(a + s, 0)
       /\ \A b \in Feet(j) \ Inside(a + s, 0) : g.foot[b] = j.foot[b]
  BY <1>4, <1>8 DEF TagPut
<1>14. \A x \in Int : x \notin Inside(a + s, 0) /\ (x \in Inside(a, s) => InMem(a, n, x))
  BY <1>2 DEF Inside, InMem
<1>15. InMem(a, n, a) /\ InMem(a, n, a + s) /\ a # a + s
  BY <1>2 DEF InMem
<1>16. Heads(h) \subseteq Int /\ Feet(h) \subseteq Int /\ Heads(g) \subseteq Int
  BY <1>2, <1>10, HeapFields
<1>17. Heads(g) = Heads(h) \cup {a, a + s}
  <2>1. \A x : x \in Heads(g) <=> x \in Heads(h) \cup {a, a + s}
    BY <1>2, <1>11, <1>12, <1>13, <1>14, <1>16
  <2> QED  BY <2>1
<1>18. Feet(g) = Feet(h)
  <2>1. \A x : x \in Feet(g) <=> x \in Feet(h)
    BY <1>2, <1>11, <1>12, <1>13, <1>14, <1>16
  <2> QED  BY <2>1
<1>19. g.head[a] = DirectTag(n) /\ g.head[a + s] = Fencepost
  <2>1. a \in Heads(j) \ (Inside(a + s, 0) \cup {a + s})
    BY <1>2, <1>12, <1>14, <1>15
  <2> QED  BY <1>12, <1>13, <2>1
<1>20. \A x \in Heads(h) : g.head[x] = h.head[x]
  <2> TAKE x \in Heads(h)
  <2>1. x \in Int /\ ~ InMem(a, n, x) /\ x # a /\ x # a + s
    BY <1>11, <1>15, <1>16
  <2>2. x \in Heads(h) \ (Inside(a, s) \cup {a})
    BY <1>14, <2>1
  <2>3. x \in Heads(j) \ (Inside(a + s, 0) \cup {a + s})
    BY <1>12, <1>14, <2>1, <2>2
  <2> QED  BY <1>12, <1>13, <2>2, <2>3
<1>21. \A x \in Feet(h) : g.foot[x] = h.foot[x]
  <2> TAKE x \in Feet(h)
  <2>1. x \in Int /\ ~ InMem(a, n, x)
    BY <1>11, <1>16
  <2>2. x \in Feet(h) \ Inside(a, s)
    BY <1>14, <2>1
  <2>3. x \in Feet(j) \ Inside(a + s, 0)
    BY <1>12, <1>14, <2>1, <2>2
  <2> QED  BY <1>12, <1>13, <2>2, <2>3
<1>22. \A x \in Int : FootAt(h, g, x)
  BY <1>18, <1>21 DEF FootAt
<1>23. ASSUME NEW x \in Int, ~ InMem(a, n, x) PROVE SameAt(h, g, x)
  <2>1. x # a /\ x # a + s
    BY <1>15, <1>23
  <2> QED  BY <1>17, <1>20, <2>1 DEF SameAt
<1>24. \A x \in Heads(g) : InMem(a, n, x) => x = a \/ x = a + s
  BY <1>11, <1>16, <1>17
<1>25. a \in Heads(g) /\ a + s \in Heads(g)
  BY <1>17
<1> QED  BY <1>1, <1>10, <1>19, <1>22, <1>23, <1>24, <1>25 DEF Mmapped, s

LEMMA MmappedDirects ==
  ASSUME NEW h, Formed(h), NEW g, NEW a, NEW n, Mmapped(h, g, a, n), Fresh(h, a, n), n > 2, ~ IsSmall(n - 2)
  PROVE  /\ Direct(g) = Direct(h) \cup {a} /\ a \notin Direct(h) /\ a \notin Heads(h)
         /\ DirectsRight(g) /\ \A d \in Direct(h) : g.head[d] = h.head[d]
<1> DEFINE s == n - 2
<1>1. h \in HeapType /\ Heads(h) \subseteq Int /\ Heads(g) \subseteq Int /\ Backed(h) /\ \A d \in Direct(h) : DirectRight(h, d)
  BY HeapTypes, HeapFields DEF Formed, Mmapped
<1>2. /\ g.segs = h.segs /\ g.mapped = h.mapped \cup Pages(a, n)
      /\ \A x \in Int : ~ InMem(a, n, x) => SameAt(h, g, x)
      /\ \A x \in Heads(g) : InMem(a, n, x) => x = a \/ x = a + s
      /\ a \in Heads(g) /\ g.head[a] = DirectTag(n) /\ a + s \in Heads(g) /\ g.head[a + s] = Fencepost
  BY DEF Mmapped
<1>3. \A x : (InSeg(g, x) => InSeg(h, x)) /\ (InSeg(h, x) => InSeg(g, x))
  BY <1>2 DEF InSeg
<1>4. \A x \in Int : InMem(a, n, x) => x \notin Heads(h) /\ ~ InSeg(h, x) /\ ~ Covered(h, x)
  BY FreshBare
<1>5. a \in Nat /\ n \in Nat /\ s \in Nat /\ s > 0 /\ Paged(a, n) /\ a % Page = 0 /\ n % Page = 0
  BY DEF Fresh, Paged
<1>6. InMem(a, n, a) /\ InMem(a, n, a + s) /\ a # a + s /\ a + s \in Int
  BY <1>5 DEF InMem
<1>7. \A d \in Direct(h) : d \in Heads(h) /\ d \in Int /\ ~ InSeg(h, d) /\ g.head[d] = h.head[d] /\ Behind(g, d) = Behind(h, d) /\ ~ InMem(a, n, d)
  <2> TAKE d \in Direct(h)
  <2>1. d \in Heads(h) /\ d \in Int /\ ~ InSeg(h, d) /\ ~ InMem(a, n, d)
    BY <1>1, <1>4 DEF Direct
  <2>3. g.head[d] = h.head[d]
    BY <1>2, <2>1 DEF SameAt
  <2> QED  BY <2>1, <2>3 DEF Behind
<1>8. g.head[a].size = s /\ g.head[a + s].size = 0 /\ Behind(g, a) = a + s
  BY <1>2 DEF DirectTag, Fencepost, Behind
<1>9. Direct(g) = Direct(h) \cup {a}
  <2>1. ASSUME NEW d \in Direct(h) PROVE d \in Direct(g)
    <3>1. d \in Heads(g) /\ ~ InSeg(g, d)
      BY <1>2, <1>3, <1>7 DEF SameAt
    <3> QED  BY <1>7, <3>1 DEF Direct
  <2>2. ASSUME NEW d \in Direct(g), d # a PROVE d \in Direct(h)
    <3>1. d \in Int /\ ~ InSeg(g, d) /\ g.head[d].size # 0 /\ d \in Heads(g)
      BY <1>1 DEF Direct
    <3>2. ~ InSeg(h, d) /\ ~ InMem(a, n, d)
      BY <1>2, <1>3, <1>8, <2>2, <3>1
    <3>3. d \in Heads(h) /\ g.head[d] = h.head[d]
      BY <1>2, <3>1, <3>2 DEF SameAt
    <3> QED  BY <3>1, <3>2, <3>3 DEF Direct
  <2>3. a \in Direct(g)
    BY <1>2, <1>3, <1>4, <1>5, <1>6, <1>8 DEF Direct
  <2> QED  BY <2>1, <2>2, <2>3
<1>10. a \notin Direct(h) /\ a \notin Heads(h)
  BY <1>4, <1>5, <1>6 DEF Direct
<1>11. ASSUME NEW d \in Direct(h) PROVE DirectRight(g, d)
  <2> DEFINE e == Behind(h, d)
  <2>1. /\ ~ h.head[d].p /\ ~ h.head[d].c /\ ~ IsSmall(h.head[d].size)
        /\ d % Page = 0 /\ (h.head[d].size + 2) % Page = 0
        /\ e \in Heads(h) /\ h.head[e] = Fencepost
        /\ \A x \in Int : InSpan(h, d, x) => ~ InSeg(h, x) /\ (x \in Heads(h) => x = d \/ x = e)
    BY <1>1 DEF DirectRight
  <2>2. e \in Int /\ InSpan(h, d, e)
    <3>1. h.head[d] \in TagType /\ d \in Int
      BY <1>1, <1>7, HeapFields
    <3> QED  BY <3>1 DEF InSpan, Behind, TagType
  <2>3. \A x \in Int : InSpan(h, d, x) => ~ InSeg(g, x) /\ SameAt(h, g, x)
    <3> SUFFICES ASSUME NEW x \in Int, InSpan(h, d, x) PROVE ~ InSeg(g, x) /\ SameAt(h, g, x)
      OBVIOUS
    <3>1. Covered(h, x)
      BY DEF Covered
    <3>2. ~ InMem(a, n, x)
      BY <1>4, <3>1
    <3> QED  BY <1>2, <1>3, <2>1, <3>2
  <2>4. e \in Heads(g) /\ g.head[e] = Fencepost
    BY <2>1, <2>2, <2>3 DEF SameAt
  <2>5. \A x \in Int : InSpan(g, d, x) <=> InSpan(h, d, x)
    BY <1>7 DEF InSpan
  <2>6. \A x \in Int : InSpan(g, d, x) => ~ InSeg(g, x) /\ (x \in Heads(g) => x = d \/ x = e)
    BY <2>1, <2>3, <2>5 DEF SameAt
  <2>7. g.head[d] = h.head[d] /\ Behind(g, d) = e
    BY <1>7
  <2> HIDE DEF e
  <2> QED  BY <2>1, <2>4, <2>6, <2>7 DEF DirectRight
<1>12. \A x \in Int : (InSpan(g, a, x) => InMem(a, n, x)) /\ (InMem(a, n, x) => InSpan(g, a, x))
  BY <1>5, <1>8 DEF InSpan, InMem
<1>13. DirectRight(g, a)
  <2>1. ~ g.head[a].p /\ ~ g.head[a].c
    BY <1>2 DEF DirectTag
  <2>2. g.head[a].size + 2 = n
    BY <1>5, <1>8
  <2>3. \A x \in Int : InSpan(g, a, x) => ~ InSeg(g, x) /\ (x \in Heads(g) => x = a \/ x = a + s)
    BY <1>2, <1>3, <1>4, <1>12
  <2>4. ~ IsSmall(g.head[a].size)
    BY <1>8
  <2> QED  BY <1>2, <1>5, <1>8, <2>1, <2>2, <2>3, <2>4 DEF DirectRight
<1>14. \A x \in Int : Covered(g, x) <=> (Covered(h, x) \/ InMem(a, n, x))
  <2>1. \A d \in Direct(h), x \in Int : InSpan(g, d, x) <=> InSpan(h, d, x)
    BY <1>7 DEF InSpan
  <2> QED  BY <1>3, <1>9, <1>12, <2>1 DEF Covered
<1>15. Backed(g)
  <2>1. ASSUME NEW x \in Heads(g) PROVE Covered(g, x)
    <3>1. x \in Int
      BY <1>1
    <3>2. CASE InMem(a, n, x)
      BY <1>14, <3>1, <3>2
    <3>3. CASE ~ InMem(a, n, x)
      <4>1. x \in Heads(h)
        BY <1>2, <3>1, <3>3 DEF SameAt
      <4> QED  BY <1>1, <1>14, <3>1, <4>1 DEF Backed
    <3> QED  BY <3>2, <3>3
  <2>3. \A x \in Int : (x \div Page \in Pages(a, n) => InMem(a, n, x)) /\ (InMem(a, n, x) => x \div Page \in Pages(a, n))
    BY <1>5, PagesAre
  <2>4. ASSUME NEW x \in Int PROVE Covered(g, x) <=> (x >= 0 /\ x \div Page \in g.mapped)
    <3>1. Covered(h, x) <=> (x >= 0 /\ x \div Page \in h.mapped)
      BY <1>1 DEF Backed
    <3>2. x \div Page \in g.mapped <=> x \div Page \in h.mapped \/ x \div Page \in Pages(a, n)
      BY <1>2
    <3>3. InMem(a, n, x) => x >= 0
      BY FreshIs
    <3> QED  BY <1>14, <2>3, <3>1, <3>2, <3>3
  <2>5. ASSUME NEW x \in Int, Covered(g, x) PROVE x < Memory
    <3>1. InMem(a, n, x) => x < Memory
      BY FreshIs
    <3> QED  BY <1>1, <1>14, <2>5, <3>1 DEF Backed
  <2> QED  BY <2>1, <2>4, <2>5 DEF Backed
<1>16. \A d \in Direct(g) : DirectRight(g, d)
  BY <1>9, <1>11, <1>13
<1> QED  BY <1>7, <1>9, <1>10, <1>15, <1>16 DEF DirectsRight

LEMMA InsideShelved ==
  ASSUME NEW h, Formed(h), NEW g, SameInside(h, g), NEW k, NEW X, Shelved(h, k, X)
  PROVE  Shelved(g, k, X)
<1>1. Frees(g) = Frees(h) /\ \A a \in Chunks(h) : g.head[a] = h.head[a]
  BY InsideIs DEF InsideSame
<1>2. \A a \in Frees(h) : g.head[a].size = h.head[a].size
  BY <1>1 DEF Frees
<1> QED  BY <1>1, <1>2 DEF Shelved

LEMMA InsideFormed ==
  ASSUME NEW h, Formed(h), NEW g, SameInside(h, g), DirectsRight(g)
  PROVE  Formed(g)
<1>1. InsideSame(h, g) /\ g \in HeapType
  BY InsideIs DEF SameInside
<1> QED  BY <1>1 DEF Formed, InsideSame, DirectsRight

LEMMA DirectSizeIs ==
  ASSUME NEW nb \in Nat
  PROVE  /\ DirectSize(nb) \in Nat \ {0} /\ DirectSize(nb) % Page = 0 /\ DirectSize(nb) >= nb + 4
<1> DEFINE n == DirectSize(nb)
           k == (nb + 4 + Page - 1) \div Page
<1>1. nb + 4 \in Nat /\ Page \in Nat \ {0}
  BY ConstantTypes
<1>2. n \in Nat /\ n >= nb + 4
  BY <1>1, AlignToBounds DEF DirectSize
<1>3. nb + 4 + Page - 1 \in Int
  BY <1>1
<1>4. k \in Int
  BY <1>1, <1>3, DivIs
<1>5. n = k * Page
  BY DEF DirectSize, AlignTo
<1> HIDE DEF k
<1>6. n = Page * k
  BY <1>1, <1>4, <1>5
<1> HIDE DEF n
<1>7. n % Page = 0
  <2> DEFINE q == n \div Page
             r == n % Page
  <2>1. q \in Int /\ r \in Int /\ n = Page * q + r /\ 0 <= r /\ r < Page
    BY <1>1, <1>2, DivIs
  <2> HIDE DEF q, r
  <2>2. Page * q \in Int /\ Page * (q + 1) = Page * q + Page /\ Page * k \in Int
    BY <1>1, <1>4, <2>1, SMT
  <2>3. Page * q <= Page * k /\ Page * k < Page * (q + 1)
    BY <1>1, <1>6, <2>1, <2>2
  <2>4. q <= k /\ k < q + 1
    <3>1. Page * k < Page * (q + 1) => k < q + 1
      BY <1>1, <1>4, <2>1, TimesMonotone
    <3>2. Page * k < Page * q => k < q
      BY <1>1, <1>4, <2>1, TimesMonotone
    <3>3. k + 1 <= q => Page * (k + 1) <= Page * q
      BY <1>1, <1>4, <2>1, TimesMonotone
    <3>4. Page * (k + 1) = Page * k + Page
      BY <1>1, <1>4, SMT
    <3>5. ~ (k + 1 <= q)
      BY <1>1, <2>2, <2>3, <3>3, <3>4
    <3> QED  BY <1>4, <2>1, <2>3, <3>1, <3>5
  <2>5. q = k
    BY <1>4, <2>1, <2>4
  <2>6. r = 0
    BY <1>6, <2>1, <2>2, <2>5
  <2> QED  BY <2>6 DEF r
<1>8. n # 0
  BY <1>2
<1> QED  BY <1>2, <1>7, <1>8 DEF n

LEMMA MmapGiven ==
  ASSUME NEW h, NEW U, Sound(h, U), NEW nb \in Nat, nb >= MinLarge, NEW a \in FreeBases(h, DirectSize(nb))
  PROVE  LET r == MmapAlloc(h, nb, a) IN Given(h, r, U, nb) /\ (Counted(h) => Counted(r.m))
<1> DEFINE n == DirectSize(nb)
           g == MmapAlloc(h, nb, a).m
<1>1. n \in Nat \ {0} /\ n % Page = 0 /\ n >= nb + 4
  BY DirectSizeIs
<1>2. Fresh(h, a, n)
  BY <1>1, FreeBasesAre
<1>3. MinLarge \in Nat /\ MinLarge > 2
  BY MinLargeAssumption
<1> HIDE DEF n
<1>4. n > 2 /\ ~ IsSmall(n - 2) /\ n - 2 >= nb
  BY <1>1, <1>3 DEF IsSmall
<1>5. Formed(h) /\ Shelved(h, h, {}) /\ Held(h, U) /\ h \in HeapType
  BY HeapTypes DEF Sound
<1>6. Mmapped(h, g, a, n) /\ MmapAlloc(h, nb, a).mem = a
  <2>1. n = DirectSize(nb)
    BY DEF n
  <2> QED  BY <1>2, <1>4, <1>5, <2>1, MmapAllocIs
<1> HIDE DEF g
<1>7. /\ Direct(g) = Direct(h) \cup {a} /\ a \notin Direct(h) /\ a \notin Heads(h)
      /\ DirectsRight(g) /\ \A d \in Direct(h) : g.head[d] = h.head[d]
  BY <1>2, <1>4, <1>5, <1>6, MmappedDirects
<1>8. SameInside(h, g)
  <2>1. \A x \in Int : InMem(a, n, x) => ~ InSeg(h, x)
    BY <1>2, <1>5, FreshBare
  <2> QED  BY <1>6, <2>1 DEF Mmapped, SameInside
<1>9. Formed(g)
  BY <1>5, <1>7, <1>8, InsideFormed
<1>10. Shelved(g, g, {})
  <2>1. Shelved(g, h, {})
    BY <1>5, <1>8, InsideShelved
  <2>2. SameShelf(h, g)
    BY <1>6 DEF Mmapped
  <2> QED  BY <2>1, <2>2, SameShelved
<1>11. /\ Useds(g) = Useds(h) /\ Records(g) = Records(h) /\ \A b \in Chunks(h) : g.head[b] = h.head[b]
  BY <1>5, <1>8, InsideIs DEF InsideSame
<1>12. a \notin Useds(h) /\ a \notin Records(h)
  <2>1. Useds(h) \subseteq Heads(h)
    BY DEF Useds, Chunks
  <2> QED  BY <1>5, <1>7, <2>1, RecordsUsed
<1>13. Held(g, U \cup {a}) /\ a \notin U
  <2>1. U \cap Records(h) = {} /\ U \subseteq Useds(h) \cup Direct(h) /\ Useds(h) \subseteq U \cup Records(h)
    BY <1>5 DEF Held
  <2> QED  BY <1>7, <1>11, <1>12, <2>1 DEF Held
<1>14. Keeps(h, g, U)
  <2> SUFFICES ASSUME NEW b \in U PROVE g.head[b].size = h.head[b].size /\ (b \in Direct(g) <=> b \in Direct(h))
    BY DEF Keeps
  <2>1. b \in Useds(h) \cup Direct(h)
    BY <1>5 DEF Held
  <2>2. g.head[b] = h.head[b]
    BY <1>7, <1>11, <2>1 DEF Useds
  <2>3. b # a
    BY <1>13
  <2> QED  BY <1>7, <2>2, <2>3
<1>15. Fits(g, a, nb)
  <2>1. g.head[a] = DirectTag(n) /\ a \in Direct(g)
    BY <1>6, <1>7 DEF Mmapped
  <2>2. g.head[a].size = n - 2
    BY <2>1 DEF DirectTag
  <2> QED  BY <1>4, <2>1, <2>2 DEF Fits
<1>16. a \in Nat
  BY <1>2 DEF Fresh, Paged
<1>17. a # NoMem /\ a \in Int
  BY <1>16 DEF NoMem
<1>18. Given(h, MmapAlloc(h, nb, a), U, nb)
  BY <1>6, <1>9, <1>10, <1>13, <1>14, <1>15, <1>17 DEF Given, Sound, g
<1>19. Counted(h) => Counted(g)
  <2>1. g.mapped = h.mapped \cup Pages(a, n) /\ g.footprint = h.footprint + n
    BY <1>6 DEF Mmapped
  <2> QED  BY <1>2, <1>5, <2>1, GainCounted
<1> QED  BY <1>18, <1>19 DEF g

LEMMA DirectIs ==
  ASSUME NEW h, Formed(h), NEW d \in Direct(h)
  PROVE  /\ d \in Nat /\ d \in Heads(h) /\ ~ InSeg(h, d) /\ d \notin Feet(h) /\ Foot(h, d) = 0 /\ Tag(h, d) = h.head[d]
         /\ h.head[d].size \in Nat /\ h.head[d].size # 0 /\ DirectRight(h, d) /\ d # NoMem
         /\ Behind(h, d) \in Int /\ d < Behind(h, d) /\ d \notin Useds(h)
<1>1. d \in Heads(h) /\ ~ InSeg(h, d) /\ h.head[d].size # 0
  BY DEF Direct
<1>2. d \in Nat /\ d # NoMem
  BY <1>1, InMemory
<1>3. d \notin Feet(h)
  BY <1>1, FootIs
<1>4. Foot(h, d) = 0
  BY <1>3 DEF Foot, Feet
<1>5. h.head[d] \in TagType /\ h.head[d].size \in Nat
  BY <1>1, HeapTypes DEF TagType
<1>6. DirectRight(h, d)
  BY DEF Formed
<1>7. Tag(h, d) = h.head[d]
  BY <1>1, HeapTypes, TagTyped
<1>8. Behind(h, d) \in Int /\ d < Behind(h, d)
  BY <1>1, <1>2, <1>5 DEF Behind
<1>9. d \notin Useds(h)
  BY <1>1 DEF Useds, Chunks
<1> QED  BY <1>1, <1>2, <1>3, <1>4, <1>5, <1>6, <1>7, <1>8, <1>9

LEMMA SpansOrdered ==
  ASSUME NEW h, Formed(h), NEW d \in Direct(h), NEW e \in Direct(h), d < e, NEW x \in Int, InSpan(h, d, x), InSpan(h, e, x)
  PROVE  FALSE
<1>1. d \in Nat /\ e \in Nat /\ e \in Heads(h) /\ h.head[e].size # 0 /\ DirectRight(h, d) /\ Behind(h, d) \in Int /\ Behind(h, e) \in Int
  BY DirectIs
<1>2. InSpan(h, d, e)
  BY <1>1 DEF InSpan
<1>3. e = Behind(h, d)
  BY <1>1, <1>2 DEF DirectRight
<1>4. h.head[e].size = 0
  BY <1>1, <1>3 DEF DirectRight, Fencepost
<1> QED  BY <1>1, <1>4

(* No unit is in two chunks that are mapped directly.                      *)
LEMMA SpansApart ==
  ASSUME NEW h, Formed(h), NEW d \in Direct(h), NEW e \in Direct(h), d # e, NEW x \in Int, InSpan(h, d, x)
  PROVE  ~ InSpan(h, e, x)
<1>1. d \in Nat /\ e \in Nat
  BY DirectIs
<1>2. CASE d < e
  BY <1>2, SpansOrdered
<1>3. CASE e < d
  BY <1>3, SpansOrdered
<1> QED  BY <1>1, <1>2, <1>3

DirectGone(h, g, p, n) ==
  /\ Direct(g) = Direct(h) \ {p} /\ DirectsRight(g) /\ \A d \in Direct(g) : g.head[d] = h.head[d]
  /\ SameInside(h, g) /\ SameShelf(h, g) /\ SameTimes(h, g)
  /\ Paged(p, n) /\ Pages(p, n) \subseteq h.mapped
  /\ g.mapped = h.mapped \ Pages(p, n) /\ g.footprint = h.footprint - n

LEMMA DirectUnmapped ==
  ASSUME NEW h, Formed(h), NEW p \in Direct(h)
  PROVE  DirectGone(h, Unmapped(h, p, h.head[p].size + 2), p, h.head[p].size + 2)
<1> DEFINE n == h.head[p].size + 2
           g == Unmapped(h, p, n)
<1>1. h \in HeapType /\ Heads(h) \subseteq Int /\ Feet(h) \subseteq Int /\ Backed(h) /\ \A d \in Direct(h) : DirectRight(h, d)
  BY HeapTypes, HeapFields DEF Formed
<1>2. p \in Nat /\ p \in Heads(h) /\ h.head[p].size \in Nat /\ DirectRight(h, p)
  BY DirectIs
<1>3. Paged(p, n)
  <2>1. p % Page = 0 /\ n % Page = 0
    BY <1>2 DEF DirectRight
  <2>2. n \in Nat /\ n # 0
    BY <1>2
  <2> HIDE DEF n
  <2> QED  BY <1>2, <2>1, <2>2 DEF Paged
<1>4. \A x \in Int : (InSpan(h, p, x) => InMem(p, n, x)) /\ (InMem(p, n, x) => InSpan(h, p, x))
  BY <1>2 DEF InSpan, InMem, Behind
<1>5. UnmappedTo(h, g, p, n)
  <2>1. n \in Nat
    BY <1>3 DEF Paged
  <2> HIDE DEF n
  <2> QED  BY <1>1, <1>2, <2>1, UnmappedIs
<1> HIDE DEF n, g
<1>6. g \in HeapType /\ g.segs = h.segs /\ SameTop(h, g) /\ SameShelf(h, g) /\ SameTimes(h, g) /\ Heads(g) \subseteq Int
  BY <1>5, HeapFields DEF UnmappedTo
<1>7. /\ \A x \in Int : (x \in Heads(g) => x \in Heads(h) /\ ~ InMem(p, n, x) /\ g.head[x] = h.head[x])
                     /\ (x \in Heads(h) /\ ~ InMem(p, n, x) => x \in Heads(g))
      /\ \A x \in Int : (x \in Feet(g) => x \in Feet(h) /\ ~ InMem(p, n, x) /\ g.foot[x] = h.foot[x])
                     /\ (x \in Feet(h) /\ ~ InMem(p, n, x) => x \in Feet(g))
  BY <1>5 DEF UnmappedTo
<1>8. \A x \in Int : InMem(p, n, x) => ~ InSeg(h, x) /\ Covered(h, x)
  BY <1>2, <1>4 DEF DirectRight, Covered
<1>9. \A x \in Feet(h) : InSeg(h, x)
  BY FootIs
<1>10. SameInside(h, g)
  <2>1. ASSUME NEW x \in Int PROVE FootAt(h, g, x)
    BY <1>7, <1>8, <1>9 DEF FootAt
  <2>2. ASSUME NEW x \in Int, InSeg(h, x) PROVE SameAt(h, g, x)
    BY <1>7, <1>8, <2>2 DEF SameAt
  <2> QED  BY <1>6, <2>1, <2>2 DEF SameInside
<1>11. \A x : (InSeg(g, x) => InSeg(h, x)) /\ (InSeg(h, x) => InSeg(g, x))
  BY <1>6 DEF InSeg
<1>12. ASSUME NEW d \in Direct(h), d # p
       PROVE  /\ \A x \in Int : InSpan(h, d, x) => ~ InMem(p, n, x)
              /\ d \in Direct(g) /\ g.head[d] = h.head[d] /\ Behind(g, d) = Behind(h, d)
  <2>1. \A x \in Int : InSpan(h, d, x) => ~ InMem(p, n, x)
    BY <1>4, <1>12, SpansApart
  <2>2. d \in Nat /\ d \in Heads(h) /\ ~ InSeg(h, d) /\ h.head[d].size # 0 /\ d < Behind(h, d) /\ Behind(h, d) \in Int
    BY DirectIs
  <2>3. InSpan(h, d, d)
    BY <2>2 DEF InSpan
  <2>4. d \in Heads(g) /\ g.head[d] = h.head[d]
    BY <1>7, <2>1, <2>2, <2>3
  <2> QED  BY <1>11, <2>1, <2>2, <2>4 DEF Direct, Behind
<1>13. ASSUME NEW d \in Direct(g) PROVE d \in Direct(h) /\ d # p
  <2>1. d \in Int /\ d \in Heads(g) /\ ~ InSeg(g, d) /\ g.head[d].size # 0
    BY <1>6 DEF Direct
  <2>2. d \in Heads(h) /\ ~ InMem(p, n, d) /\ g.head[d] = h.head[d]
    BY <1>7, <2>1
  <2>3. InMem(p, n, p)
    BY <1>3 DEF Paged, InMem
  <2> QED  BY <1>11, <2>1, <2>2, <2>3 DEF Direct
<1>14. Direct(g) = Direct(h) \ {p} /\ \A d \in Direct(g) : g.head[d] = h.head[d]
  BY <1>12, <1>13
<1>15. ASSUME NEW d \in Direct(h), d # p PROVE DirectRight(g, d)
  <2> DEFINE e == Behind(h, d)
  <2>1. /\ ~ h.head[d].p /\ ~ h.head[d].c /\ ~ IsSmall(h.head[d].size)
        /\ d % Page = 0 /\ (h.head[d].size + 2) % Page = 0
        /\ e \in Heads(h) /\ h.head[e] = Fencepost
        /\ \A x \in Int : InSpan(h, d, x) => ~ InSeg(h, x) /\ (x \in Heads(h) => x = d \/ x = e)
    BY <1>1 DEF DirectRight
  <2>2. e \in Int /\ InSpan(h, d, e)
    <3>1. d \in Nat /\ e \in Int /\ d < e
      BY DirectIs
    <3> HIDE DEF e
    <3> QED  BY <3>1 DEF InSpan, e
  <2>3. \A x \in Int : InSpan(h, d, x) => ~ InMem(p, n, x)
    BY <1>12, <1>15
  <2>4. e \in Heads(g) /\ g.head[e] = Fencepost
    BY <1>7, <2>1, <2>2, <2>3
  <2>7. g.head[d] = h.head[d] /\ Behind(g, d) = e
    BY <1>12, <1>15
  <2>5. \A x \in Int : InSpan(g, d, x) <=> InSpan(h, d, x)
    BY <2>7 DEF InSpan
  <2>6. \A x \in Int : InSpan(g, d, x) => ~ InSeg(g, x) /\ (x \in Heads(g) => x = d \/ x = e)
    BY <1>7, <1>11, <2>1, <2>5
  <2> HIDE DEF e
  <2> QED  BY <2>1, <2>4, <2>6, <2>7 DEF DirectRight
<1>16. \A x \in Int : (Covered(g, x) => Covered(h, x) /\ ~ InMem(p, n, x)) /\ (Covered(h, x) /\ ~ InMem(p, n, x) => Covered(g, x))
  <2>1. \A d \in Direct(h), x \in Int : d # p => InSpan(g, d, x) <=> InSpan(h, d, x)
    BY <1>12 DEF InSpan
  <2>2. \A d \in Direct(h) : d # p => \A x \in Int : InSpan(h, d, x) => ~ InMem(p, n, x)
    BY <1>12
  <2>3. ASSUME NEW x \in Int, Covered(g, x) PROVE Covered(h, x) /\ ~ InMem(p, n, x)
    <3>1. CASE InSeg(g, x)
      BY <1>8, <1>11, <3>1 DEF Covered
    <3>2. CASE \E d \in Direct(g) : InSpan(g, d, x)
      <4>1. PICK d \in Direct(g) : InSpan(g, d, x)
        BY <3>2
      <4> QED  BY <1>13, <2>1, <2>2, <4>1 DEF Covered
    <3> QED  BY <2>3, <3>1, <3>2 DEF Covered
  <2>4. ASSUME NEW x \in Int, Covered(h, x), ~ InMem(p, n, x) PROVE Covered(g, x)
    <3>1. CASE InSeg(h, x)
      BY <1>11, <3>1 DEF Covered
    <3>2. CASE \E d \in Direct(h) : InSpan(h, d, x)
      <4>1. PICK d \in Direct(h) : InSpan(h, d, x)
        BY <3>2
      <4>2. d # p
        BY <1>4, <2>4, <4>1
      <4> QED  BY <1>12, <2>1, <4>1, <4>2 DEF Covered
    <3> QED  BY <2>4, <3>1, <3>2 DEF Covered
  <2> QED  BY <2>3, <2>4
<1>17. Backed(g)
  <2>1. ASSUME NEW x \in Heads(g) PROVE Covered(g, x)
    <3>1. x \in Int /\ ~ InMem(p, n, x) /\ x \in Heads(h)
      BY <1>6, <1>7
    <3> QED  BY <1>1, <1>16, <3>1 DEF Backed
  <2>2. \A x \in Int : x \div Page \in g.mapped <=> x \div Page \in h.mapped /\ ~ (x \div Page \in Pages(p, n))
    BY <1>5 DEF UnmappedTo
  <2>3. \A x \in Int : (x \div Page \in Pages(p, n) => InMem(p, n, x)) /\ (InMem(p, n, x) => x \div Page \in Pages(p, n))
    BY <1>3, PagesAre
  <2>4. ASSUME NEW x \in Int PROVE Covered(g, x) <=> (x >= 0 /\ x \div Page \in g.mapped)
    <3>1. Covered(h, x) <=> (x >= 0 /\ x \div Page \in h.mapped)
      BY <1>1 DEF Backed
    <3> QED  BY <1>16, <2>2, <2>3, <3>1
  <2>5. ASSUME NEW x \in Int, Covered(g, x) PROVE x < Memory
    BY <1>1, <1>16, <2>5 DEF Backed
  <2> QED  BY <2>1, <2>4, <2>5 DEF Backed
<1>18. DirectsRight(g)
  BY <1>14, <1>15, <1>17 DEF DirectsRight
<1>19. Pages(p, n) \subseteq h.mapped
  BY <1>3, <1>8, PagesMapped
<1>20. g.mapped = h.mapped \ Pages(p, n) /\ g.footprint = h.footprint - n
  BY <1>5 DEF UnmappedTo
<1>21. DirectGone(h, g, p, n)
  BY <1>3, <1>6, <1>10, <1>14, <1>18, <1>19, <1>20 DEF DirectGone
<1> QED  BY <1>21 DEF g, n

(* What is left when a call took something away.                           *)
Left(h, g, U) == Sound(g, U) /\ (Counted(h) => Counted(g)) /\ Keeps(h, g, U)

LEMMA DirectGoneLeft ==
  ASSUME NEW h, NEW U, Sound(h, U), NEW p \in Direct(h), NEW g, NEW n, DirectGone(h, g, p, n)
  PROVE  Left(h, g, U \ {p})
<1>1. Formed(h) /\ Shelved(h, h, {}) /\ Held(h, U) /\ h \in HeapType
  BY HeapTypes DEF Sound
<1>2. /\ Direct(g) = Direct(h) \ {p} /\ DirectsRight(g) /\ \A d \in Direct(g) : g.head[d] = h.head[d]
      /\ SameInside(h, g) /\ SameShelf(h, g)
      /\ Paged(p, n) /\ Pages(p, n) \subseteq h.mapped /\ g.mapped = h.mapped \ Pages(p, n) /\ g.footprint = h.footprint - n
  BY DEF DirectGone
<1>3. Formed(g)
  BY <1>1, <1>2, InsideFormed
<1>4. Shelved(g, g, {})
  <2>1. Shelved(g, h, {})
    BY <1>1, <1>2, InsideShelved
  <2> QED  BY <1>2, <2>1, SameShelved
<1>5. /\ Useds(g) = Useds(h) /\ Records(g) = Records(h) /\ \A b \in Chunks(h) : g.head[b] = h.head[b]
  BY <1>1, <1>2, InsideIs DEF InsideSame
<1>6. p \notin Useds(h)
  BY <1>1, DirectIs
<1>7. U \cap Records(h) = {} /\ U \subseteq Useds(h) \cup Direct(h) /\ Useds(h) \subseteq U \cup Records(h)
  BY <1>1 DEF Held
<1>8. Held(g, U \ {p})
  BY <1>2, <1>5, <1>6, <1>7 DEF Held
<1>9. Keeps(h, g, U \ {p})
  <2> SUFFICES ASSUME NEW b \in U \ {p} PROVE g.head[b].size = h.head[b].size /\ (b \in Direct(g) <=> b \in Direct(h))
    BY DEF Keeps
  <2>1. g.head[b] = h.head[b]
    BY <1>2, <1>5, <1>7 DEF Useds
  <2> QED  BY <1>2, <2>1
<1>10. Counted(h) => Counted(g)
  BY <1>1, <1>2, LossCounted
<1> QED  BY <1>3, <1>4, <1>8, <1>9, <1>10 DEF Left, Sound

(* A call that failed leaves the block that nobody has any more.           *)
LEMMA DirectStays ==
  ASSUME NEW h, NEW U, Sound(h, U), NEW p \in Direct(h)
  PROVE  Left(h, h, U \ {p})
<1>1. p \notin Useds(h)
  BY DirectIs DEF Sound
<1>2. Held(h, U \ {p})
  BY <1>1 DEF Sound, Held
<1>3. Keeps(h, h, U \ {p})
  BY DEF Keeps
<1> QED  BY <1>2, <1>3 DEF Left, Sound

LEMMA MunmapLeft ==
  ASSUME NEW h, NEW U, Sound(h, U), NEW p \in Direct(h),
         NEW g \in Munmap(h, p - Foot(h, p), Tag(h, p).size + Foot(h, p) + 2)
  PROVE  Left(h, g, U \ {p})
<1>1. Formed(h)
  BY DEF Sound
<1>2. Foot(h, p) = 0 /\ Tag(h, p) = h.head[p] /\ p \in Nat /\ h.head[p].size \in Nat
  BY <1>1, DirectIs
<1>3. p - Foot(h, p) = p /\ Tag(h, p).size + Foot(h, p) + 2 = h.head[p].size + 2
  BY <1>2
<1>4. g \in Munmap(h, p, h.head[p].size + 2)
  BY <1>3
<1>5. g = h \/ g = Unmapped(h, p, h.head[p].size + 2)
  BY <1>4 DEF Munmap
<1>6. CASE g = h
  BY <1>6, DirectStays
<1>7. CASE g = Unmapped(h, p, h.head[p].size + 2)
  BY <1>1, <1>7, DirectUnmapped, DirectGoneLeft
<1> QED  BY <1>5, <1>6, <1>7

(* The segments of a heap.                                                 *)
LEMMA SegIs ==
  ASSUME NEW h, Formed(h), NEW i \in DOMAIN h.segs
  PROVE  LET b == h.segs[i].base
             n == h.segs[i].size
         IN  /\ Paged(b, n) /\ b \in Chunks(h) /\ EndOf(h.segs[i]) = b + n
             /\ \A x \in Int : (Holds(h.segs[i], x) => InMem(b, n, x)) /\ (InMem(b, n, x) => Holds(h.segs[i], x))
             /\ \A x \in Int : Holds(h.segs[i], x) => InSeg(h, x)
             /\ Holds(h.segs[i], b)
             /\ \A j \in DOMAIN h.segs : j # i => \A x \in Int : Holds(h.segs[i], x) => ~ Holds(h.segs[j], x)
<1> DEFINE b == h.segs[i].base
           n == h.segs[i].size
<1>1. b \in Nat /\ n \in Nat
  BY SegFields, HeapTypes
<1>2. b % Page = 0 /\ n % Page = 0 /\ n > 0 /\ b \in Chunks(h)
  BY HeapTypes DEF SegsRight
<1>3. \A j \in DOMAIN h.segs : j # i => \A x \in Int : Holds(h.segs[i], x) => ~ Holds(h.segs[j], x)
  BY HeapTypes DEF SegsRight
<1>4. \A x : Holds(h.segs[i], x) <=> b <= x /\ x < b + n
  BY DEF Holds
<1>5. EndOf(h.segs[i]) = b + n
  BY DEF EndOf
<1>6. \A x \in Int : Holds(h.segs[i], x) => InSeg(h, x)
  BY DEF InSeg
<1> HIDE DEF b, n
<1>7. Paged(b, n)
  BY <1>1, <1>2 DEF Paged
<1>8. b <= b /\ b < b + n
  BY <1>1, <1>2
<1> QED  BY <1>2, <1>3, <1>4, <1>5, <1>6, <1>7, <1>8 DEF InMem, b, n

(* The record of a segment, with nothing but a fencepost behind it.        *)
LEMMA RecordIs ==
  ASSUME NEW h, Formed(h), NEW i \in 2 .. Len(h.segs)
  PROVE  LET r == h.segs[i].rec
             f == r + SegmentRecord
         IN  /\ i \in DOMAIN h.segs /\ i # 1
             /\ r \in Useds(h) /\ r \in Int /\ Behind(h, r) = f /\ f \in Int /\ f \in Heads(h) /\ h.head[f] = Fencepost
             /\ Holds(h.segs[i], r) /\ Holds(h.segs[i], f)
             /\ r + TopFoot <= EndOf(h.segs[i]) /\ EndOf(h.segs[i]) <= r + TopFoot + 1
             /\ \A x \in Heads(h) : Holds(h.segs[i], x) => x <= f
             /\ r # h.segs[1].rec /\ r \in Records(h)
<1> DEFINE r == h.segs[i].rec
           f == r + SegmentRecord
           b == h.segs[i].base
           n == h.segs[i].size
<1>1. /\ r \in Useds(h) /\ h.head[r].size = SegmentRecord /\ Holds(h.segs[i], r)
      /\ r + TopFoot <= EndOf(h.segs[i]) /\ EndOf(h.segs[i]) <= r + TopFoot + 1
      /\ f \in Heads(h) /\ h.head[f] = Fencepost
      /\ (\A x \in Heads(h) : Holds(h.segs[i], x) => x <= f)
      /\ r # h.segs[1].rec
  BY HeapTypes DEF Ends, RecordRight
<1>2. i \in DOMAIN h.segs /\ i # 1
  BY HeapTypes
<1>3. b \in Nat /\ n \in Nat /\ r \in Int
  BY <1>2, HeapTypes, SegFields
<1>4. b <= r /\ r + TopFoot <= b + n
  BY <1>1 DEF Holds, EndOf
<1>5. Behind(h, r) = f
  BY <1>1 DEF Behind
<1>6. r \in Records(h)
  BY <1>2 DEF Records
<1>7. \A x : Holds(h.segs[i], x) <=> b <= x /\ x < b + n
  BY DEF Holds
<1>8. f \in Int
  BY <1>3 DEF SegmentRecord
<1>9. b <= f /\ f < b + n
  <2> HIDE DEF b, n, r
  <2> QED  BY <1>3, <1>4 DEF TopFoot, SegmentRecord, MinChunk
<1> HIDE DEF f, b, n
<1>10. Holds(h.segs[i], f)
  BY <1>7, <1>9
<1> QED  BY <1>1, <1>2, <1>3, <1>5, <1>6, <1>8, <1>10 DEF f

(* A segment that has one free chunk and its record.                       *)
Hollow(h, i, b, n, r) ==
  /\ i \in DOMAIN h.segs /\ i # 1 /\ b = h.segs[i].base /\ n = h.segs[i].size /\ r = h.segs[i].rec
  /\ Paged(b, n) /\ b \in Frees(h) /\ Behind(h, b) = r /\ r \in Useds(h)
  /\ \A x \in Heads(h) : Holds(h.segs[i], x) => x \in {b, r, r + SegmentRecord}
  /\ h.segs[1].rec # r /\ ~ Holds(h.segs[i], h.segs[1].rec)

LEMMA HollowIs ==
  ASSUME NEW h, Formed(h), NEW i \in 2 .. Len(h.segs),
         ~ IsInuse(Tag(h, h.segs[i].base)), ~ (Tag(h, h.segs[i].base).size < h.segs[i].size - TopFoot)
  PROVE  Hollow(h, i, h.segs[i].base, h.segs[i].size, h.segs[i].rec)
<1> DEFINE b == h.segs[i].base
           n == h.segs[i].size
           r == h.segs[i].rec
           f == r + SegmentRecord
           s == h.head[b].size
<1>1. /\ i \in DOMAIN h.segs /\ i # 1
      /\ r \in Useds(h) /\ r \in Int /\ Behind(h, r) = f /\ f \in Int /\ f \in Heads(h) /\ h.head[f] = Fencepost
      /\ Holds(h.segs[i], r) /\ Holds(h.segs[i], f)
      /\ r + TopFoot <= EndOf(h.segs[i])
      /\ (\A x \in Heads(h) : Holds(h.segs[i], x) => x <= f)
      /\ r # h.segs[1].rec
  BY RecordIs
<1>2. Paged(b, n) /\ b \in Chunks(h) /\ EndOf(h.segs[i]) = b + n /\ Holds(h.segs[i], b)
  BY <1>1, SegIs
<1>3. /\ b \in Int /\ Tag(h, b) = h.head[b] /\ Behind(h, b) \in Int /\ b < Behind(h, b) /\ Behind(h, b) = b + s
      /\ h.head[b] \in TagType /\ s \in Nat /\ b \in Heads(h)
  BY <1>2, ChunkIs DEF TagType
<1>4. ~ IsInuse(h.head[b]) /\ ~ (s < n - TopFoot)
  BY <1>3
<1>5. h.head[b].p /\ ~ h.head[b].c
  BY <1>4 DEF IsInuse
<1>6. b # h.top
  <2>1. 1 \in DOMAIN h.segs /\ h.top \in Int /\ Holds(h.segs[1], h.top)
    BY HeapTypes DEF TopRight
  <2>2. ~ Holds(h.segs[i], h.top)
    BY <1>1, <2>1, SegIs
  <2> QED  BY <1>2, <2>2
<1>7. b \in Frees(h)
  BY <1>2, <1>5, <1>6 DEF Frees
<1>8. r \in Heads(h) /\ h.head[r].c
  BY <1>1 DEF Useds, Chunks
<1>9. b <= r /\ b # r
  BY <1>1, <1>5, <1>8 DEF Holds
<1>10. Behind(h, b) <= r
  <2>1. b < r
    BY <1>1, <1>3, <1>9
  <2> QED  BY <1>2, <1>8, <2>1, Apart, HeapTypes
<1>11. n \in Nat
  BY <1>2 DEF Paged
<1>12. Behind(h, b) = r
  <2>1. r + TopFoot <= b + n
    BY <1>1, <1>2
  <2> HIDE DEF b, n, r, s
  <2> QED  BY <1>1, <1>3, <1>4, <1>10, <1>11, <2>1, ConstantTypes
<1>13. ASSUME NEW x \in Heads(h), Holds(h.segs[i], x) PROVE x \in {b, r, f}
  <2>1. x \in Int /\ b <= x /\ x <= f
    BY <1>1, <1>13, HeapTypes DEF Holds
  <2>2. ~ (b < x /\ x < r)
    BY <1>2, <1>12, ChunkIs
  <2>3. ~ (r < x /\ x < f)
    <3>1. r \in Chunks(h)
      BY <1>1 DEF Useds
    <3> QED  BY <1>1, <3>1, ChunkIs
  <2> HIDE DEF f, b, r
  <2> QED  BY <1>1, <1>3, <2>1, <2>2, <2>3
<1>14. ~ Holds(h.segs[i], h.segs[1].rec)
  <2> SUFFICES ASSUME Holds(h.segs[i], h.segs[1].rec) PROVE FALSE
    OBVIOUS
  <2>1. h.segs[1].rec \in Useds(h)
    BY HeapTypes DEF Ends
  <2>2. h.segs[1].rec \in Heads(h) /\ h.head[h.segs[1].rec].c /\ h.head[h.segs[1].rec].size # 0
    BY <2>1 DEF Useds, Chunks
  <2>3. h.segs[1].rec \in {b, r, f}
    BY <1>13, <2>2
  <2>4. h.head[f].size = 0
    BY <1>1 DEF Fencepost
  <2> QED  BY <1>1, <1>5, <2>2, <2>3, <2>4
<1> QED  BY <1>1, <1>2, <1>7, <1>12, <1>13, <1>14 DEF Hollow

(* The i-th segment is gone, with what was in it.                          *)
SegGone(h, k, i, b, n) ==
  /\ k \in HeapType /\ SameTop(h, k)
  /\ k.mapped = h.mapped \ Pages(b, n) /\ k.footprint = h.footprint - n
  /\ Len(k.segs) = Len(h.segs) - 1 /\ \A j \in 1 .. Len(h.segs) - 1 : k.segs[j] = h.segs[Kept(j, i)]
  /\ (\A x \in Int : (x \in Heads(k) => x \in Heads(h) /\ ~ InMem(b, n, x) /\ k.head[x] = h.head[x])
                  /\ (x \in Heads(h) /\ ~ InMem(b, n, x) => x \in Heads(k)))
  /\ (\A x \in Int : (x \in Feet(k) => x \in Feet(h) /\ ~ InMem(b, n, x) /\ k.foot[x] = h.foot[x])
                  /\ (x \in Feet(h) /\ ~ InMem(b, n, x) => x \in Feet(k)))

(* The other segments, in the same order.                                  *)
SegsLeft(h, k, i, b, n) ==
  /\ DOMAIN k.segs = 1 .. Len(h.segs) - 1 /\ 1 \in DOMAIN k.segs /\ k.segs[1] = h.segs[1] /\ k.segs # <<>>
  /\ \A j \in DOMAIN k.segs : Kept(j, i) \in DOMAIN h.segs /\ Kept(j, i) # i /\ k.segs[j] = h.segs[Kept(j, i)]
  /\ \A j \in DOMAIN k.segs : j # 1 => Kept(j, i) # 1 /\ Kept(j, i) \in 2 .. Len(h.segs)
  /\ \A j, l \in DOMAIN k.segs : j # l => Kept(j, i) # Kept(l, i)
  /\ \A j \in DOMAIN h.segs : j # i => \E l \in DOMAIN k.segs : j = Kept(l, i)
  /\ \A x \in Int : (InSeg(k, x) => InSeg(h, x) /\ ~ InMem(b, n, x)) /\ (InSeg(h, x) /\ ~ InMem(b, n, x) => InSeg(k, x))

LEMMA SegsLeftIs ==
  ASSUME NEW h, Formed(h), NEW i, NEW b, NEW n, NEW r, Hollow(h, i, b, n, r), NEW k, SegGone(h, k, i, b, n)
  PROVE  SegsLeft(h, k, i, b, n)
<1> DEFINE L == Len(h.segs)
<1>1. DOMAIN h.segs = 1 .. L /\ 1 \in DOMAIN h.segs /\ L \in Nat /\ i \in 1 .. L /\ i # 1
  BY HeapTypes DEF Hollow
<1>2. Len(k.segs) = L - 1 /\ (\A j \in 1 .. L - 1 : k.segs[j] = h.segs[Kept(j, i)]) /\ k.segs \in Seq(SegType)
  BY HeapFields DEF SegGone
<1>3. DOMAIN k.segs = 1 .. L - 1
  BY <1>2
<1>4. b = h.segs[i].base /\ n = h.segs[i].size
  BY DEF Hollow
<1> HIDE DEF L
<1>5. 1 \in 1 .. L - 1 /\ i \in Int
  BY <1>1
<1>6. Kept(1, i) = 1
  BY <1>1 DEF Kept
<1>7. \A j \in 1 .. L - 1 : Kept(j, i) \in 1 .. L /\ Kept(j, i) # i /\ (j # 1 => Kept(j, i) # 1 /\ Kept(j, i) \in 2 .. L)
  BY <1>1, <1>5 DEF Kept
<1>8. \A j, l \in 1 .. L - 1 : j # l => Kept(j, i) # Kept(l, i)
  BY <1>1, <1>5 DEF Kept
<1>9. \A j \in 1 .. L : j # i => \E l \in 1 .. L - 1 : j = Kept(l, i)
  <2> SUFFICES ASSUME NEW j \in 1 .. L, j # i PROVE \E l \in 1 .. L - 1 : j = Kept(l, i)
    OBVIOUS
  <2>1. CASE j < i
    <3>1. j \in 1 .. L - 1 /\ j = Kept(j, i)
      BY <1>1, <1>5, <2>1 DEF Kept
    <3> QED  BY <3>1
  <2>2. CASE i < j
    <3>1. j - 1 \in 1 .. L - 1 /\ j = Kept(j - 1, i)
      BY <1>1, <1>5, <2>2 DEF Kept
    <3> QED  BY <3>1
  <2> QED  BY <1>5, <2>1, <2>2
<1>10. k.segs[1] = h.segs[1]
  BY <1>2, <1>5, <1>6
<1>11. k.segs # <<>>
  <2>1. 1 \in DOMAIN k.segs
    BY <1>3, <1>5
  <2>2. \A q \in Seq(SegType) : 1 \in DOMAIN q => q # <<>>
    OBVIOUS
  <2> QED  BY <1>2, <2>1, <2>2
<1>12. \A x \in Int : (Holds(h.segs[i], x) => InMem(b, n, x)) /\ (InMem(b, n, x) => Holds(h.segs[i], x))
  BY <1>1, <1>4, SegIs
<1>13. ASSUME NEW x \in Int, InSeg(k, x) PROVE InSeg(h, x) /\ ~ InMem(b, n, x)
  <2>1. PICK j \in DOMAIN k.segs : Holds(k.segs[j], x)
    BY <1>13 DEF InSeg
  <2>2. Kept(j, i) \in DOMAIN h.segs /\ Kept(j, i) # i /\ k.segs[j] = h.segs[Kept(j, i)]
    BY <1>1, <1>2, <1>3, <1>7
  <2> DEFINE q == Kept(j, i)
  <2>3. q \in DOMAIN h.segs /\ q # i /\ Holds(h.segs[q], x)
    BY <2>1, <2>2
  <2> HIDE DEF q
  <2>4. InSeg(h, x) /\ ~ Holds(h.segs[i], x)
    <3>1. InSeg(h, x)
      BY <2>3, SegIs
    <3>2. ~ Holds(h.segs[i], x)
      BY <1>1, <2>3, SegIs
    <3> QED  BY <3>1, <3>2
  <2> QED  BY <1>12, <2>4
<1>14. ASSUME NEW x \in Int, InSeg(h, x), ~ InMem(b, n, x) PROVE InSeg(k, x)
  <2>1. PICK j \in DOMAIN h.segs : Holds(h.segs[j], x)
    BY <1>14 DEF InSeg
  <2>2. j # i
    BY <1>12, <1>14, <2>1
  <2>3. PICK l \in 1 .. L - 1 : j = Kept(l, i)
    BY <1>1, <1>9, <2>2
  <2>4. Holds(k.segs[l], x)
    BY <1>2, <2>1, <2>3
  <2> QED  BY <1>3, <2>4 DEF InSeg
<1> HIDE DEF Kept
<1> QED  BY <1>1, <1>2, <1>3, <1>5, <1>7, <1>8, <1>9, <1>10, <1>11, <1>13, <1>14 DEF SegsLeft, L

(* What is outside of it stays.                                            *)
SegLess(h, k, b, r) ==
  /\ Formed(k) /\ Chunks(k) = Chunks(h) \ {b, r} /\ Frees(k) = Frees(h) \ {b} /\ Useds(k) = Useds(h) \ {r}
  /\ \A a \in Chunks(k) : k.head[a] = h.head[a]
  /\ Direct(k) = Direct(h) /\ \A d \in Direct(h) : k.head[d] = h.head[d]
  /\ Records(k) = Records(h) \ {r}

LEMMA SegGoneChunks ==
  ASSUME NEW h, Formed(h), NEW i, NEW b, NEW n, NEW r, Hollow(h, i, b, n, r), NEW k, SegGone(h, k, i, b, n)
  PROVE  /\ Mark(k) = Mark(h) /\ Chunks(k) = Chunks(h) \ {b, r} /\ Frees(k) = Frees(h) \ {b} /\ Useds(k) = Useds(h) \ {r}
         /\ \A a \in Chunks(k) : k.head[a] = h.head[a] /\ ~ InMem(b, n, a) /\ a \in Chunks(h)
<1>1. /\ h \in HeapType /\ k \in HeapType /\ Heads(h) \subseteq Int /\ Heads(k) \subseteq Int /\ k.top = h.top /\ Mark(k) = Mark(h)
  BY HeapTypes, HeapFields DEF SegGone, SameTop, Mark
<1>2. \A x \in Int : (x \in Heads(k) => x \in Heads(h) /\ ~ InMem(b, n, x) /\ k.head[x] = h.head[x])
                  /\ (x \in Heads(h) /\ ~ InMem(b, n, x) => x \in Heads(k))
  BY DEF SegGone
<1>3. \A x \in Int : (InSeg(k, x) => InSeg(h, x) /\ ~ InMem(b, n, x)) /\ (InSeg(h, x) /\ ~ InMem(b, n, x) => InSeg(k, x))
  BY SegsLeftIs DEF SegsLeft
<1>4. /\ i \in DOMAIN h.segs /\ b = h.segs[i].base /\ n = h.segs[i].size /\ r = h.segs[i].rec
      /\ b \in Frees(h) /\ Behind(h, b) = r /\ r \in Useds(h) /\ i \in 2 .. Len(h.segs)
      /\ \A x \in Heads(h) : Holds(h.segs[i], x) => x \in {b, r, r + SegmentRecord}
  BY HeapTypes DEF Hollow
<1>5. \A x \in Int : (Holds(h.segs[i], x) => InMem(b, n, x)) /\ (InMem(b, n, x) => Holds(h.segs[i], x))
  BY <1>4, SegIs
<1>6. InMem(b, n, b) /\ InMem(b, n, r) /\ b \in Int /\ r \in Int
  <2>1. Holds(h.segs[i], b)
    BY <1>4, SegIs
  <2>2. Holds(h.segs[i], r) /\ r \in Int
    BY <1>4, RecordIs
  <2>3. b \in Int
    BY <1>1, <1>4 DEF Frees, Chunks
  <2> QED  BY <1>5, <2>1, <2>2, <2>3
<1>7. h.head[r + SegmentRecord].size = 0
  BY <1>4, RecordIs DEF Fencepost
<1>8. ASSUME NEW a \in Chunks(k) PROVE a \in Chunks(h) \ {b, r} /\ k.head[a] = h.head[a] /\ ~ InMem(b, n, a)
  <2>1. a \in Heads(k) /\ a \in Int /\ InSeg(k, a) /\ k.head[a].size # 0 /\ a # Mark(k)
    BY <1>1 DEF Chunks
  <2>2. a \in Heads(h) /\ ~ InMem(b, n, a) /\ k.head[a] = h.head[a] /\ InSeg(h, a)
    BY <1>2, <1>3, <2>1
  <2>3. a \in Chunks(h)
    BY <1>1, <2>1, <2>2 DEF Chunks
  <2> QED  BY <1>6, <2>2, <2>3
<1>9. ASSUME NEW a \in Chunks(h), a # b, a # r PROVE a \in Chunks(k)
  <2>1. a \in Heads(h) /\ a \in Int /\ InSeg(h, a) /\ h.head[a].size # 0 /\ a # Mark(h)
    BY <1>1 DEF Chunks
  <2>2. ~ InMem(b, n, a)
    BY <1>4, <1>5, <1>7, <1>9, <2>1
  <2>3. a \in Heads(k) /\ k.head[a] = h.head[a] /\ InSeg(k, a)
    BY <1>2, <1>3, <2>1, <2>2
  <2> QED  BY <1>1, <2>1, <2>3 DEF Chunks
<1>10. Chunks(k) = Chunks(h) \ {b, r}
  BY <1>8, <1>9
<1>11. b # h.top /\ ~ h.head[b].c /\ h.head[r].c
  BY <1>4 DEF Frees, Useds
<1>12. Frees(k) = Frees(h) \ {b} /\ Useds(k) = Useds(h) \ {r}
  BY <1>1, <1>8, <1>10, <1>11 DEF Frees, Useds
<1> QED  BY <1>1, <1>8, <1>10, <1>12

LEMMA SegGoneFormed ==
  ASSUME NEW h, Formed(h), NEW i, NEW b, NEW n, NEW r, Hollow(h, i, b, n, r), NEW k, SegGone(h, k, i, b, n)
  PROVE  SegLess(h, k, b, r) /\ Pages(b, n) \subseteq h.mapped
<1>1. /\ h \in HeapType /\ k \in HeapType /\ Heads(h) \subseteq Int /\ Heads(k) \subseteq Int /\ Feet(k) \subseteq Int /\ Feet(h) \subseteq Int
      /\ k.top = h.top /\ k.topsize = h.topsize /\ Layout(h) /\ Ends(h) /\ TopRight(h) /\ SegsRight(h)
      /\ DOMAIN h.segs = 1 .. Len(h.segs) /\ Len(h.segs) \in Nat
  BY HeapTypes, HeapFields DEF SegGone, SameTop
<1>2. \A x \in Int : (x \in Heads(k) => x \in Heads(h) /\ ~ InMem(b, n, x) /\ k.head[x] = h.head[x])
                  /\ (x \in Heads(h) /\ ~ InMem(b, n, x) => x \in Heads(k))
  BY DEF SegGone
<1>3. \A x \in Int : (x \in Feet(k) => x \in Feet(h) /\ ~ InMem(b, n, x) /\ k.foot[x] = h.foot[x])
                  /\ (x \in Feet(h) /\ ~ InMem(b, n, x) => x \in Feet(k))
  BY DEF SegGone
<1>4. SegsLeft(h, k, i, b, n)
  BY SegsLeftIs
<1>5. /\ Mark(k) = Mark(h) /\ Chunks(k) = Chunks(h) \ {b, r} /\ Frees(k) = Frees(h) \ {b} /\ Useds(k) = Useds(h) \ {r}
      /\ \A a \in Chunks(k) : k.head[a] = h.head[a] /\ ~ InMem(b, n, a) /\ a \in Chunks(h)
  BY SegGoneChunks
<1>6. /\ i \in DOMAIN h.segs /\ i # 1 /\ b = h.segs[i].base /\ n = h.segs[i].size /\ r = h.segs[i].rec /\ i \in 2 .. Len(h.segs)
      /\ Paged(b, n) /\ h.segs[1].rec # r /\ r \in Useds(h)
  BY HeapTypes DEF Hollow
<1>7. \A x \in Int : (Holds(h.segs[i], x) => InMem(b, n, x)) /\ (InMem(b, n, x) => Holds(h.segs[i], x))
  BY <1>6, SegIs
<1>8. \A j \in DOMAIN h.segs : j # i => \A x \in Int : Holds(h.segs[j], x) => ~ InMem(b, n, x)
  BY <1>6, <1>7, SegIs
<1>9. /\ DOMAIN k.segs = 1 .. Len(h.segs) - 1 /\ 1 \in DOMAIN k.segs /\ k.segs[1] = h.segs[1] /\ k.segs # <<>>
      /\ \A j \in DOMAIN k.segs : Kept(j, i) \in DOMAIN h.segs /\ Kept(j, i) # i /\ k.segs[j] = h.segs[Kept(j, i)]
      /\ \A j \in DOMAIN k.segs : j # 1 => Kept(j, i) # 1 /\ Kept(j, i) \in 2 .. Len(h.segs)
      /\ \A j, l \in DOMAIN k.segs : j # l => Kept(j, i) # Kept(l, i)
      /\ \A j \in DOMAIN h.segs : j # i => \E l \in DOMAIN k.segs : j = Kept(l, i)
      /\ \A x \in Int : (InSeg(k, x) => InSeg(h, x) /\ ~ InMem(b, n, x)) /\ (InSeg(h, x) /\ ~ InMem(b, n, x) => InSeg(k, x))
  BY <1>4 DEF SegsLeft
<1>10. ASSUME NEW a \in Chunks(k) PROVE SameChunk(h, k, a)
  <2> DEFINE e == Behind(h, a)
  <2>1. a \in Chunks(h) /\ a \in Int /\ e \in Int /\ e \in Heads(h) /\ a < e /\ Together(h, a, e) /\ InSeg(h, a)
    <3>1. a \in Chunks(h)
      BY <1>5
    <3> QED  BY <3>1, ChunkIs
  <2> HIDE DEF e
  <2>2. \A x \in Int : a <= x /\ x <= e => Together(h, a, x)
    BY <1>1, <2>1, Between
  <2>3. \A x \in Int : a <= x /\ x <= e => ~ InMem(b, n, x)
    <3>1. ~ Holds(h.segs[i], a)
      BY <1>5, <1>7, <2>1
    <3> QED  BY <1>6, <1>7, <2>2, <3>1 DEF Together
  <2>4. \A x \in Int : a <= x /\ x <= e => (x \in Heads(k) => x \in Heads(h)) /\ FootAt(h, k, x)
    BY <1>2, <1>3, <2>3 DEF FootAt
  <2>5. e \in Heads(k) /\ k.head[e] = h.head[e]
    <3>1. a <= e /\ e <= e
      BY <2>1
    <3>2. ~ InMem(b, n, e)
      BY <2>1, <2>3, <3>1
    <3> QED  BY <1>2, <2>1, <3>2
  <2>6. SameBits(h, k, e)
    BY <2>5 DEF SameBits
  <2>7. Together(k, a, e)
    BY <1>9, <2>1 DEF Together
  <2>8. k.head[a] = h.head[a]
    BY <1>5
  <2> QED  BY <1>1, <2>1, <2>4, <2>5, <2>6, <2>7, <2>8 DEF SameChunk, e
<1>11. Layout(k)
  <2>1. \A a \in Chunks(k) : SameChunk(h, k, a)
    BY <1>10
  <2>2. ASSUME NEW a \in Feet(k) PROVE a \in Feet(h) /\ k.foot[a] = h.foot[a] /\ SameChunk(h, k, a - h.foot[a])
    <3>1. a \in Feet(h) /\ k.foot[a] = h.foot[a] /\ ~ InMem(b, n, a) /\ a \in Int
      BY <1>1, <1>3
    <3> DEFINE c == a - h.foot[a]
    <3>2. c \in Frees(h) /\ Behind(h, c) = a
      BY <3>1, FootIs
    <3>3. c # b
      <4>1. Behind(h, b) = r
        BY DEF Hollow
      <4>2. InMem(b, n, r)
        BY <1>6, <1>7, RecordIs
      <4> HIDE DEF c
      <4> QED  BY <3>1, <3>2, <4>1, <4>2
    <3>4. c \in Chunks(k)
      BY <1>5, <3>2, <3>3 DEF Frees
    <3> QED  BY <1>10, <3>1, <3>4
  <2> QED  BY <1>1, <2>1, <2>2, LayoutFrom
<1>12. ASSUME NEW j \in DOMAIN h.segs, j # i, NEW x \in Int, Holds(h.segs[j], x) PROVE SameAt(h, k, x)
  BY <1>2, <1>8, <1>12 DEF SameAt
<1>13. TopRight(k)
  <2>1. 1 \in DOMAIN h.segs /\ Mark(h) \in Int /\ h.top \in Int /\ Mark(h) \in Heads(h) /\ Holds(h.segs[1], h.top) /\ Together(h, h.top, Mark(h)) /\ h.top \in Chunks(h)
    BY TopIs, HeapTypes DEF TopRight
  <2>2. Holds(h.segs[1], Mark(h))
    BY <2>1 DEF Together
  <2>3. SameAt(h, k, h.top) /\ SameAt(h, k, Mark(h))
    BY <1>6, <1>12, <2>1, <2>2
  <2>4. h.top \notin {b, r}
    BY <1>6 DEF Hollow, Frees, Useds
  <2>5. \A x \in Heads(k) : Holds(h.segs[1], x) => x <= Mark(h)
    BY <1>1, <1>2 DEF TopRight
  <2> QED  BY <1>1, <1>5, <1>9, <2>1, <2>3, <2>4, <2>5 DEF TopRight, SameAt, Chunks
<1>14. \A q, j \in DOMAIN h.segs : q # 1 /\ j # q => h.segs[q].rec # h.segs[j].rec
  <2> SUFFICES ASSUME NEW q \in DOMAIN h.segs, NEW j \in DOMAIN h.segs, q # 1, j # q, h.segs[q].rec = h.segs[j].rec PROVE FALSE
    OBVIOUS
  <2>1. q \in 2 .. Len(h.segs)
    BY <1>1
  <2>2. h.segs[q].rec # h.segs[1].rec /\ Holds(h.segs[q], h.segs[q].rec) /\ h.segs[q].rec \in Int
    BY <2>1, RecordIs
  <2>3. j \in 2 .. Len(h.segs)
    BY <1>1, <2>2
  <2>4. Holds(h.segs[j], h.segs[j].rec)
    BY <2>3, RecordIs
  <2> QED  BY <2>2, <2>4, SegIs
<1>15. \A j \in DOMAIN h.segs : j # i => h.segs[j].rec # r
  BY <1>6, <1>14
<1>16. ASSUME NEW j \in 2 .. Len(k.segs) PROVE RecordRight(k, j)
  <2> DEFINE q == Kept(j, i)
             rc == h.segs[q].rec
             f == rc + SegmentRecord
  <2>1. j \in DOMAIN k.segs /\ j # 1
    <3>1. Len(k.segs) = Len(h.segs) - 1
      BY DEF SegGone
    <3> QED  BY <1>1, <1>9, <3>1
  <2>2. q \in 2 .. Len(h.segs) /\ q \in DOMAIN h.segs /\ q # i /\ k.segs[j] = h.segs[q]
    BY <1>9, <2>1
  <2> HIDE DEF q
  <2>3. RecordRight(h, q)
    BY <1>1, <2>2 DEF Ends
  <2>4. /\ rc \in Useds(h) /\ h.head[rc].size = SegmentRecord /\ Holds(h.segs[q], rc)
        /\ rc + TopFoot <= EndOf(h.segs[q]) /\ EndOf(h.segs[q]) <= rc + TopFoot + 1
        /\ f \in Heads(h) /\ h.head[f] = Fencepost
        /\ (\A x \in Heads(h) : Holds(h.segs[q], x) => x <= f)
        /\ rc # h.segs[1].rec
    BY <2>3 DEF RecordRight
  <2>5. Holds(h.segs[q], f) /\ f \in Int /\ rc \in Int
    BY <2>2, RecordIs
  <2>6. f \in Heads(k) /\ k.head[f] = Fencepost
    <3>1. SameAt(h, k, f)
      BY <1>12, <2>2, <2>5
    <3> QED  BY <2>4, <3>1 DEF SameAt
  <2>7. rc \in Useds(k) /\ k.head[rc].size = SegmentRecord
    <3>1. rc \in Useds(k)
      BY <1>5, <1>15, <2>2, <2>4
    <3> QED  BY <1>5, <2>4, <3>1 DEF Useds
  <2>8. \A x \in Heads(k) : Holds(h.segs[q], x) => x <= f
    BY <1>1, <1>2, <2>4
  <2> HIDE DEF f, rc
  <2>9. k.segs[j].rec = rc /\ k.segs[1] = h.segs[1]
    BY <1>9, <2>2 DEF rc
  <2>10. /\ EndOf(k.segs[j]) = EndOf(h.segs[q])
         /\ Holds(k.segs[j], rc)
         /\ \A x \in Heads(k) : Holds(k.segs[j], x) => x <= f
    BY <2>2, <2>4, <2>8
  <2> QED  BY <2>4, <2>6, <2>7, <2>9, <2>10 DEF RecordRight, f
<1>17. Ends(k)
  <2>1. ASSUME NEW x \in Heads(k), InSeg(k, x), k.head[x].size = 0 PROVE \E j \in 2 .. Len(k.segs) : x = k.segs[j].rec + SegmentRecord
    <3>1. x \in Int /\ x \in Heads(h) /\ InSeg(h, x) /\ h.head[x].size = 0 /\ ~ InMem(b, n, x)
      BY <1>1, <1>2, <1>9, <2>1
    <3>2. PICK q \in 2 .. Len(h.segs) : x = h.segs[q].rec + SegmentRecord
      BY <1>1, <3>1 DEF Ends
    <3>3. q \in DOMAIN h.segs /\ Holds(h.segs[q], x) /\ q # 1
      BY <3>2, RecordIs
    <3>4. q # i
      BY <1>7, <3>1, <3>3
    <3>5. PICK l \in DOMAIN k.segs : q = Kept(l, i)
      BY <1>9, <3>3, <3>4
    <3>6. l # 1
      BY <1>1, <1>6, <3>3, <3>5 DEF Kept
    <3>7. k.segs[l] = h.segs[q]
      BY <1>9, <3>5
    <3>8. l \in 2 .. Len(k.segs)
      <4>1. Len(k.segs) = Len(h.segs) - 1
        BY DEF SegGone
      <4> QED  BY <1>1, <1>9, <3>6, <4>1
    <3> QED  BY <3>2, <3>7, <3>8
  <2>2. h.segs[1].rec \in Useds(h) /\ h.head[h.segs[1].rec].size = StateChunk
    BY <1>1 DEF Ends
  <2>3. h.segs[1].rec \in Useds(k)
    BY <1>5, <1>6, <2>2
  <2>4. k.head[h.segs[1].rec].size = StateChunk
    BY <1>5, <2>2, <2>3 DEF Useds
  <2>5. \A j \in 2 .. Len(k.segs) : RecordRight(k, j)
    BY <1>16
  <2> QED  BY <1>9, <1>13, <2>1, <2>3, <2>4, <2>5 DEF Ends
<1>18. SegsRight(k)
  <2>1. ASSUME NEW j \in DOMAIN k.segs
        PROVE k.segs[j].base % Page = 0 /\ k.segs[j].size % Page = 0 /\ k.segs[j].size > 0 /\ k.segs[j].base \in Chunks(k)
    <3> DEFINE q == Kept(j, i)
    <3>1. q \in DOMAIN h.segs /\ q # i /\ k.segs[j] = h.segs[q]
      BY <1>9
    <3> HIDE DEF q
    <3>2. /\ h.segs[q].base % Page = 0 /\ h.segs[q].size % Page = 0 /\ h.segs[q].size > 0 /\ h.segs[q].base \in Chunks(h)
      BY <1>1, <3>1 DEF SegsRight
    <3>3. Holds(h.segs[q], h.segs[q].base) /\ h.segs[q].base \in Int
      <4>1. h.segs[q].base \in Int
        BY <1>1, <3>2 DEF Chunks
      <4> QED  BY <3>1, <4>1, SegIs
    <3>4. ~ InMem(b, n, h.segs[q].base)
      BY <1>8, <3>1, <3>3
    <3>5. InMem(b, n, b) /\ InMem(b, n, r)
      <4>1. Holds(h.segs[i], b) /\ Holds(h.segs[i], r) /\ r \in Int
        BY <1>6, SegIs, RecordIs
      <4>2. b \in Int
        BY <1>6 DEF Paged
      <4> QED  BY <1>7, <4>1, <4>2
    <3>6. h.segs[q].base \in Chunks(k)
      BY <1>5, <3>2, <3>4, <3>5
    <3> QED  BY <3>1, <3>2, <3>6
  <2>2. ASSUME NEW j \in DOMAIN k.segs, NEW l \in DOMAIN k.segs, j # l, NEW x \in Int PROVE ~ (Holds(k.segs[j], x) /\ Holds(k.segs[l], x))
    <3> DEFINE q == Kept(j, i)
               u == Kept(l, i)
    <3>1. q \in DOMAIN h.segs /\ u \in DOMAIN h.segs /\ q # u /\ k.segs[j] = h.segs[q] /\ k.segs[l] = h.segs[u]
      BY <1>9, <2>2
    <3> HIDE DEF q, u
    <3> QED  BY <1>1, <3>1 DEF SegsRight
  <2> QED  BY <1>9, <2>1, <2>2 DEF SegsRight
<1>19. Loss(h, k, b, n)
  <2>1. k.mapped = h.mapped \ Pages(b, n)
    BY DEF SegGone
  <2>2. \A x \in Int : InMem(b, n, x) => InSeg(h, x) /\ x \notin Heads(k)
    BY <1>2, <1>6, <1>7, SegIs
  <2>3. \A x \in Int : ~ InSeg(h, x) => SameAt(h, k, x)
    BY <1>2, <2>2 DEF SameAt
  <2> QED  BY <1>6, <1>9, <2>1, <2>2, <2>3 DEF Loss
<1>20. Direct(k) = Direct(h) /\ DirectsRight(k) /\ (\A d \in Direct(h) : k.head[d] = h.head[d]) /\ Pages(b, n) \subseteq h.mapped
  BY <1>1, <1>19, LossDirects
<1>21. Formed(k)
  BY <1>1, <1>11, <1>17, <1>18, <1>20 DEF Formed, DirectsRight
<1>22. Records(k) = Records(h) \ {r}
  <2>1. ASSUME NEW x \in Records(k) PROVE x \in Records(h) \ {r}
    <3>1. PICK j \in DOMAIN k.segs : x = k.segs[j].rec
      BY DEF Records
    <3>2. Kept(j, i) \in DOMAIN h.segs /\ Kept(j, i) # i /\ k.segs[j] = h.segs[Kept(j, i)]
      BY <1>9
    <3> QED  BY <1>15, <3>1, <3>2 DEF Records
  <2>2. ASSUME NEW x \in Records(h), x # r PROVE x \in Records(k)
    <3>1. PICK j \in DOMAIN h.segs : x = h.segs[j].rec
      BY DEF Records
    <3>2. j # i
      BY <1>6, <2>2, <3>1
    <3>3. PICK l \in DOMAIN k.segs : j = Kept(l, i)
      BY <1>9, <3>2
    <3> QED  BY <1>9, <3>1, <3>3 DEF Records
  <2> QED  BY <2>1, <2>2
<1> QED  BY <1>5, <1>20, <1>21, <1>22 DEF SegLess

LEMMA SegOnce ==
  ASSUME NEW h, Formed(h), NEW i \in DOMAIN h.segs, NEW j \in DOMAIN h.segs, h.segs[j] = h.segs[i]
  PROVE  j = i
<1>1. Holds(h.segs[i], h.segs[i].base) /\ h.segs[i].base \in Nat
  BY SegIs, SegFields, HeapTypes
<1>2. Holds(h.segs[j], h.segs[i].base)
  BY <1>1
<1> QED  BY <1>1, <1>2, SegIs

(* What is left of a heap when the chunk b, which is loose in g, goes with *)
(* its segment.                                                            *)
LEMMA SegLessSound ==
  ASSUME NEW h, NEW U, Formed(h), Held(h, U), NEW b \in Frees(h), NEW r \in Records(h), NEW g, Shelved(h, g, {b}),
         NEW k, SegLess(h, k, b, r), SameShelf(g, k)
  PROVE  Sound(k, U) /\ Keeps(h, k, U)
<1>1. /\ Formed(k) /\ Chunks(k) = Chunks(h) \ {b, r} /\ Frees(k) = Frees(h) \ {b} /\ Useds(k) = Useds(h) \ {r}
      /\ (\A a \in Chunks(k) : k.head[a] = h.head[a])
      /\ Direct(k) = Direct(h) /\ (\A d \in Direct(h) : k.head[d] = h.head[d])
      /\ Records(k) = Records(h) \ {r}
  BY DEF SegLess
<1>2. \A a \in Frees(k) : k.head[a].size = h.head[a].size
  BY <1>1 DEF Frees
<1>3. Shelved(k, g, {})
  <2>1. /\ \A s \in Sizes : /\ Once(g.bins[s])
                            /\ \A a : In(g.bins[s], a) <=> (a \in Frees(h) \ {b} /\ h.head[a].size = s /\ a # g.dv)
        /\ g.dvsize = 0 => g.dv = NoMem
        /\ g.dvsize # 0 => g.dv \in Frees(h) \ {b} /\ h.head[g.dv].size = g.dvsize
    BY DEF Shelved
  <2>2. ASSUME NEW s \in Sizes, NEW a PROVE In(g.bins[s], a) <=> (a \in Frees(k) /\ k.head[a].size = s /\ a # g.dv)
    <3>1. In(g.bins[s], a) <=> (a \in Frees(h) \ {b} /\ h.head[a].size = s /\ a # g.dv)
      BY <2>1
    <3>2. a \in Frees(h) \ {b} <=> a \in Frees(k)
      BY <1>1
    <3>3. a \in Frees(k) => k.head[a].size = h.head[a].size
      BY <1>2
    <3> QED  BY <3>1, <3>2, <3>3
  <2>3. g.dvsize # 0 => g.dv \in Frees(k) /\ k.head[g.dv].size = g.dvsize
    BY <1>1, <1>2, <2>1
  <2> QED  BY <2>1, <2>2, <2>3 DEF Shelved
<1>4. Shelved(k, k, {})
  BY <1>3, SameShelved
<1>5. U \cap Records(h) = {} /\ U \subseteq Useds(h) \cup Direct(h) /\ Useds(h) \subseteq U \cup Records(h)
  BY DEF Held
<1>6. Held(k, U)
  <2>1. r \notin U
    BY <1>5
  <2> QED  BY <1>1, <1>5, <2>1 DEF Held
<1>7. Keeps(h, k, U)
  <2> SUFFICES ASSUME NEW a \in U PROVE k.head[a].size = h.head[a].size /\ (a \in Direct(k) <=> a \in Direct(h))
    BY DEF Keeps
  <2>1. a \in Useds(k) \cup Direct(h)
    BY <1>6, <1>1 DEF Held
  <2>2. k.head[a] = h.head[a]
    BY <1>1, <2>1 DEF Useds
  <2> QED  BY <1>1, <2>2
<1> QED  BY <1>1, <1>4, <1>6, <1>7 DEF Sound

Resegmented(h, s) == [h EXCEPT !.segs = s]

LEMMA NewSegs ==
  ASSUME NEW h \in HeapType, NEW s \in Seq(SegType)
  PROVE  LET g == Resegmented(h, s)
         IN  /\ g \in HeapType /\ SameTags(h, g) /\ SameTop(h, g) /\ SameShelf(h, g) /\ SameTimes(h, g)
             /\ g.segs = s /\ g.mapped = h.mapped /\ g.footprint = h.footprint
<1> DEFINE g == Resegmented(h, s)
<1>1. g \in HeapType
  BY DEF HeapType, Resegmented
<1>2. SameTags(h, g) /\ SameTop(h, g) /\ SameShelf(h, g) /\ SameTimes(h, g)
  BY DEF HeapType, Resegmented, SameTags, SameTop, SameShelf, SameTimes
<1>3. g.segs = s /\ g.mapped = h.mapped /\ g.footprint = h.footprint
  BY DEF HeapType, Resegmented
<1> QED  BY <1>1, <1>2, <1>3

(* The segments that are still there when the i-th was looked at.          *)
SegsStay(h, g, i) ==
  /\ g.segs[1] = h.segs[1]
  /\ \A j \in 2 .. Len(h.segs) : j # i => \E l \in 2 .. Len(g.segs) : g.segs[l] = h.segs[j]

LEMMA SegGoneIs ==
  ASSUME NEW h, Formed(h), NEW i, NEW b, NEW n, NEW r, Hollow(h, i, b, n, r), NEW g, OnlyShelf(h, g)
  PROVE  LET k == [Unmapped(g, b, n) EXCEPT !.segs = RemoveAt(h.segs, i)]
         IN  SegGone(h, k, i, b, n) /\ SameShelf(g, k)
<1> DEFINE f == Unmapped(g, b, n)
           s == RemoveAt(h.segs, i)
           k == Resegmented(f, s)
<1>1. /\ i \in DOMAIN h.segs /\ Paged(b, n) /\ b \in Int /\ n \in Nat
  BY DEF Hollow, Paged
<1>2. h.segs \in Seq(SegType) /\ i \in 1 .. Len(h.segs) /\ Len(h.segs) \in Nat
  BY <1>1, HeapTypes
<1>3. s \in Seq(SegType) /\ Len(s) = Len(h.segs) - 1 /\ \A j \in 1 .. Len(h.segs) - 1 : s[j] = h.segs[Kept(j, i)]
  BY <1>2, RemoveAtIs
<1>4. g \in HeapType /\ SameTags(h, g) /\ SameTop(h, g) /\ SameMap(h, g)
  BY DEF OnlyShelf
<1>5. UnmappedTo(g, f, b, n)
  BY <1>1, <1>4, UnmappedIs
<1> HIDE DEF f, s
<1>6. f \in HeapType
  BY <1>5 DEF UnmappedTo
<1>7. /\ k \in HeapType /\ SameTags(f, k) /\ SameTop(f, k) /\ SameShelf(f, k)
      /\ k.segs = s /\ k.mapped = f.mapped /\ k.footprint = f.footprint
  BY <1>3, <1>6, NewSegs
<1>8. [f EXCEPT !.segs = s] = k
  BY DEF Resegmented
<1> HIDE DEF k
<1>9. SameTop(h, k) /\ SameShelf(g, k) /\ k.mapped = h.mapped \ Pages(b, n) /\ k.footprint = h.footprint - n
  <2> HIDE DEF Pages
  <2> QED  BY <1>4, <1>5, <1>7 DEF UnmappedTo, SameTop, SameShelf, SameMap
<1>10. Heads(g) = Heads(h) /\ Feet(g) = Feet(h) /\ Heads(k) = Heads(f) /\ Feet(k) = Feet(f) /\ g.head = h.head /\ g.foot = h.foot /\ k.head = f.head /\ k.foot = f.foot
  BY <1>4, <1>7 DEF SameTags, Heads, Feet
<1>11. /\ (\A x \in Int : (x \in Heads(k) => x \in Heads(h) /\ ~ InMem(b, n, x) /\ k.head[x] = h.head[x])
                  /\ (x \in Heads(h) /\ ~ InMem(b, n, x) => x \in Heads(k)))
       /\ (\A x \in Int : (x \in Feet(k) => x \in Feet(h) /\ ~ InMem(b, n, x) /\ k.foot[x] = h.foot[x])
                  /\ (x \in Feet(h) /\ ~ InMem(b, n, x) => x \in Feet(k)))
  <2>1. /\ (\A x \in Int : (x \in Heads(f) => x \in Heads(g) /\ ~ InMem(b, n, x) /\ f.head[x] = g.head[x])
                  /\ (x \in Heads(g) /\ ~ InMem(b, n, x) => x \in Heads(f)))
        /\ (\A x \in Int : (x \in Feet(f) => x \in Feet(g) /\ ~ InMem(b, n, x) /\ f.foot[x] = g.foot[x])
                  /\ (x \in Feet(g) /\ ~ InMem(b, n, x) => x \in Feet(f)))
    BY <1>5 DEF UnmappedTo
  <2> QED  BY <1>10, <2>1
<1>12. SegGone(h, k, i, b, n)
  BY <1>3, <1>7, <1>9, <1>11 DEF SegGone
<1> QED  BY <1>8, <1>9, <1>12 DEF f, s

LEMMA BecameLeft ==
  ASSUME NEW h, NEW g, NEW U, Became(h, g, U)
  PROVE  Left(h, g, U)
<1>1. Counted(h) => Counted(g)
  BY DEF Became, SameMap, Counted
<1> QED  BY <1>1 DEF Became, Left

LEMMA LeftSelf ==
  ASSUME NEW h, NEW U, Sound(h, U)
  PROVE  Left(h, h, U)
<1>1. Keeps(h, h, U)
  BY DEF Keeps
<1> QED  BY <1>1 DEF Left

LEMMA SegsStaySelf ==
  ASSUME NEW h, NEW g, g.segs = h.segs, NEW i
  PROVE  SegsStay(h, g, i)
BY DEF SegsStay

LEMMA ReleaseIs ==
  ASSUME NEW h, NEW U, Sound(h, U), NEW i \in 2 .. Len(h.segs), NEW g \in ReleaseSegment(h, h.segs[i])
  PROVE  Left(h, g, U) /\ SegsStay(h, g, i)
<1> DEFINE seg == h.segs[i]
           b == seg.base
           n == seg.size
           r == seg.rec
           s == Tag(h, b).size
           u == IF b = h.dv THEN NoDv(h) ELSE Unlink(h, b, s)
           c == CHOOSE j \in DOMAIN h.segs : h.segs[j] = seg
           k == [Unmapped(u, b, n) EXCEPT !.segs = RemoveAt(h.segs, c)]
<1>1. g \in IF IsInuse(Tag(h, b)) \/ s < n - TopFoot THEN {h} ELSE {k, Insert(u, b, s)}
  BY DEF ReleaseSegment
<1>2. CASE IsInuse(Tag(h, b)) \/ s < n - TopFoot
  <2>1. g = h
    BY <1>1, <1>2
  <2> QED  BY <2>1, LeftSelf, SegsStaySelf
<1>3. CASE ~ (IsInuse(Tag(h, b)) \/ s < n - TopFoot)
  <2>1. g = k \/ g = Insert(u, b, s)
    BY <1>1, <1>3
  <2>2. Formed(h) /\ Shelved(h, h, {}) /\ Held(h, U) /\ h \in HeapType
    BY HeapTypes DEF Sound
  <2>3. Hollow(h, i, b, n, r)
    BY <1>3, <2>2, HollowIs
  <2>4. i \in DOMAIN h.segs /\ b \in Frees(h) /\ r \in Records(h) /\ i # 1
    <3>1. i \in DOMAIN h.segs /\ b \in Frees(h) /\ i # 1
      BY <2>3 DEF Hollow
    <3> QED  BY <3>1 DEF Records
  <2>5. c = i
    BY <2>2, <2>4, SegOnce
  <2>6. s = h.head[b].size
    <3>1. b \in Chunks(h)
      BY <2>4 DEF Frees
    <3> QED  BY <2>2, <3>1, ChunkIs
  <2> HIDE DEF c, s, b, n, r
  <2>7. OnlyShelf(h, u) /\ Shelved(h, u, {b})
    <3>1. CASE b = h.dv
      <4>1. h.dvsize # 0
        <5>1. b \in Chunks(h)
          BY <2>4 DEF Frees
        <5>2. b # NoMem
          BY <2>2, <2>4, FreeSizes
        <5> QED  BY <2>2, <3>1, <5>2, VictimIs
      <4>2. OnlyShelf(h, NoDv(h)) /\ NoDv(h).bins = h.bins /\ NoDv(h).dv = NoMem /\ NoDv(h).dvsize = 0
        BY <2>2, NoDvFields
      <4>3. Shelved(h, NoDv(h), {} \cup {h.dv})
        BY <2>2, <4>1, <4>2, NoVictim
      <4>4. {} \cup {h.dv} = {b}
        BY <3>1
      <4> QED  BY <3>1, <4>2, <4>3, <4>4
    <3>2. CASE b # h.dv
      <4>1. b \in Frees(h) \ {}
        BY <2>4
      <4>2. OnlyShelf(h, Unlink(h, b, s)) /\ Shelved(h, Unlink(h, b, s), {} \cup {b})
        BY <2>2, <2>6, <3>2, <4>1, UnlinkIs
      <4>3. {} \cup {b} = {b}
        OBVIOUS
      <4> QED  BY <3>2, <4>2, <4>3
    <3> QED  BY <3>1, <3>2
  <2> HIDE DEF u
  <2>8. CASE g = Insert(u, b, s)
    <3>1. OnlyShelf(u, g) /\ Shelved(h, g, {b} \ {b})
      <4>1. u \in HeapType /\ b \in {b}
        BY <2>7 DEF OnlyShelf
      <4> QED  BY <2>2, <2>6, <2>7, <2>8, <4>1, InsertIs
    <3>2. OnlyShelf(h, g)
      BY <2>7, <3>1, ShelfTwice
    <3>3. SameForm(h, g) /\ SameMap(h, g)
      BY <3>2, ShelfForm
    <3>4. {b} \ {b} = {}
      OBVIOUS
    <3>5. Became(h, g, U)
      BY <2>2, <3>1, <3>3, <3>4, ShelfSound
    <3>6. g.segs = h.segs
      BY <3>3 DEF SameMap
    <3> QED  BY <3>5, <3>6, BecameLeft, SegsStaySelf
  <2>9. CASE g = k
    <3>1. SegGone(h, g, i, b, n) /\ SameShelf(u, g)
      BY <2>2, <2>3, <2>5, <2>7, <2>9, SegGoneIs
    <3>2. SegLess(h, g, b, r) /\ Pages(b, n) \subseteq h.mapped
      BY <2>2, <2>3, <3>1, SegGoneFormed
    <3>3. Sound(g, U) /\ Keeps(h, g, U)
      BY <2>2, <2>4, <2>7, <3>1, <3>2, SegLessSound
    <3>4. Counted(h) => Counted(g)
      <4>1. Paged(b, n)
        BY <2>3 DEF Hollow
      <4>2. g.mapped = h.mapped \ Pages(b, n) /\ g.footprint = h.footprint - n
        BY <3>1 DEF SegGone
      <4> QED  BY <2>2, <3>2, <4>1, <4>2, LossCounted
    <3>5. SegsLeft(h, g, i, b, n)
      BY <2>2, <2>3, <3>1, SegsLeftIs
    <3>6. SegsStay(h, g, i)
      <4>1. /\ DOMAIN g.segs = 1 .. Len(h.segs) - 1 /\ g.segs[1] = h.segs[1]
            /\ \A j \in DOMAIN g.segs : g.segs[j] = h.segs[Kept(j, i)]
            /\ \A j \in DOMAIN h.segs : j # i => \E l \in DOMAIN g.segs : j = Kept(l, i)
        BY <3>5 DEF SegsLeft
      <4>2. Len(g.segs) = Len(h.segs) - 1 /\ DOMAIN h.segs = 1 .. Len(h.segs) /\ Len(h.segs) \in Nat
        BY <2>2, <3>1, HeapTypes DEF SegGone
      <4>3. ASSUME NEW j \in 2 .. Len(h.segs), j # i PROVE \E l \in 2 .. Len(g.segs) : g.segs[l] = h.segs[j]
        <5>1. j \in DOMAIN h.segs /\ j # 1
          BY <4>2
        <5>2. PICK l \in DOMAIN g.segs : j = Kept(l, i)
          BY <4>1, <4>3, <5>1
        <5>3. l # 1
          BY <2>4, <4>2, <5>1, <5>2 DEF Kept
        <5>4. l \in 2 .. Len(g.segs)
          BY <4>1, <4>2, <5>3
        <5> QED  BY <4>1, <5>2, <5>4
      <4> QED  BY <4>1, <4>3 DEF SegsStay
    <3> QED  BY <3>3, <3>4, <3>6 DEF Left
  <2> QED  BY <2>1, <2>8, <2>9, SMTT(30)
<1> QED  BY <1>2, <1>3

-----------------------------------------------------------------------------
(* release_unused_segments: one segment after the other.                   *)

ReleasedFrom(h, S, i) == UNION {ReleaseSegment(g, h.segs[i]) : g \in S}

IsRelease(h, f, k) == f = [i \in 1 .. k |-> IF i = 1 THEN {h} ELSE ReleasedFrom(h, f[i - 1], i)]

ReleaseLoop(h) ==
  CHOOSE after : after = [i \in 1 .. Len(h.segs) |->
    IF i = 1 THEN {h} ELSE UNION {ReleaseSegment(g, h.segs[i]) : g \in after[i - 1]}]

LEMMA ReleaseExists ==
  ASSUME NEW h, NEW n \in Nat
  PROVE  \E f : IsRelease(h, f, n)
<1> DEFINE T == {k \in Nat : ~ \E f : IsRelease(h, f, k)}
<1>1. ASSUME T # {} PROVE FALSE
  <2> DEFINE k == Min(T)
  <2>1. k \in T /\ \A j \in T : k <= j
    BY <1>1, LeastOf
  <2> HIDE DEF k
  <2>2. CASE k = 0
    <3> DEFINE f == [i \in 1 .. 0 |-> {h}]
    <3>1. f = [i \in 1 .. 0 |-> IF i = 1 THEN {h} ELSE ReleasedFrom(h, f[i - 1], i)]
      OBVIOUS
    <3> QED  BY <2>1, <2>2, <3>1 DEF IsRelease
  <2>3. CASE k # 0
    <3>0. k \in Nat
      BY <2>1
    <3>1. k - 1 \in Nat /\ ~ (k <= k - 1)
      BY <2>3, <3>0
    <3>2. k - 1 \notin T
      BY <2>1, <3>1
    <3>3. PICK f : IsRelease(h, f, k - 1)
      BY <3>1, <3>2
    <3> DEFINE R(x, i) == IF i = 1 THEN {h} ELSE ReleasedFrom(h, x, i)
               g == [i \in 1 .. k |-> IF i = k THEN R(f[k - 1], k) ELSE f[i]]
    <3>4. \A i \in 1 .. k - 1 : g[i] = f[i] /\ f[i] = R(f[i - 1], i)
      <4>1. f = [i \in 1 .. k - 1 |-> R(f[i - 1], i)]
        BY <3>3 DEF IsRelease
      <4>2. \A i \in 1 .. k - 1 : f[i] = R(f[i - 1], i)
        <5> HIDE DEF R
        <5> QED  BY <4>1
      <4>3. \A i \in 1 .. k - 1 : i \in 1 .. k /\ i # k
        BY <3>0
      <4> HIDE DEF R
      <4> QED  BY <4>2, <4>3
    <3>5. g[k] = R(f[k - 1], k)
      <4>1. k \in 1 .. k
        BY <2>3, <3>0
      <4> HIDE DEF R
      <4> QED  BY <4>1
    <3>6. \A i \in 1 .. k : g[i] = R(g[i - 1], i)
      <4> SUFFICES ASSUME NEW i \in 1 .. k PROVE g[i] = R(g[i - 1], i)
        OBVIOUS
      <4>1. CASE i = 1
        <5>1. \A x, y : R(x, 1) = R(y, 1)
          OBVIOUS
        <5> HIDE DEF R, g
        <5>2. CASE k = 1
          BY <3>5, <4>1, <5>1, <5>2
        <5>3. CASE k # 1
          <6>1. 1 \in 1 .. k - 1
            BY <2>3, <3>0, <5>3
          <6>2. g[1] = R(f[1 - 1], 1)
            BY <3>4, <6>1
          <6> QED  BY <4>1, <5>1, <6>2
        <5> QED  BY <5>2, <5>3
      <4>2. CASE i # 1
        <5>1. i - 1 \in 1 .. k - 1
          BY <3>0, <4>2
        <5>2. g[i - 1] = f[i - 1]
          <6> HIDE DEF R, g
          <6> QED  BY <3>4, <5>1
        <5>3. CASE i = k
          <6> HIDE DEF R, g
          <6> QED  BY <3>5, <5>2, <5>3
        <5>4. CASE i # k
          <6>1. i \in 1 .. k - 1
            BY <3>0, <5>4
          <6> HIDE DEF R, g
          <6>2. g[i] = R(f[i - 1], i)
            BY <3>4, <6>1
          <6> QED  BY <5>2, <6>2
        <5> QED  BY <5>3, <5>4
      <4> QED  BY <4>1, <4>2
    <3>7. g = [i \in 1 .. k |-> R(g[i - 1], i)]
      <4>1. DOMAIN g = 1 .. k /\ g = [i \in DOMAIN g |-> g[i]]
        <5> HIDE DEF R
        <5> QED  OBVIOUS
      <4> HIDE DEF R, g
      <4> QED  BY <3>6, <4>1
    <3> HIDE DEF g
    <3>8. IsRelease(h, g, k)
      BY <3>7 DEF IsRelease
    <3> QED  BY <2>1, <3>8
  <2> QED  BY <2>2, <2>3
<1> QED  BY <1>1

LEMMA ReleaseSteps ==
  ASSUME NEW h, Len(h.segs) \in Nat
  PROVE  \A i \in 1 .. Len(h.segs) : ReleaseLoop(h)[i] = IF i = 1 THEN {h} ELSE ReleasedFrom(h, ReleaseLoop(h)[i - 1], i)
<1> DEFINE A == ReleaseLoop(h)
           n == Len(h.segs)
<1>1. A = CHOOSE f : IsRelease(h, f, n)
  BY DEF ReleaseLoop, IsRelease, ReleasedFrom
<1>2. \E f : IsRelease(h, f, n)
  BY ReleaseExists
<1> HIDE DEF A, n
<1>3. IsRelease(h, A, n)
  BY <1>1, <1>2
<1>4. A = [i \in 1 .. n |-> IF i = 1 THEN {h} ELSE ReleasedFrom(h, A[i - 1], i)]
  BY <1>3 DEF IsRelease
<1>5. \A i \in 1 .. n : A[i] = IF i = 1 THEN {h} ELSE ReleasedFrom(h, A[i - 1], i)
  BY <1>4
<1> QED  BY <1>5 DEF A, n

LEMMA LeftOn ==
  ASSUME NEW h, NEW g, NEW k, NEW U, NEW V, Left(h, g, U), Left(g, k, V), V \subseteq U
  PROVE  Left(h, k, V)
<1>1. Keeps(h, k, V)
  BY KeepsOn DEF Left
<1> QED  BY <1>1 DEF Left

(* What is true of the heap when i segments were looked at.                *)
ReleasedUpTo(h, g, U, i) ==
  /\ Left(h, g, U) /\ g.segs[1] = h.segs[1]
  /\ \A j \in 2 .. Len(h.segs) : i < j => \E l \in 2 .. Len(g.segs) : g.segs[l] = h.segs[j]

LEMMA ReleaseLoopIs ==
  ASSUME NEW h, NEW U, Sound(h, U), NEW i \in 1 .. Len(h.segs), NEW g \in ReleaseLoop(h)[i]
  PROVE  ReleasedUpTo(h, g, U, i)
<1> DEFINE L == Len(h.segs)
           A == ReleaseLoop(h)
           T == {j \in Nat : j \in 1 .. L /\ \E k \in A[j] : ~ ReleasedUpTo(h, k, U, j)}
<1>1. L \in Nat /\ \A j \in 1 .. L : A[j] = IF j = 1 THEN {h} ELSE ReleasedFrom(h, A[j - 1], j)
  <2>1. L \in Nat
    BY HeapTypes DEF Sound
  <2> QED  BY <2>1, ReleaseSteps
<1>2. ASSUME T # {} PROVE FALSE
  <2> DEFINE j == Min(T)
  <2>1. j \in T /\ \A l \in T : j <= l
    BY <1>2, LeastOf
  <2> HIDE DEF j
  <2>2. j \in 1 .. L /\ j \in Nat
    BY <2>1
  <2>3. PICK k \in A[j] : ~ ReleasedUpTo(h, k, U, j)
    BY <2>1
  <2> HIDE DEF A
  <2>4. CASE j = 1
    <3>1. k = h
      BY <1>1, <2>2, <2>3, <2>4
    <3>2. Left(h, h, U)
      BY LeftSelf
    <3>3. \A q \in 2 .. L : \E l \in 2 .. L : h.segs[l] = h.segs[q]
      OBVIOUS
    <3> QED  BY <2>3, <3>1, <3>2, <3>3 DEF ReleasedUpTo
  <2>5. CASE j # 1
    <3>1. j - 1 \in 1 .. L /\ j - 1 \in Nat /\ ~ (j <= j - 1) /\ j \in 2 .. L
      BY <1>1, <2>2, <2>5
    <3>2. j - 1 \notin T
      BY <2>1, <3>1
    <3>3. A[j] = ReleasedFrom(h, A[j - 1], j)
      BY <1>1, <2>2, <2>5
    <3>4. k \in ReleasedFrom(h, A[j - 1], j)
      BY <2>3, <3>3
    <3>5. PICK u \in A[j - 1] : k \in ReleaseSegment(u, h.segs[j])
      BY <3>4 DEF ReleasedFrom
    <3>6. ReleasedUpTo(h, u, U, j - 1)
      BY <3>1, <3>2, <3>5
    <3>7. Left(h, u, U) /\ u.segs[1] = h.segs[1] /\ Sound(u, U)
      BY <3>6 DEF ReleasedUpTo, Left
    <3>8. \A q \in 2 .. L : j - 1 < q => \E l \in 2 .. Len(u.segs) : u.segs[l] = h.segs[q]
      BY <3>6 DEF ReleasedUpTo
    <3>9. j - 1 < j
      BY <2>2
    <3>10. PICK l \in 2 .. Len(u.segs) : u.segs[l] = h.segs[j]
      BY <3>1, <3>8, <3>9
    <3>11. k \in ReleaseSegment(u, u.segs[l])
      BY <3>5, <3>10
    <3>12. Left(u, k, U) /\ SegsStay(u, k, l)
      BY <3>7, <3>11, ReleaseIs
    <3>13. Left(h, k, U)
      BY <3>7, <3>12, LeftOn
    <3>14. k.segs[1] = h.segs[1]
      BY <3>7, <3>12 DEF SegsStay
    <3>15. ASSUME NEW q \in 2 .. L, j < q PROVE \E x \in 2 .. Len(k.segs) : k.segs[x] = h.segs[q]
      <4>1. q \in Int /\ j - 1 < q /\ q # j
        BY <2>2, <3>15
      <4>2. PICK y \in 2 .. Len(u.segs) : u.segs[y] = h.segs[q]
        BY <3>8, <4>1
      <4>3. y # l
        <5> SUFFICES ASSUME y = l PROVE FALSE
          OBVIOUS
        <5>1. h.segs[q] = h.segs[j]
          BY <3>10, <4>2
        <5>2. Formed(h) /\ DOMAIN h.segs = 1 .. L
          BY HeapTypes DEF Sound
        <5>3. q \in DOMAIN h.segs /\ j \in DOMAIN h.segs
          BY <2>2, <5>2
        <5> QED  BY <4>1, <5>1, <5>2, <5>3, SegOnce
      <4>4. PICK x \in 2 .. Len(k.segs) : k.segs[x] = u.segs[y]
        BY <3>12, <4>2, <4>3 DEF SegsStay
      <4> QED  BY <4>2, <4>4
    <3>16. ReleasedUpTo(h, k, U, j)
      BY <3>13, <3>14, <3>15 DEF ReleasedUpTo
    <3> QED  BY <2>3, <3>16
  <2> QED  BY <2>4, <2>5
<1>3. i \in Nat
  BY <1>1
<1> QED  BY <1>2, <1>3

Rechecked(h, c) == [h EXCEPT !.checks = c]
Retrimmed(h, t) == [h EXCEPT !.trim = t]

LEMMA NewTimes ==
  ASSUME NEW h \in HeapType, NEW c \in Int
  PROVE  /\ Rechecked(h, c) \in HeapType /\ SameTags(h, Rechecked(h, c)) /\ SameTop(h, Rechecked(h, c))
         /\ SameShelf(h, Rechecked(h, c)) /\ SameMap(h, Rechecked(h, c))
         /\ Retrimmed(h, c) \in HeapType /\ SameTags(h, Retrimmed(h, c)) /\ SameTop(h, Retrimmed(h, c))
         /\ SameShelf(h, Retrimmed(h, c)) /\ SameMap(h, Retrimmed(h, c))
<1>1. Rechecked(h, c) \in HeapType /\ Retrimmed(h, c) \in HeapType
  BY DEF HeapType, Rechecked, Retrimmed
<1>2. /\ SameTags(h, Rechecked(h, c)) /\ SameTop(h, Rechecked(h, c)) /\ SameShelf(h, Rechecked(h, c)) /\ SameMap(h, Rechecked(h, c))
  BY DEF HeapType, Rechecked, SameTags, SameTop, SameShelf, SameMap
<1>3. /\ SameTags(h, Retrimmed(h, c)) /\ SameTop(h, Retrimmed(h, c)) /\ SameShelf(h, Retrimmed(h, c)) /\ SameMap(h, Retrimmed(h, c))
  BY DEF HeapType, Retrimmed, SameTags, SameTop, SameShelf, SameMap
<1> QED  BY <1>1, <1>2, <1>3

(* Only counters differ.                                                   *)
LEMMA TimesLeft ==
  ASSUME NEW h, NEW U, Sound(h, U), NEW c \in Int
  PROVE  Became(h, Rechecked(h, c), U) /\ Became(h, Retrimmed(h, c), U)
<1>1. h \in HeapType /\ Formed(h) /\ Shelved(h, h, {}) /\ Held(h, U)
  BY HeapTypes DEF Sound
<1>2. ASSUME NEW g, g \in HeapType, SameTags(h, g), SameTop(h, g), SameShelf(h, g), SameMap(h, g) PROVE Became(h, g, U)
  <2>1. SameForm(h, g)
    BY <1>2 DEF SameForm, SameMap
  <2>2. Shelved(h, g, {})
    BY <1>1, <1>2, SameShelved
  <2> QED  BY <1>1, <1>2, <2>1, <2>2, ShelfSound
<1> QED  BY <1>1, <1>2, NewTimes

LEMMA ReleaseUnusedIs ==
  ASSUME NEW h, NEW U, Sound(h, U), NEW g \in ReleaseUnusedSegments(h)
  PROVE  Left(h, g, U) /\ g.segs[1] = h.segs[1]
<1> DEFINE c == Max({Len(h.segs) - 1, MaxChecks})
           L == Len(h.segs)
<1>1. g \in {Rechecked(k, c) : k \in ReleaseLoop(h)[L]}
  BY DEF ReleaseUnusedSegments, ReleaseLoop, Rechecked
<1>2. L \in 1 .. L /\ L \in Nat
  <2>1. L \in Nat /\ DOMAIN h.segs = 1 .. L /\ 1 \in DOMAIN h.segs
    BY HeapTypes DEF Sound
  <2> QED  BY <2>1
<1>3. c \in Int
  <2>1. L - 1 \in Int /\ MaxChecks \in Int
    BY <1>2, MallocAssumption
  <2> QED  BY <2>1, MaxOfTwo
<1> HIDE DEF c
<1>4. PICK k \in ReleaseLoop(h)[L] : g = Rechecked(k, c)
  BY <1>1
<1>5. ReleasedUpTo(h, k, U, L)
  BY <1>2, <1>4, ReleaseLoopIs
<1>6. Left(h, k, U) /\ Sound(k, U) /\ k.segs[1] = h.segs[1]
  BY <1>5 DEF ReleasedUpTo, Left
<1>7. Became(k, g, U)
  BY <1>3, <1>4, <1>6, TimesLeft
<1>8. g.segs = k.segs /\ Left(k, g, U)
  BY <1>7, BecameLeft DEF Became, SameMap
<1> QED  BY <1>6, <1>8, LeftOn
=============================================================================
