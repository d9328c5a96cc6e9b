----------------------------- MODULE MallocProofs -----------------------------
(***************************************************************************)
(* Theorems about DlMalloc, for every memory, page size, granularity and   *)
(* threshold, all requests, and whatever the system gives or refuses: its  *)
(* inductive invariant, what the checks of the source find, that every     *)
(* chunk is owned and the footprint exact, and that a space implements a   *)
(* Heap.  Before that, what the functions leave that change segments.      *)
(***************************************************************************)
EXTENDS ChunkProofs

-----------------------------------------------------------------------------
(* The segment of the top chunk grows or shrinks, and with it that chunk.  *)

Zone(h, g, x) == h.top <= x /\ (x < EndOf(h.segs[1]) \/ x < EndOf(g.segs[1]))

TopTag == [size |-> TopFoot, p |-> FALSE, c |-> FALSE]

TopMoved(h, g, t) ==
  /\ g \in HeapType /\ g.top = h.top /\ g.topsize = t /\ t \in Nat \ {0}
  /\ Len(g.segs) = Len(h.segs) /\ \A j \in 2 .. Len(h.segs) : g.segs[j] = h.segs[j]
  /\ g.segs[1].base = h.segs[1].base /\ g.segs[1].rec = h.segs[1].rec /\ g.segs[1].size % Page = 0
  /\ EndOf(g.segs[1]) = h.top + t + TopFoot
  /\ \A x \in Int : FootAt(h, g, x) /\ (~ Zone(h, g, x) => SameAt(h, g, x))
  /\ \A x \in Heads(g) : Zone(h, g, x) => x = h.top \/ x = h.top + t
  /\ h.top \in Heads(g) /\ g.head[h.top] = FreeTag(t) /\ h.top + t \in Heads(g) /\ g.head[h.top + t] = TopTag
  /\ \A x \in Int : Zone(h, g, x) => \A j \in 2 .. Len(h.segs) : ~ Holds(h.segs[j], x)

(* The first segment before and after.                                     *)
FirstSeg(h, g, t) ==
  /\ DOMAIN g.segs = DOMAIN h.segs /\ DOMAIN h.segs = 1 .. Len(h.segs) /\ Len(h.segs) \in Nat /\ 1 \in DOMAIN h.segs
  /\ g.segs \in Seq(SegType) /\ g.segs # <<>>
  /\ h.top \in Int /\ Mark(g) = h.top + t /\ Mark(g) \in Int /\ h.top < Mark(g) /\ Mark(h) \in Int
  /\ Zone(h, g, h.top) /\ Zone(h, g, Mark(g)) /\ Zone(h, g, Mark(h))
  /\ Holds(h.segs[1], h.top) /\ Holds(g.segs[1], h.top) /\ Holds(g.segs[1], Mark(g))
  /\ \A x \in Int : Holds(h.segs[1], x) /\ ~ Zone(h, g, x) => x < h.top
  /\ \A x \in Int : Holds(g.segs[1], x) /\ ~ Zone(h, g, x) => x < h.top
  /\ \A x \in Int : x <= h.top => (Holds(g.segs[1], x) => Holds(h.segs[1], x)) /\ (Holds(h.segs[1], x) => Holds(g.segs[1], x))
  /\ \A x \in Int : x < h.top => ~ Zone(h, g, x)

LEMMA FirstSegIs ==
  ASSUME NEW h, Formed(h), NEW g, NEW t, TopMoved(h, g, t)
  PROVE  FirstSeg(h, g, t)
<1> DEFINE b == h.segs[1].base
           eh == EndOf(h.segs[1])
           eg == EndOf(g.segs[1])
<1>1. /\ DOMAIN h.segs = 1 .. Len(h.segs) /\ Len(h.segs) \in Nat /\ 1 \in DOMAIN h.segs /\ h.segs \in Seq(SegType)
      /\ h.top \in Int /\ Mark(h) \in Int /\ h.top < Mark(h) /\ Holds(h.segs[1], h.top) /\ Mark(h) + TopFoot = eh
  BY HeapTypes, TopIs DEF TopRight
<1>2. g.segs \in Seq(SegType) /\ Len(g.segs) = Len(h.segs) /\ g.segs[1].base = b /\ eg = h.top + t + TopFoot /\ t \in Nat \ {0}
  BY HeapFields DEF TopMoved
<1>3. DOMAIN g.segs = DOMAIN h.segs
  BY <1>1, <1>2
<1>4. g.segs # <<>>
  <2>1. 1 \in DOMAIN g.segs
    BY <1>1, <1>3
  <2>2. \A q \in Seq(SegType) : 1 \in DOMAIN q => q # <<>>
    OBVIOUS
  <2> QED  BY <1>2, <2>1, <2>2
<1>5. Mark(g) = h.top + t
  BY DEF TopMoved, Mark
<1>6. b \in Nat /\ eh \in Int
  BY <1>1, SegFields, HeapTypes DEF EndOf
<1>7. \A x : (Holds(h.segs[1], x) <=> b <= x /\ x < eh) /\ (Holds(g.segs[1], x) <=> b <= x /\ x < eg)
  BY <1>2 DEF Holds, EndOf
<1>8. \A x : Zone(h, g, x) <=> h.top <= x /\ (x < eh \/ x < eg)
  BY DEF Zone
<1> HIDE DEF b, eh, eg
<1>9. b <= h.top
  BY <1>1, <1>7
<1>10. eg \in Int /\ h.top + t \in Int /\ h.top < h.top + t /\ h.top + t < eg /\ Mark(h) < eh /\ h.top < eh /\ h.top < eg
  BY <1>1, <1>2, <1>6, ConstantTypes, SMTT(30)
<1>11. Zone(h, g, h.top) /\ Zone(h, g, Mark(g)) /\ Zone(h, g, Mark(h))
  BY <1>1, <1>5, <1>8, <1>10
<1>12. Holds(g.segs[1], h.top) /\ Holds(g.segs[1], Mark(g))
  BY <1>1, <1>5, <1>6, <1>7, <1>9, <1>10
<1>13. \A x \in Int : Holds(h.segs[1], x) /\ ~ Zone(h, g, x) => x < h.top
  BY <1>1, <1>6, <1>7, <1>8
<1>14. \A x \in Int : Holds(g.segs[1], x) /\ ~ Zone(h, g, x) => x < h.top
  BY <1>1, <1>6, <1>7, <1>8, <1>10
<1>15. \A x \in Int : x <= h.top => (Holds(g.segs[1], x) => Holds(h.segs[1], x)) /\ (Holds(h.segs[1], x) => Holds(g.segs[1], x))
  BY <1>1, <1>6, <1>7, <1>10
<1>16. \A x \in Int : x < h.top => ~ Zone(h, g, x)
  BY <1>1, <1>8
<1> QED  BY <1>1, <1>2, <1>3, <1>4, <1>5, <1>10, <1>11, <1>12, <1>13, <1>14, <1>15, <1>16 DEF FirstSeg

LEMMA TopMovedChunks ==
  ASSUME NEW h, Formed(h), NEW g, NEW t, TopMoved(h, g, t)
  PROVE  /\ Chunks(g) = Chunks(h) /\ Frees(g) = Frees(h) /\ Useds(g) = Useds(h)
         /\ \A a \in Chunks(h) : a # h.top => g.head[a] = h.head[a] /\ ~ Zone(h, g, a)
<1>1. /\ h \in HeapType /\ g \in HeapType /\ Heads(h) \subseteq Int /\ Heads(g) \subseteq Int /\ g.top = h.top /\ h.top \in Chunks(h)
      /\ TopRight(h)
  BY HeapTypes, HeapFields, TopIs DEF TopMoved
<1>2. /\ \A x \in Int : ~ Zone(h, g, x) => SameAt(h, g, x)
      /\ \A x \in Heads(g) : Zone(h, g, x) => x = h.top \/ x = h.top + t
      /\ h.top \in Heads(g) /\ g.head[h.top] = FreeTag(t) /\ h.top + t \in Heads(g) /\ g.head[h.top + t] = TopTag
      /\ \A x \in Int : Zone(h, g, x) => \A j \in 2 .. Len(h.segs) : ~ Holds(h.segs[j], x)
      /\ \A j \in 2 .. Len(h.segs) : g.segs[j] = h.segs[j]
      /\ t \in Nat \ {0}
  BY DEF TopMoved
<1>3. FirstSeg(h, g, t)
  BY FirstSegIs
<1>4. /\ DOMAIN g.segs = DOMAIN h.segs /\ DOMAIN h.segs = 1 .. Len(h.segs) /\ 1 \in DOMAIN h.segs /\ Len(h.segs) \in Nat
      /\ h.top \in Int /\ Mark(g) = h.top + t /\ Mark(g) \in Int /\ h.top < Mark(g) /\ Mark(h) \in Int
      /\ Zone(h, g, h.top) /\ Zone(h, g, Mark(g)) /\ Zone(h, g, Mark(h))
      /\ Holds(h.segs[1], h.top) /\ Holds(g.segs[1], h.top) /\ Holds(g.segs[1], Mark(g))
      /\ \A x \in Int : Holds(h.segs[1], x) /\ ~ Zone(h, g, x) => x < h.top
      /\ \A x \in Int : Holds(g.segs[1], x) /\ ~ Zone(h, g, x) => x < h.top
      /\ \A x \in Int : x <= h.top => (Holds(g.segs[1], x) => Holds(h.segs[1], x)) /\ (Holds(h.segs[1], x) => Holds(g.segs[1], x))
  BY <1>3 DEF FirstSeg
<1>5. \A x \in Int : ~ Zone(h, g, x) => (InSeg(g, x) => InSeg(h, x)) /\ (InSeg(h, x) => InSeg(g, x))
  <2> SUFFICES ASSUME NEW x \in Int, ~ Zone(h, g, x) PROVE (InSeg(g, x) => InSeg(h, x)) /\ (InSeg(h, x) => InSeg(g, x))
    OBVIOUS
  <2>1. \A j \in DOMAIN h.segs : (Holds(g.segs[j], x) => Holds(h.segs[j], x)) /\ (Holds(h.segs[j], x) => Holds(g.segs[j], x))
    <3> TAKE j \in DOMAIN h.segs
    <3>1. CASE j = 1
      <4>1. Holds(g.segs[1], x) \/ Holds(h.segs[1], x) => x <= h.top
        BY <1>4
      <4> QED  BY <1>4, <3>1, <4>1
    <3>2. CASE j # 1
      <4>1. j \in 2 .. Len(h.segs)
        BY <1>4, <3>2
      <4> QED  BY <1>2, <4>1
    <3> QED  BY <3>1, <3>2
  <2> QED  BY <1>4, <2>1 DEF InSeg
<1>6. ASSUME NEW a \in Chunks(h), Zone(h, g, a) PROVE a = h.top
  <2>1. a \in Int /\ a \in Heads(h) /\ InSeg(h, a) /\ a # Mark(h)
    BY <1>1 DEF Chunks
  <2>2. Holds(h.segs[1], a)
    <3>1. PICK j \in DOMAIN h.segs : Holds(h.segs[j], a)
      BY <2>1 DEF InSeg
    <3>2. j \notin 2 .. Len(h.segs)
      BY <1>2, <1>6, <2>1, <3>1
    <3>3. j = 1
      BY <1>4, <3>2
    <3> QED  BY <3>1, <3>3
  <2>3. a <= Mark(h)
    BY <1>1, <2>1, <2>2 DEF TopRight
  <2>4. h.top <= a
    BY <1>6 DEF Zone
  <2>5. a \in Amid(h.top, Mark(h))
    BY <1>4, <2>1, <2>3, <2>4 DEF Amid
  <2> QED  BY <2>1, <2>5, TopIs
<1>7. ASSUME NEW a \in Chunks(g), a # h.top PROVE a \in Chunks(h) /\ g.head[a] = h.head[a]
  <2>1. a \in Int /\ a \in Heads(g) /\ InSeg(g, a) /\ g.head[a].size # 0 /\ a # Mark(g)
    BY <1>1 DEF Chunks
  <2>2. ~ Zone(h, g, a)
    BY <1>2, <1>4, <1>7, <2>1
  <2>3. a \in Heads(h) /\ g.head[a] = h.head[a] /\ InSeg(h, a)
    BY <1>2, <1>5, <2>1, <2>2 DEF SameAt
  <2>4. a # Mark(h)
    BY <1>4, <2>2
  <2> QED  BY <2>1, <2>3, <2>4 DEF Chunks
<1>8. ASSUME NEW a \in Chunks(h), a # h.top PROVE a \in Chunks(g) /\ g.head[a] = h.head[a] /\ ~ Zone(h, g, a)
  <2>1. a \in Int /\ a \in Heads(h) /\ InSeg(h, a) /\ h.head[a].size # 0
    BY <1>1 DEF Chunks
  <2>2. ~ Zone(h, g, a)
    BY <1>6, <1>8
  <2>3. a \in Heads(g) /\ g.head[a] = h.head[a] /\ InSeg(g, a)
    BY <1>2, <1>5, <2>1, <2>2 DEF SameAt
  <2>4. a # Mark(g)
    BY <1>4, <2>2
  <2> QED  BY <2>1, <2>2, <2>3, <2>4 DEF Chunks
<1>9. h.top \in Chunks(g)
  <2>1. g.head[h.top].size # 0
    BY <1>2, TagsTyped
  <2>2. InSeg(g, h.top)
    BY <1>4 DEF InSeg
  <2>3. h.top # Mark(g)
    BY <1>4
  <2> QED  BY <1>2, <2>1, <2>2, <2>3 DEF Chunks
<1>10. Chunks(g) = Chunks(h)
  BY <1>1, <1>7, <1>8, <1>9
<1>11. Frees(g) = Frees(h) /\ Useds(g) = Useds(h)
  BY <1>1, <1>8, <1>10 DEF Frees, Useds
<1> QED  BY <1>8, <1>10, <1>11

LEMMA TopMovedSame ==
  ASSUME NEW h, Formed(h), NEW g, NEW t, TopMoved(h, g, t), NEW a \in Chunks(h), a # h.top
  PROVE  SameChunk(h, g, a)
<1> DEFINE e == Behind(h, a)
<1>1. /\ h \in HeapType /\ SegsRight(h) /\ Layout(h) /\ Heads(h) \subseteq Int /\ h.top \in Heads(h) /\ h.top \in Chunks(h) /\ g.top = h.top
      /\ h.head[h.top].p /\ ~ h.head[h.top].c
  BY HeapTypes, TopIs DEF TopMoved, Chunks
<1>2. /\ \A x \in Int : FootAt(h, g, x) /\ (~ Zone(h, g, x) => SameAt(h, g, x))
      /\ h.top \in Heads(g) /\ g.head[h.top] = FreeTag(t)
      /\ \A x \in Int : Zone(h, g, x) => \A j \in 2 .. Len(h.segs) : ~ Holds(h.segs[j], x)
      /\ \A j \in 2 .. Len(h.segs) : g.segs[j] = h.segs[j]
  BY DEF TopMoved
<1>3. /\ DOMAIN g.segs = DOMAIN h.segs /\ DOMAIN h.segs = 1 .. Len(h.segs) /\ 1 \in DOMAIN h.segs /\ h.top \in Int /\ Len(h.segs) \in Nat
      /\ \A x \in Int : Holds(h.segs[1], x) /\ ~ Zone(h, g, x) => x < h.top
      /\ \A x \in Int : x <= h.top => (Holds(g.segs[1], x) => Holds(h.segs[1], x)) /\ (Holds(h.segs[1], x) => Holds(g.segs[1], x))
      /\ \A x \in Int : x < h.top => ~ Zone(h, g, x)
  BY FirstSegIs DEF FirstSeg
<1>4. /\ a \in Int /\ e \in Int /\ e \in Heads(h) /\ a < e /\ Together(h, a, e) /\ InSeg(h, a) /\ a \in Heads(h)
  BY ChunkIs
<1>5. /\ Chunks(g) = Chunks(h) /\ g.head[a] = h.head[a] /\ ~ Zone(h, g, a)
  BY TopMovedChunks
<1>6. g.head[h.top].p /\ ~ g.head[h.top].c
  BY <1>2 DEF FreeTag
<1>7. CASE Holds(h.segs[1], a)
  <2>1. a < h.top
    BY <1>3, <1>4, <1>5, <1>7
  <2>2. e <= h.top
    BY <1>1, <2>1, Apart
  <2> HIDE DEF e
  <2>3. \A x \in Int : a <= x /\ x <= e => (x \in Heads(g) => x \in Heads(h)) /\ FootAt(h, g, x)
    <3> SUFFICES ASSUME NEW x \in Int, a <= x, x <= e PROVE (x \in Heads(g) => x \in Heads(h)) /\ FootAt(h, g, x)
      OBVIOUS
    <3>1. CASE x = h.top
      BY <1>1, <1>2, <3>1
    <3>2. CASE x # h.top
      <4>1. x < h.top
        BY <1>3, <1>4, <2>2, <3>2
      <4> QED  BY <1>2, <1>3, <4>1 DEF SameAt
    <3> QED  BY <3>1, <3>2
  <2>4. e \in Heads(g) /\ SameBits(h, g, e)
    <3>1. CASE e = h.top
      BY <1>1, <1>2, <1>6, <3>1 DEF SameBits
    <3>2. CASE e # h.top
      <4>1. e < h.top
        BY <1>3, <1>4, <2>2, <3>2
      <4>2. e \in Heads(g) /\ g.head[e] = h.head[e]
        BY <1>2, <1>3, <1>4, <4>1 DEF SameAt
      <4> QED  BY <4>2 DEF SameBits
    <3> QED  BY <3>1, <3>2
  <2>5. Together(g, a, e)
    <3> SUFFICES ASSUME NEW j \in DOMAIN g.segs PROVE Holds(g.segs[j], a) <=> Holds(g.segs[j], e)
      BY DEF Together
    <3>1. Holds(h.segs[j], a) <=> Holds(h.segs[j], e)
      BY <1>3, <1>4 DEF Together
    <3>2. CASE j = 1
      <4>1. a <= h.top
        BY <1>3, <1>4, <2>1
      <4> QED  BY <1>3, <1>4, <2>2, <3>1, <3>2, <4>1
    <3>3. CASE j # 1
      <4>1. j \in 2 .. Len(h.segs)
        BY <1>3, <3>3
      <4> QED  BY <1>2, <3>1, <4>1
    <3> QED  BY <3>2, <3>3
  <2> QED  BY <1>1, <1>5, <2>3, <2>4, <2>5 DEF SameChunk, e
<1>8. CASE ~ Holds(h.segs[1], a)
  <2> HIDE DEF e
  <2>1. PICK i \in DOMAIN h.segs : Holds(h.segs[i], a)
    BY <1>4 DEF InSeg
  <2>2. i \in 2 .. Len(h.segs)
    BY <1>3, <1>8, <2>1
  <2>3. \A x \in Int : a <= x /\ x <= e => Holds(h.segs[i], x)
    <3> SUFFICES ASSUME NEW x \in Int, a <= x, x <= e PROVE Holds(h.segs[i], x)
      OBVIOUS
    <3>1. Together(h, a, x)
      BY <1>1, <1>4, Between
    <3> QED  BY <2>1, <3>1 DEF Together
  <2>4. \A x \in Int : a <= x /\ x <= e => ~ Zone(h, g, x)
    BY <1>2, <2>2, <2>3
  <2>5. \A x \in Int : a <= x /\ x <= e => (x \in Heads(g) => x \in Heads(h)) /\ FootAt(h, g, x)
    BY <1>2, <2>4 DEF SameAt
  <2>6. e \in Heads(g) /\ g.head[e] = h.head[e] /\ ~ Zone(h, g, e)
    <3>1. a <= e /\ e <= e
      BY <1>4
    <3> QED  BY <1>2, <1>4, <2>4, <3>1 DEF SameAt
  <2>7. SameBits(h, g, e)
    BY <2>6 DEF SameBits
  <2>8. Together(g, a, e)
    <3> SUFFICES ASSUME NEW j \in DOMAIN g.segs PROVE Holds(g.segs[j], a) <=> Holds(g.segs[j], e)
      BY DEF Together
    <3>1. Holds(h.segs[j], a) <=> Holds(h.segs[j], e)
      BY <1>3, <1>4 DEF Together
    <3>2. CASE j = 1
      <4>1. ~ Holds(h.segs[1], a) /\ ~ Holds(h.segs[1], e)
        BY <1>8, <3>1, <3>2
      <4>2. \A x \in Int : Holds(g.segs[1], x) /\ ~ Zone(h, g, x) => x < h.top
        BY FirstSegIs DEF FirstSeg
      <4>3. Holds(g.segs[1], a) => a <= h.top
        BY <1>3, <1>4, <1>5, <4>2
      <4>4. Holds(g.segs[1], e) => e <= h.top
        BY <1>3, <1>4, <2>6, <4>2
      <4> QED  BY <1>3, <1>4, <3>2, <4>1, <4>3, <4>4
    <3>3. CASE j # 1
      <4>1. j \in 2 .. Len(h.segs)
        BY <1>3, <3>3
      <4> QED  BY <1>2, <3>1, <4>1
    <3> QED  BY <3>2, <3>3
  <2> QED  BY <1>1, <1>5, <2>5, <2>6, <2>7, <2>8 DEF SameChunk, e
<1> QED  BY <1>7, <1>8

LEMMA TopMovedLayout ==
  ASSUME NEW h, Formed(h), NEW g, NEW t, TopMoved(h, g, t)
  PROVE  Layout(g)
<1>1. /\ h \in HeapType /\ g \in HeapType /\ Layout(h) /\ SegsRight(h) /\ Heads(h) \subseteq Int /\ Heads(g) \subseteq Int /\ Feet(g) \subseteq Int
      /\ h.top \in Heads(h) /\ h.top \in Chunks(h) /\ g.top = h.top
  BY HeapTypes, HeapFields, TopIs DEF TopMoved, Chunks
<1>2. /\ \A x \in Int : FootAt(h, g, x)
      /\ h.top \in Heads(g) /\ g.head[h.top] = FreeTag(t) /\ h.top + t \in Heads(g)
      /\ \A x \in Heads(g) : Zone(h, g, x) => x = h.top \/ x = h.top + t
      /\ \A x \in Int : Zone(h, g, x) => \A j \in 2 .. Len(h.segs) : ~ Holds(h.segs[j], x)
      /\ \A j \in 2 .. Len(h.segs) : g.segs[j] = h.segs[j]
      /\ t \in Nat \ {0}
  BY DEF TopMoved
<1>3. /\ DOMAIN g.segs = DOMAIN h.segs /\ DOMAIN h.segs = 1 .. Len(h.segs) /\ 1 \in DOMAIN h.segs /\ h.top \in Int /\ Len(h.segs) \in Nat
      /\ Mark(g) = h.top + t /\ Mark(g) \in Int /\ h.top < Mark(g)
      /\ Zone(h, g, h.top) /\ Zone(h, g, Mark(g))
      /\ Holds(g.segs[1], h.top) /\ Holds(g.segs[1], Mark(g))
  BY FirstSegIs DEF FirstSeg
<1>4. /\ Chunks(g) = Chunks(h) /\ Frees(g) = Frees(h) /\ Useds(g) = Useds(h)
      /\ \A a \in Chunks(h) : a # h.top => ~ Zone(h, g, a)
  BY TopMovedChunks
<1>5. \A x \in Int : h.top <= x /\ x <= Mark(g) => Zone(h, g, x)
  <2>1. Zone(h, g, Mark(g)) /\ EndOf(h.segs[1]) \in Int /\ EndOf(g.segs[1]) \in Int
    <3>1. h.segs[1].base \in Nat /\ h.segs[1].size \in Nat
      BY <1>1, <1>3, SegFields
    <3>2. EndOf(g.segs[1]) = h.top + t + TopFoot
      BY DEF TopMoved
    <3>3. EndOf(h.segs[1]) \in Int
      BY <3>1 DEF EndOf
    <3> QED  BY <1>2, <1>3, <3>2, <3>3, ConstantTypes
  <2>2. Mark(g) < EndOf(h.segs[1]) \/ Mark(g) < EndOf(g.segs[1])
    BY <2>1 DEF Zone
  <2> QED  BY <1>3, <2>1, <2>2 DEF Zone
<1>6. Behind(g, h.top) = Mark(g)
  BY <1>2, <1>3, TagsTyped DEF Behind
<1>7. \A b \in Heads(g) \cup Feet(g) : ~ (h.top < b /\ b < Mark(g))
  <2> SUFFICES ASSUME NEW b \in Heads(g) \cup Feet(g), h.top < b, b < Mark(g) PROVE FALSE
    OBVIOUS
  <2>1. b \in Int /\ b # h.top /\ b # Mark(g) /\ h.top <= b /\ b <= Mark(g)
    BY <1>1, <1>3
  <2>2. Zone(h, g, b)
    BY <1>5, <2>1
  <2>3. b \notin Heads(g)
    BY <1>2, <1>3, <2>1, <2>2
  <2>4. b \in Feet(h)
    BY <1>2, <2>1, <2>3 DEF FootAt
  <2>5. b \in Chunks(h)
    BY <2>4, FootIs DEF Useds
  <2> QED  BY <1>4, <2>1, <2>2, <2>5
<1>8. Together(g, h.top, Mark(g))
  <2> SUFFICES ASSUME NEW j \in DOMAIN g.segs PROVE Holds(g.segs[j], h.top) <=> Holds(g.segs[j], Mark(g))
    BY DEF Together
  <2>1. CASE j = 1
    BY <1>3, <2>1
  <2>2. CASE j # 1
    <3>1. j \in 2 .. Len(h.segs)
      BY <1>3, <2>2
    <3> QED  BY <1>2, <1>3, <3>1
  <2> QED  BY <2>1, <2>2
<1>9. Laid(g, h.top) /\ g.head[h.top].p
  <2>1. g.head[h.top].p
    BY <1>2 DEF FreeTag
  <2>2. h.top \notin Useds(g) /\ h.top \notin Frees(g)
    BY <1>1 DEF Useds, Frees
  <2>3. Mark(g) > h.top /\ Mark(g) \in Heads(g)
    BY <1>2, <1>3
  <2> QED  BY <1>1, <1>6, <1>7, <1>8, <2>1, <2>2, <2>3 DEF Laid
<1>10. \A a \in Chunks(g) : SameChunk(h, g, a) \/ (Laid(g, a) /\ (~ g.head[a].p => a \in Feet(g)))
  BY <1>4, <1>9, TopMovedSame
<1>11. ASSUME NEW a \in Feet(g) PROVE a \in Feet(h) /\ g.foot[a] = h.foot[a] /\ SameChunk(h, g, a - h.foot[a])
  <2>1. a \in Feet(h) /\ g.foot[a] = h.foot[a]
    BY <1>1, <1>2 DEF FootAt
  <2>2. a - h.foot[a] \in Frees(h)
    BY <2>1, FootIs
  <2>3. a - h.foot[a] \in Chunks(h) /\ a - h.foot[a] # h.top
    BY <2>2 DEF Frees
  <2> QED  BY <2>1, <2>3, TopMovedSame
<1> QED  BY <1>1, <1>10, <1>11, LayoutFrom

LEMMA TopMovedFormed ==
  ASSUME NEW h, Formed(h), NEW g, NEW t, TopMoved(h, g, t), DirectsRight(g)
  PROVE  Formed(g) /\ Records(g) = Records(h)
<1>1. /\ h \in HeapType /\ g \in HeapType /\ Layout(h) /\ SegsRight(h) /\ Ends(h) /\ TopRight(h)
      /\ Heads(h) \subseteq Int /\ Heads(g) \subseteq Int
      /\ h.top \in Heads(h) /\ h.top \in Chunks(h) /\ g.top = h.top /\ g.topsize = t /\ t \in Nat \ {0}
  BY HeapTypes, HeapFields, TopIs DEF TopMoved, Chunks
<1>2. /\ \A x \in Int : ~ Zone(h, g, x) => SameAt(h, g, x)
      /\ h.top \in Heads(g) /\ g.head[h.top] = FreeTag(t) /\ h.top + t \in Heads(g) /\ g.head[h.top + t] = TopTag
      /\ \A x \in Heads(g) : Zone(h, g, x) => x = h.top \/ x = h.top + t
      /\ \A x \in Int : Zone(h, g, x) => \A j \in 2 .. Len(h.segs) : ~ Holds(h.segs[j], x)
      /\ \A j \in 2 .. Len(h.segs) : g.segs[j] = h.segs[j]
      /\ Len(g.segs) = Len(h.segs)
      /\ g.segs[1].base = h.segs[1].base /\ g.segs[1].rec = h.segs[1].rec /\ g.segs[1].size % Page = 0
      /\ EndOf(g.segs[1]) = h.top + t + TopFoot
  BY DEF TopMoved
<1>3. /\ DOMAIN g.segs = DOMAIN h.segs /\ DOMAIN h.segs = 1 .. Len(h.segs) /\ 1 \in DOMAIN h.segs /\ h.top \in Int /\ Len(h.segs) \in Nat
      /\ g.segs \in Seq(SegType) /\ g.segs # <<>>
      /\ Mark(g) = h.top + t /\ Mark(g) \in Int /\ h.top < Mark(g)
      /\ Zone(h, g, h.top) /\ Zone(h, g, Mark(g))
      /\ Holds(g.segs[1], h.top)
      /\ \A x \in Int : Holds(g.segs[1], x) /\ ~ Zone(h, g, x) => x < h.top
      /\ \A x \in Int : x <= h.top => (Holds(g.segs[1], x) => Holds(h.segs[1], x)) /\ (Holds(h.segs[1], x) => Holds(g.segs[1], x))
  BY FirstSegIs DEF FirstSeg
<1>4. /\ Chunks(g) = Chunks(h) /\ Frees(g) = Frees(h) /\ Useds(g) = Useds(h)
      /\ \A a \in Chunks(h) : a # h.top => g.head[a] = h.head[a]
  BY TopMovedChunks
<1>5. \A a \in Useds(h) : g.head[a] = h.head[a]
  BY <1>4 DEF Useds
<1>6. g.head[h.top].size = t /\ g.head[h.top].p /\ ~ g.head[h.top].c
  BY <1>2 DEF FreeTag
<1>7. g.head[Mark(g)].size = TopFoot /\ ~ g.head[Mark(g)].p /\ ~ g.head[Mark(g)].c /\ Mark(g) \in Heads(g)
  BY <1>2, <1>3 DEF TopTag
<1>8. TopRight(g)
  <2>1. \A x \in Heads(g) : Holds(g.segs[1], x) => x <= Mark(g)
    <3> SUFFICES ASSUME NEW x \in Heads(g), Holds(g.segs[1], x) PROVE x <= Mark(g)
      OBVIOUS
    <3>1. x \in Int
      BY <1>1
    <3>2. CASE Zone(h, g, x)
      BY <1>2, <1>3, <3>1, <3>2
    <3>3. CASE ~ Zone(h, g, x)
      <4>1. x < h.top
        BY <1>3, <3>1, <3>3
      <4> QED  BY <1>3, <3>1, <4>1
    <3> QED  BY <3>2, <3>3
  <2>2. Mark(g) + TopFoot = EndOf(g.segs[1])
    BY <1>2, <1>3
  <2>3. t > 0
    BY <1>1
  <2> QED  BY <1>1, <1>3, <1>4, <1>6, <1>7, <2>1, <2>2, <2>3 DEF TopRight
<1>9. ASSUME NEW i \in 2 .. Len(h.segs) PROVE RecordRight(g, i)
  <2> DEFINE r == h.segs[i].rec
             f == r + SegmentRecord
  <2>1. /\ i \in DOMAIN h.segs /\ i # 1
        /\ r \in Useds(h) /\ r \in Int /\ f \in Int /\ f \in Heads(h) /\ h.head[f] = Fencepost
        /\ Holds(h.segs[i], r) /\ Holds(h.segs[i], f)
        /\ r + TopFoot <= EndOf(h.segs[i]) /\ EndOf(h.segs[i]) <= r + TopFoot + 1
        /\ (\A x \in Heads(h) : Holds(h.segs[i], x) => x <= f)
        /\ r # h.segs[1].rec
    BY RecordIs
  <2>2. h.head[r].size = SegmentRecord
    BY <1>1 DEF Ends, RecordRight
  <2>3. \A x \in Int : Holds(h.segs[i], x) => SameAt(h, g, x)
    BY <1>2
  <2>4. f \in Heads(g) /\ g.head[f] = Fencepost
    BY <2>1, <2>3 DEF SameAt
  <2>5. r \in Useds(g) /\ g.head[r].size = SegmentRecord
    BY <1>4, <1>5, <2>1, <2>2
  <2>6. \A x \in Heads(g) : Holds(h.segs[i], x) => x <= f
    BY <1>1, <2>1, <2>3 DEF SameAt
  <2>7. g.segs[i] = h.segs[i]
    BY <1>2
  <2>8. g.segs[i].rec = r
    BY <2>7
  <2> HIDE DEF f, r
  <2>9. /\ EndOf(g.segs[i]) = EndOf(h.segs[i]) /\ Holds(g.segs[i], r)
        /\ \A x \in Heads(g) : Holds(g.segs[i], x) => x <= f
    BY <2>1, <2>6, <2>7
  <2>10. r # g.segs[1].rec
    BY <1>2, <2>1
  <2> QED  BY <2>1, <2>4, <2>5, <2>8, <2>9, <2>10 DEF RecordRight, f
<1>10. Ends(g)
  <2>1. ASSUME NEW x \in Heads(g), InSeg(g, x), g.head[x].size = 0 PROVE \E j \in 2 .. Len(g.segs) : x = g.segs[j].rec + SegmentRecord
    <3>1. x \in Int /\ ~ Zone(h, g, x)
      <4>1. TopFoot # 0 /\ t # 0
        BY <1>1, ConstantTypes
      <4> QED  BY <1>1, <1>2, <1>3, <1>6, <1>7, <2>1, <4>1
    <3>2. x \in Heads(h) /\ h.head[x].size = 0
      BY <1>2, <2>1, <3>1 DEF SameAt
    <3>3. PICK j \in DOMAIN g.segs : Holds(g.segs[j], x)
      BY <2>1 DEF InSeg
    <3>4. Holds(h.segs[j], x)
      <4>1. CASE j = 1
        <5>1. x <= h.top
          BY <1>3, <3>1, <3>3, <4>1
        <5> QED  BY <1>3, <3>1, <3>3, <4>1, <5>1
      <4>2. CASE j # 1
        <5>1. j \in 2 .. Len(h.segs)
          BY <1>3, <4>2
        <5> QED  BY <1>2, <3>3, <5>1
      <4> QED  BY <4>1, <4>2
    <3>5. InSeg(h, x)
      BY <1>3, <3>4 DEF InSeg
    <3>6. PICK q \in 2 .. Len(h.segs) : x = h.segs[q].rec + SegmentRecord
      BY <1>1, <3>2, <3>5 DEF Ends
    <3> QED  BY <1>2, <3>6
  <2>2. h.segs[1].rec \in Useds(h) /\ h.head[h.segs[1].rec].size = StateChunk
    BY <1>1 DEF Ends
  <2>3. g.segs[1].rec \in Useds(g) /\ g.head[g.segs[1].rec].size = StateChunk
    BY <1>2, <1>4, <1>5, <2>2
  <2>4. \A i \in 2 .. Len(g.segs) : RecordRight(g, i)
    BY <1>2, <1>9
  <2> QED  BY <1>8, <2>1, <2>3, <2>4 DEF Ends
<1>11. SegsRight(g)
  <2>1. ASSUME NEW j \in DOMAIN g.segs
        PROVE g.segs[j].base % Page = 0 /\ g.segs[j].size % Page = 0 /\ g.segs[j].size > 0 /\ g.segs[j].base \in Chunks(g)
    <3>1. j \in DOMAIN h.segs
      BY <1>3
    <3>2. h.segs[j].base % Page = 0 /\ h.segs[j].size % Page = 0 /\ h.segs[j].size > 0 /\ h.segs[j].base \in Chunks(h)
      BY <1>1, <3>1 DEF SegsRight
    <3>3. CASE j = 1
      <4>1. g.segs[1].size > 0
        <5>1. g.segs[1].base \in Nat /\ g.segs[1].size \in Nat
          BY <1>1, <1>3, SegFields
        <5>2. g.segs[1].base <= h.top /\ h.top < g.segs[1].base + g.segs[1].size
          BY <1>3 DEF Holds
        <5> QED  BY <1>3, <5>1, <5>2
      <4> QED  BY <1>2, <1>4, <3>2, <3>3, <4>1
    <3>4. CASE j # 1
      <4>1. g.segs[j] = h.segs[j]
        BY <1>2, <1>3, <3>4
      <4> QED  BY <1>4, <3>2, <4>1
    <3> QED  BY <3>3, <3>4
  <2>2. ASSUME NEW j \in 2 .. Len(h.segs), NEW x \in Int, Holds(g.segs[1], x) PROVE ~ Holds(g.segs[j], x)
    <3>1. g.segs[j] = h.segs[j]
      BY <1>2
    <3>2. CASE Zone(h, g, x)
      BY <1>2, <3>1, <3>2
    <3>3. CASE ~ Zone(h, g, x)
      <4>1. x <= h.top
        BY <1>3, <2>2, <3>3
      <4>2. Holds(h.segs[1], x)
        BY <1>3, <2>2, <4>1
      <4>3. j \in DOMAIN h.segs /\ j # 1
        BY <1>3
      <4>4. ~ Holds(h.segs[j], x)
        BY <1>1, <1>3, <4>2, <4>3 DEF SegsRight
      <4> QED  BY <3>1, <4>4
    <3> QED  BY <3>2, <3>3
  <2>3. ASSUME NEW i \in DOMAIN g.segs, NEW j \in DOMAIN g.segs, i # j, NEW x \in Int, Holds(g.segs[i], x) PROVE ~ Holds(g.segs[j], x)
    <3>1. CASE i = 1
      <4>1. j \in 2 .. Len(h.segs)
        BY <1>3, <2>3, <3>1
      <4> QED  BY <2>2, <2>3, <3>1, <4>1
    <3>2. CASE j = 1
      <4>1. i \in 2 .. Len(h.segs)
        BY <1>3, <2>3, <3>2
      <4> QED  BY <2>2, <2>3, <3>2, <4>1
    <3>3. CASE i # 1 /\ j # 1
      <4>1. g.segs[i] = h.segs[i] /\ g.segs[j] = h.segs[j]
        BY <1>2, <1>3, <3>3
      <4>2. i \in DOMAIN h.segs /\ j \in DOMAIN h.segs
        BY <1>3
      <4> QED  BY <1>1, <2>3, <4>1, <4>2 DEF SegsRight
    <3> QED  BY <3>1, <3>2, <3>3
  <2> QED  BY <1>3, <2>1, <2>3 DEF SegsRight
<1>12. Layout(g)
  BY TopMovedLayout
<1>13. Records(g) = Records(h)
  <2>1. \A j \in DOMAIN h.segs : g.segs[j].rec = h.segs[j].rec
    BY <1>2, <1>3
  <2> QED  BY <1>3, <2>1 DEF Records
<1> QED  BY <1>1, <1>10, <1>11, <1>12, <1>13 DEF Formed, DirectsRight

(* With the blocks where they were.                                        *)
LEMMA TopMovedSound ==
  ASSUME NEW h, NEW U, Sound(h, U), NEW g, NEW t, TopMoved(h, g, t), DirectsRight(g), SameShelf(h, g),
         Direct(g) = Direct(h), \A d \in Direct(h) : g.head[d] = h.head[d]
  PROVE  Sound(g, U) /\ Keeps(h, g, U)
<1>1. Formed(h) /\ Shelved(h, h, {}) /\ Held(h, U)
  BY DEF Sound
<1>2. Formed(g) /\ Records(g) = Records(h)
  BY <1>1, TopMovedFormed
<1>3. /\ Chunks(g) = Chunks(h) /\ Frees(g) = Frees(h) /\ Useds(g) = Useds(h)
      /\ \A a \in Chunks(h) : a # h.top => g.head[a] = h.head[a]
  BY <1>1, TopMovedChunks
<1>4. \A a \in Frees(h) \cup Useds(h) : g.head[a] = h.head[a]
  BY <1>3 DEF Frees, Useds
<1>5. Shelved(g, h, {})
  <2>1. \A a \in Frees(h) : g.head[a].size = h.head[a].size
    BY <1>4
  <2> QED  BY <1>1, <1>3, <2>1 DEF Shelved
<1>6. Shelved(g, g, {})
  BY <1>5, SameShelved
<1>7. Held(g, U)
  BY <1>1, <1>2, <1>3 DEF Held
<1>8. Keeps(h, g, U)
  <2> SUFFICES ASSUME NEW a \in U PROVE g.head[a].size = h.head[a].size /\ (a \in Direct(g) <=> a \in Direct(h))
    BY DEF Keeps
  <2>1. a \in Useds(h) \cup Direct(h)
    BY <1>1 DEF Held
  <2> QED  BY <1>4, <2>1
<1> QED  BY <1>2, <1>6, <1>7, <1>8 DEF Sound

-----------------------------------------------------------------------------
(* init_top and the first segment.                                         *)

(* The top chunk and the overhead behind it.                               *)
TopSpan(p, s, x) == p <= x /\ x < p + s + TopFoot

InitPut(k, g, p, s) ==
  /\ g \in HeapType /\ SameShelf(k, g) /\ SameMap(k, g) /\ g.top = p /\ g.topsize = s
  /\ p \in Heads(g) /\ g.head[p] = FreeTag(s) /\ p + s \in Heads(g) /\ g.head[p + s] = TopTag
  /\ \A x \in Int : ~ TopSpan(p, s, x) => SameOn(k, g, x)
  /\ \A x \in Heads(g) : TopSpan(p, s, x) => x = p \/ x = p + s
  /\ \A x \in Int : (x \in Feet(g) => x \in Feet(k) /\ g.foot[x] = k.foot[x]) /\ (x = p /\ x \in Feet(k) => x \in Feet(g))

Topped(h, p, s) == [h EXCEPT !.top = p, !.topsize = s, !.trim = TrimThreshold]

LEMMA ToppedIs ==
  ASSUME NEW h \in HeapType, NEW p \in Int, NEW s \in Int
  PROVE  LET g == Topped(h, p, s)
         IN  g \in HeapType /\ SameShelf(h, g) /\ SameMap(h, g) /\ SameTags(h, g) /\ g.top = p /\ g.topsize = s
<1>1. TrimThreshold \in Int
  BY MallocAssumption
<1> QED  BY <1>1 DEF HeapType, Topped, SameShelf, SameMap, SameTags

LEMMA InitTopIs ==
  ASSUME NEW k \in HeapType, NEW p \in Int, NEW s \in Nat \ {0}
  PROVE  InitPut(k, InitTop(k, p, s), p, s)
<1> DEFINE k1 == PutTop(k, p, s)
           k2 == PutTag(k1, p + s, TopTag)
           g == Topped(k2, p, s)
<1>1. InitTop(k, p, s) = g
  BY DEF InitTop, Topped, TopTag
<1>2. p + s \in Int /\ TopTag \in TagType /\ FreeTag(s) \in TagType /\ FreeTag(s).size = s /\ TopTag.size = 5 /\ TopFoot = 5
  <2>1. p + s \in Int /\ s \in Nat
    OBVIOUS
  <2>2. TopFoot = 5 /\ TopFoot \in Nat
    BY ConstantTypes
  <2>3. TopTag \in TagType /\ TopTag.size = TopFoot
    BY <2>2 DEF TopTag, TagType
  <2>4. FreeTag(s) \in TagType /\ FreeTag(s).size = s
    BY <2>1, TagsTyped
  <2> QED  BY <2>1, <2>2, <2>3, <2>4
<1>3. OnlyTags(k, k1) /\ PutTags(k, k1, p, FreeTag(s))
  BY TagsFrom
<1>4. TagPut(k1, k2, p + s, TopTag)
  BY <1>2, <1>3, PutTagIs DEF OnlyTags
<1>5. k1 \in HeapType /\ k2 \in HeapType /\ SameShelf(k1, k2) /\ SameMap(k1, k2) /\ SameShelf(k, k1) /\ SameMap(k, k1)
  BY <1>3, <1>4 DEF TagPut, OnlyTags
<1>6. g \in HeapType /\ SameShelf(k2, g) /\ SameMap(k2, g) /\ SameTags(k2, g) /\ g.top = p /\ g.topsize = s
  BY <1>5, ToppedIs
<1>7. SameShelf(k, g) /\ SameMap(k, g)
  BY <1>5, <1>6 DEF SameShelf, SameMap
<1> HIDE DEF g
<1>8. Heads(g) = Heads(k2) /\ Feet(g) = Feet(k2) /\ g.head = k2.head /\ g.foot = k2.foot
  BY <1>6 DEF SameTags, Heads, Feet
<1> DEFINE S == Inside(p, s)
           T == Inside(p + s, 5)
<1>9. /\ Heads(k1) = (Heads(k) \ S) \cup {p} /\ k1.head[p] = FreeTag(s)
      /\ \A b \in Heads(k) \ (S \cup {p}) : k1.head[b] = k.head[b]
      /\ Feet(k1) = Feet(k) \ S /\ \A b \in Feet(k) \ S : k1.foot[b] = k.foot[b]
  BY <1>2, <1>3 DEF PutTags
<1>10. /\ Heads(g) = (Heads(k1) \ T) \cup {p + s} /\ g.head[p + s] = TopTag
       /\ \A b \in Heads(k1) \ (T \cup {p + s}) : g.head[b] = k1.head[b]
       /\ Feet(g) = Feet(k1) \ T /\ \A b \in Feet(k1) \ T : g.foot[b] = k1.foot[b]
  BY <1>2, <1>4, <1>8 DEF TagPut
<1>11. Heads(k) \subseteq Int /\ Feet(k) \subseteq Int
  BY HeapFields
<1>12. \A x \in Int : (x \in S => p < x /\ x < p + s) /\ (p < x /\ x < p + s => x \in S)
  BY DEF Inside
<1>13. \A x \in Int : (x \in T => p + s < x /\ x < p + s + 5) /\ (p + s < x /\ x < p + s + 5 => x \in T)
  BY DEF Inside
<1>14. \A x \in Int : (TopSpan(p, s, x) => p <= x /\ x < p + s + 5) /\ (p <= x /\ x < p + s + 5 => TopSpan(p, s, x))
  BY <1>2 DEF TopSpan
<1> HIDE DEF S, T, k1, k2
<1>15. p \in Heads(g) /\ g.head[p] = FreeTag(s) /\ p + s \in Heads(g) /\ g.head[p + s] = TopTag
  <2>1. p \notin T /\ p # p + s
    BY <1>13
  <2> QED  BY <1>9, <1>10, <2>1
<1>16. ASSUME NEW x \in Int, ~ TopSpan(p, s, x) PROVE SameOn(k, g, x)
  <2>1. x \notin S /\ x \notin T /\ x # p /\ x # p + s
    BY <1>12, <1>13, <1>14, <1>16
  <2>2. SameAt(k, g, x)
    BY <1>9, <1>10, <2>1 DEF SameAt
  <2>3. FootAt(k, g, x)
    BY <1>9, <1>10, <2>1 DEF FootAt
  <2> QED  BY <2>2, <2>3 DEF SameOn
<1>17. ASSUME NEW x \in Heads(g), TopSpan(p, s, x) PROVE x = p \/ x = p + s
  <2>1. x \in Int
    BY <1>2, <1>9, <1>10, <1>11
  <2>2. CASE x \in Heads(k1) \ T
    <3>1. x = p \/ x \notin S
      BY <1>9, <2>2
    <3> QED  BY <1>12, <1>13, <1>14, <1>17, <2>1, <2>2, <3>1
  <2> QED  BY <1>10, <2>2
<1>18. ASSUME NEW x \in Int
       PROVE (x \in Feet(g) => x \in Feet(k) /\ g.foot[x] = k.foot[x]) /\ (x = p /\ x \in Feet(k) => x \in Feet(g))
  <2>1. x \in Feet(g) => x \in Feet(k) /\ g.foot[x] = k.foot[x]
    BY <1>9, <1>10
  <2>2. p \notin S /\ p \notin T
    BY <1>12, <1>13
  <2> QED  BY <1>9, <1>10, <2>1, <2>2
<1> QED  BY <1>1, <1>6, <1>7, <1>15, <1>16, <1>17, <1>18 DEF InitPut

(* The first segment gets another size.                                    *)
Resized(h, n) == [h EXCEPT !.segs[1].size = n]

LEMMA ResizedIs ==
  ASSUME NEW h \in HeapType, h.segs # <<>>, NEW n \in Nat
  PROVE  LET g == Resized(h, n)
         IN  /\ g \in HeapType /\ SameTags(h, g) /\ SameTop(h, g) /\ SameShelf(h, g)
             /\ g.mapped = h.mapped /\ g.footprint = h.footprint
             /\ Len(g.segs) = Len(h.segs) /\ \A j \in 2 .. Len(h.segs) : g.segs[j] = h.segs[j]
             /\ g.segs[1].base = h.segs[1].base /\ g.segs[1].rec = h.segs[1].rec /\ g.segs[1].size = n
<1> DEFINE e == [h.segs[1] EXCEPT !.size = n]
           s == [h.segs EXCEPT ![1] = e]
           g == Resegmented(h, s)
<1>1. h.segs \in Seq(SegType) /\ 1 \in DOMAIN h.segs /\ DOMAIN h.segs = 1 .. Len(h.segs) /\ Len(h.segs) \in Nat
  BY HeapFields
<1>2. h.segs[1] \in SegType
  BY <1>1
<1>3. e \in SegType /\ e.base = h.segs[1].base /\ e.rec = h.segs[1].rec /\ e.size = n
  BY <1>2 DEF SegType
<1>4. Resized(h, n) = g
  BY DEF Resized, Resegmented
<1> HIDE DEF e
<1>5. s \in Seq(SegType) /\ Len(s) = Len(h.segs) /\ s[1] = e /\ \A j \in 2 .. Len(h.segs) : s[j] = h.segs[j]
  BY <1>1, <1>3
<1> HIDE DEF s
<1>6. /\ g \in HeapType /\ SameTags(h, g) /\ SameTop(h, g) /\ SameShelf(h, g)
      /\ g.segs = s /\ g.mapped = h.mapped /\ g.footprint = h.footprint
  BY <1>5, NewSegs
<1> QED  BY <1>3, <1>4, <1>5, <1>6

(* Sums of whole pages are whole pages.                                    *)
WholePages(x) == x \in Nat /\ x % Page = 0

LEMMA PageTimes ==
  ASSUME NEW q \in Nat
  PROVE  WholePages(Page * q)
<1> DEFINE x == Page * q
<1>1. x \in Nat /\ x \div Page = q /\ Page \in Nat \ {0}
  BY PageStart, ConstantTypes
<1>2. x = Page * (x \div Page) + (x % Page) /\ x % Page \in Int
  <2>1. x \in Int
    BY <1>1
  <2> HIDE DEF x
  <2> QED  BY <1>1, <2>1, DivIs
<1>3. x = x + (x % Page)
  <2>1. Page * (x \div Page) = x
    BY <1>1
  <2> HIDE DEF x
  <2> QED  BY <1>2, <2>1
<1>4. x % Page = 0
  <2> HIDE DEF x
  <2> QED  BY <1>1, <1>2, <1>3
<1> QED  BY <1>1, <1>4 DEF WholePages

LEMMA WholePage ==
  ASSUME NEW x, WholePages(x)
  PROVE  x \div Page \in Nat /\ x = Page * (x \div Page)
<1>1. x \in Int /\ x >= 0 /\ x % Page = 0 /\ Page \in Nat \ {0}
  BY ConstantTypes DEF WholePages
<1>2. x \div Page \in Int /\ x = Page * (x \div Page) + (x % Page)
  BY <1>1, DivIs
<1>3. Page * (x \div Page) \in Int
  BY <1>1, <1>2, TimesMonotone
<1>4. x = Page * (x \div Page)
  <2> DEFINE y == Page * (x \div Page)
  <2>1. y \in Int /\ x = y + (x % Page)
    BY <1>2, <1>3
  <2> HIDE DEF y
  <2>2. x = y
    BY <1>1, <2>1
  <2> QED  BY <2>2 DEF y
<1>5. 0 <= x \div Page
  <2>1. Page * 0 <= x
    BY <1>1
  <2> QED  BY <1>1, <2>1, DivBetween
<1> QED  BY <1>2, <1>4, <1>5

LEMMA PageSums ==
  ASSUME NEW x, NEW y, WholePages(x), WholePages(y)
  PROVE  WholePages(x + y) /\ (y <= x => WholePages(x - y))
<1> DEFINE i == x \div Page
           j == y \div Page
<1>1. i \in Nat /\ j \in Nat /\ x = Page * i /\ y = Page * j /\ Page \in Nat \ {0}
  BY WholePage, ConstantTypes
<1>2. x \in Nat /\ y \in Nat
  BY DEF WholePages
<1> HIDE DEF i, j
<1>3. Page * (i + j) = Page * i + Page * j
  BY <1>1, TimesMonotone
<1>4. WholePages(x + y)
  <2>0. i + j \in Nat
    BY <1>1
  <2>1. WholePages(Page * (i + j))
    BY <2>0, PageTimes
  <2> QED  BY <1>1, <1>3, <2>1
<1>5. ASSUME y <= x PROVE WholePages(x - y)
  <2>1. j <= i
    <3>1. SUFFICES ASSUME i < j PROVE FALSE
      BY <1>1
    <3>2. Page * j <= Page * i => ~ (Page * i < Page * j)
      BY <1>1, <1>2
    <3>3. Page * i <= Page * j /\ Page * i # Page * j
      <4>1. i + 1 <= j /\ i + 1 \in Int
        BY <1>1, <3>1
      <4>2. Page * (i + 1) <= Page * j
        BY <1>1, <4>1, TimesMonotone
      <4>3. Page * (i + 1) = Page * i + Page * 1
        BY <1>1, TimesMonotone
      <4> QED  BY <1>1, <1>2, <4>2, <4>3
    <3> QED  BY <1>1, <1>2, <1>5, <3>3
  <2>2. i - j \in Nat
    BY <1>1, <2>1
  <2>3. Page * ((i - j) + j) = Page * (i - j) + Page * j
    BY <1>1, <2>2, TimesMonotone
  <2>4. (i - j) + j = i
    BY <1>1
  <2>5. Page * (i - j) \in Int
    BY <1>1, <2>2, TimesMonotone
  <2>6. Page * (i - j) = x - y
    <3> DEFINE w == Page * (i - j)
    <3>1. w \in Int /\ x = w + y
      BY <1>1, <2>3, <2>4, <2>5
    <3> HIDE DEF w
    <3>2. w = x - y
      BY <1>2, <3>1
    <3> QED  BY <3>2 DEF w
  <2>7. WholePages(Page * (i - j))
    BY <2>2, PageTimes
  <2> QED  BY <2>6, <2>7
<1> QED  BY <1>4, <1>5

(* Multiples of the granularity are whole pages.                           *)
LEMMA GranularityPages ==
  ASSUME NEW k \in Nat
  PROVE  WholePages(k * Granularity) /\ (k # 0 => k * Granularity >= Granularity)
<1>1. WholePages(Granularity) /\ Granularity \in Nat \ {0}
  BY MallocAssumption, ConstantTypes DEF WholePages
<1> DEFINE u == Granularity \div Page
<1>2. u \in Nat /\ Granularity = Page * u /\ Page \in Nat
  BY <1>1, WholePage, ConstantTypes
<1> HIDE DEF u
<1>3. k * u \in Nat /\ Page * (k * u) = k * (Page * u)
  BY <1>2, SMT
<1>4. WholePages(k * Granularity)
  <2>1. WholePages(Page * (k * u))
    BY <1>3, PageTimes
  <2> QED  BY <1>2, <1>3, <2>1
<1>5. ASSUME k # 0 PROVE k * Granularity >= Granularity
  <2>1. 1 <= k
    BY <1>5
  <2>2. Granularity * 1 <= Granularity * k
    BY <1>1, <2>1, TimesMonotone
  <2>3. Granularity * k = k * Granularity /\ Granularity * 1 = Granularity
    BY <1>1, SMT
  <2> QED  BY <2>2, <2>3
<1> QED  BY <1>4, <1>5

LEMMA TopSegment ==
  ASSUME NEW h, Formed(h)
  PROVE  SegmentHolding(h, h.top) = 1 /\ h.segs # <<>> /\ Holds(h.segs[1], h.top) /\ 1 \in DOMAIN h.segs
         /\ \A i \in DOMAIN h.segs : Holds(h.segs[i], h.top) => i = 1
<1>1. 1 \in DOMAIN h.segs /\ h.top \in Int /\ SegsRight(h) /\ TopRight(h)
  BY HeapTypes
<1>2. Holds(h.segs[1], h.top)
  BY <1>1 DEF TopRight
<1>3. \A i \in DOMAIN h.segs : Holds(h.segs[i], h.top) => i = 1
  BY <1>1, <1>2 DEF SegsRight
<1>4. SegmentHolding(h, h.top) = 1
  BY <1>1, <1>2, <1>3 DEF SegmentHolding
<1> QED  BY <1>1, <1>2, <1>3, <1>4 DEF SegsRight

(* The end of the first segment, of n units, or what it was before.        *)
Wide(h, n, x) == h.top <= x /\ (x < EndOf(h.segs[1]) \/ x < h.segs[1].base + n)

(* What k, with another amount of memory, is to h.                         *)
Ready(h, k, t, n) ==
  /\ k \in HeapType /\ SameTop(h, k) /\ k.segs = h.segs
  /\ t \in Nat \ {0} /\ WholePages(n) /\ h.segs[1].base + n = h.top + t + TopFoot
  /\ \A x \in Int : FootAt(h, k, x) /\ (~ Wide(h, n, x) => SameAt(h, k, x))
  /\ \A x \in Int : Wide(h, n, x) =>
       /\ (~ TopSpan(h.top, t, x) => x \notin Heads(k))
       /\ x \notin Feet(h) /\ \A j \in 2 .. Len(h.segs) : ~ Holds(h.segs[j], x)

Refounded(h, k, t, n) == Resized(InitTop(k, h.top, t), n)

LEMMA TopMovedIs ==
  ASSUME NEW h, Formed(h), NEW k, NEW t, NEW n, Ready(h, k, t, n)
  PROVE  LET g == Refounded(h, k, t, n)
         IN  TopMoved(h, g, t) /\ SameShelf(k, g) /\ g.mapped = k.mapped /\ g.footprint = k.footprint
<1> DEFINE i == InitTop(k, h.top, t)
           g == Refounded(h, k, t, n)
<1>1. /\ h.top \in Int /\ k \in HeapType /\ t \in Nat \ {0} /\ n \in Nat /\ n % Page = 0 /\ k.segs = h.segs
      /\ 1 \in DOMAIN h.segs /\ h.segs # <<>> /\ TopFoot = 5
      /\ h.segs[1].base \in Int
  <2>1. 1 \in DOMAIN h.segs /\ h \in HeapType
    BY HeapTypes
  <2>2. h.segs[1].base \in Int
    BY <2>1, SegFields
  <2> QED  BY <2>1, <2>2, HeapTypes, TopSegment, ConstantTypes DEF Ready, WholePages
<1>2. InitPut(k, i, h.top, t)
  BY <1>1, InitTopIs
<1> HIDE DEF i
<1>3. i \in HeapType /\ i.segs = h.segs /\ i.top = h.top /\ i.topsize = t /\ SameShelf(k, i) /\ i.mapped = k.mapped
      /\ i.footprint = k.footprint
  BY <1>1, <1>2 DEF InitPut, SameMap
<1>4. /\ g \in HeapType /\ SameTags(i, g) /\ SameTop(i, g) /\ SameShelf(i, g)
      /\ g.mapped = i.mapped /\ g.footprint = i.footprint
      /\ Len(g.segs) = Len(i.segs) /\ \A j \in 2 .. Len(i.segs) : g.segs[j] = i.segs[j]
      /\ g.segs[1].base = i.segs[1].base /\ g.segs[1].rec = i.segs[1].rec /\ g.segs[1].size = n
  <2>1. i.segs # <<>>
    BY <1>1, <1>3
  <2> QED  BY <1>1, <1>3, <2>1, ResizedIs DEF Refounded, i
<1> HIDE DEF g
<1>5. SameShelf(k, g) /\ g.mapped = k.mapped /\ g.footprint = k.footprint
  BY <1>3, <1>4 DEF SameShelf
<1>6. /\ g \in HeapType /\ g.top = h.top /\ g.topsize = t /\ t \in Nat \ {0}
      /\ Len(g.segs) = Len(h.segs) /\ \A j \in 2 .. Len(h.segs) : g.segs[j] = h.segs[j]
      /\ g.segs[1].base = h.segs[1].base /\ g.segs[1].rec = h.segs[1].rec /\ g.segs[1].size % Page = 0
  BY <1>1, <1>3, <1>4 DEF SameTop
<1>7. EndOf(g.segs[1]) = h.top + t + TopFoot /\ EndOf(g.segs[1]) = h.segs[1].base + n
  BY <1>4, <1>3 DEF EndOf, Ready
<1>8. \A x : Zone(h, g, x) => Wide(h, n, x)
  BY <1>7 DEF Zone, Wide
<1>9. \A x : Wide(h, n, x) => Zone(h, g, x)
  BY <1>7 DEF Zone, Wide
<1>10. Heads(g) = Heads(i) /\ Feet(g) = Feet(i) /\ g.head = i.head /\ g.foot = i.foot
  BY <1>4 DEF SameTags, Heads, Feet
<1>11. \A x \in Int : TopSpan(h.top, t, x) => Wide(h, n, x)
  <2>1. h.segs[1].base + n = h.top + t + TopFoot
    BY DEF Ready
  <2> QED  BY <2>1 DEF TopSpan, Wide
<1>12. ASSUME NEW x \in Int PROVE FootAt(h, g, x)
  <2>1. FootAt(h, k, x)
    BY DEF Ready
  <2>2. CASE TopSpan(h.top, t, x)
    <3>1. x \notin Feet(h)
      BY <1>11, <2>2 DEF Ready
    <3>2. x \notin Feet(k)
      BY <2>1, <3>1 DEF FootAt
    <3>3. x \notin Feet(i)
      BY <1>2, <3>2 DEF InitPut
    <3> QED  BY <1>10, <3>1, <3>3 DEF FootAt
  <2>3. CASE ~ TopSpan(h.top, t, x)
    <3>1. FootAt(k, i, x)
      BY <1>2, <2>3 DEF InitPut, SameOn
    <3> QED  BY <1>10, <2>1, <3>1 DEF FootAt
  <2> QED  BY <2>2, <2>3
<1>13. ASSUME NEW x \in Int, ~ Zone(h, g, x) PROVE SameAt(h, g, x)
  <2>1. ~ Wide(h, n, x)
    BY <1>9, <1>13
  <2>2. SameAt(h, k, x)
    BY <2>1 DEF Ready
  <2>3. SameAt(k, i, x)
    BY <1>2, <1>11, <2>1 DEF InitPut, SameOn
  <2> QED  BY <1>10, <2>2, <2>3 DEF SameAt
<1>14. ASSUME NEW x \in Heads(g), Zone(h, g, x) PROVE x = h.top \/ x = h.top + t
  <2>1. x \in Int /\ x \in Heads(i)
    BY <1>3, <1>10, <1>14, HeapFields
  <2>2. CASE TopSpan(h.top, t, x)
    BY <1>2, <2>1, <2>2 DEF InitPut
  <2>3. CASE ~ TopSpan(h.top, t, x)
    <3>1. SameAt(k, i, x)
      BY <1>2, <2>1, <2>3 DEF InitPut, SameOn
    <3>2. x \in Heads(k)
      BY <2>1, <3>1 DEF SameAt
    <3>3. Wide(h, n, x)
      BY <1>8, <1>14
    <3> QED  BY <2>1, <2>3, <3>2, <3>3 DEF Ready
  <2> QED  BY <2>2, <2>3
<1>15. h.top \in Heads(g) /\ g.head[h.top] = FreeTag(t) /\ h.top + t \in Heads(g) /\ g.head[h.top + t] = TopTag
  BY <1>2, <1>10 DEF InitPut
<1>16. \A x \in Int : Zone(h, g, x) => \A j \in 2 .. Len(h.segs) : ~ Holds(h.segs[j], x)
  BY <1>8 DEF Ready
<1>17. EndOf(g.segs[1]) = h.top + t + TopFoot
  BY <1>7
<1>18. TopMoved(h, g, t)
  BY <1>6, <1>12, <1>13, <1>14, <1>15, <1>16, <1>17 DEF TopMoved
<1> QED  BY <1>5, <1>18 DEF g

(* Nothing of the layout is in the overhead behind the top chunk.          *)
LEMMA OverheadBare ==
  ASSUME NEW h, Formed(h), NEW x \in Int, h.top <= x, x < EndOf(h.segs[1])
  PROVE  /\ x \notin Feet(h) /\ Holds(h.segs[1], x) /\ (x \in Heads(h) => x <= Mark(h))
         /\ \A j \in 2 .. Len(h.segs) : ~ Holds(h.segs[j], x)
<1>1. 1 \in DOMAIN h.segs /\ DOMAIN h.segs = 1 .. Len(h.segs) /\ h.top \in Int /\ TopRight(h) /\ SegsRight(h) /\ h \in HeapType
  BY HeapTypes
<1>2. Holds(h.segs[1], x)
  <2>1. h.segs[1].base \in Int /\ h.segs[1].size \in Int
    BY <1>1, SegFields
  <2> QED  BY <1>1, <2>1 DEF TopRight, Holds, EndOf
<1>3. x \in Heads(h) => x <= Mark(h)
  BY <1>1, <1>2 DEF TopRight
<1>4. x \notin Feet(h)
  <2>1. SUFFICES ASSUME x \in Feet(h) PROVE FALSE
    OBVIOUS
  <2>2. x \in Useds(h)
    BY <2>1, FootIs
  <2>3. x \in Chunks(h) /\ x # h.top /\ x \in Heads(h) /\ x # Mark(h)
    BY <2>2 DEF Useds, Chunks
  <2>4. Heads(h) \cap Amid(h.top, Mark(h)) = {h.top} /\ Mark(h) \in Int
    BY TopIs
  <2>5. x < Mark(h)
    BY <1>3, <2>3, <2>4
  <2>6. x \in Amid(h.top, Mark(h))
    BY <2>5 DEF Amid
  <2> QED  BY <2>3, <2>4, <2>6
<1>5. \A j \in 2 .. Len(h.segs) : ~ Holds(h.segs[j], x)
  <2>1. SUFFICES ASSUME NEW j \in 2 .. Len(h.segs) PROVE ~ Holds(h.segs[j], x)
    OBVIOUS
  <2>2. j \in DOMAIN h.segs /\ j # 1
    BY <1>1
  <2> QED  BY <1>1, <1>2, <2>2 DEF SegsRight
<1> QED  BY <1>2, <1>3, <1>4, <1>5

(* What sys_trim takes from a top chunk of t units.                        *)
TrimExtra(t) == ((t - TopFoot + Granularity - 1) \div Granularity - 1) * Granularity

LEMMA TrimExtraIs ==
  ASSUME NEW t \in Nat, t > TopFoot
  PROVE  LET n == TrimExtra(t) IN WholePages(n) /\ t - n > TopFoot /\ (n # 0 => n >= Granularity)
<1> DEFINE k == (t - TopFoot + Granularity - 1) \div Granularity
           n == TrimExtra(t)
<1>1. t - TopFoot \in Nat \ {0} /\ Granularity \in Nat \ {0}
  BY ConstantTypes
<1>2. k \in Nat /\ k >= 1
  <2> DEFINE u == t - TopFoot
  <2>1. u \in Nat \ {0}
    BY <1>1
  <2>2. k = (u + Granularity - 1) \div Granularity
    OBVIOUS
  <2> HIDE DEF u
  <2> QED  BY <1>1, <2>1, <2>2, SMT
<1>3. n = (k - 1) * Granularity
  BY DEF TrimExtra
<1> HIDE DEF k
<1>4. k - 1 \in Nat
  BY <1>2
<1>5. WholePages(n) /\ (k - 1 # 0 => n >= Granularity)
  BY <1>3, <1>4, GranularityPages
<1>6. k - 1 = 0 => n = 0
  BY <1>1, <1>3
<1>7. t - n > TopFoot
  BY TrimLeavesTop DEF TrimExtra
<1> QED  BY <1>5, <1>6, <1>7

Trimmed(h, n) == Refounded(h, Unmapped(h, EndOf(h.segs[1]) - n, n), h.topsize - n, h.segs[1].size - n)

Shortened(h, j, cut) == [h EXCEPT !.segs[j].size = @ - cut]

TrimHeapAt(h, j, cut) ==
  Shortened(InitTop(Unmapped(h, h.segs[j].base + h.segs[j].size - cut, cut), h.top, h.topsize - cut), j, cut)

TrimAt(h, j, cut) ==
  IF h.topsize <= TopFoot \/ cut = 0 \/ h.segs[j].size < cut \/ HasSegmentLink(h, h.segs[j]) THEN {h}
  ELSE {h, TrimHeapAt(h, j, cut)}

LEMMA TrimHeapIs ==
  ASSUME NEW h, Formed(h), NEW cut \in Int
  PROVE  TrimHeapAt(h, 1, cut) = Shortened(InitTop(Unmapped(h, EndOf(h.segs[1]) - cut, cut), h.top, h.topsize - cut), 1, cut)
<1>1. ASSUME NEW j
      PROVE  TrimHeapAt(h, j, cut) = Shortened(InitTop(Unmapped(h, h.segs[j].base + h.segs[j].size - cut, cut), h.top, h.topsize - cut), j, cut)
  BY DEF TrimHeapAt
<1> DEFINE v == h.segs[1].base + h.segs[1].size - cut
           w == EndOf(h.segs[1]) - cut
<1>2. v = w
  <2>1. h \in HeapType /\ 1 \in DOMAIN h.segs
    BY HeapTypes
  <2>2. h.segs[1].base \in Int /\ h.segs[1].size \in Int
    BY <2>1, SegFields
  <2> QED  BY <2>2 DEF EndOf
<1>3. TrimHeapAt(h, 1, cut) = Shortened(InitTop(Unmapped(h, v, cut), h.top, h.topsize - cut), 1, cut)
  BY <1>1
<1> HIDE DEF v, w
<1>4. TrimHeapAt(h, 1, cut) = Shortened(InitTop(Unmapped(h, w, cut), h.top, h.topsize - cut), 1, cut)
  BY <1>2, <1>3
<1> QED  BY <1>4 DEF w

LEMMA TrimTopSet ==
  ASSUME NEW h, Formed(h), NEW g \in TrimTop(h)
  PROVE  \/ g = h
         \/ h.topsize > TopFoot /\ TrimExtra(h.topsize) # 0 /\ g = TrimHeapAt(h, 1, TrimExtra(h.topsize))
<1>1. SegmentHolding(h, h.top) = 1
  BY TopSegment
<1>2. h.topsize \in Nat /\ TopFoot \in Nat
  BY TopIs, ConstantTypes
<1> DEFINE n == TrimExtra(h.topsize)
           G == TrimHeapAt(h, 1, n)
<1>3. g \in TrimAt(h, 1, n)
  <2>1. TrimTop(h) = TrimAt(h, SegmentHolding(h, h.top), n)
    BY Zenon DEF TrimTop, TrimAt, TrimExtra, TrimHeapAt, Shortened
  <2> QED  BY <1>1, <2>1, Zenon
<1> HIDE DEF n
<1>4. g = h \/ (h.topsize > TopFoot /\ n # 0 /\ g = G)
  BY <1>2, <1>3 DEF TrimAt
<1> QED  BY <1>4 DEF n, G

LEMMA TrimTopIs ==
  ASSUME NEW h, Formed(h), NEW g \in TrimTop(h)
  PROVE  \/ g = h
         \/ LET n == TrimExtra(h.topsize) IN h.topsize > TopFoot /\ n # 0 /\ g = Trimmed(h, n)
<1> DEFINE n == TrimExtra(h.topsize)
           k == Unmapped(h, EndOf(h.segs[1]) - n, n)
           i == InitTop(k, h.top, h.topsize - n)
<1>1. ASSUME h.topsize > TopFoot, n # 0, g = TrimHeapAt(h, 1, n) PROVE g = Trimmed(h, n)
  <2>1. h \in HeapType /\ 1 \in DOMAIN h.segs /\ h.top \in Int /\ h.topsize \in Nat
    BY HeapTypes, TopIs
  <2>2. h.segs[1].base \in Int /\ h.segs[1].size \in Int
    BY <2>1, SegFields
  <2>3. n \in Nat /\ h.topsize - n \in Nat \ {0} /\ EndOf(h.segs[1]) - n \in Int
    <3>1. n \in Nat /\ h.topsize - n > TopFoot
      BY <1>1, <2>1, TrimExtraIs DEF WholePages
    <3> QED  BY <2>1, <2>2, <3>1, ConstantTypes DEF EndOf
  <2> HIDE DEF n
  <2>0. g = Shortened(i, 1, n)
    <3>1. n \in Int
      BY <2>3
    <3> QED  BY <1>1, <3>1, TrimHeapIs, Zenon
  <2>4. UnmappedTo(h, k, EndOf(h.segs[1]) - n, n)
    BY <2>1, <2>3, UnmappedIs
  <2> HIDE DEF k
  <2>5. InitPut(k, i, h.top, h.topsize - n) /\ k.segs = h.segs
    BY <2>1, <2>3, <2>4, InitTopIs DEF UnmappedTo
  <2> HIDE DEF i
  <2>6. i.segs = h.segs
    BY <2>5 DEF InitPut, SameMap
  <2>7. g = Resized(i, h.segs[1].size - n)
    BY <2>0, <2>6 DEF Resized, Shortened
  <2> QED  BY <2>7 DEF Trimmed, Refounded, i, k
<1>2. g = h \/ (h.topsize > TopFoot /\ n # 0 /\ g = TrimHeapAt(h, 1, n))
  BY TrimTopSet
<1> QED  BY <1>1, <1>2

LEMMA TrimReady ==
  ASSUME NEW h, Formed(h), NEW n, WholePages(n), n # 0, h.topsize - n > TopFoot
  PROVE  LET k == Unmapped(h, EndOf(h.segs[1]) - n, n)
         IN  /\ Ready(h, k, h.topsize - n, h.segs[1].size - n)
             /\ UnmappedTo(h, k, EndOf(h.segs[1]) - n, n) /\ Paged(EndOf(h.segs[1]) - n, n)
             /\ h.top < EndOf(h.segs[1]) - n
<1> DEFINE b == h.segs[1].base
           s == h.segs[1].size
           e == EndOf(h.segs[1])
           k == Unmapped(h, e - n, n)
           t == h.topsize - n
<1>1. /\ h \in HeapType /\ 1 \in DOMAIN h.segs /\ h.top \in Int /\ h.topsize \in Int /\ SegsRight(h) /\ TopRight(h) /\ n \in Nat
      /\ TopFoot = 5
  BY HeapTypes, ConstantTypes DEF WholePages
<1>2. b \in Nat /\ s \in Nat /\ e = b + s
  BY <1>1, SegFields DEF EndOf
<1>3. WholePages(b) /\ WholePages(s)
  BY <1>1, <1>2 DEF SegsRight, WholePages
<1>4. e = h.top + h.topsize + 5
  BY <1>1 DEF TopRight, Mark
<1>5. b <= h.top
  <2>1. Holds(h.segs[1], h.top)
    BY TopSegment
  <2> QED  BY <2>1 DEF Holds
<1> HIDE DEF b, s, e
<1>6. n <= s /\ h.top < e - n /\ t \in Nat \ {0} /\ e - n \in Nat
  BY <1>1, <1>2, <1>4, <1>5
<1>7. WholePages(s - n) /\ WholePages(e - n)
  <2>1. WholePages(s - n)
    BY <1>3, <1>6, PageSums
  <2>2. WholePages(b + (s - n))
    BY <1>3, <2>1, PageSums
  <2>3. b + (s - n) = e - n
    BY <1>1, <1>2
  <2> QED  BY <2>1, <2>2, <2>3
<1>8. UnmappedTo(h, k, e - n, n)
  <2>1. e - n \in Int
    BY <1>6
  <2> QED  BY <1>1, <2>1, UnmappedIs
<1>9. Paged(e - n, n)
  BY <1>7 DEF Paged, WholePages
<1> HIDE DEF k
<1>10. k \in HeapType /\ SameTop(h, k) /\ k.segs = h.segs
  BY <1>8 DEF UnmappedTo
<1>11. b + (s - n) = h.top + t + TopFoot
  BY <1>1, <1>2, <1>4
<1>12. ASSUME NEW x \in Int, Wide(h, s - n, x)
       PROVE  /\ (~ TopSpan(h.top, t, x) => x \notin Heads(k))
              /\ x \notin Feet(h) /\ \A j \in 2 .. Len(h.segs) : ~ Holds(h.segs[j], x)
  <2>1. h.top <= x /\ x < e
    BY <1>1, <1>2, <1>12 DEF Wide, b, s, e, EndOf
  <2>2. ~ TopSpan(h.top, t, x) => InMem(e - n, n, x)
    BY <1>1, <1>2, <1>4, <2>1 DEF TopSpan, InMem
  <2>3. InMem(e - n, n, x) => x \notin Heads(k)
    BY <1>8 DEF UnmappedTo
  <2>4. x \notin Feet(h) /\ \A j \in 2 .. Len(h.segs) : ~ Holds(h.segs[j], x)
    BY <2>1, OverheadBare DEF e
  <2> QED  BY <2>2, <2>3, <2>4
<1>13. ASSUME NEW x \in Int PROVE FootAt(h, k, x) /\ (~ Wide(h, s - n, x) => SameAt(h, k, x))
  <2>1. InMem(e - n, n, x) => Wide(h, s - n, x)
    BY <1>1, <1>2, <1>4, <1>6 DEF InMem, Wide, e
  <2>2. ASSUME ~ InMem(e - n, n, x) PROVE SameAt(h, k, x) /\ FootAt(h, k, x)
    <3>1. (x \in Heads(k) => x \in Heads(h) /\ k.head[x] = h.head[x]) /\ (x \in Heads(h) => x \in Heads(k))
      BY <1>8, <2>2 DEF UnmappedTo
    <3>2. (x \in Feet(k) => x \in Feet(h) /\ k.foot[x] = h.foot[x]) /\ (x \in Feet(h) => x \in Feet(k))
      BY <1>8, <2>2 DEF UnmappedTo
    <3> QED  BY <3>1, <3>2 DEF SameAt, FootAt
  <2>3. ASSUME InMem(e - n, n, x) PROVE FootAt(h, k, x)
    <3>1. x \notin Feet(h)
      BY <1>12, <2>1, <2>3
    <3>2. x \notin Feet(k)
      BY <1>8, <3>1 DEF UnmappedTo
    <3> QED  BY <3>1, <3>2 DEF FootAt
  <2> QED  BY <2>1, <2>2, <2>3
<1>14. h.segs[1].base + (s - n) = h.top + t + TopFoot
  BY <1>11 DEF b
<1>15. Ready(h, k, t, s - n)
  BY <1>6, <1>7, <1>10, <1>12, <1>13, <1>14 DEF Ready
<1> QED  BY <1>6, <1>8, <1>9, <1>15 DEF k, t, s, e

LEMMA TrimLoss ==
  ASSUME NEW h, Formed(h), NEW n, WholePages(n), n # 0, h.topsize - n > TopFoot
  PROVE  LET g == Trimmed(h, n)
         IN  /\ TopMoved(h, g, h.topsize - n) /\ SameShelf(h, g) /\ Loss(h, g, EndOf(h.segs[1]) - n, n)
             /\ g.footprint = h.footprint - n
<1> DEFINE e == EndOf(h.segs[1])
           b == e - n
           k == Unmapped(h, b, n)
           t == h.topsize - n
           g == Trimmed(h, n)
<1>1. /\ Ready(h, k, t, h.segs[1].size - n) /\ UnmappedTo(h, k, b, n) /\ Paged(b, n) /\ h.top < b
  BY TrimReady
<1>2. /\ h.top \in Int /\ n \in Nat /\ h \in HeapType /\ 1 \in DOMAIN h.segs /\ DOMAIN h.segs = 1 .. Len(h.segs) /\ Len(h.segs) \in Nat
      /\ h.topsize \in Int /\ TopFoot = 5
  BY HeapTypes, ConstantTypes DEF WholePages
<1>3. h.segs[1].base \in Int /\ h.segs[1].size \in Int /\ e = h.segs[1].base + h.segs[1].size /\ e \in Int /\ b \in Int /\ t \in Int
  <2>1. h.segs[1].base \in Int /\ h.segs[1].size \in Int
    BY <1>2, SegFields
  <2> QED  BY <1>2, <2>1, SMTT(30) DEF EndOf
<1>4. h.segs[1].base <= h.top
  BY TopSegment DEF Holds
<1> HIDE DEF k
<1>5. TopMoved(h, g, t) /\ SameShelf(k, g) /\ g.mapped = k.mapped /\ g.footprint = k.footprint
  BY <1>1, TopMovedIs DEF Trimmed, k
<1> HIDE DEF g
<1>6. SameShelf(h, g) /\ g.mapped = h.mapped \ Pages(b, n) /\ g.footprint = h.footprint - n
  BY <1>1, <1>5 DEF UnmappedTo, SameShelf
<1>7. EndOf(g.segs[1]) = b /\ b = h.top + t + 5
  <2>1. EndOf(g.segs[1]) = h.top + t + TopFoot
    BY <1>5 DEF TopMoved
  <2>2. e = h.top + h.topsize + 5
    BY <1>2, HeapTypes DEF TopRight, Mark
  <2>5. e \in Int /\ h.top \in Int /\ h.topsize \in Int /\ n \in Int
    BY <1>2, <1>3
  <2> HIDE DEF e
  <2>3. b = h.top + t + 5
    BY <2>2, <2>5
  <2>4. h.top + t + TopFoot = h.top + t + 5
    BY <1>2
  <2> QED  BY <2>1, <2>3, <2>4
<1> HIDE DEF b, e
<1>8. b = e - n
  BY DEF b
<1>9. g.segs[1].base = h.segs[1].base /\ DOMAIN g.segs = DOMAIN h.segs /\ (\A j \in 2 .. Len(h.segs) : g.segs[j] = h.segs[j])
  <2>1. g \in HeapType /\ Len(g.segs) = Len(h.segs)
    BY <1>5 DEF TopMoved
  <2>2. DOMAIN g.segs = 1 .. Len(g.segs)
    BY <2>1, HeapFields
  <2> QED  BY <1>2, <1>5, <2>1, <2>2 DEF TopMoved
<1>10. \A x \in Int : (Holds(h.segs[1], x) => h.segs[1].base <= x /\ x < e) /\ (h.segs[1].base <= x /\ x < e => Holds(h.segs[1], x))
  BY <1>3 DEF Holds
<1>11. \A x \in Int : (Holds(g.segs[1], x) => h.segs[1].base <= x /\ x < b) /\ (h.segs[1].base <= x /\ x < b => Holds(g.segs[1], x))
  BY <1>7, <1>9 DEF Holds, EndOf
<1>12. \A x \in Int : (InMem(b, n, x) => b <= x /\ x < e) /\ (b <= x /\ x < e => InMem(b, n, x))
  BY <1>2, <1>3, <1>8, SMTT(30) DEF InMem
<1>13. \A x \in Int : Holds(h.segs[1], x) => InSeg(h, x) /\ \A j \in 2 .. Len(h.segs) : ~ Holds(h.segs[j], x)
  <2>1. SegsRight(h)
    BY HeapTypes
  <2> QED  BY <1>2, <2>1 DEF InSeg, SegsRight
<1>14. ASSUME NEW x \in Int
       PROVE  /\ (InSeg(g, x) => InSeg(h, x) /\ ~ InMem(b, n, x)) /\ (InSeg(h, x) /\ ~ InMem(b, n, x) => InSeg(g, x))
              /\ (InMem(b, n, x) => InSeg(h, x) /\ x \notin Heads(g))
  <2>1. InMem(b, n, x) => Holds(h.segs[1], x)
    BY <1>1, <1>3, <1>4, <1>10, <1>12, <1>2, SMTT(30)
  <2>2. ASSUME InSeg(g, x) PROVE InSeg(h, x) /\ ~ InMem(b, n, x)
    <3>1. PICK j \in DOMAIN h.segs : Holds(g.segs[j], x)
      BY <1>9, <2>2 DEF InSeg
    <3>2. CASE j = 1
      <4>1. Holds(h.segs[1], x) /\ ~ InMem(b, n, x)
        BY <1>2, <1>3, <1>8, <1>10, <1>11, <1>12, <3>1, <3>2, SMTT(30)
      <4> QED  BY <1>13, <4>1
    <3>3. CASE j # 1
      <4>1. j \in 2 .. Len(h.segs)
        BY <1>2, <3>3
      <4>2. Holds(h.segs[j], x)
        BY <1>9, <3>1, <4>1
      <4> QED  BY <1>13, <2>1, <4>1, <4>2 DEF InSeg
    <3> QED  BY <3>2, <3>3
  <2>3. ASSUME InSeg(h, x), ~ InMem(b, n, x) PROVE InSeg(g, x)
    <3>1. PICK j \in DOMAIN h.segs : Holds(h.segs[j], x)
      BY <2>3 DEF InSeg
    <3>2. CASE j = 1
      <4>1. h.segs[1].base <= x /\ x < b
        BY <1>3, <1>10, <1>12, <2>3, <3>1, <3>2
      <4> QED  BY <1>2, <1>9, <1>11, <4>1 DEF InSeg
    <3>3. CASE j # 1
      <4>1. j \in 2 .. Len(h.segs)
        BY <1>2, <3>3
      <4> QED  BY <1>9, <3>1, <4>1 DEF InSeg
    <3> QED  BY <3>2, <3>3
  <2>4. ASSUME InMem(b, n, x) PROVE x \notin Heads(g)
    <3>1. h.top <= x /\ x < e
      BY <1>1, <1>2, <1>3, <1>12, <2>4
    <3>2. Zone(h, g, x)
      BY <3>1 DEF Zone, e
    <3>3. x # h.top /\ x # h.top + t
      BY <1>1, <1>2, <1>3, <1>7, <1>12, <2>4, SMTT(30)
    <3> QED  BY <1>5, <3>2, <3>3 DEF TopMoved
  <2> QED  BY <1>13, <2>1, <2>2, <2>3, <2>4
<1>15. ASSUME NEW x \in Int, ~ InSeg(h, x) PROVE SameAt(h, g, x)
  <2>1. ~ (h.segs[1].base <= x /\ x < e)
    BY <1>10, <1>13, <1>15
  <2>2. EndOf(g.segs[1]) <= e
    BY <1>2, <1>3, <1>7, <1>8
  <2>3. ~ Zone(h, g, x)
    <3>1. SUFFICES ASSUME Zone(h, g, x) PROVE FALSE
      OBVIOUS
    <3>2. h.top <= x /\ (x < e \/ x < EndOf(g.segs[1]))
      BY <3>1 DEF Zone, e
    <3>3. EndOf(g.segs[1]) \in Int
      BY <1>3, <1>7
    <3> QED  BY <1>2, <1>3, <1>4, <2>1, <2>2, <3>2, <3>3, SMTT(30)
  <2> QED  BY <1>5, <2>3 DEF TopMoved
<1>16. Loss(h, g, b, n)
  BY <1>1, <1>6, <1>14, <1>15 DEF Loss
<1> QED  BY <1>5, <1>6, <1>16 DEF g, b, e

(* sys_trim gives memory back and leaves the blocks alone.                 *)
LEMMA TrimTopLeft ==
  ASSUME NEW h, NEW U, Sound(h, U), NEW g \in TrimTop(h)
  PROVE  Left(h, g, U)
<1>1. Formed(h) /\ h \in HeapType
  BY HeapTypes DEF Sound
<1>2. CASE g = h
  BY <1>2, LeftSelf
<1> DEFINE n == TrimExtra(h.topsize)
           b == EndOf(h.segs[1]) - n
<1>3. CASE h.topsize > TopFoot /\ n # 0 /\ g = Trimmed(h, n)
  <2>1. WholePages(n) /\ h.topsize - n > TopFoot
    <3>1. h.topsize \in Nat
      BY <1>1, TopIs
    <3> QED  BY <1>3, <3>1, TrimExtraIs
  <2> HIDE DEF n
  <2>2. TopMoved(h, g, h.topsize - n) /\ SameShelf(h, g) /\ Loss(h, g, b, n) /\ g.footprint = h.footprint - n
    BY <1>1, <1>3, <2>1, TrimLoss
  <2> HIDE DEF b
  <2>3. g \in HeapType
    BY <2>2 DEF TopMoved
  <2>4. /\ Direct(g) = Direct(h) /\ DirectsRight(g) /\ \A d \in Direct(h) : g.head[d] = h.head[d]
        /\ Pages(b, n) \subseteq h.mapped
    BY <1>1, <2>2, <2>3, LossDirects
  <2>5. Sound(g, U) /\ Keeps(h, g, U)
    BY <2>2, <2>4, TopMovedSound
  <2>6. Counted(h) => Counted(g)
    BY <1>1, <2>2, <2>4, LossCounted DEF Loss
  <2> QED  BY <2>5, <2>6 DEF Left
<1> QED  BY <1>1, <1>2, <1>3, TrimTopIs

LEMMA SysTrimLeft ==
  ASSUME NEW h, NEW U, Sound(h, U), NEW g \in SysTrim(h)
  PROVE  Left(h, g, U)
<1>1. PICK l \in UNION {ReleaseUnusedSegments(k) : k \in TrimTop(h)} :
        g = IF l.footprint = h.footprint /\ l.topsize > l.trim THEN [l EXCEPT !.trim = Never] ELSE l
  BY DEF SysTrim
<1>2. PICK k \in TrimTop(h) : l \in ReleaseUnusedSegments(k)
  BY <1>1
<1>3. Left(h, k, U)
  BY <1>2, TrimTopLeft
<1>4. Left(k, l, U)
  BY <1>2, <1>3, ReleaseUnusedIs DEF Left
<1>5. Left(h, l, U)
  BY <1>3, <1>4, LeftOn
<1>6. g = l \/ g = Retrimmed(l, Never)
  BY <1>1 DEF Retrimmed
<1>7. Left(l, Retrimmed(l, Never), U)
  <2>1. Never \in Int /\ Sound(l, U)
    BY <1>4, MallocAssumption DEF Never, Left
  <2>2. Became(l, Retrimmed(l, Never), U)
    BY <2>1, TimesLeft
  <2> QED  BY <2>2, BecameLeft
<1>8. CASE g = l
  BY <1>5, <1>8
<1>9. CASE g = Retrimmed(l, Never)
  BY <1>5, <1>7, <1>9, LeftOn
<1> QED  BY <1>6, <1>8, <1>9

(* A chunk in use has a bit that a mapped one has not.                     *)
LEMMA BlockTag ==
  ASSUME NEW h, NEW U, Sound(h, U), NEW p \in U
  PROVE  /\ p \in Useds(h) \cup Direct(h) /\ Tag(h, p) = h.head[p] /\ p \in Heads(h) /\ p \in Int /\ p # NoMem
         /\ p \in Useds(h) => ~ IsMmapped(Tag(h, p)) /\ p \in Useds(h) \ Records(h) /\ p \notin Direct(h)
         /\ p \in Direct(h) => IsMmapped(Tag(h, p)) /\ p \notin Useds(h)
<1>1. Formed(h) /\ Held(h, U)
  BY DEF Sound
<1>2. p \in Useds(h) \cup Direct(h) /\ p \notin Records(h)
  BY <1>1 DEF Held
<1>3. ASSUME p \in Useds(h)
      PROVE Tag(h, p) = h.head[p] /\ p \in Heads(h) /\ p \in Int /\ p # NoMem /\ ~ IsMmapped(Tag(h, p)) /\ p \notin Direct(h)
  <2>1. p \in Chunks(h) /\ h.head[p].c
    BY <1>3 DEF Useds
  <2>2. p \in Int /\ p \in Heads(h) /\ InSeg(h, p) /\ Tag(h, p) = h.head[p]
    BY <1>1, <2>1, ChunkIs
  <2>3. p # NoMem
    BY <1>1, <2>2, InMemory
  <2>4. ~ IsMmapped(Tag(h, p)) /\ p \notin Direct(h)
    BY <2>1, <2>2 DEF IsMmapped, Direct
  <2> QED  BY <2>2, <2>3, <2>4
<1>4. ASSUME p \in Direct(h)
      PROVE Tag(h, p) = h.head[p] /\ p \in Heads(h) /\ p \in Int /\ p # NoMem /\ IsMmapped(Tag(h, p)) /\ p \notin Useds(h)
  <2>1. /\ p \in Nat /\ p \in Heads(h) /\ Tag(h, p) = h.head[p] /\ DirectRight(h, p) /\ p # NoMem /\ p \notin Useds(h)
    BY <1>1, <1>4, DirectIs
  <2>2. IsMmapped(Tag(h, p))
    BY <2>1 DEF IsMmapped, DirectRight
  <2> QED  BY <2>1, <2>2
<1> QED  BY <1>2, <1>3, <1>4

(* A chunk that was merged and, if need be, binned.                        *)
LEMMA FreeBinned ==
  ASSUME NEW h, NEW f, NEW p, NEW U, Merged(h, f, p, U)
  PROVE  /\ f.to # "bin" => Left(h, f.m, U \ {p})
         /\ f.to = "bin" => Left(h, Insert(f.m, f.p, f.size), U \ {p})
<1>1. /\ f.m \in HeapType /\ Formed(f.m) /\ Held(f.m, U \ {p}) /\ Keeps(h, f.m, U \ {p}) /\ SameMap(h, f.m)
      /\ f.to = "bin" => f.p \in Frees(f.m) /\ f.m.head[f.p].size = f.size /\ Shelved(f.m, f.m, {f.p})
      /\ f.to # "bin" => Shelved(f.m, f.m, {})
  BY DEF Merged
<1>2. ASSUME f.to # "bin" PROVE Left(h, f.m, U \ {p})
  <2>1. Became(h, f.m, U \ {p})
    BY <1>1, <1>2 DEF Became, Sound
  <2> QED  BY <2>1, BecameLeft
<1>3. ASSUME f.to = "bin" PROVE Left(h, Insert(f.m, f.p, f.size), U \ {p})
  <2>1. Became(f.m, Insert(f.m, f.p, f.size), U \ {p})
    BY <1>1, <1>3, InsertSound
  <2>2. Sound(Insert(f.m, f.p, f.size), U \ {p}) /\ Keeps(h, Insert(f.m, f.p, f.size), U \ {p}) /\ SameMap(h, Insert(f.m, f.p, f.size))
    BY <1>1, <2>1, BecameOn
  <2>3. Became(h, Insert(f.m, f.p, f.size), U \ {p})
    BY <2>2 DEF Became
  <2> QED  BY <2>3, BecameLeft
<1> QED  BY <1>2, <1>3

(* What free does when the chunk is no mapping.                            *)
FreeMerged(f) ==
  LET g == Insert(f.m, f.p, f.size)
      counted == [g EXCEPT !.checks = @ - 1]
  IN  CASE f.to = "dv"  -> {f.m}
        [] f.to = "top" -> IF f.size > f.m.trim THEN SysTrim(f.m) ELSE {f.m}
        [] f.to = "bin" -> IF IsSmall(f.size) THEN {g}
                           ELSE IF counted.checks = 0 THEN ReleaseUnusedSegments(counted)
                           ELSE {counted}

LEMMA FreeMergedIs ==
  ASSUME NEW f, f.to \in {"dv", "top", "bin"}, NEW r \in FreeMerged(f)
  PROVE  LET g == Insert(f.m, f.p, f.size)
             counted == Rechecked(g, g.checks - 1)
         IN  \/ f.to # "bin" /\ (r = f.m \/ r \in SysTrim(f.m))
             \/ f.to = "bin" /\ (r = g \/ r = counted \/ r \in ReleaseUnusedSegments(counted))
<1> DEFINE g == Insert(f.m, f.p, f.size)
           counted == [g EXCEPT !.checks = @ - 1]
<1>1. counted = Rechecked(g, g.checks - 1)
  BY DEF Rechecked
<1>2. ASSUME f.to = "dv" PROVE r = f.m
  <2>1. FreeMerged(f) = {f.m}
    BY <1>2 DEF FreeMerged
  <2> QED  BY <2>1
<1>3. ASSUME f.to = "top" PROVE r = f.m \/ r \in SysTrim(f.m)
  <2>1. FreeMerged(f) = IF f.size > f.m.trim THEN SysTrim(f.m) ELSE {f.m}
    BY <1>3 DEF FreeMerged
  <2> QED  BY <2>1
<1>4. ASSUME f.to = "bin" PROVE r = g \/ r = counted \/ r \in ReleaseUnusedSegments(counted)
  <2>1. FreeMerged(f) = IF IsSmall(f.size) THEN {g}
                        ELSE IF counted.checks = 0 THEN ReleaseUnusedSegments(counted) ELSE {counted}
    BY <1>4 DEF FreeMerged
  <2> HIDE DEF g, counted
  <2> QED  BY <2>1
<1> QED  BY <1>1, <1>2, <1>3, <1>4

LEMMA FreeMergedLeft ==
  ASSUME NEW h, NEW f, NEW p, NEW U, Merged(h, f, p, U), NEW r \in FreeMerged(f)
  PROVE  Left(h, r, U \ {p})
<1> DEFINE g == Insert(f.m, f.p, f.size)
           counted == Rechecked(g, g.checks - 1)
           V == U \ {p}
<1>1. /\ f.to # "bin" => Left(h, f.m, V)
      /\ f.to = "bin" => Left(h, g, V)
  BY FreeBinned
<1>2. \/ f.to # "bin" /\ (r = f.m \/ r \in SysTrim(f.m))
      \/ f.to = "bin" /\ (r = g \/ r = counted \/ r \in ReleaseUnusedSegments(counted))
  BY FreeMergedIs DEF Merged
<1> HIDE DEF g
<1>3. CASE f.to # "bin" /\ r = f.m
  BY <1>1, <1>3
<1>4. CASE f.to # "bin" /\ r \in SysTrim(f.m)
  <2>1. Left(h, f.m, V) /\ Sound(f.m, V)
    BY <1>1, <1>4 DEF Left
  <2>2. Left(f.m, r, V)
    BY <1>4, <2>1, SysTrimLeft
  <2> QED  BY <2>1, <2>2, LeftOn
<1>5. CASE f.to = "bin" /\ (r = g \/ r = counted \/ r \in ReleaseUnusedSegments(counted))
  <2>1. Left(h, g, V) /\ Sound(g, V)
    BY <1>1, <1>5 DEF Left
  <2>2. g.checks - 1 \in Int
    <3>1. g \in HeapType
      BY <2>1, HeapTypes DEF Sound
    <3> QED  BY <3>1, HeapFields
  <2>3. Left(g, counted, V) /\ Sound(counted, V)
    <3>1. Became(g, counted, V)
      BY <2>1, <2>2, TimesLeft
    <3> QED  BY <3>1, BecameLeft DEF Left
  <2> HIDE DEF counted
  <2>4. Left(h, counted, V)
    BY <2>1, <2>3, LeftOn
  <2>5. CASE r \in ReleaseUnusedSegments(counted)
    <3>1. Left(counted, r, V)
      BY <2>3, <2>5, ReleaseUnusedIs
    <3> QED  BY <2>4, <3>1, LeftOn
  <2> QED  BY <1>5, <2>1, <2>4, <2>5
<1> QED  BY <1>2, <1>3, <1>4, <1>5 DEF V

(* free: the heap stays sound and the other blocks stay as they were.      *)
LEMMA FreeLeft ==
  ASSUME NEW h, NEW U, Sound(h, U), NEW p \in U, NEW g \in FreeChunk(h, p)
  PROVE  Left(h, g, U \ {p})
<1>1. FreeChunk(h, p) = IF IsMmapped(Tag(h, p)) THEN Munmap(h, p - Foot(h, p), Tag(h, p).size + Foot(h, p) + 2)
                        ELSE FreeMerged(Coalesce(h, p, Tag(h, p).size))
  BY DEF FreeChunk, FreeMerged
<1>2. CASE p \in Direct(h)
  <2>1. IsMmapped(Tag(h, p))
    BY <1>2, BlockTag
  <2>2. g \in Munmap(h, p - Foot(h, p), Tag(h, p).size + Foot(h, p) + 2)
    BY <1>1, <2>1
  <2> QED  BY <1>2, <2>2, MunmapLeft
<1>3. CASE p \in Useds(h)
  <2>1. ~ IsMmapped(Tag(h, p)) /\ Tag(h, p) = h.head[p] /\ p \in Useds(h) \ Records(h)
    BY <1>3, BlockTag
  <2>2. g \in FreeMerged(Coalesce(h, p, h.head[p].size))
    BY <1>1, <2>1
  <2>3. Merging(h, p, U)
    BY <2>1 DEF Merging, Sound
  <2>4. Merged(h, Coalesce(h, p, h.head[p].size), p, U)
    BY <2>3, CoalesceSound
  <2> QED  BY <2>2, <2>4, FreeMergedLeft
<1> QED  BY <1>2, <1>3, BlockTag

-----------------------------------------------------------------------------
(* sys_alloc: the segment of the top chunk grows.                          *)

Grown(h, a, n) == Refounded(h, Mapped(h, a, n), h.topsize + n, h.segs[1].size + n)

LEMMA GrownIs ==
  ASSUME NEW h, Formed(h), NEW a, NEW n, Fresh(h, a, n), a = EndOf(h.segs[1])
  PROVE  LET g == Grown(h, a, n)
         IN  TopMoved(h, g, h.topsize + n) /\ SameShelf(h, g) /\ g.mapped = h.mapped \cup Pages(a, n)
             /\ g.footprint = h.footprint + n
<1> DEFINE k == Mapped(h, a, n)
           t == h.topsize + n
           s == h.segs[1].size + n
           g == Grown(h, a, n)
<1>1. Paged(a, n) /\ n \in Nat /\ n # 0 /\ a \in Nat
  BY DEF Fresh, Paged
<1>2. h \in HeapType /\ 1 \in DOMAIN h.segs /\ h.top \in Int /\ h.topsize \in Int /\ TopFoot = 5 /\ h.topsize > 0
      /\ DOMAIN h.segs = 1 .. Len(h.segs)
  BY HeapTypes, ConstantTypes
<1>3. h.segs[1].base \in Nat /\ h.segs[1].size \in Nat /\ a = h.segs[1].base + h.segs[1].size
  <2>1. h.segs[1].base \in Nat /\ h.segs[1].size \in Nat
    BY <1>2, SegFields
  <2> QED  BY <2>1 DEF EndOf
<1>4. a = h.top + h.topsize + 5
  BY <1>2, HeapTypes DEF TopRight, Mark
<1>5. MappedTo(h, k, a, n)
  BY <1>1, <1>2, MappedIs
<1> HIDE DEF k
<1>6. /\ k \in HeapType /\ SameTop(h, k) /\ k.segs = h.segs /\ SameShelf(h, k)
      /\ k.mapped = h.mapped \cup Pages(a, n) /\ k.footprint = h.footprint + n
      /\ Heads(k) = Heads(h) /\ Feet(k) = Feet(h) /\ k.head = h.head /\ k.foot = h.foot
  BY <1>5 DEF MappedTo, SameTags, Heads, Feet
<1>7. t \in Nat \ {0} /\ WholePages(s)
  <2>1. t \in Nat \ {0}
    BY <1>1, <1>2
  <2>2. WholePages(n) /\ WholePages(h.segs[1].size)
    BY <1>1, <1>2, <1>3, HeapTypes DEF Paged, WholePages, SegsRight
  <2> QED  BY <2>1, <2>2, PageSums
<1>8. h.segs[1].base + s = h.top + t + TopFoot
  <2>1. h.segs[1].base + s = a + n
    BY <1>1, <1>3
  <2>2. h.top \in Int /\ h.topsize \in Int /\ TopFoot = 5 /\ a = h.top + h.topsize + 5 /\ n \in Nat
    BY <1>1, <1>2, <1>4
  <2>3. h.top + t + TopFoot = a + n
    BY <2>2
  <2> QED  BY <2>1, <2>3
<1>9. ASSUME NEW x \in Int, Wide(h, s, x)
      PROVE  /\ (~ TopSpan(h.top, t, x) => x \notin Heads(k))
             /\ x \notin Feet(h) /\ \A j \in 2 .. Len(h.segs) : ~ Holds(h.segs[j], x)
  <2>1. h.top <= x /\ x < a + n
    BY <1>1, <1>3, <1>9 DEF Wide, EndOf
  <2>2. TopSpan(h.top, t, x)
    BY <1>1, <1>2, <1>4, <2>1 DEF TopSpan
  <2>3. CASE x < a
    BY <2>1, <2>2, <2>3, OverheadBare
  <2>4. CASE ~ (x < a)
    <3>1. InMem(a, n, x)
      BY <1>1, <2>1, <2>4 DEF InMem
    <3>2. x \notin Feet(h) /\ ~ InSeg(h, x)
      BY <3>1, FreshBare
    <3> QED  BY <1>2, <2>2, <3>2 DEF InSeg
  <2> QED  BY <2>3, <2>4
<1>10. \A x \in Int : FootAt(h, k, x) /\ SameAt(h, k, x)
  BY <1>6 DEF FootAt, SameAt
<1>11. Ready(h, k, t, s)
  BY <1>6, <1>7, <1>8, <1>9, <1>10 DEF Ready
<1>12. TopMoved(h, g, t) /\ SameShelf(k, g) /\ g.mapped = k.mapped /\ g.footprint = k.footprint
  BY <1>11, TopMovedIs DEF Grown, k
<1> HIDE DEF g
<1>13. SameShelf(h, g)
  BY <1>6, <1>12 DEF SameShelf
<1> QED  BY <1>6, <1>12, <1>13 DEF g

LEMMA GrownGain ==
  ASSUME NEW h, Formed(h), NEW a, NEW n, Fresh(h, a, n), a = EndOf(h.segs[1]), NEW g, TopMoved(h, g, h.topsize + n),
         g.mapped = h.mapped \cup Pages(a, n)
  PROVE  Gain(h, g, a, n)
<1> DEFINE b == h.segs[1].base
<1>1. n \in Nat /\ a \in Nat
  BY DEF Fresh, Paged
<1>2. h \in HeapType /\ 1 \in DOMAIN h.segs /\ h.top \in Int /\ h.topsize \in Int /\ TopFoot = 5 /\ h.topsize > 0
      /\ DOMAIN h.segs = 1 .. Len(h.segs) /\ Len(h.segs) \in Nat
  BY HeapTypes, ConstantTypes
<1>3. b \in Int /\ h.segs[1].size \in Int /\ a = b + h.segs[1].size
  <2>1. h.segs[1].base \in Nat /\ h.segs[1].size \in Nat
    BY <1>2, SegFields
  <2> QED  BY <2>1 DEF EndOf
<1>4. a = h.top + h.topsize + 5
  BY <1>2, HeapTypes DEF TopRight, Mark
<1>5. EndOf(g.segs[1]) = a + n
  <2>1. EndOf(g.segs[1]) = h.top + (h.topsize + n) + TopFoot
    BY DEF TopMoved
  <2> QED  BY <1>1, <1>2, <1>4, <2>1
<1>6. g.segs[1].base = b /\ DOMAIN g.segs = DOMAIN h.segs /\ (\A j \in 2 .. Len(h.segs) : g.segs[j] = h.segs[j])
  <2>1. g \in HeapType /\ Len(g.segs) = Len(h.segs)
    BY DEF TopMoved
  <2>2. DOMAIN g.segs = 1 .. Len(g.segs)
    BY <2>1, HeapFields
  <2> QED  BY <1>2, <2>1, <2>2 DEF TopMoved
<1>7. b <= h.top
  BY TopSegment DEF Holds
<1>8. \A x \in Int : (Holds(h.segs[1], x) => b <= x /\ x < a) /\ (b <= x /\ x < a => Holds(h.segs[1], x))
  BY <1>3 DEF Holds
<1> HIDE DEF b
<1>9. \A x \in Int : (Holds(g.segs[1], x) => b <= x /\ x < a + n) /\ (b <= x /\ x < a + n => Holds(g.segs[1], x))
  BY <1>5, <1>6 DEF Holds, EndOf
<1>10. ASSUME NEW x \in Int
       PROVE  (InSeg(g, x) => InSeg(h, x) \/ InMem(a, n, x)) /\ (InSeg(h, x) => InSeg(g, x)) /\ (InMem(a, n, x) => InSeg(g, x))
  <2>1. ASSUME InSeg(g, x), ~ InMem(a, n, x) PROVE InSeg(h, x)
    <3>1. PICK j \in DOMAIN h.segs : Holds(g.segs[j], x)
      BY <1>6, <2>1 DEF InSeg
    <3>2. CASE j = 1
      <4>1. b <= x /\ x < a
        BY <1>1, <1>9, <2>1, <3>1, <3>2 DEF InMem
      <4> QED  BY <1>2, <1>8, <4>1 DEF InSeg
    <3>3. CASE j # 1
      <4>1. j \in 2 .. Len(h.segs)
        BY <1>2, <3>3
      <4> QED  BY <1>6, <3>1, <4>1 DEF InSeg
    <3> QED  BY <3>2, <3>3
  <2>2. ASSUME InSeg(h, x) PROVE InSeg(g, x)
    <3>1. PICK j \in DOMAIN h.segs : Holds(h.segs[j], x)
      BY <2>2 DEF InSeg
    <3>2. CASE j = 1
      <4>1. b <= x /\ x < a + n
        BY <1>1, <1>8, <3>1, <3>2
      <4> QED  BY <1>2, <1>6, <1>9, <4>1 DEF InSeg
    <3>3. CASE j # 1
      <4>1. j \in 2 .. Len(h.segs)
        BY <1>2, <3>3
      <4> QED  BY <1>6, <3>1, <4>1 DEF InSeg
    <3> QED  BY <3>2, <3>3
  <2>3. ASSUME InMem(a, n, x) PROVE InSeg(g, x)
    <3>1. b <= x /\ x < a + n
      <4>1. a <= x /\ x < a + n
        BY <2>3 DEF InMem
      <4>2. b <= a
        <5>1. b \in Int
          BY <1>3
        <5> QED  BY <1>2, <1>4, <1>7, <5>1
      <4>3. b \in Int
        BY <1>3
      <4> QED  BY <1>1, <4>1, <4>2, <4>3
    <3> QED  BY <1>2, <1>6, <1>9, <3>1 DEF InSeg
  <2> QED  BY <2>1, <2>2, <2>3
<1>11. ASSUME NEW x \in Int, ~ InSeg(g, x) PROVE SameAt(h, g, x)
  <2>1. ~ Zone(h, g, x)
    <3>1. SUFFICES ASSUME Zone(h, g, x) PROVE FALSE
      OBVIOUS
    <3>2. h.top <= x /\ x < a + n
      BY <1>1, <1>5, <3>1 DEF Zone
    <3>3. b <= x /\ b \in Int
      BY <1>2, <1>3, <1>7, <3>2
    <3>4. Holds(g.segs[1], x)
      BY <1>9, <3>2, <3>3
    <3> QED  BY <1>2, <1>6, <1>11, <3>4 DEF InSeg
  <2> QED  BY <2>1 DEF TopMoved
<1> QED  BY <1>10, <1>11 DEF Gain

LEMMA GivenOn ==
  ASSUME NEW h, NEW g, NEW U, Keeps(h, g, U), NEW r, NEW nb, Given(g, r, U, nb)
  PROVE  Given(h, r, U, nb)
<1>1. Keeps(h, r.m, U)
  BY KeepsOn DEF Given
<1> QED  BY <1>1 DEF Given

(* A block, and a footprint that is still exact.                           *)
Served(h, r, U, nb) == Given(h, r, U, nb) /\ (Counted(h) => Counted(r.m))

LEMMA ServedOn ==
  ASSUME NEW h, NEW g, NEW U, Keeps(h, g, U), Counted(h) => Counted(g), NEW r, NEW nb, Given(g, r, U, nb), SameMap(g, r.m)
  PROVE  Served(h, r, U, nb)
<1>1. Given(h, r, U, nb)
  BY GivenOn
<1>2. Counted(g) => Counted(r.m)
  BY DEF Counted, SameMap
<1> QED  BY <1>1, <1>2 DEF Served

LEMMA AppendServed ==
  ASSUME NEW h, NEW U, Sound(h, U), NEW a, NEW n, Fresh(h, a, n), a = EndOf(h.segs[1]),
         NEW nb \in Nat, nb >= MinChunk, nb < n
  PROVE  Served(h, SplitTop(Grown(h, a, n), nb), U, nb)
<1> DEFINE g == Grown(h, a, n)
           r == SplitTop(g, nb)
<1>1. Formed(h) /\ h \in HeapType /\ h.topsize \in Nat
  BY HeapTypes, TopIs DEF Sound
<1>2. TopMoved(h, g, h.topsize + n) /\ SameShelf(h, g) /\ g.mapped = h.mapped \cup Pages(a, n) /\ g.footprint = h.footprint + n
  BY <1>1, GrownIs
<1> HIDE DEF g
<1>3. Gain(h, g, a, n) /\ g \in HeapType
  BY <1>1, <1>2, GrownGain DEF TopMoved
<1>4. Direct(g) = Direct(h) /\ DirectsRight(g) /\ \A d \in Direct(h) : g.head[d] = h.head[d]
  BY <1>1, <1>3, GainDirects
<1>5. Sound(g, U) /\ Keeps(h, g, U)
  BY <1>2, <1>4, TopMovedSound
<1>6. Counted(h) => Counted(g)
  BY <1>1, <1>2, GainCounted
<1>7. nb < g.topsize
  <2>1. g.topsize = h.topsize + n /\ n \in Nat
    BY <1>2 DEF TopMoved, Fresh, Paged
  <2> QED  BY <1>1, <2>1
<1>8. Given(g, r, U, nb) /\ SameMap(g, r.m)
  BY <1>5, <1>7, SplitTopGiven
<1> HIDE DEF r
<1>9. Served(h, r, U, nb)
  BY <1>5, <1>6, <1>8, ServedOn
<1> QED  BY <1>9 DEF r, g

-----------------------------------------------------------------------------
(* prepend_alloc: a segment grows at its front.  First as if what it grows *)
(* by were one chunk in use.                                               *)

Fronted(h, g, i, a, n) ==
  /\ g \in HeapType /\ SameTop(h, g) /\ SameShelf(h, g)
  /\ DOMAIN g.segs = DOMAIN h.segs /\ \A j \in DOMAIN h.segs : j # i => g.segs[j] = h.segs[j]
  /\ g.segs[i].base = a /\ g.segs[i].size = h.segs[i].size + n /\ g.segs[i].rec = h.segs[i].rec
  /\ g.mapped = h.mapped \cup Pages(a, n) /\ g.footprint = h.footprint + n
  /\ a \in Heads(g) /\ g.head[a] = InuseTag(n)
  /\ \A x \in Int : FootAt(h, g, x) /\ (x # a => SameAt(h, g, x))

Fronting(h, i, a, n) ==
  /\ Formed(h) /\ Fresh(h, a, n) /\ n >= MinChunk /\ i \in DOMAIN h.segs /\ h.segs[i].base = a + n

Rebased(h, i, a, n) == [h EXCEPT !.segs[i].base = a, !.segs[i].size = @ + n]

Based(h, i, a) == [h EXCEPT !.segs[i].base = a]

Sized(h, i, n) == [h EXCEPT !.segs[i].size = n]

LEMMA RebasedTwice ==
  ASSUME NEW h \in HeapType, NEW i \in DOMAIN h.segs, NEW a, NEW n
  PROVE  Rebased(h, i, a, n) = Sized(Based(h, i, a), i, h.segs[i].size + n)
BY DEF Rebased, Based, Sized, HeapType

LEMMA BasedIs ==
  ASSUME NEW h \in HeapType, NEW i \in DOMAIN h.segs, NEW a \in Nat
  PROVE  LET e == [base |-> a, size |-> h.segs[i].size, rec |-> h.segs[i].rec]
         IN  Based(h, i, a) = Resegmented(h, [h.segs EXCEPT ![i] = e])
<1> DEFINE e == [base |-> a, size |-> h.segs[i].size, rec |-> h.segs[i].rec]
<1>1. h.segs[i] \in SegType
  BY HeapFields
<1>2. [h.segs[i] EXCEPT !.base = a] = e
  BY <1>1 DEF SegType
<1> HIDE DEF e
<1>3. Based(h, i, a) = [h EXCEPT !.segs = [h.segs EXCEPT ![i] = [h.segs[i] EXCEPT !.base = a]]]
  BY DEF Based
<1> QED  BY <1>2, <1>3 DEF Resegmented, e

LEMMA SizedIs ==
  ASSUME NEW h \in HeapType, NEW i \in DOMAIN h.segs, NEW n \in Nat
  PROVE  LET e == [base |-> h.segs[i].base, size |-> n, rec |-> h.segs[i].rec]
         IN  Sized(h, i, n) = Resegmented(h, [h.segs EXCEPT ![i] = e])
<1> DEFINE e == [base |-> h.segs[i].base, size |-> n, rec |-> h.segs[i].rec]
<1>1. h.segs[i] \in SegType
  BY HeapFields
<1>2. [h.segs[i] EXCEPT !.size = n] = e
  BY <1>1 DEF SegType
<1> HIDE DEF e
<1>3. Sized(h, i, n) = [h EXCEPT !.segs = [h.segs EXCEPT ![i] = [h.segs[i] EXCEPT !.size = n]]]
  BY DEF Sized
<1> QED  BY <1>2, <1>3 DEF Resegmented, e

(* One segment of a heap is replaced.                                      *)
LEMMA SegReplaced ==
  ASSUME NEW h \in HeapType, NEW i \in DOMAIN h.segs, NEW e \in SegType
  PROVE  LET g == Resegmented(h, [h.segs EXCEPT ![i] = e])
         IN  /\ g \in HeapType /\ SameTags(h, g) /\ SameTop(h, g) /\ SameShelf(h, g) /\ g.mapped = h.mapped
             /\ g.footprint = h.footprint /\ DOMAIN g.segs = DOMAIN h.segs /\ g.segs[i] = e
             /\ \A j \in DOMAIN h.segs : j # i => g.segs[j] = h.segs[j]
<1> DEFINE s == [h.segs EXCEPT ![i] = e]
<1>1. h.segs \in Seq(SegType)
  BY HeapFields
<1>2. s \in Seq(SegType) /\ DOMAIN s = DOMAIN h.segs /\ s[i] = e /\ \A j \in DOMAIN h.segs : j # i => s[j] = h.segs[j]
  BY <1>1
<1> HIDE DEF s
<1>3. LET g == Resegmented(h, s)
      IN  /\ g \in HeapType /\ SameTags(h, g) /\ SameTop(h, g) /\ SameShelf(h, g)
          /\ g.segs = s /\ g.mapped = h.mapped /\ g.footprint = h.footprint
  BY <1>2, NewSegs
<1>4. LET g == Resegmented(h, s)
      IN  /\ g \in HeapType /\ SameTags(h, g) /\ SameTop(h, g) /\ SameShelf(h, g) /\ g.mapped = h.mapped
          /\ g.footprint = h.footprint /\ DOMAIN g.segs = DOMAIN h.segs /\ g.segs[i] = e
          /\ \A j \in DOMAIN h.segs : j # i => g.segs[j] = h.segs[j]
  BY <1>2, <1>3
<1> QED  BY <1>4 DEF s

(* The heap with more memory in segment i.                                 *)
FrontOpen(h, k, i, a, n) ==
  /\ k \in HeapType /\ SameTop(h, k) /\ SameShelf(h, k) /\ SameTags(h, k)
  /\ DOMAIN k.segs = DOMAIN h.segs /\ \A j \in DOMAIN h.segs : j # i => k.segs[j] = h.segs[j]
  /\ k.segs[i].base = a /\ k.segs[i].size = h.segs[i].size + n /\ k.segs[i].rec = h.segs[i].rec
  /\ k.mapped = h.mapped \cup Pages(a, n) /\ k.footprint = h.footprint + n

LEMMA FrontOpenIs ==
  ASSUME NEW h, NEW i, NEW a, NEW n, Fronting(h, i, a, n)
  PROVE  FrontOpen(h, Rebased(Mapped(h, a, n), i, a, n), i, a, n)
<1> DEFINE k == Mapped(h, a, n)
           l == Based(k, i, a)
           z == k.segs[i].size + n
           g == Sized(l, i, z)
<1>1. h \in HeapType /\ i \in DOMAIN h.segs
  BY HeapTypes DEF Fronting
<1>2. Paged(a, n) /\ a \in Nat /\ n \in Nat
  BY DEF Fronting, Fresh, Paged
<1>3. MappedTo(h, k, a, n)
  BY <1>1, <1>2, MappedIs
<1> HIDE DEF k
<1>4. k \in HeapType /\ k.segs = h.segs /\ SameTop(h, k) /\ SameShelf(h, k) /\ SameTags(h, k)
      /\ k.mapped = h.mapped \cup Pages(a, n) /\ k.footprint = h.footprint + n
  BY <1>3 DEF MappedTo
<1>5. i \in DOMAIN k.segs /\ k.segs[i] \in SegType /\ z \in Nat
  <2>1. i \in DOMAIN k.segs
    BY <1>1, <1>4
  <2>2. k.segs[i] \in SegType
    BY <1>4, <2>1, HeapFields
  <2> QED  BY <1>2, <2>1, <2>2 DEF SegType
<1>6. Rebased(k, i, a, n) = g
  BY <1>4, <1>5, RebasedTwice
<1> HIDE DEF z
<1> DEFINE e == [base |-> a, size |-> k.segs[i].size, rec |-> k.segs[i].rec]
<1>7. e \in SegType /\ e.base = a /\ e.size = k.segs[i].size /\ e.rec = k.segs[i].rec
  BY <1>2, <1>5 DEF SegType
<1>8. l = Resegmented(k, [k.segs EXCEPT ![i] = e])
  BY <1>2, <1>4, <1>5, BasedIs
<1> HIDE DEF e, l
<1>9. /\ l \in HeapType /\ SameTags(k, l) /\ SameTop(k, l) /\ SameShelf(k, l) /\ l.mapped = k.mapped
      /\ l.footprint = k.footprint /\ DOMAIN l.segs = DOMAIN k.segs /\ l.segs[i] = e
      /\ \A j \in DOMAIN k.segs : j # i => l.segs[j] = k.segs[j]
  BY <1>4, <1>5, <1>7, <1>8, SegReplaced
<1>10. i \in DOMAIN l.segs /\ l.segs[i] \in SegType
  BY <1>5, <1>7, <1>9
<1> DEFINE d == [base |-> l.segs[i].base, size |-> z, rec |-> l.segs[i].rec]
<1>11. d \in SegType /\ d.base = a /\ d.size = z /\ d.rec = k.segs[i].rec
  BY <1>5, <1>7, <1>9, <1>10 DEF SegType
<1>12. g = Resegmented(l, [l.segs EXCEPT ![i] = d])
  BY <1>5, <1>9, <1>10, SizedIs
<1> HIDE DEF d, g
<1>13. /\ g \in HeapType /\ SameTags(l, g) /\ SameTop(l, g) /\ SameShelf(l, g) /\ g.mapped = l.mapped
       /\ g.footprint = l.footprint /\ DOMAIN g.segs = DOMAIN l.segs /\ g.segs[i] = d
       /\ \A j \in DOMAIN l.segs : j # i => g.segs[j] = l.segs[j]
  BY <1>9, <1>10, <1>11, <1>12, SegReplaced
<1>14. SameTags(h, g) /\ SameTop(h, g) /\ SameShelf(h, g)
  BY <1>4, <1>9, <1>13 DEF SameTags, SameTop, SameShelf
<1>15. DOMAIN g.segs = DOMAIN h.segs /\ \A j \in DOMAIN h.segs : j # i => g.segs[j] = h.segs[j]
  BY <1>4, <1>9, <1>13
<1>16. g.segs[i].base = a /\ g.segs[i].size = h.segs[i].size + n /\ g.segs[i].rec = h.segs[i].rec
  <2>1. z = h.segs[i].size + n
    BY <1>4 DEF z
  <2> QED  BY <1>4, <1>11, <1>13, <2>1
<1>17. g.mapped = h.mapped \cup Pages(a, n) /\ g.footprint = h.footprint + n
  BY <1>4, <1>9, <1>13
<1>18. FrontOpen(h, g, i, a, n)
  BY <1>13, <1>14, <1>15, <1>16, <1>17 DEF FrontOpen
<1> QED  BY <1>6, <1>18 DEF k

LEMMA FrontedIs ==
  ASSUME NEW h, NEW i, NEW a, NEW n, Fronting(h, i, a, n), NEW k, FrontOpen(h, k, i, a, n)
  PROVE  Fronted(h, Headed(k, a, InuseTag(n)), i, a, n)
<1> DEFINE g == Headed(k, a, InuseTag(n))
<1>1. a \in Int /\ n \in Nat /\ k \in HeapType
  BY DEF Fronting, Fresh, Paged, FrontOpen
<1>2. InuseTag(n) \in TagType
  BY <1>1, TagsTyped
<1>3. HeadIs(k, g, a, InuseTag(n))
  BY <1>1, <1>2, HeadPut
<1> HIDE DEF g
<1>4. g \in HeapType /\ SameTop(k, g) /\ SameShelf(k, g) /\ SameMap(k, g)
      /\ Heads(g) = Heads(k) \cup {a} /\ g.head[a] = InuseTag(n) /\ (\A b \in Heads(k) \ {a} : g.head[b] = k.head[b])
      /\ g.foot = k.foot
  BY <1>3 DEF HeadIs, OnlyTags
<1>5. SameTop(h, g) /\ SameShelf(h, g) /\ g.segs = k.segs /\ g.mapped = k.mapped /\ g.footprint = k.footprint
  BY <1>4 DEF FrontOpen, SameTop, SameShelf, SameMap
<1>6. Heads(k) = Heads(h) /\ k.head = h.head /\ Feet(g) = Feet(h) /\ g.foot = h.foot
  BY <1>4 DEF FrontOpen, SameTags, Heads, Feet
<1>7. \A x \in Int : FootAt(h, g, x) /\ (x # a => SameAt(h, g, x))
  BY <1>4, <1>6 DEF FootAt, SameAt
<1>8. a \in Heads(g)
  BY <1>4
<1>9. Fronted(h, g, i, a, n)
  BY <1>4, <1>5, <1>7, <1>8 DEF Fronted, FrontOpen
<1> QED  BY <1>9 DEF g

FrontAt(h, i, a, n) ==
  /\ a \in Nat /\ n \in Nat /\ n > 0 /\ a + n \in Int /\ n >= 2
  /\ h \in HeapType /\ Layout(h) /\ Ends(h) /\ TopRight(h) /\ SegsRight(h) /\ 1 \in DOMAIN h.segs
  /\ DOMAIN h.segs = 1 .. Len(h.segs)
  /\ i \in DOMAIN h.segs /\ h.segs[i].base = a + n /\ h.segs[i].size \in Nat /\ h.segs[i].size > 0
  /\ a + n \in Chunks(h) /\ a + n \in Heads(h) /\ h.head[a + n].p /\ a + n \notin Feet(h)
  /\ \A x \in Int : InMem(a, n, x) => x \notin Heads(h) /\ x \notin Feet(h) /\ ~ InSeg(h, x)
  /\ \A x \in Int : (Holds(h.segs[i], x) => a + n <= x) /\ (Holds(h.segs[i], x) => ~ InMem(a, n, x))
  /\ InMem(a, n, a)

LEMMA FrontAtIs ==
  ASSUME NEW h, NEW i, NEW a, NEW n, Fronting(h, i, a, n)
  PROVE  FrontAt(h, i, a, n)
<1>1. /\ h \in HeapType /\ Layout(h) /\ Ends(h) /\ TopRight(h) /\ SegsRight(h) /\ 1 \in DOMAIN h.segs
      /\ DOMAIN h.segs = 1 .. Len(h.segs) /\ Formed(h)
  BY HeapTypes DEF Fronting
<1>2. a \in Nat /\ n \in Nat /\ n > 0 /\ a + n \in Int /\ n >= 2 /\ Fresh(h, a, n)
  BY ConstantTypes DEF Fronting, Fresh, Paged
<1>3. i \in DOMAIN h.segs /\ h.segs[i].base = a + n
  BY DEF Fronting
<1>4. h.segs[i].size \in Nat /\ h.segs[i].size > 0 /\ a + n \in Chunks(h)
  BY <1>1, <1>3, SegFields DEF SegsRight
<1>5. a + n \in Heads(h) /\ InSeg(h, a + n)
  BY <1>1, <1>4, ChunkIs
<1>6. h.head[a + n].p
  <2>1. SUFFICES ASSUME ~ h.head[a + n].p PROVE FALSE
    OBVIOUS
  <2> DEFINE f == (a + n) - h.foot[a + n]
  <2>2. f \in Frees(h) /\ Behind(h, f) = a + n
    BY <1>1, <1>4, <2>1, BeforeIs
  <2> HIDE DEF f
  <2>3. f \in Int /\ f < a + n /\ Together(h, f, a + n)
    <3>1. f \in Chunks(h)
      BY <2>2 DEF Frees
    <3> QED  BY <1>1, <2>2, <3>1, ChunkIs
  <2>4. Holds(h.segs[i], a + n)
    BY <1>2, <1>3, <1>4 DEF Holds
  <2>5. Holds(h.segs[i], f)
    BY <1>3, <2>3, <2>4 DEF Together
  <2> QED  BY <1>2, <1>3, <2>3, <2>5 DEF Holds
<1>7. a + n \notin Feet(h)
  BY <1>1, <1>6, FootIs
<1>8. \A x \in Int : InMem(a, n, x) => x \notin Heads(h) /\ x \notin Feet(h) /\ ~ InSeg(h, x)
  BY <1>1, <1>2, FreshBare
<1>9. \A x \in Int : (Holds(h.segs[i], x) => a + n <= x) /\ (Holds(h.segs[i], x) => ~ InMem(a, n, x))
  BY <1>2, <1>3 DEF Holds, InMem
<1>10. InMem(a, n, a)
  BY <1>2 DEF InMem
<1> QED  BY <1>1, <1>2, <1>3, <1>4, <1>5, <1>6, <1>7, <1>8, <1>9, <1>10 DEF FrontAt

(* Where the segments are.                                                 *)
FrontSegs(h, g, i, a, n) ==
  /\ \A x \in Int, j \in DOMAIN h.segs : ~ InMem(a, n, x) => (Holds(g.segs[j], x) => Holds(h.segs[j], x)) /\ (Holds(h.segs[j], x) => Holds(g.segs[j], x))
  /\ \A x \in Int, j \in DOMAIN h.segs : InMem(a, n, x) => (Holds(g.segs[j], x) => j = i) /\ (j = i => Holds(g.segs[j], x))
  /\ \A x \in Int, j \in DOMAIN h.segs : Holds(h.segs[j], x) => Holds(g.segs[j], x)
  /\ \A x \in Int : (InSeg(g, x) => InSeg(h, x) \/ InMem(a, n, x)) /\ (InSeg(h, x) => InSeg(g, x)) /\ (InMem(a, n, x) => InSeg(g, x))
  /\ \A j \in DOMAIN h.segs : EndOf(g.segs[j]) = EndOf(h.segs[j]) /\ g.segs[j].rec = h.segs[j].rec
  /\ Records(g) = Records(h) /\ Mark(g) = Mark(h) /\ g.top = h.top

LEMMA FrontSegsIs ==
  ASSUME NEW h, NEW i, NEW a, NEW n, FrontAt(h, i, a, n), NEW g, Fronted(h, g, i, a, n)
  PROVE  FrontSegs(h, g, i, a, n)
<1>1. /\ a \in Nat /\ n \in Nat /\ i \in DOMAIN h.segs /\ h.segs[i].base = a + n /\ h.segs[i].size \in Nat
      /\ \A x \in Int : InMem(a, n, x) => ~ InSeg(h, x)
  BY DEF FrontAt
<1>2. /\ DOMAIN g.segs = DOMAIN h.segs /\ (\A j \in DOMAIN h.segs : j # i => g.segs[j] = h.segs[j])
      /\ g.segs[i].base = a /\ g.segs[i].size = h.segs[i].size + n /\ g.segs[i].rec = h.segs[i].rec
      /\ SameTop(h, g)
  BY DEF Fronted
<1>3. ASSUME NEW x \in Int PROVE (Holds(g.segs[i], x) => Holds(h.segs[i], x) \/ InMem(a, n, x)) /\ (Holds(h.segs[i], x) => Holds(g.segs[i], x))
                                  /\ (InMem(a, n, x) => Holds(g.segs[i], x))
  BY <1>1, <1>2 DEF Holds, InMem
<1>4. \A x \in Int, j \in DOMAIN h.segs : ~ InMem(a, n, x) => (Holds(g.segs[j], x) => Holds(h.segs[j], x)) /\ (Holds(h.segs[j], x) => Holds(g.segs[j], x))
  BY <1>2, <1>3
<1>5. \A x \in Int, j \in DOMAIN h.segs : InMem(a, n, x) => (Holds(g.segs[j], x) => j = i) /\ (j = i => Holds(g.segs[j], x))
  BY <1>1, <1>2, <1>3 DEF InSeg
<1>6. \A x \in Int, j \in DOMAIN h.segs : Holds(h.segs[j], x) => Holds(g.segs[j], x)
  BY <1>2, <1>3
<1>7. \A x \in Int : (InSeg(g, x) => InSeg(h, x) \/ InMem(a, n, x)) /\ (InSeg(h, x) => InSeg(g, x)) /\ (InMem(a, n, x) => InSeg(g, x))
  BY <1>1, <1>2, <1>3 DEF InSeg
<1>8. ASSUME NEW j \in DOMAIN h.segs PROVE EndOf(g.segs[j]) = EndOf(h.segs[j]) /\ g.segs[j].rec = h.segs[j].rec
  <2>1. CASE j = i
    <3>1. a + (h.segs[i].size + n) = (a + n) + h.segs[i].size
      BY <1>1
    <3> QED  BY <1>1, <1>2, <2>1, <3>1 DEF EndOf
  <2> QED  BY <1>2, <2>1
<1>9. Records(g) = Records(h)
  BY <1>2, <1>8 DEF Records
<1>10. Mark(g) = Mark(h) /\ g.top = h.top
  BY <1>2 DEF Mark, SameTop
<1> QED  BY <1>4, <1>5, <1>6, <1>7, <1>8, <1>9, <1>10 DEF FrontSegs

(* The chunks of both.                                                     *)
FrontChunks(h, g, a, n) ==
  /\ Chunks(g) = Chunks(h) \cup {a} /\ a \notin Chunks(h)
  /\ Frees(g) = Frees(h) /\ Useds(g) = Useds(h) \cup {a} /\ a \notin Useds(h)
  /\ \A b \in Chunks(h) : g.head[b] = h.head[b] /\ b # a
  /\ a # g.top /\ a \notin Heads(h)
  /\ \A x \in Heads(h) : x \in Heads(g) /\ x # a /\ g.head[x] = h.head[x]
  /\ \A x \in Heads(g) : x = a \/ x \in Heads(h)

LEMMA FrontChunksIs ==
  ASSUME NEW h, NEW i, NEW a, NEW n, FrontAt(h, i, a, n), NEW g, Fronted(h, g, i, a, n)
  PROVE  FrontChunks(h, g, a, n)
<1>1. /\ h \in HeapType /\ a \in Int /\ n > 0 /\ n \in Int /\ InMem(a, n, a) /\ a \notin Heads(h) /\ TopRight(h)
      /\ \A x \in Int : InMem(a, n, x) => x \notin Heads(h)
  BY DEF FrontAt
<1>2. g \in HeapType /\ a \in Heads(g) /\ g.head[a] = InuseTag(n) /\ \A x \in Int : x # a => SameAt(h, g, x)
  BY DEF Fronted
<1>3. FrontSegs(h, g, i, a, n)
  BY FrontSegsIs
<1>4. Heads(h) \subseteq Int /\ Heads(g) \subseteq Int
  BY <1>1, <1>2, HeapFields
<1>5. \A x \in Heads(h) : x \in Heads(g) /\ x # a /\ g.head[x] = h.head[x]
  BY <1>1, <1>2, <1>4 DEF SameAt
<1>6. \A x \in Heads(g) : x = a \/ x \in Heads(h)
  BY <1>2, <1>4 DEF SameAt
<1>7. \A x \in Heads(h) : (InSeg(g, x) => InSeg(h, x)) /\ (InSeg(h, x) => InSeg(g, x))
  BY <1>1, <1>3, <1>4 DEF FrontSegs
<1>8. h.top \in Heads(h) /\ Mark(h) \in Heads(h)
  BY <1>1 DEF TopRight, Chunks
<1>9. Mark(g) = Mark(h) /\ g.top = h.top /\ InSeg(g, a)
  BY <1>1, <1>3 DEF FrontSegs
<1>10. a \in Chunks(g)
  <2>1. g.head[a].size # 0 /\ a # Mark(g)
    BY <1>1, <1>2, <1>5, <1>8, <1>9, TagsTyped DEF InuseTag
  <2> QED  BY <1>2, <1>9, <2>1 DEF Chunks
<1>11. Chunks(g) = Chunks(h) \cup {a}
  BY <1>5, <1>6, <1>7, <1>9, <1>10 DEF Chunks
<1>12. a \notin Chunks(h) /\ a # g.top /\ \A b \in Chunks(h) : g.head[b] = h.head[b] /\ b # a
  BY <1>1, <1>5, <1>8, <1>9 DEF Chunks
<1>13. g.head[a].c
  BY <1>2 DEF InuseTag
<1>14. Frees(g) = Frees(h) /\ Useds(g) = Useds(h) \cup {a} /\ a \notin Useds(h)
  BY <1>9, <1>11, <1>12, <1>13 DEF Frees, Useds
<1> QED  BY <1>1, <1>5, <1>6, <1>11, <1>12, <1>14 DEF FrontChunks

LEMMA FrontSame ==
  ASSUME NEW h, NEW i, NEW a, NEW n, FrontAt(h, i, a, n), NEW g, Fronted(h, g, i, a, n), Formed(h), NEW b \in Chunks(h)
  PROVE  SameChunk(h, g, b)
<1> DEFINE e == Behind(h, b)
<1>1. FrontSegs(h, g, i, a, n) /\ FrontChunks(h, g, a, n)
  BY FrontSegsIs, FrontChunksIs
<1>2. /\ b \in Int /\ b \in Heads(h) /\ e \in Int /\ e \in Heads(h) /\ b < e /\ Together(h, b, e) /\ InSeg(h, b)
  BY ChunkIs
<1> HIDE DEF e
<1>3. \A x \in Int : InMem(a, n, x) => ~ InSeg(h, x) /\ x \notin Heads(h)
  BY DEF FrontAt
<1>4. a \in Int /\ InMem(a, n, a) /\ SegsRight(h) /\ h \in HeapType /\ DOMAIN g.segs = DOMAIN h.segs
  BY DEF FrontAt, Fronted
<1>5. b \in Chunks(g) /\ g.head[b] = h.head[b] /\ e \in Heads(g) /\ g.head[e] = h.head[e]
  BY <1>1, <1>2 DEF FrontChunks
<1>6. SameBits(h, g, e)
  BY <1>5 DEF SameBits
<1>7. ASSUME NEW x \in Int, b <= x, x <= e PROVE (x \in Heads(g) => x \in Heads(h)) /\ FootAt(h, g, x)
  <2>1. InSeg(h, x)
    BY <1>2, <1>4, <1>7, Between
  <2>2. x # a
    BY <1>3, <1>4, <2>1
  <2> QED  BY <1>1, <2>2 DEF FrontChunks, Fronted
<1>8. Together(g, b, e)
  <2>1. ~ InMem(a, n, b) /\ ~ InMem(a, n, e)
    BY <1>2, <1>3
  <2>2. ASSUME NEW j \in DOMAIN h.segs PROVE Holds(g.segs[j], b) <=> Holds(g.segs[j], e)
    <3>1. Holds(h.segs[j], b) <=> Holds(h.segs[j], e)
      BY <1>2 DEF Together
    <3>2. (Holds(g.segs[j], b) => Holds(h.segs[j], b)) /\ (Holds(h.segs[j], b) => Holds(g.segs[j], b))
      BY <1>1, <1>2, <2>1 DEF FrontSegs
    <3>3. (Holds(g.segs[j], e) => Holds(h.segs[j], e)) /\ (Holds(h.segs[j], e) => Holds(g.segs[j], e))
      BY <1>1, <1>2, <2>1 DEF FrontSegs
    <3> QED  BY <3>1, <3>2, <3>3
  <2> QED  BY <1>4, <2>2 DEF Together
<1>9. (b = g.top => b = h.top) /\ (b = h.top => b = g.top)
  BY <1>1 DEF FrontSegs
<1> QED  BY <1>5, <1>6, <1>7, <1>8, <1>9 DEF SameChunk, e

LEMMA FrontLaid ==
  ASSUME NEW h, NEW i, NEW a, NEW n, FrontAt(h, i, a, n), NEW g, Fronted(h, g, i, a, n)
  PROVE  Laid(g, a) /\ g.head[a].p
<1> DEFINE e == a + n
<1>1. FrontSegs(h, g, i, a, n) /\ FrontChunks(h, g, a, n)
  BY FrontSegsIs, FrontChunksIs
<1>2. /\ a \in Int /\ n \in Nat /\ n > 0 /\ n >= 2 /\ e \in Int /\ e \in Heads(h) /\ h.head[e].p /\ e \notin Feet(h) /\ InMem(a, n, a)
      /\ i \in DOMAIN h.segs /\ h.segs[i].base = e /\ h.segs[i].size \in Nat /\ h.segs[i].size > 0
      /\ h \in HeapType /\ SegsRight(h)
  BY DEF FrontAt
<1>3. g.head[a] = InuseTag(n) /\ g \in HeapType /\ DOMAIN g.segs = DOMAIN h.segs
  BY DEF Fronted
<1>4. Behind(g, a) = e /\ g.head[a].p
  BY <1>3 DEF Behind, InuseTag
<1> HIDE DEF e
<1>5. e > a /\ e - a = n
  BY <1>2 DEF e
<1>6. e \in Heads(g) /\ g.head[e] = h.head[e]
  BY <1>1, <1>2 DEF FrontChunks
<1>7. e \notin Feet(g)
  BY <1>2 DEF Fronted, FootAt
<1>8. Together(g, a, e)
  <2>1. Holds(h.segs[i], e) /\ ~ InMem(a, n, e)
    BY <1>2, <1>5 DEF Holds, InMem
  <2>2. ASSUME NEW j \in DOMAIN h.segs PROVE Holds(g.segs[j], a) <=> Holds(g.segs[j], e)
    <3>1. CASE j = i
      <4>1. Holds(g.segs[j], a)
        BY <1>1, <1>2, <3>1 DEF FrontSegs
      <4>2. Holds(g.segs[j], e)
        BY <1>1, <1>2, <2>1, <3>1 DEF FrontSegs
      <4> QED  BY <4>1, <4>2
    <3>2. CASE j # i
      <4>1. ~ Holds(g.segs[j], a)
        BY <1>1, <1>2, <3>2 DEF FrontSegs
      <4>2. ~ Holds(h.segs[j], e)
        BY <1>2, <2>1, <3>2 DEF SegsRight
      <4>3. ~ Holds(g.segs[j], e)
        BY <1>1, <1>2, <2>1, <4>2 DEF FrontSegs
      <4> QED  BY <4>1, <4>3
    <3> QED  BY <3>1, <3>2
  <2> QED  BY <1>3, <2>2 DEF Together
<1>9. ASSUME NEW b \in Heads(g) \cup Feet(g) PROVE ~ (a < b /\ b < e)
  <2>1. SUFFICES ASSUME a < b, b < e PROVE FALSE
    OBVIOUS
  <2>2. b \in Int
    BY <1>3, HeapFields
  <2>3. InMem(a, n, b)
    BY <1>2, <2>1, <2>2 DEF InMem, e
  <2>4. b \notin Heads(h) /\ b \notin Feet(h)
    BY <2>2, <2>3 DEF FrontAt
  <2>5. b \notin Heads(g)
    <3>1. b # a
      BY <1>2, <2>1, <2>2
    <3> QED  BY <1>1, <2>4, <3>1 DEF FrontChunks
  <2>6. b \notin Feet(g)
    BY <2>2, <2>4 DEF Fronted, FootAt
  <2> QED  BY <2>5, <2>6
<1>10. a \notin Frees(g)
  BY <1>1 DEF FrontChunks, Frees, Chunks
<1>11. e - a >= MinChunk
  BY <1>2, <1>5, ConstantTypes
<1> QED  BY <1>2, <1>4, <1>5, <1>6, <1>7, <1>8, <1>9, <1>10, <1>11 DEF Laid

LEMMA FrontLayout ==
  ASSUME NEW h, NEW i, NEW a, NEW n, FrontAt(h, i, a, n), NEW g, Fronted(h, g, i, a, n), Formed(h)
  PROVE  Layout(g)
<1>1. FrontChunks(h, g, a, n) /\ h \in HeapType /\ g \in HeapType /\ Layout(h)
  BY FrontChunksIs, ZenonT(40) DEF FrontAt, Fronted
<1>2. ASSUME NEW b \in Chunks(g) PROVE SameChunk(h, g, b) \/ (Laid(g, b) /\ (~ g.head[b].p => b \in Feet(g)))
  <2>1. b \in Chunks(h) \/ b = a
    BY <1>1 DEF FrontChunks
  <2>2. CASE b \in Chunks(h)
    BY <2>2, FrontSame
  <2>3. CASE b = a
    BY <2>3, FrontLaid
  <2> QED  BY <2>1, <2>2, <2>3
<1>3. ASSUME NEW b \in Feet(g) PROVE b \in Feet(h) /\ g.foot[b] = h.foot[b] /\ SameChunk(h, g, b - h.foot[b])
  <2>1. b \in Feet(h) /\ g.foot[b] = h.foot[b]
    <3>1. b \in Int
      BY <1>1, HeapFields
    <3> QED  BY <3>1 DEF Fronted, FootAt
  <2>2. b - h.foot[b] \in Chunks(h)
    <3>1. b - h.foot[b] \in Frees(h)
      BY <2>1, FootIs
    <3> QED  BY <3>1 DEF Frees
  <2>3. SameChunk(h, g, b - h.foot[b])
    BY <2>2, FrontSame
  <2> QED  BY <2>1, <2>3
<1> QED  BY <1>1, <1>2, <1>3, LayoutFrom

LEMMA FrontEnds ==
  ASSUME NEW h, NEW i, NEW a, NEW n, FrontAt(h, i, a, n), NEW g, Fronted(h, g, i, a, n), Formed(h)
  PROVE  Ends(g)
<1>1. FrontSegs(h, g, i, a, n) /\ FrontChunks(h, g, a, n)
  BY FrontSegsIs, FrontChunksIs
<1>2. /\ h \in HeapType /\ g \in HeapType /\ Ends(h) /\ TopRight(h) /\ SameTop(h, g) /\ DOMAIN g.segs = DOMAIN h.segs
      /\ g.head[a] = InuseTag(n) /\ a \in Int /\ n \in Nat /\ n > 0 /\ 1 \in DOMAIN h.segs /\ DOMAIN h.segs = 1 .. Len(h.segs)
      /\ InMem(a, n, a) /\ i \in DOMAIN h.segs
  BY DEF Fronted, FrontAt
<1>3. Heads(h) \subseteq Int /\ Heads(g) \subseteq Int /\ Len(g.segs) = Len(h.segs)
  <2>1. h.segs \in Seq(SegType) /\ g.segs \in Seq(SegType)
    BY <1>2, HeapFields
  <2> QED  BY <1>2, <2>1, HeapFields
<1>4. \A x \in Int, j \in DOMAIN h.segs : Holds(h.segs[j], x) => Holds(g.segs[j], x)
  BY <1>1 DEF FrontSegs
<1>5. \A x \in Heads(h), j \in DOMAIN h.segs : Holds(g.segs[j], x) => Holds(h.segs[j], x)
  <2>1. \A x \in Heads(h) : x \in Int /\ ~ InMem(a, n, x)
    BY <1>3 DEF FrontAt
  <2> QED  BY <1>1, <2>1 DEF FrontSegs
<1>6. ASSUME NEW j \in DOMAIN h.segs, NEW y \in Int, Holds(h.segs[j], y), NEW x \in Heads(g), Holds(g.segs[j], x),
             \A z \in Heads(h) : Holds(h.segs[j], z) => z <= y
      PROVE  x <= y
  <2>1. CASE x \in Heads(h)
    BY <1>5, <1>6, <2>1
  <2>2. CASE x = a
    <3>1. j = i
      BY <1>1, <1>2, <1>6, <2>2 DEF FrontSegs
    <3>2. a + n <= y
      BY <1>6, <3>1 DEF FrontAt
    <3> QED  BY <1>2, <2>2, <3>2
  <2> QED  BY <1>1, <2>1, <2>2 DEF FrontChunks
<1>7. TopRight(g)
  <2>1. h.top \in Int /\ Mark(h) \in Int /\ Holds(h.segs[1], Mark(h))
    <3>1. h.top \in Int /\ Mark(h) \in Int /\ Together(h, h.top, Mark(h))
      BY TopIs
    <3>2. Holds(h.segs[1], h.top)
      BY <1>2 DEF TopRight
    <3> QED  BY <1>2, <3>1, <3>2 DEF Together
  <2>2. g.top = h.top /\ g.topsize = h.topsize /\ Mark(g) = Mark(h)
    BY <1>1, <1>2 DEF SameTop, FrontSegs
  <2>3. g.top \in Chunks(g) /\ g.head[g.top] = h.head[h.top]
    BY <1>1, <1>2, <2>2 DEF FrontChunks, TopRight
  <2>4. Mark(g) \in Heads(g) /\ g.head[Mark(g)] = h.head[Mark(h)]
    BY <1>1, <1>2, <2>2 DEF FrontChunks, TopRight
  <2>5. Holds(g.segs[1], g.top)
    BY <1>2, <1>4, <2>1, <2>2 DEF TopRight
  <2>6. EndOf(g.segs[1]) = EndOf(h.segs[1])
    BY <1>1, <1>2 DEF FrontSegs
  <2>7. \A x \in Heads(g) : Holds(g.segs[1], x) => x <= Mark(g)
    <3>1. \A z \in Heads(h) : Holds(h.segs[1], z) => z <= Mark(h)
      BY <1>2 DEF TopRight
    <3> QED  BY <1>2, <1>6, <2>1, <2>2, <3>1
  <2>8. /\ h.topsize > 0 /\ h.head[h.top].size = h.topsize /\ h.head[h.top].p /\ ~ h.head[h.top].c
        /\ Mark(h) + TopFoot = EndOf(h.segs[1]) /\ h.head[Mark(h)].size = TopFoot
        /\ ~ h.head[Mark(h)].p /\ ~ h.head[Mark(h)].c
    BY <1>2 DEF TopRight
  <2> QED  BY <2>2, <2>3, <2>4, <2>5, <2>6, <2>7, <2>8 DEF TopRight
<1>8. ASSUME NEW j \in 2 .. Len(h.segs) PROVE RecordRight(g, j)
  <2>1. j \in DOMAIN h.segs /\ 1 \in DOMAIN h.segs
    BY <1>2
  <2> DEFINE r == h.segs[j].rec
             f == r + SegmentRecord
  <2>2. /\ r \in Useds(h) /\ r \in Int /\ Behind(h, r) = f /\ f \in Int /\ f \in Heads(h) /\ h.head[f] = Fencepost
        /\ Holds(h.segs[j], r) /\ Holds(h.segs[j], f)
        /\ r + TopFoot <= EndOf(h.segs[j]) /\ EndOf(h.segs[j]) <= r + TopFoot + 1
        /\ \A x \in Heads(h) : Holds(h.segs[j], x) => x <= f
        /\ r # h.segs[1].rec
    BY RecordIs
  <2>3. h.head[r].size = SegmentRecord
    BY <1>2 DEF Ends, RecordRight
  <2>4. g.segs[j].rec = r /\ g.segs[1].rec = h.segs[1].rec /\ EndOf(g.segs[j]) = EndOf(h.segs[j])
    BY <1>1, <2>1 DEF FrontSegs
  <2> HIDE DEF r, f
  <2>5. r \in Useds(g) /\ g.head[r] = h.head[r]
    <3>1. r \in Chunks(h)
      BY <2>2 DEF Useds
    <3> QED  BY <1>1, <2>2, <3>1 DEF FrontChunks
  <2>6. f \in Heads(g) /\ g.head[f] = Fencepost
    BY <1>1, <2>2 DEF FrontChunks
  <2>7. Holds(g.segs[j], r)
    BY <1>4, <2>1, <2>2
  <2>8. \A x \in Heads(g) : Holds(g.segs[j], x) => x <= f
    BY <1>6, <2>1, <2>2
  <2>9. f = r + SegmentRecord
    BY DEF f
  <2> QED  BY <2>2, <2>3, <2>4, <2>5, <2>6, <2>7, <2>8, <2>9 DEF RecordRight
<1>9. ASSUME NEW x \in Heads(g), InSeg(g, x), g.head[x].size = 0
      PROVE  \E j \in 2 .. Len(g.segs) : x = g.segs[j].rec + SegmentRecord
  <2>1. x # a
    <3>1. g.head[a].size = n
      BY <1>2 DEF InuseTag
    <3> QED  BY <1>2, <1>9, <3>1
  <2>2. x \in Heads(h) /\ x \in Int /\ h.head[x].size = 0
    BY <1>1, <1>3, <1>9, <2>1 DEF FrontChunks
  <2>3. InSeg(h, x)
    BY <1>2, <1>5, <1>9, <2>2 DEF InSeg
  <2>4. PICK j \in 2 .. Len(h.segs) : x = h.segs[j].rec + SegmentRecord
    BY <1>2, <2>2, <2>3 DEF Ends
  <2>5. g.segs[j].rec = h.segs[j].rec
    BY <1>1, <1>2, <2>4 DEF FrontSegs
  <2> QED  BY <1>3, <2>4, <2>5
<1>10. g.segs[1].rec \in Useds(g) /\ g.head[g.segs[1].rec].size = StateChunk
  <2>1. g.segs[1].rec = h.segs[1].rec
    BY <1>1, <1>2 DEF FrontSegs
  <2>2. h.segs[1].rec \in Useds(h) /\ h.head[h.segs[1].rec].size = StateChunk
    BY <1>2 DEF Ends
  <2>3. h.segs[1].rec \in Chunks(h)
    BY <2>2 DEF Useds
  <2> QED  BY <1>1, <2>1, <2>2, <2>3 DEF FrontChunks
<1> QED  BY <1>3, <1>7, <1>8, <1>9, <1>10 DEF Ends

LEMMA FrontSegsRight ==
  ASSUME NEW h, NEW i, NEW a, NEW n, FrontAt(h, i, a, n), NEW g, Fronted(h, g, i, a, n), Paged(a, n)
  PROVE  SegsRight(g)
<1>1. FrontSegs(h, g, i, a, n) /\ FrontChunks(h, g, a, n)
  BY FrontSegsIs, FrontChunksIs
<1>2. SegsRight(h) /\ h \in HeapType /\ DOMAIN g.segs = DOMAIN h.segs /\ i \in DOMAIN h.segs /\ 1 \in DOMAIN h.segs
  BY DEF FrontAt, Fronted
<1>3. g.segs # <<>>
  BY <1>2
<1>4. ASSUME NEW j \in DOMAIN g.segs
      PROVE  g.segs[j].base % Page = 0 /\ g.segs[j].size % Page = 0 /\ g.segs[j].size > 0 /\ g.segs[j].base \in Chunks(g)
  <2>1. CASE j # i
    <3>1. g.segs[j] = h.segs[j]
      BY <1>2, <2>1 DEF Fronted
    <3>2. h.segs[j].base % Page = 0 /\ h.segs[j].size % Page = 0 /\ h.segs[j].size > 0 /\ h.segs[j].base \in Chunks(h)
      BY <1>2 DEF SegsRight
    <3> QED  BY <1>1, <3>1, <3>2 DEF FrontChunks
  <2>2. CASE j = i
    <3> DEFINE s == h.segs[i].size
    <3>1. g.segs[j].base = a /\ g.segs[j].size = s + n
      BY <2>2 DEF Fronted
    <3>2. s % Page = 0 /\ s > 0 /\ s \in Nat
      BY <1>2 DEF SegsRight, FrontAt
    <3> HIDE DEF s
    <3>3. WholePages(s + n)
      BY <3>2, PageSums DEF Paged, WholePages
    <3>4. s + n > 0
      BY <3>2 DEF Paged
    <3>5. a \in Chunks(g)
      BY <1>1 DEF FrontChunks
    <3> QED  BY <3>1, <3>3, <3>4, <3>5 DEF Paged, WholePages
  <2> QED  BY <2>1, <2>2
<1>5. ASSUME NEW j \in DOMAIN g.segs, NEW l \in DOMAIN g.segs, j # l, NEW x \in Int PROVE ~ (Holds(g.segs[j], x) /\ Holds(g.segs[l], x))
  <2>1. CASE InMem(a, n, x)
    BY <1>1, <1>2, <1>5, <2>1 DEF FrontSegs
  <2>2. CASE ~ InMem(a, n, x)
    <3>1. ~ (Holds(h.segs[j], x) /\ Holds(h.segs[l], x))
      BY <1>2, <1>5 DEF SegsRight
    <3> QED  BY <1>1, <1>2, <2>2, <3>1 DEF FrontSegs
  <2> QED  BY <2>1, <2>2
<1> QED  BY <1>3, <1>4, <1>5 DEF SegsRight

LEMMA FrontGain ==
  ASSUME NEW h, NEW i, NEW a, NEW n, FrontAt(h, i, a, n), NEW g, Fronted(h, g, i, a, n), Fresh(h, a, n)
  PROVE  Gain(h, g, a, n)
<1>1. FrontSegs(h, g, i, a, n) /\ InMem(a, n, a) /\ a \in Int
  <2>1. FrontSegs(h, g, i, a, n)
    BY FrontSegsIs
  <2>2. InMem(a, n, a) /\ a \in Int
    BY DEF FrontAt
  <2> QED  BY <2>1, <2>2
<1>2. ASSUME NEW x \in Int, ~ InSeg(g, x) PROVE SameAt(h, g, x)
  <2>1. x # a
    BY <1>1, <1>2 DEF FrontSegs
  <2> QED  BY <2>1 DEF Fronted
<1>3. g.mapped = h.mapped \cup Pages(a, n)
  BY DEF Fronted
<1> QED  BY <1>1, <1>2, <1>3 DEF Gain, FrontSegs

(* A heap like h but for a, a chunk in use.                                *)
LEMMA FrontedSound ==
  ASSUME NEW h, NEW U, Sound(h, U), NEW i, NEW a, NEW n, Fronting(h, i, a, n), NEW g, Fronted(h, g, i, a, n)
  PROVE  Sound(g, U \cup {a}) /\ Keeps(h, g, U) /\ a \notin U /\ (Counted(h) => Counted(g)) /\ Records(g) = Records(h)
<1>1. FrontAt(h, i, a, n) /\ Fresh(h, a, n) /\ Formed(h) /\ Shelved(h, h, {}) /\ Held(h, U)
  BY FrontAtIs DEF Sound, Fronting
<1>2. FrontSegs(h, g, i, a, n) /\ FrontChunks(h, g, a, n)
  BY <1>1, FrontSegsIs, FrontChunksIs
<1>3. Layout(g) /\ Ends(g) /\ SegsRight(g) /\ g \in HeapType /\ h \in HeapType
  <2>1. Paged(a, n)
    BY <1>1 DEF Fresh
  <2>2. SegsRight(g)
    BY <1>1, <2>1, FrontSegsRight
  <2>3. g \in HeapType /\ h \in HeapType
    BY <1>1 DEF Fronted, FrontAt
  <2>4. Layout(g)
    BY <1>1, FrontLayout
  <2>5. Ends(g)
    BY <1>1, FrontEnds
  <2> QED  BY <2>2, <2>3, <2>4, <2>5
<1>4. Gain(h, g, a, n)
  BY <1>1, FrontGain
<1>5. Direct(g) = Direct(h) /\ DirectsRight(g) /\ \A d \in Direct(h) : g.head[d] = h.head[d]
  BY <1>1, <1>3, <1>4, GainDirects
<1>6. Formed(g)
  BY <1>3, <1>5 DEF Formed, DirectsRight
<1>7. Records(g) = Records(h) /\ Frees(g) = Frees(h) /\ Useds(g) = Useds(h) \cup {a} /\ a \notin Heads(h)
  BY <1>2 DEF FrontSegs, FrontChunks
<1>8. Useds(h) \subseteq Heads(h) /\ Frees(h) \subseteq Chunks(h) /\ Useds(h) \subseteq Chunks(h) /\ Direct(h) \subseteq Heads(h)
  BY DEF Useds, Frees, Chunks, Direct
<1>9. U \subseteq Useds(h) \cup Direct(h) /\ U \cap Records(h) = {} /\ Useds(h) \subseteq U \cup Records(h)
  BY <1>1 DEF Held
<1>10. a \notin U
  BY <1>7, <1>8, <1>9
<1>11. a \notin Records(h)
  <2>1. Records(h) \subseteq Useds(h)
    BY <1>1, RecordsUsed
  <2> QED  BY <1>7, <1>8, <2>1
<1>12. \A b \in Chunks(h) : g.head[b] = h.head[b]
  BY <1>2 DEF FrontChunks
<1>13. Shelved(g, g, {})
  <2>1. Shelved(h, g, {})
    <3>1. SameShelf(h, g)
      BY DEF Fronted
    <3> QED  BY <1>1, <3>1, SameShelved
  <2>2. \A b \in Frees(h) : g.head[b].size = h.head[b].size
    BY <1>8, <1>12
  <2> QED  BY <1>7, <2>1, <2>2 DEF Shelved
<1>14. Held(g, U \cup {a})
  BY <1>5, <1>7, <1>9, <1>11 DEF Held
<1>15. Keeps(h, g, U)
  <2>1. \A b \in U : g.head[b].size = h.head[b].size
    BY <1>5, <1>8, <1>9, <1>12
  <2> QED  BY <1>5, <2>1 DEF Keeps
<1>16. Counted(h) => Counted(g)
  <2>1. g.mapped = h.mapped \cup Pages(a, n) /\ g.footprint = h.footprint + n
    BY DEF Fronted
  <2> QED  BY <1>1, <1>3, <2>1, GainCounted
<1> QED  BY <1>6, <1>7, <1>10, <1>13, <1>14, <1>15, <1>16 DEF Sound

(* The chunk a in use of f, which ends at e, was cut to end at q.          *)
FrontReady(f, g, U, a, q, e) ==
  /\ Sound(f, U \cup {a}) /\ a \notin U /\ a \in Useds(f) \ Records(f) /\ f.head[a].p /\ Behind(f, a) = e
  /\ q \in Int /\ a < q /\ q < e /\ q - a >= MinChunk /\ e - q >= MinChunk
  /\ g \in HeapType /\ SameTop(f, g) /\ SameShelf(f, g) /\ SameMap(f, g) /\ InuseTags(f, g, a, q - a)

FrontAround(f, g, U, a, q, e) ==
  /\ f \in HeapType /\ Formed(f) /\ Held(f, U \cup {a}) /\ Shelved(f, f, {})
  /\ a \in Int /\ e \in Int /\ a # q /\ a <= q /\ a # NoMem /\ a \in Chunks(f) /\ a \in Heads(f)
  /\ e \in Chunks(f) /\ e \in Heads(f) /\ f.head[e].p /\ a < e
  /\ Stretch(f, a, e, {a}) /\ Tag(g, e) = f.head[e] /\ a \notin Frees(f)

LEMMA FrontAroundIs ==
  ASSUME NEW f, NEW g, NEW U, NEW a, NEW q, NEW e, FrontReady(f, g, U, a, q, e)
  PROVE  FrontAround(f, g, U, a, q, e)
<1>1. f \in HeapType /\ Formed(f) /\ Held(f, U \cup {a}) /\ Shelved(f, f, {})
  BY HeapTypes DEF FrontReady, Sound
<1>2. a \in Useds(f) \ Records(f) /\ a \in Chunks(f) /\ a # f.top /\ a \notin Frees(f) /\ Behind(f, a) = e /\ f.head[a].p
  BY DEF FrontReady, Useds, Frees
<1>3. a \in Int /\ e \in Int /\ a < e /\ a \in Heads(f)
  BY <1>1, <1>2, ChunkIs
<1>4. e \in Chunks(f) /\ e \in Heads(f)
  BY <1>1, <1>2, NextChunk DEF Chunks
<1>5. f.head[e].p
  BY <1>1, <1>2, Around
<1>6. Stretch(f, a, e, {a})
  BY <1>1, <1>2, OneStretch
<1>7. a # NoMem
  BY <1>1, <1>3, InMemory
<1>8. q \in Int /\ a < q /\ q < e
  BY DEF FrontReady
<1>9. Tag(g, e) = f.head[e]
  <2>1. InuseTags(f, g, a, q - a) /\ g \in HeapType
    BY DEF FrontReady
  <2>2. e \notin Inside(a, q - a) /\ e # a
    BY <1>3, <1>8 DEF Inside
  <2>3. e \in Heads(g) /\ g.head[e] = f.head[e]
    BY <1>4, <2>1, <2>2 DEF InuseTags
  <2> QED  BY <2>1, <2>3, TagTyped
<1>10. a # q /\ a <= q
  BY <1>3, <1>8
<1> QED  BY <1>1, <1>2, <1>3, <1>4, <1>5, <1>6, <1>7, <1>9, <1>10 DEF FrontAround

(* The rest of the chunk is merged with what lies up to y.                 *)
LEMMA FrontCutHeld ==
  ASSUME NEW f, NEW U, NEW a \in Int, Held(f, U \cup {a}), a \notin U, NEW g, NEW q, NEW y, NEW kind,
         Cutting(f, g, a, q, y, kind), kind # "used", q # a, Useds(f) \cap Amid(a, y) = {a}
  PROVE  Formed(g) /\ Held(g, U \cup {a}) /\ Keeps(f, g, U) /\ Fits(g, a, q - a)
<1>1. Formed(g) /\ \A b \in Direct(f) : b \notin Amid(a, y)
  BY CutKinds
<1>2. U \cap Amid(a, y) = {}
  BY <1>1 DEF Held
<1>3. (U \cup {a}) \ Amid(a, y) = U
  BY <1>2
<1>4. Held(g, U \cup (IF kind = "used" THEN {q} ELSE {}) \cup (IF q # a THEN {a} ELSE {})) /\ Keeps(f, g, U)
  BY <1>3, CutHeld
<1>5. U \cup (IF kind = "used" THEN {q} ELSE {}) \cup (IF q # a THEN {a} ELSE {}) = U \cup {a}
  OBVIOUS
<1>6. Fits(g, a, q - a)
  <2>1. q \in Int
    BY CutKinds
  <2>2. g.head[a].size = q - a
    BY DEF Cutting, Cut
  <2> QED  BY <2>1, <2>2, ConstantTypes DEF Fits
<1> QED  BY <1>1, <1>4, <1>5, <1>6

FrontDone(f, w, U, a, nb) == Given(f, [m |-> w, mem |-> a], U, nb) /\ SameMap(f, w)

FrontHeld(f, g, U, a, nb) ==
  /\ a \in Int /\ a # NoMem /\ a \notin U /\ Formed(g) /\ Held(g, U \cup {a}) /\ Keeps(f, g, U) /\ Fits(g, a, nb)
  /\ SameMap(f, g)

LEMMA FrontGiven ==
  ASSUME NEW f, NEW g, NEW U, NEW a, NEW nb, FrontHeld(f, g, U, a, nb), Shelved(g, g, {})
  PROVE  FrontDone(f, g, U, a, nb)
BY DEF FrontHeld, FrontDone, Given, Sound

LEMMA FrontBinned ==
  ASSUME NEW f, NEW g, NEW U, NEW a, NEW nb, FrontHeld(f, g, U, a, nb), NEW q \in Frees(g), Shelved(g, g, {q})
  PROVE  FrontDone(f, Insert(g, q, g.head[q].size), U, a, nb)
<1> DEFINE w == Insert(g, q, g.head[q].size)
           V == U \cup {a}
<1>1. Became(g, w, V)
  BY InsertSound DEF FrontHeld
<1> HIDE DEF w
<1>2. Sound(w, V) /\ Keeps(g, w, V) /\ SameMap(g, w)
  BY <1>1 DEF Became
<1>3. Keeps(f, w, U) /\ SameMap(f, w)
  <2>1. Keeps(f, g, U) /\ SameMap(f, g)
    BY DEF FrontHeld
  <2>2. U \subseteq V
    OBVIOUS
  <2>3. Keeps(g, w, U)
    BY <1>2, <2>2 DEF Keeps
  <2> QED  BY <1>2, <2>1, <2>3, KeepsOn, MapTwice
<1>4. Fits(w, a, nb)
  BY <1>2 DEF Keeps, Fits, FrontHeld
<1> QED  BY <1>2, <1>3, <1>4 DEF FrontHeld, FrontDone, Given, w

LEMMA FrontTop ==
  ASSUME NEW f, NEW g, NEW U, NEW a, NEW q, NEW e, FrontReady(f, g, U, a, q, e), e = f.top
  PROVE  FrontDone(f, SetTop(PutTop(g, q, (e - q) + f.topsize), q, (e - q) + f.topsize), U, a, q - a)
<1> DEFINE y == Mark(f)
           t == (e - q) + f.topsize
           j == PutTop(g, q, t)
           w == SetTop(j, q, t)
<1>1. FrontAround(f, g, U, a, q, e)
  BY FrontAroundIs
<1>2. /\ g \in HeapType /\ SameTop(f, g) /\ SameShelf(f, g) /\ SameMap(f, g) /\ InuseTags(f, g, a, q - a)
      /\ q \in Int /\ a < q /\ q < e /\ q - a >= MinChunk /\ f.head[a].p /\ a \in Useds(f) /\ a \notin U
  BY DEF FrontReady
<1>3. /\ e < y /\ y \in Heads(f) /\ y \in Int /\ f.topsize = y - e /\ f.topsize \in Nat
      /\ ~ f.head[y].p /\ y \notin Feet(f) /\ Heads(f) \cap Amid(e, y) = {e}
  BY <1>1, TopIs DEF FrontAround
<1> HIDE DEF y
<1>4. t = y - q /\ t \in Nat /\ q < y /\ a < y
  BY <1>1, <1>2, <1>3 DEF FrontAround
<1> HIDE DEF t
<1>5. OnlyTags(g, j) /\ PutTags(g, j, q, FreeTag(t)) /\ j \in HeapType
  BY <1>2, <1>4, TagsFrom DEF OnlyTags
<1> HIDE DEF j
<1>6. OnlyTop(j, w) /\ w.top = q /\ w.topsize = t
  BY <1>2, <1>4, <1>5, SetTopFields
<1> HIDE DEF w
<1>7. w \in HeapType /\ SameTags(j, w) /\ SameMap(f, w) /\ SameShelf(f, w)
  BY <1>2, <1>5, <1>6 DEF OnlyTags, OnlyTop, SameTop, SameMap, SameShelf, SameTags
<1>8. TagCut(f, j, a, q, y, "top")
  <2>1. Whole(f, j, a, y)
    BY <1>1, <1>3, <1>4, <1>5 DEF Whole, FrontAround
  <2>2. PutTags(g, j, q, FreeTag(y - q))
    BY <1>4, <1>5
  <2> QED  BY <1>2, <1>3, <1>4, <2>1, <2>2, SplitCuts
<1>9. Cut(f, w, a, q, y, "top")
  <2>1. w.segs = f.segs /\ w.top = q /\ w.topsize = y - q
    BY <1>4, <1>6, <1>7 DEF SameMap
  <2> QED  BY <1>7, <1>8, <2>1, CutIs
<1>10. Cutting(f, w, a, q, y, "top")
  <2>1. w.mapped = f.mapped
    BY <1>7 DEF SameMap
  <2>2. Stretch(f, a, f.top, {a}) /\ Formed(f) /\ a \in Int /\ a # q /\ a <= q
    BY <1>1 DEF FrontAround
  <2>3. q < Mark(f) /\ Cut(f, w, a, q, Mark(f), "top")
    BY <1>4, <1>9 DEF y
  <2>4. Cutting(f, w, a, q, Mark(f), "top")
    BY <1>2, <1>7, <2>1, <2>2, <2>3, TopCutting
  <2> QED  BY <2>4 DEF y
<1>11. Heads(f) \cap Amid(a, y) = {a, e}
  <2>1. Heads(f) \cap Amid(a, e) = {a} /\ a \in Int /\ e \in Int
    BY <1>1 DEF FrontAround, Stretch
  <2>2. \A b \in Int : b \in Amid(a, y) <=> b \in Amid(a, e) \/ b \in Amid(e, y)
    BY <1>1, <1>3 DEF Amid, FrontAround
  <2>3. Heads(f) \subseteq Int
    BY <1>1, HeapTypes DEF FrontAround
  <2> QED  BY <1>3, <2>1, <2>2, <2>3
<1>12. Useds(f) \cap Amid(a, y) = {a} /\ Frees(f) \cap Amid(a, y) = {}
  <2>1. Useds(f) \subseteq Heads(f) /\ Frees(f) \subseteq Heads(f) /\ e \notin Useds(f) /\ e \notin Frees(f) /\ a \notin Frees(f)
    BY <1>1 DEF Useds, Frees, Chunks, FrontAround
  <2> QED  BY <1>2, <1>11, <2>1
<1>13. Formed(w) /\ Held(w, U \cup {a}) /\ Keeps(f, w, U) /\ Fits(w, a, q - a)
  <2>1. a \in Int /\ Held(f, U \cup {a}) /\ q # a
    BY <1>1 DEF FrontAround
  <2> QED  BY <1>2, <1>10, <1>12, <2>1, FrontCutHeld
<1>14. Shelved(w, w, {})
  <2>1. Shelved(f, f, {})
    BY <1>1 DEF FrontAround
  <2>2. Shelved(w, f, ({} \ Amid(a, y)) \cup (IF "top" = "free" THEN {q} ELSE {}))
    BY <1>10, <1>12, <2>1, CutShelved
  <2>3. ({} \ Amid(a, y)) \cup (IF "top" = "free" THEN {q} ELSE {}) = {}
    OBVIOUS
  <2> QED  BY <1>7, <2>2, <2>3, SameShelved
<1>15. FrontHeld(f, w, U, a, q - a)
  BY <1>1, <1>2, <1>7, <1>13 DEF FrontHeld, FrontAround
<1>16. FrontDone(f, w, U, a, q - a)
  BY <1>14, <1>15, FrontGiven
<1> QED  BY <1>16 DEF w, j, t

(* The rest of the chunk and what is behind it, up to y, is one free chunk.*)
FrontFreeing(f, w, k, a, q, e, y, C, X) ==
  /\ y \in Chunks(f) /\ Stretch(f, a, y, C) /\ f.head[y].c /\ e <= y /\ C \cap Useds(f) = {a} /\ C \cap Frees(f) = X
  /\ Shelved(f, k, X) /\ w \in HeapType /\ TagCut(f, w, a, q, y, "free") /\ SameTop(f, w) /\ SameMap(f, w)

LEMMA FrontFree ==
  ASSUME NEW f, NEW g, NEW U, NEW a, NEW q, NEW e, FrontReady(f, g, U, a, q, e), NEW w, NEW k, NEW y, NEW C, NEW X,
         FrontFreeing(f, w, k, a, q, e, y, C, X)
  PROVE  /\ FrontHeld(f, w, U, a, q - a) /\ Shelved(w, k, {q}) /\ q \in Frees(w) /\ w.head[q].size = y - q
<1>0. /\ y \in Chunks(f) /\ Stretch(f, a, y, C) /\ f.head[y].c /\ e <= y /\ C \cap Useds(f) = {a} /\ C \cap Frees(f) = X
      /\ Shelved(f, k, X) /\ w \in HeapType /\ TagCut(f, w, a, q, y, "free") /\ SameTop(f, w) /\ SameMap(f, w)
  BY DEF FrontFreeing
<1>1. FrontAround(f, g, U, a, q, e)
  BY FrontAroundIs
<1>2. /\ q \in Int /\ a < q /\ q < e /\ q - a >= MinChunk /\ e - q >= MinChunk /\ a \notin U
  BY DEF FrontReady
<1>3. a \in Int /\ e \in Int /\ y \in Int /\ Formed(f) /\ Heads(f) \cap Amid(a, y) = C
  BY <1>0, <1>1 DEF FrontAround, Stretch
<1>4. q < y /\ y - q >= MinChunk /\ a <= q /\ a # q
  BY <1>0, <1>2, <1>3, ConstantTypes
<1>5. Cut(f, w, a, q, y, "free")
  <2>1. w.segs = f.segs /\ SameTags(w, w)
    BY <1>0 DEF SameMap, SameTags
  <2> QED  BY <1>0, <2>1, CutIs
<1>6. Cutting(f, w, a, q, y, "free")
  <2>1. w.mapped = f.mapped
    BY <1>0 DEF SameMap
  <2>2. "free" \in {"used", "free"}
    OBVIOUS
  <2> QED  BY <1>0, <1>2, <1>3, <1>4, <1>5, <2>1, <2>2, StretchCutting
<1>7. Useds(f) \cap Amid(a, y) = {a} /\ Frees(f) \cap Amid(a, y) = X
  BY <1>0, <1>3 DEF Useds, Frees, Chunks
<1>8. Formed(w) /\ Held(w, U \cup {a}) /\ Keeps(f, w, U) /\ Fits(w, a, q - a)
  <2>1. Held(f, U \cup {a}) /\ q # a
    BY <1>1 DEF FrontAround
  <2> QED  BY <1>2, <1>3, <1>6, <1>7, <2>1, FrontCutHeld
<1>9. FrontHeld(f, w, U, a, q - a)
  BY <1>0, <1>1, <1>2, <1>8 DEF FrontHeld, FrontAround
<1>10. Shelved(w, k, {q})
  <2>1. Shelved(w, k, (X \ Amid(a, y)) \cup (IF "free" = "free" THEN {q} ELSE {}))
    BY <1>0, <1>6, <1>7, CutShelved
  <2>2. (X \ Amid(a, y)) \cup (IF "free" = "free" THEN {q} ELSE {}) = {q}
    BY <1>7
  <2> QED  BY <2>1, <2>2
<1>11. q \in Frees(w) /\ w.head[q].size = y - q
  BY <1>6, CutKinds
<1> QED  BY <1>9, <1>10, <1>11

(* The chunk behind is in use.                                             *)
LEMMA FrontUsed ==
  ASSUME NEW f, NEW g, NEW U, NEW a, NEW q, NEW e, FrontReady(f, g, U, a, q, e), e \in Useds(f)
  PROVE  FrontDone(f, Insert(SetFree(g, q, e - q, e), q, e - q), U, a, q - a)
<1> DEFINE w == SetFree(g, q, e - q, e)
<1>1. FrontAround(f, g, U, a, q, e)
  BY FrontAroundIs
<1>2. /\ g \in HeapType /\ SameTop(f, g) /\ SameShelf(f, g) /\ SameMap(f, g) /\ InuseTags(f, g, a, q - a)
      /\ q \in Int /\ a < q /\ q < e /\ q - a >= MinChunk /\ f.head[a].p /\ a \in Useds(f) /\ a \notin U
  BY DEF FrontReady
<1>3. a \in Int /\ e \in Int /\ a < e
  BY <1>1 DEF FrontAround
<1>4. OnlyTags(g, w) /\ FreeSet(g, w, q, e - q)
  <2> DEFINE s == e - q
  <2>1. s \in Nat /\ s > 0 /\ q + s = e
    BY <1>2, <1>3
  <2> HIDE DEF s
  <2>2. OnlyTags(g, SetFree(g, q, s, q + s)) /\ FreeSet(g, SetFree(g, q, s, q + s), q, s)
    BY <1>2, <2>1, SetFreeIs
  <2>3. OnlyTags(g, SetFree(g, q, s, e)) /\ FreeSet(g, SetFree(g, q, s, e), q, s)
    BY <2>1, <2>2
  <2> QED  BY <2>3 DEF s
<1> HIDE DEF w
<1>5. w \in HeapType /\ SameTop(f, w) /\ SameMap(f, w) /\ SameShelf(f, w)
  BY <1>2, <1>4 DEF OnlyTags, SameTop, SameMap, SameShelf
<1>6. TagCut(f, w, a, q, e, "free")
  <2>1. Whole(f, w, a, e)
    BY <1>1, <1>5 DEF Whole, FrontAround
  <2> QED  BY <1>2, <1>4, <2>1, SplitCuts
<1>7. e \in Chunks(f) /\ Stretch(f, a, e, {a}) /\ f.head[e].c /\ e <= e /\ {a} \cap Useds(f) = {a} /\ {a} \cap Frees(f) = {}
  BY <1>1, <1>2, <1>3 DEF FrontAround, Useds
<1>8. Shelved(f, f, {})
  BY <1>1 DEF FrontAround
<1>9. FrontHeld(f, w, U, a, q - a) /\ Shelved(w, f, {q}) /\ q \in Frees(w) /\ w.head[q].size = e - q
  <2>1. FrontFreeing(f, w, f, a, q, e, e, {a}, {})
    BY <1>5, <1>6, <1>7, <1>8 DEF FrontFreeing
  <2> QED  BY <2>1, FrontFree
<1>10. Shelved(w, w, {q})
  BY <1>5, <1>9, SameShelved
<1>11. FrontDone(f, Insert(w, q, w.head[q].size), U, a, q - a)
  BY <1>9, <1>10, FrontBinned
<1> QED  BY <1>9, <1>11 DEF w

(* It is free, and in a bin.                                               *)
LEMMA FrontBin ==
  ASSUME NEW f, NEW g, NEW U, NEW a, NEW q, NEW e, FrontReady(f, g, U, a, q, e), e \in Frees(f), e # f.dv
  PROVE  LET y == Behind(f, e)
         IN  FrontDone(f, Insert(SetFree(Unlink(g, e, f.head[e].size), q, y - q, y), q, y - q), U, a, q - a)
<1> DEFINE y == Behind(f, e)
           u == Unlink(g, e, f.head[e].size)
           w == SetFree(u, q, y - q, y)
<1>1. FrontAround(f, g, U, a, q, e)
  BY FrontAroundIs
<1>2. /\ g \in HeapType /\ SameTop(f, g) /\ SameShelf(f, g) /\ SameMap(f, g) /\ InuseTags(f, g, a, q - a)
      /\ q \in Int /\ a < q /\ q < e /\ q - a >= MinChunk /\ f.head[a].p /\ a \in Useds(f) /\ a \notin U
  BY DEF FrontReady
<1>3. a \in Int /\ e \in Int /\ a < e /\ f \in HeapType /\ Formed(f) /\ Shelved(f, f, {}) /\ e \in Chunks(f) /\ Stretch(f, a, e, {a})
  BY <1>1 DEF FrontAround
<1>4. e # f.top /\ e \notin Records(f) /\ y \in Useds(f) /\ f.head[y].c
  BY <1>3, FreeIs
<1>5. y \in Int /\ e < y
  BY <1>3, ChunkIs
<1>6. y \in Chunks(f) /\ Stretch(f, a, y, {a} \cup {e})
  BY <1>3, <1>4, StretchOn DEF Useds
<1> HIDE DEF y
<1>7. OnlyShelf(g, u) /\ Shelved(f, u, {} \cup {e})
  <2>1. Shelved(f, g, {}) /\ e \in Frees(f) \ {} /\ e # g.dv
    BY <1>2, <1>3, SameShelved DEF SameShelf
  <2> QED  BY <1>2, <1>3, <2>1, UnlinkIs
<1> HIDE DEF u
<1>8. u \in HeapType /\ SameTop(f, u) /\ SameMap(f, u) /\ InuseTags(f, u, a, q - a)
  <2>1. u.head = g.head /\ u.foot = g.foot /\ Heads(u) = Heads(g) /\ Feet(u) = Feet(g)
    BY <1>7 DEF OnlyShelf, SameTags, Heads, Feet
  <2>2. InuseTags(f, u, a, q - a)
    BY <1>2, <2>1, Zenon DEF InuseTags
  <2> QED  BY <1>2, <1>7, <2>2 DEF OnlyShelf, SameTop, SameMap
<1>9. OnlyTags(u, w) /\ FreeSet(u, w, q, y - q)
  <2> DEFINE s == y - q
  <2>1. s \in Nat /\ s > 0 /\ q + s = y
    BY <1>2, <1>3, <1>5
  <2> HIDE DEF s
  <2>2. OnlyTags(u, SetFree(u, q, s, q + s)) /\ FreeSet(u, SetFree(u, q, s, q + s), q, s)
    BY <1>2, <1>8, <2>1, SetFreeIs
  <2>3. OnlyTags(u, SetFree(u, q, s, y)) /\ FreeSet(u, SetFree(u, q, s, y), q, s)
    BY <2>1, <2>2
  <2> QED  BY <2>3 DEF s
<1> HIDE DEF w
<1>10. w \in HeapType /\ SameTop(f, w) /\ SameMap(f, w) /\ SameShelf(u, w)
  BY <1>8, <1>9 DEF OnlyTags, SameTop, SameMap, SameShelf
<1>11. TagCut(f, w, a, q, y, "free")
  <2>1. Whole(f, w, a, y) /\ q < y
    BY <1>1, <1>2, <1>3, <1>5, <1>6, <1>10 DEF Whole, FrontAround, Chunks
  <2> QED  BY <1>2, <1>8, <1>9, <2>1, SplitCuts
<1>12. ({a} \cup {e}) \cap Useds(f) = {a} /\ ({a} \cup {e}) \cap Frees(f) = {} \cup {e} /\ e <= y
  BY <1>1, <1>2, <1>3, <1>5 DEF FrontAround, Useds, Frees
<1>13. FrontHeld(f, w, U, a, q - a) /\ Shelved(w, u, {q}) /\ q \in Frees(w) /\ w.head[q].size = y - q
  <2>1. FrontFreeing(f, w, u, a, q, e, y, {a} \cup {e}, {} \cup {e})
    BY <1>4, <1>6, <1>7, <1>10, <1>11, <1>12 DEF FrontFreeing
  <2> QED  BY <2>1, FrontFree
<1>14. Shelved(w, w, {q})
  BY <1>10, <1>13, SameShelved
<1>15. FrontDone(f, Insert(w, q, w.head[q].size), U, a, q - a)
  BY <1>13, <1>14, FrontBinned
<1> QED  BY <1>13, <1>15 DEF w, u, y

(* It is the victim.                                                       *)
LEMMA FrontVictim ==
  ASSUME NEW f, NEW g, NEW U, NEW a, NEW q, NEW e, FrontReady(f, g, U, a, q, e), e = f.dv
  PROVE  FrontDone(f, Victim(PutFree(g, q, (e - q) + f.dvsize), q, (e - q) + f.dvsize), U, a, q - a)
<1> DEFINE y == Behind(f, e)
           t == (e - q) + f.dvsize
           j == PutFree(g, q, t)
           w == Victim(j, q, t)
           k == NoDv(f)
<1>1. FrontAround(f, g, U, a, q, e)
  BY FrontAroundIs
<1>2. /\ g \in HeapType /\ SameTop(f, g) /\ SameShelf(f, g) /\ SameMap(f, g) /\ InuseTags(f, g, a, q - a)
      /\ q \in Int /\ a < q /\ q < e /\ q - a >= MinChunk /\ f.head[a].p /\ a \in Useds(f) /\ a \notin U
  BY DEF FrontReady
<1>3. a \in Int /\ e \in Int /\ a < e /\ f \in HeapType /\ Formed(f) /\ Shelved(f, f, {}) /\ e \in Chunks(f) /\ Stretch(f, a, e, {a})
  BY <1>1 DEF FrontAround
<1>4. e \in Frees(f) /\ f.head[e].size = f.dvsize /\ f.dvsize # 0
  <2>1. e # NoMem
    BY <1>3, InMemory DEF Chunks
  <2>2. f.dv # NoMem => f.dv \in Frees(f) \ {} /\ f.dvsize # 0 /\ f.head[f.dv].size = f.dvsize
    BY <1>3, VictimIs
  <2> QED  BY <2>1, <2>2
<1>5. e # f.top /\ e \notin Records(f) /\ y \in Useds(f) /\ f.head[y].c /\ ~ f.head[y].p
  BY <1>3, <1>4, FreeIs
<1>6. y \in Int /\ e < y /\ f.head[e].size = y - e
  BY <1>3, ChunkIs
<1>7. y \in Chunks(f) /\ Stretch(f, a, y, {a} \cup {e})
  BY <1>3, <1>5, StretchOn DEF Useds
<1> HIDE DEF y
<1>8. t = y - q /\ t \in Nat /\ q < y
  BY <1>2, <1>3, <1>4, <1>6
<1> HIDE DEF t
<1>9. OnlyTags(g, j) /\ FreeTags(g, j, q, t) /\ j \in HeapType
  BY <1>2, <1>8, TagsFrom DEF OnlyTags
<1> HIDE DEF j
<1>10. OnlyShelf(j, w) /\ w.bins = j.bins /\ w.dv = q /\ w.dvsize = t
  <2>1. t \in Int
    BY <1>8
  <2> QED  BY <1>2, <1>9, <2>1, VictimFields
<1> HIDE DEF w
<1>11. w \in HeapType /\ SameTags(j, w) /\ SameTop(f, w) /\ SameMap(f, w) /\ w.bins = f.bins
  BY <1>2, <1>9, <1>10 DEF OnlyTags, OnlyShelf, SameTop, SameMap, SameShelf
<1>12. FreeTags(g, w, q, y - q)
  <2>1. w.head = j.head /\ w.foot = j.foot /\ Heads(w) = Heads(j) /\ Feet(w) = Feet(j)
    BY <1>11 DEF SameTags, Heads, Feet
  <2>2. FreeTags(g, w, q, t)
    BY <1>9, <2>1, Zenon DEF FreeTags
  <2> QED  BY <1>8, <2>2
<1>13. TagCut(f, w, a, q, y, "free")
  <2>1. Whole(f, w, a, y)
    BY <1>1, <1>3, <1>6, <1>7, <1>11 DEF Whole, FrontAround, Chunks
  <2> QED  BY <1>2, <1>5, <1>8, <1>12, <2>1, SplitCuts
<1>14. Shelved(f, k, {} \cup {e}) /\ k.bins = f.bins /\ k.dvsize = 0
  <2>1. k.bins = f.bins /\ k.dv = NoMem /\ k.dvsize = 0
    BY <1>3, NoDvFields
  <2> HIDE DEF k
  <2> QED  BY <1>3, <1>4, <2>1, NoVictim
<1> HIDE DEF k
<1>15. ({a} \cup {e}) \cap Useds(f) = {a} /\ ({a} \cup {e}) \cap Frees(f) = {} \cup {e} /\ e <= y
  BY <1>1, <1>2, <1>3, <1>4, <1>6 DEF FrontAround, Useds, Frees
<1>16. FrontHeld(f, w, U, a, q - a) /\ Shelved(w, k, {q}) /\ q \in Frees(w) /\ w.head[q].size = y - q
  <2>1. FrontFreeing(f, w, k, a, q, e, y, {a} \cup {e}, {} \cup {e})
    BY <1>5, <1>7, <1>11, <1>13, <1>14, <1>15 DEF FrontFreeing
  <2> QED  BY <2>1, FrontFree
<1>17. Shelved(w, w, {q} \ {q})
  <2>1. Formed(w) /\ w.bins = k.bins /\ w.dv = q /\ w.dvsize = w.head[q].size /\ q \in {q}
    BY <1>8, <1>10, <1>11, <1>14, <1>16 DEF FrontHeld
  <2> QED  BY <1>14, <1>16, <2>1, NewVictim
<1>18. {q} \ {q} = {}
  OBVIOUS
<1>19. FrontDone(f, w, U, a, q - a)
  BY <1>16, <1>17, <1>18, FrontGiven
<1> QED  BY <1>19 DEF w, j, t

(* prepend_alloc, by what lies behind the new memory.                      *)
Prepended(k, g, a, q, e, s, b, r) ==
  /\ r.mem = a /\ r = [m |-> r.m, mem |-> a]
  /\ e = k.top => r.m = [PutTop(g, q, s + k.topsize) EXCEPT !.top = q, !.topsize = @ + s]
  /\ e = k.dv => r.m = [PutFree(g, q, s + k.dvsize) EXCEPT !.dv = q, !.dvsize = @ + s]
  /\ e # k.top /\ e # k.dv /\ IsInuse(Tag(g, e)) => r.m = Insert(SetFree(g, q, s, e), q, s)
  /\ e # k.top /\ e # k.dv /\ ~ IsInuse(Tag(g, e)) =>
       r.m = Insert(SetFree(Unlink(g, e, b), q, s + b, e + b), q, s + b)

LEMMA PrependCases ==
  ASSUME NEW k, NEW a, NEW e, NEW nb, e = k.top => e # k.dv
  PROVE  LET g == PutInuse(k, a, nb)
             q == a + nb
         IN  Prepended(k, g, a, q, e, e - q, Tag(g, e).size, PrependAlloc(k, a, e, nb))
<1> DEFINE g == PutInuse(k, a, nb)
           q == a + nb
           s == e - q
           b == Tag(g, e).size
           A == e = k.top
           B == e = k.dv
           D == e \notin {k.top, k.dv} /\ IsInuse(Tag(g, e))
           u == [PutTop(g, q, s + k.topsize) EXCEPT !.top = q, !.topsize = @ + s]
           v == [PutFree(g, q, s + k.dvsize) EXCEPT !.dv = q, !.dvsize = @ + s]
           w == Insert(SetFree(g, q, s, e), q, s)
           x == Insert(SetFree(Unlink(g, e, b), q, s + b, e + b), q, s + b)
           l == CASE A -> u [] B -> v [] D -> w [] OTHER -> x
<1>1. PrependAlloc(k, a, e, nb) = [mem |-> a, m |-> l]
  BY DEF PrependAlloc
<1>2. /\ A => ~ B /\ ~ D
      /\ B => ~ A /\ ~ D
      /\ e # k.top /\ e # k.dv /\ IsInuse(Tag(g, e)) => D /\ ~ A /\ ~ B
      /\ e # k.top /\ e # k.dv /\ ~ IsInuse(Tag(g, e)) => ~ D /\ ~ A /\ ~ B
  <2> HIDE DEF g
  <2> QED  OBVIOUS
<1>3. (A => e = k.top) /\ (e = k.top => A) /\ (B => e = k.dv) /\ (e = k.dv => B)
  OBVIOUS
<1> HIDE DEF A, B, D, u, v, w, x
<1>4. /\ A /\ ~ B /\ ~ D => l = u
      /\ ~ A /\ B /\ ~ D => l = v
      /\ ~ A /\ ~ B /\ D => l = w
      /\ ~ A /\ ~ B /\ ~ D => l = x
  OBVIOUS
<1> HIDE DEF l, g
<1>5. /\ e = k.top => l = u
      /\ e = k.dv => l = v
      /\ e # k.top /\ e # k.dv /\ IsInuse(Tag(g, e)) => l = w
      /\ e # k.top /\ e # k.dv /\ ~ IsInuse(Tag(g, e)) => l = x
  BY <1>2, <1>3, <1>4
<1>6. [mem |-> a, m |-> l].mem = a /\ [mem |-> a, m |-> l].m = l /\ [mem |-> a, m |-> l] = [m |-> l, mem |-> a]
  OBVIOUS
<1> QED  BY <1>1, <1>5, <1>6 DEF u, v, w, x, g, Prepended

(* The chunk of the new memory is cut.                                     *)
LEMMA FrontReadyIs ==
  ASSUME NEW h, NEW U, Sound(h, U), NEW i, NEW a, NEW n, Fronting(h, i, a, n), NEW k, FrontOpen(h, k, i, a, n),
         NEW nb \in Nat, nb >= MinChunk, n - nb >= MinChunk
  PROVE  LET f == Headed(k, a, InuseTag(n))
             g == PutInuse(k, a, nb)
         IN  /\ FrontReady(f, g, U, a, a + nb, a + n) /\ Keeps(h, f, U) /\ (Counted(h) => Counted(f))
             /\ SameTop(f, k) /\ SameShelf(f, k)
<1> DEFINE f == Headed(k, a, InuseTag(n))
           g == PutInuse(k, a, nb)
           q == a + nb
<1>1. Fronted(h, f, i, a, n)
  BY FrontedIs
<1>2. a \in Nat /\ n \in Nat /\ k \in HeapType /\ InuseTag(n) \in TagType
  BY TagsTyped DEF Fronting, Fresh, Paged, FrontOpen
<1>3. HeadIs(k, f, a, InuseTag(n))
  <2> DEFINE t == InuseTag(n)
  <2>1. a \in Int /\ t \in TagType
    BY <1>2
  <2> HIDE DEF t
  <2>2. HeadIs(k, Headed(k, a, t), a, t)
    BY <1>2, <2>1, HeadPut
  <2> QED  BY <2>2 DEF t
<1>4. OnlyTags(k, g) /\ InuseTags(k, g, a, nb)
  <2>1. a \in Int
    BY <1>2
  <2> QED  BY <1>2, <2>1, TagsFrom
<1> HIDE DEF f, g
<1>5. Sound(f, U \cup {a}) /\ Keeps(h, f, U) /\ a \notin U /\ (Counted(h) => Counted(f))
  BY <1>1, FrontedSound
<1>6. FrontChunks(h, f, a, n)
  BY <1>1, FrontAtIs, FrontChunksIs
<1>7. a \in Useds(f) \ Records(f)
  <2>1. a \in Useds(f)
    BY <1>6 DEF FrontChunks
  <2>2. (U \cup {a}) \cap Records(f) = {}
    BY <1>5 DEF Sound, Held
  <2> QED  BY <2>1, <2>2
<1>8. f.head[a].p /\ Behind(f, a) = a + n
  <2>1. f.head[a] = InuseTag(n)
    BY <1>3 DEF HeadIs
  <2> QED  BY <2>1 DEF InuseTag, Behind
<1>9. /\ Heads(f) = Heads(k) \cup {a} /\ f.foot = k.foot /\ Feet(f) = Feet(k) /\ OnlyTags(k, f)
      /\ \A b \in Heads(k) \ {a} : f.head[b] = k.head[b]
  BY <1>3 DEF HeadIs, Feet
<1>10. InuseTags(f, g, a, nb)
  <2>1. a \notin Inside(a, nb)
    BY <1>2 DEF Inside
  <2> QED  BY <1>4, <1>9, <2>1 DEF InuseTags
<1>11. g \in HeapType /\ SameTop(f, g) /\ SameShelf(f, g) /\ SameMap(f, g) /\ SameTop(f, k) /\ SameShelf(f, k)
  BY <1>4, <1>9 DEF OnlyTags, SameTop, SameShelf, SameMap
<1>12. q \in Int /\ a < q /\ q < a + n /\ q - a = nb /\ (a + n) - q >= MinChunk
  BY <1>2, ConstantTypes
<1>13. FrontReady(f, g, U, a, q, a + n)
  <2> HIDE DEF q
  <2>1. InuseTags(f, g, a, q - a) /\ q - a >= MinChunk
    BY <1>10, <1>12
  <2> QED  BY <1>5, <1>7, <1>8, <1>11, <1>12, <2>1 DEF FrontReady
<1> QED  BY <1>5, <1>11, <1>13 DEF f, g, q

(* A block at the front of the segment.                                    *)
LEMMA PrependServed ==
  ASSUME NEW h, NEW U, Sound(h, U), NEW i, NEW a, NEW n, Fronting(h, i, a, n),
         NEW nb \in Nat, nb >= MinChunk, n - nb >= MinChunk
  PROVE  Served(h, PrependAlloc(Rebased(Mapped(h, a, n), i, a, n), a, a + n, nb), U, nb)
<1> DEFINE k == Rebased(Mapped(h, a, n), i, a, n)
           f == Headed(k, a, InuseTag(n))
           g == PutInuse(k, a, nb)
           q == a + nb
           e == a + n
           s == e - q
           b == Tag(g, e).size
           r == PrependAlloc(k, a, e, nb)
<1>1. FrontOpen(h, k, i, a, n)
  BY FrontOpenIs
<1> HIDE DEF k
<1>2. FrontReady(f, g, U, a, q, e) /\ Keeps(h, f, U) /\ (Counted(h) => Counted(f)) /\ SameTop(f, k) /\ SameShelf(f, k)
  BY <1>1, FrontReadyIs
<1>3. a \in Nat /\ n \in Nat
  BY DEF Fronting, Fresh, Paged
<1>4. q - a = nb
  BY <1>3
<1> HIDE DEF f
<1>5. k.top = f.top /\ k.topsize = f.topsize /\ k.dv = f.dv /\ k.dvsize = f.dvsize /\ k.bins = f.bins
  BY <1>2 DEF SameTop, SameShelf
<1>6. FrontAround(f, g, U, a, q, e)
  BY <1>2, FrontAroundIs
<1>7. e = k.top => e # k.dv
  <2>1. f.dv # f.top
    BY <1>6, VictimIs DEF FrontAround
  <2> QED  BY <1>5, <2>1
<1>8. Prepended(k, g, a, q, e, s, b, r)
  BY <1>7, PrependCases
<1>9. g \in HeapType /\ q \in Int /\ e \in Int /\ s \in Nat /\ g.top = f.top /\ g.topsize = f.topsize /\ g.dv = f.dv /\ g.dvsize = f.dvsize
  <2>1. g \in HeapType /\ SameTop(f, g) /\ SameShelf(f, g) /\ q < e
    BY <1>2 DEF FrontReady
  <2> HIDE DEF g
  <2> QED  BY <1>3, <2>1 DEF SameTop, SameShelf
<1>10. f \in HeapType /\ f.topsize \in Nat /\ f.dvsize \in Int /\ Formed(f) /\ e \in Chunks(f) /\ f.head[e].p /\ Tag(g, e) = f.head[e]
  <2>1. f \in HeapType /\ Formed(f) /\ e \in Chunks(f) /\ f.head[e].p /\ Tag(g, e) = f.head[e]
    BY <1>6 DEF FrontAround
  <2> QED  BY <2>1, HeapFields, TopIs
<1> HIDE DEF r, g, s, q, e
<1>11. ASSUME e = f.top PROVE FrontDone(f, r.m, U, a, q - a)
  <2> DEFINE t == s + f.topsize
             j == PutTop(g, q, t)
             w == SetTop(j, q, t)
  <2>1. t \in Nat
    BY <1>9, <1>10
  <2>2. OnlyTags(g, j)
    <3> HIDE DEF t
    <3> QED  BY <1>9, <2>1, TagsFrom
  <2>3. j.topsize = f.topsize /\ j \in HeapType
    BY <1>9, <2>2 DEF OnlyTags, SameTop
  <2> HIDE DEF j
  <2>4. [j EXCEPT !.top = q, !.topsize = @ + s] = w
    <3>1. j.topsize + s = t
      BY <1>9, <1>10, <2>3
    <3> HIDE DEF t
    <3> QED  BY <2>3, <3>1 DEF SetTop, HeapType
  <2>5. r.m = [j EXCEPT !.top = q, !.topsize = @ + s]
    BY <1>5, <1>8, <1>11 DEF j, Prepended
  <2>6. FrontDone(f, w, U, a, q - a)
    <3>1. t = (e - q) + f.topsize
      BY DEF s
    <3> HIDE DEF t
    <3>2. FrontDone(f, SetTop(PutTop(g, q, (e - q) + f.topsize), q, (e - q) + f.topsize), U, a, q - a)
      BY <1>2, <1>11, FrontTop
    <3> QED  BY <3>1, <3>2 DEF j
  <2> HIDE DEF w
  <2> QED  BY <2>4, <2>5, <2>6
<1>12. ASSUME e = f.dv PROVE FrontDone(f, r.m, U, a, q - a)
  <2> DEFINE t == s + f.dvsize
             j == PutFree(g, q, t)
             w == Victim(j, q, t)
  <2>1. t \in Nat
    <3>1. f.dvsize \in Nat
      <4>1. e # NoMem
        BY <1>10, InMemory DEF Chunks
      <4>2. f.head[e].size = f.dvsize
        <5>1. Shelved(f, f, {})
          BY <1>6 DEF FrontAround
        <5> QED  BY <1>10, <1>12, <4>1, <5>1, VictimIs
      <4>3. f.head[e] \in TagType
        BY <1>10, ChunkIs
      <4> QED  BY <4>2, <4>3 DEF TagType
    <3> QED  BY <1>9, <3>1
  <2>2. OnlyTags(g, j)
    <3> HIDE DEF t
    <3> QED  BY <1>9, <2>1, TagsFrom
  <2>3. j.dvsize = f.dvsize /\ j \in HeapType
    BY <1>9, <2>2 DEF OnlyTags, SameShelf
  <2> HIDE DEF j
  <2>4. [j EXCEPT !.dv = q, !.dvsize = @ + s] = w
    <3>1. j.dvsize + s = t
      BY <1>9, <1>10, <2>3
    <3> HIDE DEF t
    <3> QED  BY <2>3, <3>1 DEF Victim, HeapType
  <2>5. r.m = [j EXCEPT !.dv = q, !.dvsize = @ + s]
    BY <1>5, <1>8, <1>12 DEF j, Prepended
  <2>6. FrontDone(f, w, U, a, q - a)
    <3>1. t = (e - q) + f.dvsize
      BY DEF s
    <3> HIDE DEF t
    <3>2. FrontDone(f, Victim(PutFree(g, q, (e - q) + f.dvsize), q, (e - q) + f.dvsize), U, a, q - a)
      BY <1>2, <1>12, FrontVictim
    <3> QED  BY <3>1, <3>2 DEF j
  <2> HIDE DEF w
  <2> QED  BY <2>4, <2>5, <2>6
<1>13. ASSUME e # f.top, e # f.dv, IsInuse(Tag(g, e)) PROVE FrontDone(f, r.m, U, a, q - a)
  <2>1. e \in Useds(f)
    BY <1>10, <1>13 DEF IsInuse, Useds
  <2>2. r.m = Insert(SetFree(g, q, e - q, e), q, e - q)
    BY <1>5, <1>8, <1>13 DEF s, Prepended
  <2>3. FrontDone(f, Insert(SetFree(g, q, e - q, e), q, e - q), U, a, q - a)
    BY <1>2, <2>1, FrontUsed
  <2> QED  BY <2>2, <2>3
<1>14. ASSUME e # f.top, e # f.dv, ~ IsInuse(Tag(g, e)) PROVE FrontDone(f, r.m, U, a, q - a)
  <2> DEFINE y == Behind(f, e)
  <2>1. e \in Frees(f)
    BY <1>10, <1>14 DEF IsInuse, Frees
  <2>2. b = f.head[e].size
    BY <1>10
  <2>3. y \in Int /\ y = e + f.head[e].size /\ f.head[e].size = y - e
    BY <1>10, ChunkIs
  <2>4. e + b = y /\ s + b = y - q
    <3> HIDE DEF y, b
    <3> QED  BY <1>9, <2>2, <2>3 DEF s
  <2>5. r.m = Insert(SetFree(Unlink(g, e, b), q, s + b, e + b), q, s + b)
    BY <1>5, <1>8, <1>14 DEF Prepended
  <2>6. FrontDone(f, Insert(SetFree(Unlink(g, e, f.head[e].size), q, y - q, y), q, y - q), U, a, q - a)
    BY <1>2, <1>14, <2>1, FrontBin
  <2> HIDE DEF y, b
  <2> QED  BY <2>2, <2>4, <2>5, <2>6
<1>15. FrontDone(f, r.m, U, a, q - a)
  BY <1>11, <1>12, <1>13, <1>14
<1>16. Given(f, r, U, nb) /\ SameMap(f, r.m)
  <2>1. FrontDone(f, r.m, U, a, nb)
    BY <1>4, <1>15 DEF q
  <2>2. r = [m |-> r.m, mem |-> a]
    BY <1>8 DEF Prepended
  <2> QED  BY <2>1, <2>2 DEF FrontDone
<1>17. Served(h, r, U, nb)
  BY <1>2, <1>16, ServedOn
<1> QED  BY <1>17 DEF r, k, e

-----------------------------------------------------------------------------
(* add_segment: the top chunk moves to a segment of its own.  First as if  *)
(* what it leaves were a chunk in use, with the record at c behind it.     *)

OldTop(h, x) == h.top <= x /\ x < EndOf(h.segs[1])

Pushing(h, a, n, c) ==
  /\ Formed(h) /\ Fresh(h, a, n) /\ n > TopFoot
  /\ c = IF h.topsize < MinChunk THEN h.top ELSE Mark(h)

Pushed(h, f, a, n, c) ==
  /\ f \in HeapType /\ SameShelf(h, f) /\ f.mapped = h.mapped \cup Pages(a, n) /\ f.footprint = h.footprint + n
  /\ f.top = a /\ f.topsize = n - TopFoot /\ Len(f.segs) = Len(h.segs) + 1
  /\ f.segs[1].base = a /\ f.segs[1].size = n /\ f.segs[1].rec = h.segs[1].rec
  /\ \A j \in DOMAIN h.segs : /\ f.segs[j + 1].base = h.segs[j].base /\ f.segs[j + 1].size = h.segs[j].size
                              /\ f.segs[j + 1].rec = IF j = 1 THEN c ELSE h.segs[j].rec
  /\ \A x \in Int : FootAt(h, f, x) /\ (~ OldTop(h, x) /\ ~ InMem(a, n, x) => SameAt(h, f, x))
  /\ {h.top, c, c + SegmentRecord, a, a + (n - TopFoot)} \subseteq Heads(f)
  /\ \A x \in Heads(f) : /\ OldTop(h, x) => x \in {h.top, c, c + SegmentRecord}
                         /\ InMem(a, n, x) => x \in {a, a + (n - TopFoot)}
  /\ c # h.top => f.head[h.top] = InuseTag(h.topsize)
  /\ f.head[c] = InuseTag(SegmentRecord) /\ f.head[c + SegmentRecord] = Fencepost
  /\ f.head[a] = FreeTag(n - TopFoot) /\ f.head[a + (n - TopFoot)] = TopTag

PushAt(h, a, n, c, p, e) ==
  /\ h \in HeapType /\ Layout(h) /\ Ends(h) /\ TopRight(h) /\ SegsRight(h)
  /\ a \in Nat /\ n \in Nat /\ n > TopFoot /\ Paged(a, n)
  /\ p = h.top /\ p \in Int /\ e \in Int /\ c \in Int /\ p <= c /\ c + TopFoot <= e /\ e <= c + TopFoot + 1
  /\ e = EndOf(h.segs[1]) /\ Mark(h) \in Int /\ p < Mark(h) /\ Mark(h) < e /\ c < e
  /\ (c = p \/ c = Mark(h)) /\ (c # p => h.topsize = c - p /\ c - p >= MinChunk)
  /\ 1 \in DOMAIN h.segs /\ DOMAIN h.segs = 1 .. Len(h.segs) /\ Len(h.segs) \in Nat

LEMMA PushAtIs ==
  ASSUME NEW h, NEW a, NEW n, NEW c, Pushing(h, a, n, c)
  PROVE  PushAt(h, a, n, c, h.top, EndOf(h.segs[1]))
<1> DEFINE e == EndOf(h.segs[1])
           p == h.top
           k == Mark(h)
           t == h.topsize
<1>1. /\ h \in HeapType /\ Layout(h) /\ Ends(h) /\ TopRight(h) /\ SegsRight(h) /\ 1 \in DOMAIN h.segs
      /\ DOMAIN h.segs = 1 .. Len(h.segs) /\ Formed(h) /\ Len(h.segs) \in Nat /\ p \in Int /\ t > 0
  BY HeapTypes DEF Pushing
<1>2. a \in Nat /\ n \in Nat /\ n > TopFoot /\ Paged(a, n)
  BY DEF Pushing, Fresh, Paged
<1>3. k \in Int /\ t \in Nat /\ k = p + t /\ t = k - p /\ p < k
  BY <1>1, TopIs
<1>4. k + TopFoot = e
  BY <1>1 DEF TopRight
<1>5. c = IF t < MinChunk THEN p ELSE k
  BY DEF Pushing
<1> HIDE DEF p, k, t, e
<1>6. TopFoot = 5 /\ MinChunk = 2
  BY ConstantTypes
<1>7. e \in Int /\ k < e
  BY <1>3, <1>4, <1>6
<1>8. CASE t < MinChunk
  <2>1. c = p /\ t = 1
    BY <1>1, <1>3, <1>5, <1>6, <1>8
  <2>2. c \in Int /\ p <= c /\ c + TopFoot <= e /\ e <= c + TopFoot + 1 /\ c < e
    BY <1>1, <1>3, <1>4, <1>6, <2>1
  <2> QED  BY <1>1, <1>2, <1>3, <1>7, <2>1, <2>2 DEF PushAt, p, k, e
<1>9. CASE ~ (t < MinChunk)
  <2>1. c = k /\ t >= 2
    <3>1. c = k
      BY <1>5, <1>9
    <3>2. t \in Nat
      BY <1>3
    <3> QED  BY <1>6, <1>9, <3>1, <3>2
  <2>2. c \in Int /\ p <= c /\ c + TopFoot <= e /\ e <= c + TopFoot + 1 /\ c < e /\ t = c - p /\ c - p >= MinChunk
    BY <1>1, <1>3, <1>4, <1>6, <2>1
  <2> QED  BY <1>1, <1>2, <1>3, <1>7, <2>1, <2>2 DEF PushAt, p, k, e, t
<1> QED  BY <1>8, <1>9

(* What is at the old top chunk, and in the new memory.                    *)
PushBare(h, a, n) ==
  /\ \A x \in Int : OldTop(h, x) => /\ Holds(h.segs[1], x) /\ x \notin Feet(h) /\ ~ InMem(a, n, x) /\ InSeg(h, x)
                                    /\ x \in Heads(h) => x = h.top \/ x = Mark(h)
                                    /\ \A j \in 2 .. Len(h.segs) : ~ Holds(h.segs[j], x)
  /\ \A x \in Int : Holds(h.segs[1], x) => x < EndOf(h.segs[1])
  /\ \A x \in Int : InMem(a, n, x) => x \notin Heads(h) /\ x \notin Feet(h) /\ ~ InSeg(h, x)

LEMMA PushBareIs ==
  ASSUME NEW h, NEW a, NEW n, NEW c, Pushing(h, a, n, c)
  PROVE  PushBare(h, a, n)
<1>1. Formed(h) /\ Fresh(h, a, n) /\ h \in HeapType /\ 1 \in DOMAIN h.segs
  BY HeapTypes DEF Pushing
<1>2. \A x \in Int : InMem(a, n, x) => x \notin Heads(h) /\ x \notin Feet(h) /\ ~ InSeg(h, x)
  BY <1>1, FreshBare
<1>3. /\ h.top \in Int /\ Mark(h) \in Int /\ h.top < Mark(h) /\ Heads(h) \cap Amid(h.top, Mark(h)) = {h.top}
  BY <1>1, TopIs
<1>4. ASSUME NEW x \in Int, OldTop(h, x)
      PROVE  /\ Holds(h.segs[1], x) /\ x \notin Feet(h) /\ ~ InMem(a, n, x) /\ InSeg(h, x)
             /\ x \in Heads(h) => x = h.top \/ x = Mark(h)
             /\ \A j \in 2 .. Len(h.segs) : ~ Holds(h.segs[j], x)
  <2>1. /\ x \notin Feet(h) /\ Holds(h.segs[1], x) /\ (x \in Heads(h) => x <= Mark(h))
        /\ \A j \in 2 .. Len(h.segs) : ~ Holds(h.segs[j], x)
    BY <1>1, <1>4, OverheadBare DEF OldTop
  <2>2. InSeg(h, x)
    BY <1>1, <2>1 DEF InSeg
  <2>3. x \in Heads(h) => x = h.top \/ x = Mark(h)
    <3>1. SUFFICES ASSUME x \in Heads(h), x # Mark(h) PROVE x = h.top
      OBVIOUS
    <3>2. x \in Amid(h.top, Mark(h))
      <4>1. h.top <= x
        BY <1>4 DEF OldTop
      <4>2. x < Mark(h)
        BY <1>3, <2>1, <3>1
      <4> QED  BY <4>1, <4>2 DEF Amid
    <3> QED  BY <1>3, <3>1, <3>2
  <2> QED  BY <1>2, <2>1, <2>2, <2>3
<1>5. ASSUME NEW x \in Int, Holds(h.segs[1], x) PROVE x < EndOf(h.segs[1])
  BY <1>5 DEF Holds, EndOf
<1> QED  BY <1>2, <1>4, <1>5 DEF PushBare

(* Where the segments are: one more, before the others.                    *)
PushSegs(h, f, a, n, c) ==
  /\ DOMAIN h.segs = 1 .. Len(h.segs) /\ Len(h.segs) \in Nat
  /\ Len(f.segs) = Len(h.segs) + 1 /\ DOMAIN f.segs = 1 .. Len(h.segs) + 1 /\ 1 \in DOMAIN f.segs
  /\ \A j \in DOMAIN h.segs : /\ j \in Int /\ j + 1 \in DOMAIN f.segs /\ EndOf(f.segs[j + 1]) = EndOf(h.segs[j])
                              /\ \A x \in Int : (Holds(f.segs[j + 1], x) => Holds(h.segs[j], x)) /\ (Holds(h.segs[j], x) => Holds(f.segs[j + 1], x))
  /\ \A i \in DOMAIN f.segs : i = 1 \/ \E j \in DOMAIN h.segs : i = j + 1
  /\ \A x \in Int : (Holds(f.segs[1], x) => InMem(a, n, x)) /\ (InMem(a, n, x) => Holds(f.segs[1], x))
  /\ \A x \in Int : (InSeg(f, x) => InSeg(h, x) \/ InMem(a, n, x)) /\ (InSeg(h, x) => InSeg(f, x)) /\ (InMem(a, n, x) => InSeg(f, x))
  /\ f.top = a /\ Mark(f) = a + (n - TopFoot) /\ InMem(a, n, a) /\ InMem(a, n, Mark(f)) /\ Mark(f) \in Int /\ a < Mark(f)

LEMMA PushSegsIs ==
  ASSUME NEW h, NEW a, NEW n, NEW c, PushAt(h, a, n, c, h.top, EndOf(h.segs[1])), NEW f, Pushed(h, f, a, n, c)
  PROVE  PushSegs(h, f, a, n, c)
<1>1. /\ a \in Nat /\ n \in Nat /\ n > TopFoot /\ 1 \in DOMAIN h.segs /\ DOMAIN h.segs = 1 .. Len(h.segs) /\ Len(h.segs) \in Nat
  BY DEF PushAt
<1>2. /\ f \in HeapType /\ f.top = a /\ f.topsize = n - TopFoot /\ Len(f.segs) = Len(h.segs) + 1
      /\ f.segs[1].base = a /\ f.segs[1].size = n
      /\ \A j \in DOMAIN h.segs : f.segs[j + 1].base = h.segs[j].base /\ f.segs[j + 1].size = h.segs[j].size
  BY DEF Pushed
<1>3. DOMAIN f.segs = 1 .. Len(h.segs) + 1
  <2>1. f.segs \in Seq(SegType)
    BY <1>2, HeapFields
  <2> QED  BY <1>2, <2>1
<1>4. 1 \in DOMAIN f.segs
  BY <1>1, <1>3
<1>5. ASSUME NEW j \in DOMAIN h.segs
      PROVE  j \in Int /\ j + 1 \in DOMAIN f.segs /\ EndOf(f.segs[j + 1]) = EndOf(h.segs[j])
  <2>1. j \in Int /\ j + 1 \in DOMAIN f.segs
    BY <1>1, <1>3
  <2>2. EndOf(f.segs[j + 1]) = EndOf(h.segs[j])
    BY <1>2 DEF EndOf
  <2> QED  BY <2>1, <2>2
<1>6. ASSUME NEW j \in DOMAIN h.segs, NEW x \in Int
      PROVE  (Holds(f.segs[j + 1], x) => Holds(h.segs[j], x)) /\ (Holds(h.segs[j], x) => Holds(f.segs[j + 1], x))
  BY <1>2 DEF Holds
<1>7. ASSUME NEW i \in DOMAIN f.segs PROVE i = 1 \/ \E j \in DOMAIN h.segs : i = j + 1
  <2>1. i \in Int /\ (i = 1 \/ (i - 1 \in DOMAIN h.segs /\ i = (i - 1) + 1))
    BY <1>1, <1>3
  <2> QED  BY <2>1
<1>8. ASSUME NEW x \in Int PROVE (Holds(f.segs[1], x) => InMem(a, n, x)) /\ (InMem(a, n, x) => Holds(f.segs[1], x))
  BY <1>2 DEF Holds, InMem
<1>9. ASSUME NEW x \in Int
      PROVE  (InSeg(f, x) => InSeg(h, x) \/ InMem(a, n, x)) /\ (InSeg(h, x) => InSeg(f, x)) /\ (InMem(a, n, x) => InSeg(f, x))
  BY <1>4, <1>5, <1>6, <1>7, <1>8 DEF InSeg
<1>10. Mark(f) = a + (n - TopFoot) /\ InMem(a, n, a) /\ InMem(a, n, Mark(f)) /\ Mark(f) \in Int /\ a < Mark(f)
  <2>1. TopFoot = 5
    BY ConstantTypes
  <2>2. Mark(f) = a + (n - TopFoot)
    BY <1>2 DEF Mark
  <2> QED  BY <1>1, <2>1, <2>2 DEF InMem
<1> QED  BY <1>1, <1>2, <1>3, <1>4, <1>5, <1>6, <1>7, <1>8, <1>9, <1>10 DEF PushSegs

LEMMA PushTogether ==
  ASSUME NEW h, NEW a, NEW n, NEW c, NEW f, PushSegs(h, f, a, n, c), PushBare(h, a, n), NEW x \in Int, NEW y \in Int
  PROVE  /\ ~ InMem(a, n, x) /\ ~ InMem(a, n, y) /\ Together(h, x, y) => Together(f, x, y)
         /\ InMem(a, n, x) /\ InMem(a, n, y) => Together(f, x, y)
         /\ OldTop(h, x) /\ OldTop(h, y) => Together(f, x, y)
<1>1. \A i \in DOMAIN f.segs : i = 1 \/ \E j \in DOMAIN h.segs : i = j + 1
  BY DEF PushSegs
<1>2. \A j \in DOMAIN h.segs, z \in Int : (Holds(f.segs[j + 1], z) => Holds(h.segs[j], z)) /\ (Holds(h.segs[j], z) => Holds(f.segs[j + 1], z))
  BY DEF PushSegs
<1>3. \A z \in Int : (Holds(f.segs[1], z) => InMem(a, n, z)) /\ (InMem(a, n, z) => Holds(f.segs[1], z))
  BY DEF PushSegs
<1>4. ASSUME ~ InMem(a, n, x), ~ InMem(a, n, y), Together(h, x, y) PROVE Together(f, x, y)
  BY <1>1, <1>2, <1>3, <1>4 DEF Together
<1>5. ASSUME InMem(a, n, x), InMem(a, n, y) PROVE Together(f, x, y)
  <2>1. \A j \in DOMAIN h.segs : ~ Holds(h.segs[j], x) /\ ~ Holds(h.segs[j], y)
    BY <1>5 DEF PushBare, InSeg
  <2> QED  BY <1>1, <1>2, <1>3, <1>5, <2>1 DEF Together
<1>6. ASSUME OldTop(h, x), OldTop(h, y) PROVE Together(f, x, y)
  <2>1. Holds(h.segs[1], x) /\ Holds(h.segs[1], y) /\ ~ InMem(a, n, x) /\ ~ InMem(a, n, y)
    BY <1>6 DEF PushBare
  <2>2. \A j \in 2 .. Len(h.segs) : ~ Holds(h.segs[j], x) /\ ~ Holds(h.segs[j], y)
    BY <1>6 DEF PushBare
  <2>3. \A j \in DOMAIN h.segs : j = 1 \/ j \in 2 .. Len(h.segs)
    <3>1. DOMAIN h.segs = 1 .. Len(h.segs) /\ Len(h.segs) \in Nat
      BY DEF PushSegs
    <3> QED  BY <3>1
  <2>4. Together(h, x, y)
    BY <2>1, <2>2, <2>3 DEF Together
  <2> QED  BY <1>4, <2>1, <2>4
<1> QED  BY <1>4, <1>5, <1>6

(* The headers of both.                                                    *)
PushHeads(h, f, a, n, c) ==
  /\ OldTop(h, h.top) /\ OldTop(h, c) /\ OldTop(h, c + SegmentRecord) /\ c + SegmentRecord \in Int /\ OldTop(h, Mark(h))
  /\ h.top \in Heads(f) /\ c \in Heads(f) /\ c + SegmentRecord \in Heads(f) /\ a \in Heads(f) /\ Mark(f) \in Heads(f)
  /\ f.head[h.top].size > 0 /\ f.head[h.top].c /\ f.head[h.top].p
  /\ f.head[c] = InuseTag(SegmentRecord) /\ f.head[c].size = SegmentRecord /\ f.head[c].c /\ f.head[c].p
  /\ f.head[c + SegmentRecord] = Fencepost
  /\ f.head[a].size = n - TopFoot /\ f.head[a].p /\ ~ f.head[a].c
  /\ f.head[Mark(f)] = TopTag
  /\ Heads(f) \subseteq Int /\ Heads(h) \subseteq Int
  /\ \A x \in Heads(f) : /\ OldTop(h, x) => x \in {h.top, c, c + SegmentRecord}
                         /\ InMem(a, n, x) => x \in {a, Mark(f)}
                         /\ ~ OldTop(h, x) /\ ~ InMem(a, n, x) => x \in Heads(h) /\ f.head[x] = h.head[x]
  /\ \A x \in Heads(h) : /\ ~ InMem(a, n, x) /\ (OldTop(h, x) => x = h.top \/ x = Mark(h))
                         /\ ~ OldTop(h, x) => x \in Heads(f) /\ f.head[x] = h.head[x]

LEMMA PushHeadsIs ==
  ASSUME NEW h, NEW a, NEW n, NEW c, Pushing(h, a, n, c), NEW f, Pushed(h, f, a, n, c)
  PROVE  PushHeads(h, f, a, n, c)
<1> DEFINE p == h.top
           e == EndOf(h.segs[1])
<1>1. PushAt(h, a, n, c, p, e) /\ PushBare(h, a, n)
  BY PushAtIs, PushBareIs
<1>2. PushSegs(h, f, a, n, c)
  BY <1>1, PushSegsIs
<1>3. /\ p \in Int /\ e \in Int /\ c \in Int /\ p <= c /\ c + TopFoot <= e /\ Mark(h) \in Int /\ p < Mark(h) /\ Mark(h) < e /\ c < e
      /\ (c # p => h.topsize = c - p /\ c - p >= MinChunk) /\ h \in HeapType /\ n \in Nat /\ n > TopFoot
  BY <1>1 DEF PushAt
<1> HIDE DEF p, e
<1>4. c + SegmentRecord \in Int /\ p <= c + SegmentRecord /\ c + SegmentRecord < e /\ p < e
  BY <1>3, ConstantTypes
<1>5. OldTop(h, h.top) /\ OldTop(h, c) /\ OldTop(h, c + SegmentRecord) /\ OldTop(h, Mark(h))
  <2>1. \A x \in Int : p <= x /\ x < e => OldTop(h, x)
    BY DEF OldTop, p, e
  <2>2. p <= p /\ p <= Mark(h)
    BY <1>3
  <2> QED  BY <1>3, <1>4, <2>1, <2>2 DEF p
<1>6. Mark(f) = a + (n - TopFoot)
  BY <1>2 DEF PushSegs
<1>7. h.top \in Heads(f) /\ c \in Heads(f) /\ c + SegmentRecord \in Heads(f) /\ a \in Heads(f) /\ Mark(f) \in Heads(f)
  BY <1>6 DEF Pushed
<1>8. /\ c # h.top => f.head[h.top] = InuseTag(h.topsize)
      /\ f.head[c] = InuseTag(SegmentRecord) /\ f.head[c + SegmentRecord] = Fencepost
      /\ f.head[a] = FreeTag(n - TopFoot) /\ f.head[Mark(f)] = TopTag /\ f \in HeapType
  BY <1>6 DEF Pushed
<1>9. f.head[c].size = SegmentRecord /\ f.head[c].c /\ f.head[c].p
  BY <1>8 DEF InuseTag
<1>10. f.head[a].size = n - TopFoot /\ f.head[a].p /\ ~ f.head[a].c
  BY <1>8 DEF FreeTag
<1>11. f.head[h.top].size > 0 /\ f.head[h.top].c /\ f.head[h.top].p
  <2>1. CASE c = h.top
    BY <1>9, <2>1, ConstantTypes
  <2>2. CASE c # h.top
    <3>1. f.head[h.top].size = h.topsize /\ f.head[h.top].c /\ f.head[h.top].p
      BY <1>8, <2>2 DEF InuseTag
    <3> QED  BY <1>3, <2>2, <3>1, ConstantTypes DEF p
  <2> QED  BY <2>1, <2>2
<1>12. Heads(f) \subseteq Int /\ Heads(h) \subseteq Int
  BY <1>3, <1>8, HeapFields
<1>13. ASSUME NEW x \in Heads(f)
       PROVE  /\ OldTop(h, x) => x \in {h.top, c, c + SegmentRecord}
              /\ InMem(a, n, x) => x \in {a, Mark(f)}
              /\ ~ OldTop(h, x) /\ ~ InMem(a, n, x) => x \in Heads(h) /\ f.head[x] = h.head[x]
  BY <1>6, <1>12 DEF Pushed, SameAt
<1>14. ASSUME NEW x \in Heads(h)
       PROVE  /\ ~ InMem(a, n, x) /\ (OldTop(h, x) => x = h.top \/ x = Mark(h))
              /\ ~ OldTop(h, x) => x \in Heads(f) /\ f.head[x] = h.head[x]
  <2>1. x \in Int
    BY <1>12
  <2>2. ~ InMem(a, n, x)
    BY <1>1, <2>1 DEF PushBare
  <2>3. OldTop(h, x) => x = h.top \/ x = Mark(h)
    BY <1>1, <2>1 DEF PushBare
  <2>4. ~ OldTop(h, x) => x \in Heads(f) /\ f.head[x] = h.head[x]
    BY <2>1, <2>2 DEF Pushed, SameAt
  <2> QED  BY <2>2, <2>3, <2>4
<1> QED  BY <1>4, <1>5, <1>7, <1>8, <1>9, <1>10, <1>11, <1>12, <1>13, <1>14 DEF PushHeads

(* The chunks of both.                                                     *)
PushChunks(h, f, a, n, c) ==
  /\ h.top \in Chunks(h) /\ h.top \in Chunks(f) /\ c \in Chunks(f) /\ a \in Chunks(f) /\ c # a /\ h.top # a
  /\ \A x \in Chunks(f) : x = a \/ x = c \/ x \in Chunks(h)
  /\ \A x \in Chunks(h) : /\ x \in Chunks(f) /\ x # a /\ ~ InMem(a, n, x)
                          /\ x # h.top => x # c /\ f.head[x] = h.head[x] /\ ~ OldTop(h, x)
  /\ Frees(f) = Frees(h) /\ Useds(f) = Useds(h) \cup {c, h.top}

LEMMA PushChunksIs ==
  ASSUME NEW h, NEW a, NEW n, NEW c, Pushing(h, a, n, c), NEW f, Pushed(h, f, a, n, c)
  PROVE  PushChunks(h, f, a, n, c)
<1>1. PushAt(h, a, n, c, h.top, EndOf(h.segs[1])) /\ PushBare(h, a, n)
  BY PushAtIs, PushBareIs
<1>2. PushSegs(h, f, a, n, c) /\ PushHeads(h, f, a, n, c)
  BY <1>1, PushSegsIs, PushHeadsIs
<1>3. h.top \in Int /\ c \in Int /\ a \in Int /\ n \in Int /\ n > TopFoot /\ h.top \in Chunks(h) /\ Mark(h) \in Int
  BY <1>1 DEF PushAt, TopRight
<1>4. /\ \A x \in Int : (InSeg(f, x) => InSeg(h, x) \/ InMem(a, n, x)) /\ (InSeg(h, x) => InSeg(f, x)) /\ (InMem(a, n, x) => InSeg(f, x))
      /\ f.top = a /\ InMem(a, n, a) /\ InMem(a, n, Mark(f)) /\ Mark(f) \in Int /\ a < Mark(f)
  BY <1>2 DEF PushSegs
<1>5. \A x \in Int : OldTop(h, x) => InSeg(h, x) /\ ~ InMem(a, n, x)
  BY <1>1 DEF PushBare
<1>6. /\ OldTop(h, h.top) /\ OldTop(h, c) /\ OldTop(h, Mark(h)) /\ h.top \in Heads(f) /\ c \in Heads(f) /\ a \in Heads(f)
      /\ f.head[h.top].size > 0 /\ f.head[c].size = SegmentRecord /\ f.head[a].size = n - TopFoot
      /\ f.head[c + SegmentRecord] = Fencepost /\ f.head[h.top].c /\ f.head[c].c /\ ~ f.head[a].c
      /\ Heads(f) \subseteq Int /\ Heads(h) \subseteq Int
  BY <1>2 DEF PushHeads
<1>7. h.top \in Chunks(f) /\ c \in Chunks(f) /\ a \in Chunks(f) /\ c # a /\ h.top # a
  <2>1. f.head[h.top].size # 0 /\ f.head[c].size # 0 /\ f.head[a].size # 0
    BY <1>3, <1>6, ConstantTypes
  <2>2. ~ InMem(a, n, h.top) /\ ~ InMem(a, n, c) /\ InSeg(f, h.top) /\ InSeg(f, c) /\ InSeg(f, a)
    BY <1>3, <1>4, <1>5, <1>6
  <2>3. h.top # Mark(f) /\ c # Mark(f) /\ a # Mark(f)
    BY <1>3, <1>4, <2>2
  <2> QED  BY <1>4, <1>6, <2>1, <2>2, <2>3 DEF Chunks
<1>8. ASSUME NEW x \in Chunks(f), x # a, x # c, x # h.top PROVE x \in Chunks(h) /\ ~ OldTop(h, x) /\ ~ InMem(a, n, x)
  <2>1. x \in Heads(f) /\ InSeg(f, x) /\ f.head[x].size # 0 /\ x # Mark(f) /\ x \in Int
    BY <1>6, <1>8 DEF Chunks
  <2>2. ~ InMem(a, n, x)
    BY <1>2, <1>8, <2>1 DEF PushHeads
  <2>3. ~ OldTop(h, x)
    <3>1. x # c + SegmentRecord
      BY <1>6, <2>1 DEF Fencepost
    <3> QED  BY <1>2, <1>8, <2>1, <3>1 DEF PushHeads
  <2>4. x \in Heads(h) /\ f.head[x] = h.head[x]
    BY <1>2, <2>1, <2>2, <2>3 DEF PushHeads
  <2>5. InSeg(h, x) /\ x # Mark(h)
    BY <1>4, <1>6, <2>1, <2>2, <2>3
  <2> QED  BY <2>1, <2>2, <2>3, <2>4, <2>5 DEF Chunks
<1>9. ASSUME NEW x \in Chunks(h), x # h.top
      PROVE  x \in Chunks(f) /\ x # a /\ ~ InMem(a, n, x) /\ x # c /\ f.head[x] = h.head[x] /\ ~ OldTop(h, x)
  <2>1. x \in Heads(h) /\ InSeg(h, x) /\ h.head[x].size # 0 /\ x # Mark(h) /\ x \in Int
    BY <1>6 DEF Chunks
  <2>2. ~ InMem(a, n, x) /\ ~ OldTop(h, x)
    BY <1>2, <1>9, <2>1 DEF PushHeads
  <2>3. x \in Heads(f) /\ f.head[x] = h.head[x]
    BY <1>2, <2>1, <2>2 DEF PushHeads
  <2>4. InSeg(f, x) /\ x # Mark(f) /\ x # a /\ x # c
    BY <1>4, <1>6, <2>1, <2>2
  <2> QED  BY <2>1, <2>2, <2>3, <2>4 DEF Chunks
<1>10. \A x \in Chunks(f) : x = a \/ x = c \/ x \in Chunks(h)
  BY <1>3, <1>8
<1>11. \A x \in Chunks(h) : /\ x \in Chunks(f) /\ x # a /\ ~ InMem(a, n, x)
                            /\ x # h.top => x # c /\ f.head[x] = h.head[x] /\ ~ OldTop(h, x)
  BY <1>3, <1>5, <1>6, <1>7, <1>9
<1>12. Frees(f) = Frees(h) /\ Useds(f) = Useds(h) \cup {c, h.top}
  <2>1. ASSUME NEW x \in Frees(f) PROVE x \in Frees(h)
    <3>1. x \in Chunks(f) /\ x # a /\ ~ f.head[x].c
      BY <1>4 DEF Frees
    <3>2. x # c /\ x # h.top
      BY <1>6, <3>1
    <3> QED  BY <1>10, <1>11, <3>1, <3>2 DEF Frees
  <2>2. ASSUME NEW x \in Frees(h) PROVE x \in Frees(f)
    BY <1>4, <1>11 DEF Frees
  <2>3. ASSUME NEW x \in Useds(f) PROVE x \in Useds(h) \cup {c, h.top}
    <3>1. x \in Chunks(f) /\ x # a /\ f.head[x].c
      BY <1>4 DEF Useds
    <3> QED  BY <1>10, <1>11, <3>1 DEF Useds
  <2>4. ASSUME NEW x \in Useds(h) \cup {c, h.top} PROVE x \in Useds(f)
    BY <1>4, <1>6, <1>7, <1>11 DEF Useds
  <2> QED  BY <2>1, <2>2, <2>3, <2>4
<1> QED  BY <1>3, <1>7, <1>10, <1>11, <1>12 DEF PushChunks

(* A chunk of h, but for the top one, ends before that or apart from it.   *)
LEMMA PushAfter ==
  ASSUME NEW h, NEW a, NEW n, NEW c, Pushing(h, a, n, c), NEW b \in Chunks(h), b # h.top
  PROVE  LET e == Behind(h, b)
         IN  /\ OldTop(h, e) => e = h.top
             /\ \A x \in Int : b <= x /\ x <= e => ~ InMem(a, n, x) /\ (x # h.top => ~ OldTop(h, x))
<1> DEFINE e == Behind(h, b)
           p == h.top
           k == EndOf(h.segs[1])
<1>1. Formed(h) /\ PushAt(h, a, n, c, p, k) /\ PushBare(h, a, n)
  BY PushAtIs, PushBareIs DEF Pushing
<1>2. /\ b \in Int /\ e \in Int /\ e \in Heads(h) /\ b < e /\ Together(h, b, e) /\ InSeg(h, b) /\ b # Mark(h) /\ b \in Heads(h)
      /\ \A x \in Heads(h) \cup Feet(h) : ~ (b < x /\ x < e)
  BY <1>1, ChunkIs
<1> HIDE DEF e
<1>3. /\ p \in Int /\ k \in Int /\ Mark(h) \in Int /\ p < Mark(h) /\ Mark(h) < k /\ h \in HeapType /\ SegsRight(h) /\ p \in Heads(h)
  BY <1>1 DEF PushAt, TopRight, Chunks
<1>4. b < p \/ k <= b
  <2>1. ~ OldTop(h, b)
    BY <1>1, <1>2 DEF PushBare
  <2> QED  BY <1>2, <1>3, <2>1 DEF OldTop, p, k
<1>5. b < p => e <= p
  BY <1>2, <1>3
<1>6. ASSUME NEW x \in Int, b <= x, x <= e, OldTop(h, x) PROVE x = p
  <2>1. p <= x /\ x < k
    BY <1>6 DEF OldTop, p, k
  <2> HIDE DEF p, k
  <2> QED  BY <1>2, <1>3, <1>4, <1>5, <1>6, <2>1
<1>7. ASSUME NEW x \in Int, b <= x, x <= e PROVE ~ InMem(a, n, x)
  <2>1. InSeg(h, x)
    BY <1>2, <1>3, <1>7, Between
  <2> QED  BY <1>1, <2>1 DEF PushBare
<1>8. OldTop(h, e) => e = p
  <2>1. b <= e /\ e <= e
    BY <1>2
  <2> QED  BY <1>2, <1>6, <2>1
<1> QED  BY <1>6, <1>7, <1>8 DEF e, p

LEMMA PushSame ==
  ASSUME NEW h, NEW a, NEW n, NEW c, Pushing(h, a, n, c), NEW f, Pushed(h, f, a, n, c), NEW b \in Chunks(h), b # h.top
  PROVE  /\ Behind(h, b) # h.top => SameChunk(h, f, b)
         /\ Behind(h, b) = h.top => Laid(f, b) /\ (~ f.head[b].p => b \in Feet(f))
<1> DEFINE e == Behind(h, b)
<1>1. Formed(h) /\ PushAt(h, a, n, c, h.top, EndOf(h.segs[1])) /\ PushBare(h, a, n)
  BY PushAtIs, PushBareIs DEF Pushing
<1>2. PushSegs(h, f, a, n, c) /\ PushHeads(h, f, a, n, c) /\ PushChunks(h, f, a, n, c)
  BY <1>1, PushSegsIs, PushHeadsIs, PushChunksIs
<1>3. /\ b \in Int /\ e \in Int /\ e \in Heads(h) /\ b < e /\ Together(h, b, e) /\ e = b + h.head[b].size /\ b \in Heads(h)
      /\ \A x \in Heads(h) \cup Feet(h) : ~ (b < x /\ x < e)
      /\ h.head[b].size >= MinChunk /\ h.head[b].size = e - b
  BY <1>1, ChunkIs
<1>4. /\ OldTop(h, e) => e = h.top
      /\ \A x \in Int : b <= x /\ x <= e => ~ InMem(a, n, x) /\ (x # h.top => ~ OldTop(h, x))
  BY PushAfter
<1> HIDE DEF e
<1>5. b \in Chunks(f) /\ b # a /\ f.head[b] = h.head[b] /\ ~ OldTop(h, b)
  BY <1>2 DEF PushChunks
<1>6. f.top = a
  BY <1>2 DEF PushSegs
<1>7. Together(f, b, e)
  <2>1. ~ InMem(a, n, b) /\ ~ InMem(a, n, e)
    BY <1>3, <1>4
  <2> QED  BY <1>1, <1>2, <1>3, <2>1, PushTogether
<1>8. \A x \in Int : FootAt(h, f, x)
  BY DEF Pushed
<1>9. \A x \in Int : b <= x /\ x <= e /\ x # h.top => (x \in Heads(f) => x \in Heads(h))
  BY <1>2, <1>4 DEF PushHeads
<1>10. ASSUME e # h.top PROVE SameChunk(h, f, b)
  <2>1. ~ OldTop(h, e)
    BY <1>4, <1>10
  <2>2. e \in Heads(f) /\ f.head[e] = h.head[e]
    BY <1>2, <1>3, <2>1 DEF PushHeads
  <2>3. SameBits(h, f, e)
    BY <2>2 DEF SameBits
  <2>4. \A x \in Int : b <= x /\ x <= e => (x \in Heads(f) => x \in Heads(h)) /\ FootAt(h, f, x)
    <3>1. h.top \in Heads(h)
      BY <1>1 DEF PushAt, TopRight, Chunks
    <3> QED  BY <1>8, <1>9, <3>1
  <2> QED  BY <1>5, <1>6, <1>7, <2>2, <2>3, <2>4 DEF SameChunk, e
<1>11. ASSUME e = h.top PROVE Laid(f, b) /\ (~ f.head[b].p => b \in Feet(f))
  <2>1. e \in Heads(f) /\ f.head[e].p /\ Heads(f) \subseteq Int
    BY <1>2, <1>11 DEF PushHeads
  <2>2. e \notin Feet(f)
    <3>1. e \notin Feet(h)
      <4>1. OldTop(h, e)
        BY <1>2, <1>11 DEF PushHeads
      <4> QED  BY <1>1, <1>3, <4>1 DEF PushBare
    <3> QED  BY <1>3, <1>8, <3>1 DEF FootAt
  <2>3. b \notin Frees(f)
    <3>1. SUFFICES ASSUME b \in Frees(h) PROVE FALSE
      BY <1>2 DEF PushChunks
    <3>2. e \in Useds(h)
      BY <1>1, <3>1, FreeIs DEF e
    <3> QED  BY <1>11, <3>2 DEF Useds
  <2>4. Behind(f, b) = e
    BY <1>5 DEF Behind, e
  <2>5. ASSUME NEW x \in Heads(f) \cup Feet(f) PROVE ~ (b < x /\ x < e)
    <3>1. SUFFICES ASSUME b < x, x < e PROVE FALSE
      OBVIOUS
    <3>2. x \in Int
      <4>1. f \in HeapType
        BY DEF Pushed
      <4> QED  BY <4>1, HeapFields
    <3>3. b <= x /\ x <= e /\ x # h.top
      BY <1>3, <1>11, <3>1, <3>2
    <3>4. x \in Heads(h) \cup Feet(h)
      BY <1>8, <1>9, <3>2, <3>3 DEF FootAt
    <3> QED  BY <1>3, <3>1, <3>4
  <2>6. e - b >= MinChunk
    BY <1>3
  <2>7. Laid(f, b)
    BY <1>3, <1>7, <2>1, <2>2, <2>3, <2>4, <2>5, <2>6 DEF Laid
  <2>8. ~ f.head[b].p => b \in Feet(f)
    <3>1. ~ h.head[b].p => b \in Feet(h)
      BY <1>1 DEF PushAt, Layout
    <3> QED  BY <1>3, <1>5, <1>8, <3>1 DEF FootAt
  <2> QED  BY <2>7, <2>8
<1> QED  BY <1>10, <1>11 DEF e

(* The new chunks.                                                         *)
LEMMA PushLaid ==
  ASSUME NEW h, NEW a, NEW n, NEW c, Pushing(h, a, n, c), NEW f, Pushed(h, f, a, n, c)
  PROVE  Laid(f, h.top) /\ Laid(f, c) /\ Laid(f, a)
<1> DEFINE p == h.top
           e == EndOf(h.segs[1])
           k == c + SegmentRecord
           t == Mark(f)
<1>1. PushAt(h, a, n, c, p, e) /\ PushBare(h, a, n)
  BY PushAtIs, PushBareIs
<1>2. PushSegs(h, f, a, n, c) /\ PushHeads(h, f, a, n, c) /\ PushChunks(h, f, a, n, c)
  BY <1>1, PushSegsIs, PushHeadsIs, PushChunksIs
<1>3. /\ p \in Int /\ e \in Int /\ c \in Int /\ p <= c /\ c + TopFoot <= e /\ c < e
      /\ (c # p => h.topsize = c - p /\ c - p >= MinChunk) /\ a \in Int /\ n \in Int /\ n > TopFoot
  BY <1>1 DEF PushAt
<1>4. k \in Int /\ k = c + 3 /\ SegmentRecord = 3 /\ MinChunk = 2 /\ TopFoot = 5
  BY <1>3, ConstantTypes
<1>5. t = a + (n - TopFoot) /\ t \in Int /\ f.top = a /\ InMem(a, n, a) /\ InMem(a, n, t) /\ a < t
  BY <1>2 DEF PushSegs
<1>6. /\ OldTop(h, p) /\ OldTop(h, c) /\ OldTop(h, k)
      /\ p \in Heads(f) /\ c \in Heads(f) /\ k \in Heads(f) /\ a \in Heads(f) /\ t \in Heads(f)
      /\ f.head[c].size = SegmentRecord /\ f.head[c].c /\ f.head[c].p /\ f.head[k] = Fencepost
      /\ f.head[a].size = n - TopFoot /\ f.head[p].c
  BY <1>2 DEF PushHeads
<1>7. \A x \in Heads(f) \cup Feet(f) : x \in Int
  <2>1. f \in HeapType
    BY DEF Pushed
  <2> QED  BY <2>1, HeapFields
<1>8. \A x \in Int : FootAt(h, f, x)
  BY DEF Pushed
<1>9. \A x \in Int : OldTop(h, x) \/ InMem(a, n, x) => x \notin Feet(f)
  BY <1>1, <1>8 DEF PushBare, FootAt
<1>10. \A x \in Heads(f) : (OldTop(h, x) => x \in {p, c, k}) /\ (InMem(a, n, x) => x \in {a, t})
  BY <1>2 DEF PushHeads
<1>11. c \in Useds(f) /\ p \in Useds(f) /\ c \notin Frees(f) /\ p \notin Frees(f) /\ c # a /\ p # a
  BY <1>2, <1>6 DEF PushChunks, Frees, Useds
<1>12. f.head[k].p
  BY <1>6 DEF Fencepost
<1>13. c # p => f.head[p].size = h.topsize
  BY DEF Pushed, InuseTag, p
<1>14. \A x \in Int : p <= x /\ x < e => OldTop(h, x)
  BY DEF OldTop, p, e
<1>15. \A x \in Int : a <= x /\ x <= t => InMem(a, n, x)
  BY <1>3, <1>5 DEF InMem
<1> HIDE DEF p, e, k, t
<1>16. Laid(f, c)
  <2>1. Behind(f, c) = k
    BY <1>6 DEF Behind, k
  <2>2. Together(f, c, k)
    BY <1>1, <1>2, <1>3, <1>4, <1>6, PushTogether
  <2>3. ASSUME NEW x \in Heads(f) \cup Feet(f), c < x, x < k PROVE FALSE
    <3>1. OldTop(h, x) /\ x \in Int
      BY <1>3, <1>4, <1>7, <1>14, <2>3
    <3> QED  BY <1>3, <1>4, <1>9, <1>10, <2>3, <3>1
  <2>4. k > c /\ k - c >= MinChunk /\ k \notin Feet(f)
    BY <1>3, <1>4, <1>6, <1>9
  <2> QED  BY <1>6, <1>11, <1>12, <2>1, <2>2, <2>3, <2>4 DEF Laid
<1>17. Laid(f, p)
  <2>1. CASE c = p
    BY <1>16, <2>1
  <2>2. CASE c # p
    <3>1. c > p /\ c - p >= MinChunk /\ h.topsize = c - p /\ p + (c - p) = c
      BY <1>3, <2>2
    <3>2. Behind(f, p) = c
      <4>1. f.head[p].size = c - p
        BY <1>13, <2>2, <3>1
      <4> QED  BY <3>1, <4>1 DEF Behind
    <3>3. Together(f, p, c)
      BY <1>1, <1>2, <1>3, <1>6, PushTogether
    <3>4. ASSUME NEW x \in Heads(f) \cup Feet(f), p < x, x < c PROVE FALSE
      <4>1. OldTop(h, x) /\ x \in Int
        BY <1>3, <1>7, <1>14, <3>4
      <4>2. x # p /\ x # c /\ x # k
        BY <1>3, <1>4, <3>4, <4>1
      <4> QED  BY <1>9, <1>10, <4>1, <4>2
    <3>5. c \notin Feet(f)
      BY <1>3, <1>6, <1>9
    <3> QED  BY <1>6, <1>11, <3>1, <3>2, <3>3, <3>4, <3>5 DEF Laid
  <2> QED  BY <2>1, <2>2
<1>18. Laid(f, a)
  <2>1. Behind(f, a) = t
    BY <1>5, <1>6 DEF Behind
  <2>2. Together(f, a, t)
    BY <1>1, <1>2, <1>3, <1>5, PushTogether
  <2>3. ASSUME NEW x \in Heads(f) \cup Feet(f), a < x, x < t PROVE FALSE
    <3>1. InMem(a, n, x) /\ x \in Int
      BY <1>3, <1>5, <1>7, <1>15, <2>3
    <3> QED  BY <1>3, <1>5, <1>9, <1>10, <2>3, <3>1
  <2>4. a \notin Useds(f) /\ a \notin Frees(f)
    BY <1>5 DEF Useds, Frees
  <2> QED  BY <1>5, <1>6, <2>1, <2>2, <2>3, <2>4 DEF Laid
<1> QED  BY <1>16, <1>17, <1>18 DEF p

LEMMA PushLayout ==
  ASSUME NEW h, NEW a, NEW n, NEW c, Pushing(h, a, n, c), NEW f, Pushed(h, f, a, n, c)
  PROVE  Layout(f)
<1>1. PushAt(h, a, n, c, h.top, EndOf(h.segs[1])) /\ PushBare(h, a, n)
  BY PushAtIs, PushBareIs
<1>2. PushChunks(h, f, a, n, c) /\ PushHeads(h, f, a, n, c)
  BY PushHeadsIs, PushChunksIs
<1>3. h \in HeapType /\ f \in HeapType /\ Layout(h) /\ Formed(h)
  BY <1>1 DEF PushAt, Pushed, Pushing
<1>4. ASSUME NEW b \in Chunks(f) PROVE SameChunk(h, f, b) \/ (Laid(f, b) /\ (~ f.head[b].p => b \in Feet(f)))
  <2>1. CASE b \in {h.top, c, a}
    <3>1. Laid(f, h.top) /\ Laid(f, c) /\ Laid(f, a)
      BY PushLaid
    <3>2. f.head[b].p
      BY <1>2, <2>1 DEF PushHeads
    <3> QED  BY <2>1, <3>1, <3>2
  <2>2. CASE b \notin {h.top, c, a}
    <3>1. b \in Chunks(h) /\ b # h.top
      BY <1>2, <2>2 DEF PushChunks
    <3> QED  BY <3>1, PushSame
  <2> QED  BY <2>1, <2>2
<1>5. ASSUME NEW x \in Feet(f) PROVE x \in Feet(h) /\ f.foot[x] = h.foot[x] /\ SameChunk(h, f, x - h.foot[x])
  <2>1. x \in Int
    BY <1>3, HeapFields
  <2>2. x \in Feet(h) /\ f.foot[x] = h.foot[x]
    BY <2>1 DEF Pushed, FootAt
  <2>3. x \in Useds(h) /\ x - h.foot[x] \in Frees(h) /\ Behind(h, x - h.foot[x]) = x
    BY <1>3, <2>2, FootIs
  <2> DEFINE b == x - h.foot[x]
  <2>4. b \in Chunks(h) /\ b # h.top /\ Behind(h, b) # h.top
    BY <2>3 DEF Frees, Useds
  <2> HIDE DEF b
  <2>5. SameChunk(h, f, b)
    BY <2>4, PushSame
  <2> QED  BY <2>2, <2>5 DEF b
<1> QED  BY <1>3, <1>4, <1>5, LayoutFrom

LEMMA PushTop ==
  ASSUME NEW h, NEW a, NEW n, NEW c, Pushing(h, a, n, c), NEW f, Pushed(h, f, a, n, c)
  PROVE  TopRight(f)
<1>1. PushAt(h, a, n, c, h.top, EndOf(h.segs[1]))
  BY PushAtIs
<1>2. PushSegs(h, f, a, n, c) /\ PushChunks(h, f, a, n, c) /\ PushHeads(h, f, a, n, c)
  BY <1>1, PushSegsIs, PushHeadsIs, PushChunksIs
<1>3. f.topsize = n - TopFoot /\ f.segs[1].base = a /\ f.segs[1].size = n
  BY DEF Pushed
<1>4. a \in Int /\ n \in Int /\ n > TopFoot /\ TopFoot = 5
  BY <1>1, ConstantTypes DEF PushAt
<1>5. f.top = a /\ Mark(f) = a + (n - TopFoot) /\ InMem(a, n, a) /\ a < Mark(f) /\ Mark(f) \in Int
  BY <1>2 DEF PushSegs
<1>6. Holds(f.segs[1], a)
  BY <1>2, <1>4, <1>5 DEF PushSegs
<1>7. f.topsize > 0 /\ f.topsize = n - TopFoot
  BY <1>3, <1>4
<1>8. Mark(f) + TopFoot = EndOf(f.segs[1])
  BY <1>3, <1>4, <1>5 DEF EndOf
<1>9. ASSUME NEW x \in Heads(f), Holds(f.segs[1], x) PROVE x <= Mark(f)
  <2>1. x \in Int /\ InMem(a, n, x)
    BY <1>2, <1>9 DEF PushHeads, PushSegs
  <2>2. x = a \/ x = Mark(f)
    BY <1>2, <2>1 DEF PushHeads
  <2> QED  BY <1>4, <1>5, <2>2
<1>10. a \in Chunks(f) /\ f.head[a].size = n - TopFoot /\ f.head[a].p /\ ~ f.head[a].c /\ Mark(f) \in Heads(f) /\ f.head[Mark(f)] = TopTag
  BY <1>2 DEF PushChunks, PushHeads
<1>11. f.head[Mark(f)].size = TopFoot /\ ~ f.head[Mark(f)].p /\ ~ f.head[Mark(f)].c
  BY <1>10 DEF TopTag
<1> QED  BY <1>5, <1>6, <1>7, <1>8, <1>9, <1>10, <1>11 DEF TopRight

(* The record of the segment that was the first.                           *)
LEMMA PushRecord ==
  ASSUME NEW h, NEW a, NEW n, NEW c, Pushing(h, a, n, c), NEW f, Pushed(h, f, a, n, c)
  PROVE  RecordRight(f, 2)
<1> DEFINE k == c + SegmentRecord
           e == EndOf(h.segs[1])
<1>1. PushAt(h, a, n, c, h.top, e) /\ PushBare(h, a, n)
  BY PushAtIs, PushBareIs
<1>2. PushSegs(h, f, a, n, c) /\ PushChunks(h, f, a, n, c) /\ PushHeads(h, f, a, n, c)
  BY <1>1, PushSegsIs, PushHeadsIs, PushChunksIs
<1>3. 1 \in DOMAIN h.segs /\ c \in Int /\ e \in Int /\ h.top <= c /\ c + TopFoot <= e /\ e <= c + TopFoot + 1 /\ h.top \in Int
      /\ (c = h.top \/ c = Mark(h)) /\ h.top < Mark(h) /\ Mark(h) \in Int /\ Mark(h) + TopFoot = e
  <2>1. Mark(h) + TopFoot = EndOf(h.segs[1])
    BY <1>1 DEF PushAt, TopRight
  <2> QED  BY <1>1, <2>1 DEF PushAt
<1>4. f.segs[2].rec = c /\ f.segs[1].rec = h.segs[1].rec
  <2>1. f.segs[1 + 1].rec = c
    BY <1>3 DEF Pushed
  <2> QED  BY <2>1 DEF Pushed
<1>5. EndOf(f.segs[2]) = e /\ \A x \in Int : (Holds(f.segs[2], x) => Holds(h.segs[1], x)) /\ (Holds(h.segs[1], x) => Holds(f.segs[2], x))
  <2>1. EndOf(f.segs[1 + 1]) = e /\ \A x \in Int : (Holds(f.segs[1 + 1], x) => Holds(h.segs[1], x)) /\ (Holds(h.segs[1], x) => Holds(f.segs[1 + 1], x))
    BY <1>2, <1>3 DEF PushSegs
  <2> QED  BY <2>1
<1>6. k \in Int /\ k = c + 3 /\ TopFoot = 5 /\ SegmentRecord = 3
  BY <1>3, ConstantTypes
<1>7. OldTop(h, c) /\ OldTop(h, k) /\ k \in Heads(f) /\ f.head[k] = Fencepost /\ f.head[c].size = SegmentRecord
      /\ \A x \in Heads(f) : (OldTop(h, x) => x \in {h.top, c, k}) /\ (~ OldTop(h, x) /\ ~ InMem(a, n, x) => x \in Heads(h))
  BY <1>2 DEF PushHeads
<1>8. c \in Useds(f)
  BY <1>2 DEF PushChunks
<1>9. Holds(f.segs[2], c)
  BY <1>1, <1>3, <1>5, <1>7 DEF PushBare
<1>10. ASSUME NEW x \in Heads(f), Holds(f.segs[2], x) PROVE x <= k
  <2>1. x \in Int
    BY <1>2 DEF PushHeads
  <2>2. Holds(h.segs[1], x)
    BY <1>5, <1>10, <2>1
  <2>3. x < e
    BY <1>1, <2>1, <2>2 DEF PushBare
  <2>4. CASE x >= h.top
    <3>1. OldTop(h, x)
      BY <1>3, <2>1, <2>3, <2>4 DEF OldTop, e
    <3>2. x \in {h.top, c, k}
      BY <1>7, <3>1
    <3> HIDE DEF k, e
    <3> QED  BY <1>3, <1>6, <3>2
  <2>5. CASE x < h.top
    <3> HIDE DEF k, e
    <3> QED  BY <1>3, <1>6, <2>1, <2>5
  <2> QED  BY <1>3, <2>1, <2>4, <2>5
<1>11. c # h.segs[1].rec
  <2>1. h.segs[1].rec \in Useds(h)
    BY <1>1 DEF PushAt, Ends
  <2>2. h.segs[1].rec # h.top /\ h.segs[1].rec \in Chunks(h)
    BY <2>1 DEF Useds
  <2> QED  BY <1>2, <2>2 DEF PushChunks
<1> HIDE DEF k
<1>12. k = c + SegmentRecord
  BY DEF k
<1> QED  BY <1>3, <1>4, <1>5, <1>7, <1>8, <1>9, <1>10, <1>11, <1>12 DEF RecordRight

LEMMA PushRecords ==
  ASSUME NEW h, NEW a, NEW n, NEW c, Pushing(h, a, n, c), NEW f, Pushed(h, f, a, n, c), NEW j \in 2 .. Len(h.segs)
  PROVE  RecordRight(f, j + 1)
<1>1. PushAt(h, a, n, c, h.top, EndOf(h.segs[1])) /\ PushBare(h, a, n)
  BY PushAtIs, PushBareIs
<1>2. PushSegs(h, f, a, n, c) /\ PushChunks(h, f, a, n, c) /\ PushHeads(h, f, a, n, c)
  BY <1>1, PushSegsIs, PushHeadsIs, PushChunksIs
<1> DEFINE r == h.segs[j].rec
           k == r + SegmentRecord
<1>3. j \in DOMAIN h.segs /\ j # 1
  BY <1>1 DEF PushAt
<1>4. Formed(h)
  BY DEF Pushing
<1>5. /\ r \in Useds(h) /\ r \in Int /\ k \in Int /\ k \in Heads(h) /\ h.head[k] = Fencepost
      /\ Holds(h.segs[j], r) /\ Holds(h.segs[j], k)
      /\ r + TopFoot <= EndOf(h.segs[j]) /\ EndOf(h.segs[j]) <= r + TopFoot + 1
      /\ \A x \in Heads(h) : Holds(h.segs[j], x) => x <= k
      /\ r # h.segs[1].rec
  BY <1>4, RecordIs
<1>6. h.head[r].size = SegmentRecord
  BY <1>1 DEF PushAt, Ends, RecordRight
<1>7. f.segs[j + 1].rec = r /\ f.segs[1].rec = h.segs[1].rec
  BY <1>3 DEF Pushed
<1>8. EndOf(f.segs[j + 1]) = EndOf(h.segs[j])
      /\ \A x \in Int : (Holds(f.segs[j + 1], x) => Holds(h.segs[j], x)) /\ (Holds(h.segs[j], x) => Holds(f.segs[j + 1], x))
  BY <1>2, <1>3 DEF PushSegs
<1>9. k = r + SegmentRecord
  OBVIOUS
<1> DEFINE i == j + 1
<1> HIDE DEF r, k, i
<1>10. r \in Useds(f) /\ f.head[r] = h.head[r]
  <2>1. r \in Chunks(h) /\ r # h.top
    BY <1>5 DEF Useds
  <2> QED  BY <1>2, <1>5, <2>1 DEF PushChunks
<1>11. k \in Heads(f) /\ f.head[k] = Fencepost
  <2>1. ~ OldTop(h, k)
    BY <1>1, <1>5 DEF PushBare
  <2> QED  BY <1>2, <1>5, <2>1 DEF PushHeads
<1>12. ASSUME NEW x \in Heads(f), Holds(f.segs[i], x) PROVE x <= k
  <2>1. x \in Int
    BY <1>2 DEF PushHeads
  <2>2. Holds(h.segs[j], x)
    BY <1>8, <1>12, <2>1 DEF i
  <2>3. ~ OldTop(h, x)
    BY <1>1, <2>1, <2>2 DEF PushBare
  <2>4. InSeg(h, x)
    BY <1>3, <2>2 DEF InSeg
  <2>5. ~ InMem(a, n, x)
    BY <1>1, <2>1, <2>4 DEF PushBare
  <2>6. x \in Heads(h)
    BY <1>2, <2>3, <2>5 DEF PushHeads
  <2> QED  BY <1>5, <2>2, <2>6
<1>13. Holds(f.segs[i], r)
  BY <1>5, <1>8 DEF i
<1>14. f.segs[i].rec = r /\ EndOf(f.segs[i]) = EndOf(h.segs[j])
  BY <1>7, <1>8 DEF i
<1>15. RecordRight(f, i)
  BY <1>5, <1>6, <1>7, <1>9, <1>10, <1>11, <1>12, <1>13, <1>14 DEF RecordRight
<1> QED  BY <1>15 DEF i

LEMMA PushEnds ==
  ASSUME NEW h, NEW a, NEW n, NEW c, Pushing(h, a, n, c), NEW f, Pushed(h, f, a, n, c)
  PROVE  Ends(f)
<1>1. PushAt(h, a, n, c, h.top, EndOf(h.segs[1])) /\ PushBare(h, a, n)
  BY PushAtIs, PushBareIs
<1>2. PushSegs(h, f, a, n, c) /\ PushChunks(h, f, a, n, c) /\ PushHeads(h, f, a, n, c)
  BY <1>1, PushSegsIs, PushHeadsIs, PushChunksIs
<1>3. TopRight(f)
  BY PushTop
<1>4. Len(h.segs) \in Nat /\ Len(f.segs) = Len(h.segs) + 1 /\ DOMAIN h.segs = 1 .. Len(h.segs) /\ 1 \in DOMAIN h.segs
  BY <1>1, <1>2 DEF PushAt, PushSegs
<1>5. ASSUME NEW i \in 2 .. Len(f.segs) PROVE RecordRight(f, i)
  <2>1. CASE i = 2
    BY <2>1, PushRecord
  <2>2. CASE i # 2
    <3> DEFINE j == i - 1
    <3>1. j \in 2 .. Len(h.segs) /\ j + 1 = i
      BY <1>4, <2>2
    <3> HIDE DEF j
    <3>2. RecordRight(f, j + 1)
      BY <3>1, PushRecords
    <3> QED  BY <3>1, <3>2
  <2> QED  BY <2>1, <2>2
<1>6. ASSUME NEW x \in Heads(f), InSeg(f, x), f.head[x].size = 0
      PROVE  \E i \in 2 .. Len(f.segs) : x = f.segs[i].rec + SegmentRecord
  <2>1. x \in Int
    BY <1>2 DEF PushHeads
  <2>2. CASE OldTop(h, x)
    <3>1. x \in {h.top, c, c + SegmentRecord}
      BY <1>2, <2>2 DEF PushHeads
    <3>2. x # h.top /\ x # c
      <4>1. f.head[h.top].size > 0 /\ f.head[c].size = 3
        BY <1>2, ConstantTypes DEF PushHeads
      <4> QED  BY <1>6, <4>1
    <3>3. f.segs[1 + 1].rec = c
      BY <1>4 DEF Pushed
    <3>4. 2 \in 2 .. Len(f.segs)
      BY <1>4
    <3> QED  BY <3>1, <3>2, <3>3, <3>4
  <2>3. CASE InMem(a, n, x)
    <3>1. x = a \/ x = Mark(f)
      BY <1>2, <2>3 DEF PushHeads
    <3>2. f.head[a].size = n - TopFoot /\ f.head[Mark(f)].size = TopFoot
      BY <1>2 DEF PushHeads, TopTag
    <3>3. n - TopFoot > 0 /\ TopFoot > 0
      BY <1>1, ConstantTypes DEF PushAt
    <3>4. x # a
      BY <1>6, <3>2, <3>3
    <3>5. x # Mark(f)
      BY <1>6, <3>2, <3>3
    <3> QED  BY <3>1, <3>4, <3>5
  <2>4. CASE ~ OldTop(h, x) /\ ~ InMem(a, n, x)
    <3>1. x \in Heads(h) /\ f.head[x] = h.head[x] /\ InSeg(h, x)
      BY <1>2, <1>6, <2>1, <2>4 DEF PushHeads, PushSegs
    <3>2. PICK j \in 2 .. Len(h.segs) : x = h.segs[j].rec + SegmentRecord
      BY <1>1, <1>6, <3>1 DEF PushAt, Ends
    <3>3. f.segs[j + 1].rec = h.segs[j].rec
      <4>1. j \in DOMAIN h.segs /\ j # 1
        BY <1>4, <3>2
      <4> QED  BY <4>1 DEF Pushed
    <3>4. j + 1 \in 2 .. Len(f.segs)
      BY <1>4, <3>2
    <3> QED  BY <3>2, <3>3, <3>4
  <2> QED  BY <2>2, <2>3, <2>4
<1>7. f.segs[1].rec \in Useds(f) /\ f.head[f.segs[1].rec].size = StateChunk
  <2>1. f.segs[1].rec = h.segs[1].rec
    BY DEF Pushed
  <2>2. h.segs[1].rec \in Useds(h) /\ h.head[h.segs[1].rec].size = StateChunk
    BY <1>1 DEF PushAt, Ends
  <2>3. h.segs[1].rec \in Chunks(h) /\ h.segs[1].rec # h.top
    BY <2>2 DEF Useds
  <2> QED  BY <1>2, <2>1, <2>2, <2>3 DEF PushChunks
<1> QED  BY <1>3, <1>5, <1>6, <1>7 DEF Ends

LEMMA PushSegsRight ==
  ASSUME NEW h, NEW a, NEW n, NEW c, Pushing(h, a, n, c), NEW f, Pushed(h, f, a, n, c)
  PROVE  SegsRight(f)
<1>1. PushAt(h, a, n, c, h.top, EndOf(h.segs[1])) /\ PushBare(h, a, n)
  BY PushAtIs, PushBareIs
<1>2. PushSegs(h, f, a, n, c) /\ PushChunks(h, f, a, n, c)
  BY <1>1, PushSegsIs, PushChunksIs
<1>3. SegsRight(h) /\ 1 \in DOMAIN f.segs
  BY <1>1, <1>2 DEF PushAt, PushSegs
<1>4. ASSUME NEW i \in DOMAIN f.segs
      PROVE  f.segs[i].base % Page = 0 /\ f.segs[i].size % Page = 0 /\ f.segs[i].size > 0 /\ f.segs[i].base \in Chunks(f)
  <2>1. CASE i = 1
    <3>1. f.segs[1].base = a /\ f.segs[1].size = n
      BY DEF Pushed
    <3>2. a % Page = 0 /\ n % Page = 0 /\ n > 0
      BY <1>1 DEF PushAt, Paged
    <3>3. a \in Chunks(f)
      BY <1>2 DEF PushChunks
    <3> QED  BY <2>1, <3>1, <3>2, <3>3
  <2>2. ASSUME NEW j \in DOMAIN h.segs, i = j + 1
        PROVE  f.segs[i].base % Page = 0 /\ f.segs[i].size % Page = 0 /\ f.segs[i].size > 0 /\ f.segs[i].base \in Chunks(f)
    <3>1. f.segs[i].base = h.segs[j].base /\ f.segs[i].size = h.segs[j].size
      BY <2>2 DEF Pushed
    <3>2. h.segs[j].base % Page = 0 /\ h.segs[j].size % Page = 0 /\ h.segs[j].size > 0 /\ h.segs[j].base \in Chunks(h)
      BY <1>3 DEF SegsRight
    <3>3. h.segs[j].base \in Chunks(f)
      BY <1>2, <3>2 DEF PushChunks
    <3> QED  BY <3>1, <3>2, <3>3
  <2> QED  BY <1>2, <2>1, <2>2 DEF PushSegs
<1>5. ASSUME NEW i \in DOMAIN f.segs, NEW l \in DOMAIN f.segs, i # l, NEW x \in Int, Holds(f.segs[i], x), Holds(f.segs[l], x) PROVE FALSE
  <2>1. \A k \in DOMAIN f.segs : Holds(f.segs[k], x) =>
           (k = 1 /\ InMem(a, n, x)) \/ \E j \in DOMAIN h.segs : k = j + 1 /\ Holds(h.segs[j], x)
    <3>1. \A k \in DOMAIN f.segs : k = 1 \/ \E j \in DOMAIN h.segs : k = j + 1
      BY <1>2 DEF PushSegs
    <3>2. Holds(f.segs[1], x) => InMem(a, n, x)
      BY <1>2 DEF PushSegs
    <3>3. \A j \in DOMAIN h.segs : Holds(f.segs[j + 1], x) => Holds(h.segs[j], x)
      BY <1>2 DEF PushSegs
    <3> QED  BY <3>1, <3>2, <3>3
  <2>2. InMem(a, n, x) => \A j \in DOMAIN h.segs : ~ Holds(h.segs[j], x)
    BY <1>1 DEF PushBare, InSeg
  <2>3. \A j, k \in DOMAIN h.segs : Holds(h.segs[j], x) /\ Holds(h.segs[k], x) => j = k
    BY <1>3 DEF SegsRight
  <2> QED  BY <1>5, <2>1, <2>2, <2>3
<1> QED  BY <1>3, <1>4, <1>5 DEF SegsRight

LEMMA PushGain ==
  ASSUME NEW h, NEW a, NEW n, NEW c, Pushing(h, a, n, c), NEW f, Pushed(h, f, a, n, c)
  PROVE  Gain(h, f, a, n)
<1>1. PushAt(h, a, n, c, h.top, EndOf(h.segs[1])) /\ PushBare(h, a, n)
  BY PushAtIs, PushBareIs
<1>2. PushSegs(h, f, a, n, c)
  BY <1>1, PushSegsIs
<1>3. Fresh(h, a, n)
  BY DEF Pushing
<1>4. f.mapped = h.mapped \cup Pages(a, n)
  BY DEF Pushed
<1>5. ASSUME NEW x \in Int, ~ InSeg(f, x) PROVE SameAt(h, f, x)
  <2>1. ~ InMem(a, n, x) /\ ~ InSeg(h, x)
    BY <1>2, <1>5 DEF PushSegs
  <2>2. ~ OldTop(h, x)
    BY <1>1, <2>1 DEF PushBare
  <2> QED  BY <2>1, <2>2 DEF Pushed
<1>6. \A x \in Int : (InSeg(f, x) => InSeg(h, x) \/ InMem(a, n, x)) /\ (InSeg(h, x) => InSeg(f, x)) /\ (InMem(a, n, x) => InSeg(f, x))
  BY <1>2 DEF PushSegs
<1> QED  BY <1>3, <1>4, <1>5, <1>6 DEF Gain

(* A heap like h but for what the old top chunk is now.                    *)
LEMMA PushedSound ==
  ASSUME NEW h, NEW U, Sound(h, U), NEW a, NEW n, NEW c, Pushing(h, a, n, c), NEW f, Pushed(h, f, a, n, c)
  PROVE  /\ Sound(f, U \cup ({h.top} \ {c})) /\ Keeps(h, f, U) /\ (Counted(h) => Counted(f))
         /\ Records(f) = Records(h) \cup {c} /\ h.top \notin U /\ h.top \notin Records(h) /\ c \notin Useds(h) /\ c \notin U
<1>1. Fresh(h, a, n) /\ Formed(h) /\ Shelved(h, h, {}) /\ Held(h, U)
  BY DEF Sound, Pushing
<1>2. PushAt(h, a, n, c, h.top, EndOf(h.segs[1]))
  BY PushAtIs
<1>3. PushSegs(h, f, a, n, c) /\ PushChunks(h, f, a, n, c) /\ PushHeads(h, f, a, n, c)
  BY <1>2, PushSegsIs, PushHeadsIs, PushChunksIs
<1>4. f \in HeapType /\ h \in HeapType
  BY <1>2 DEF PushAt, Pushed
<1>5. Layout(f) /\ Ends(f) /\ SegsRight(f)
  BY PushLayout, PushEnds, PushSegsRight
<1>6. Gain(h, f, a, n)
  BY PushGain
<1>7. Direct(f) = Direct(h) /\ DirectsRight(f) /\ \A d \in Direct(h) : f.head[d] = h.head[d]
  BY <1>1, <1>4, <1>6, GainDirects
<1>8. Formed(f)
  BY <1>4, <1>5, <1>7 DEF Formed, DirectsRight
<1>9. Records(f) = Records(h) \cup {c}
  <2>1. 1 \in DOMAIN h.segs /\ f.segs[1].rec = h.segs[1].rec
    BY <1>2 DEF PushAt, Pushed
  <2>2. \A j \in DOMAIN h.segs : j + 1 \in DOMAIN f.segs /\ f.segs[j + 1].rec = IF j = 1 THEN c ELSE h.segs[j].rec
    BY <1>3 DEF PushSegs, Pushed
  <2>3. 1 \in DOMAIN f.segs /\ \A i \in DOMAIN f.segs : i = 1 \/ \E j \in DOMAIN h.segs : i = j + 1
    BY <1>3 DEF PushSegs
  <2>4. c \in Records(f)
    BY <2>1, <2>2 DEF Records
  <2>5. ASSUME NEW r \in Records(h) PROVE r \in Records(f)
    <3>1. PICK j \in DOMAIN h.segs : r = h.segs[j].rec
      BY DEF Records
    <3>2. CASE j = 1
      BY <2>1, <2>3, <3>1, <3>2 DEF Records
    <3>3. CASE j # 1
      BY <2>2, <3>1, <3>3 DEF Records
    <3> QED  BY <3>2, <3>3
  <2>6. ASSUME NEW r \in Records(f) PROVE r \in Records(h) \cup {c}
    <3>1. PICK i \in DOMAIN f.segs : r = f.segs[i].rec
      BY DEF Records
    <3>2. CASE i = 1
      BY <2>1, <3>1, <3>2 DEF Records
    <3>3. ASSUME NEW j \in DOMAIN h.segs, i = j + 1 PROVE r \in Records(h) \cup {c}
      BY <2>2, <3>1, <3>3 DEF Records
    <3> QED  BY <2>3, <3>2, <3>3
  <2> QED  BY <2>4, <2>5, <2>6
<1>10. Frees(f) = Frees(h) /\ Useds(f) = Useds(h) \cup {c, h.top}
  BY <1>3 DEF PushChunks
<1>11. Useds(h) \subseteq Chunks(h) \ {h.top} /\ Frees(h) \subseteq Chunks(h) \ {h.top} /\ Direct(h) \cap Chunks(h) = {}
  BY DEF Useds, Frees, Chunks, Direct
<1>12. \A b \in Chunks(h) \ {h.top} : f.head[b] = h.head[b] /\ b # c
  BY <1>3 DEF PushChunks
<1>13. U \subseteq Useds(h) \cup Direct(h) /\ U \cap Records(h) = {} /\ Useds(h) \subseteq U \cup Records(h)
  BY <1>1 DEF Held
<1>14. Records(h) \subseteq Useds(h)
  BY <1>1, RecordsUsed
<1>15. c \notin Useds(h) /\ h.top \notin Useds(h)
  BY <1>11, <1>12
<1>16. c \notin Direct(h) /\ h.top \notin Direct(h)
  <2>1. c \in Chunks(f) /\ h.top \in Chunks(f)
    BY <1>3 DEF PushChunks
  <2>2. Direct(f) \cap Chunks(f) = {}
    BY DEF Direct, Chunks
  <2> QED  BY <1>7, <2>1, <2>2
<1>17. Shelved(f, f, {})
  <2>1. Shelved(h, f, {})
    <3>1. SameShelf(h, f)
      BY DEF Pushed
    <3> QED  BY <1>1, <3>1, SameShelved
  <2>2. \A b \in Frees(h) : f.head[b].size = h.head[b].size
    BY <1>11, <1>12
  <2> QED  BY <1>10, <2>1, <2>2 DEF Shelved
<1>18. Held(f, U \cup ({h.top} \ {c}))
  BY <1>7, <1>9, <1>10, <1>13, <1>14, <1>15, <1>16 DEF Held
<1>19. Keeps(h, f, U)
  <2>1. \A b \in U : f.head[b].size = h.head[b].size
    BY <1>7, <1>11, <1>12, <1>13
  <2> QED  BY <1>7, <2>1 DEF Keeps
<1>20. Counted(h) => Counted(f)
  <2>1. f.mapped = h.mapped \cup Pages(a, n) /\ f.footprint = h.footprint + n
    BY DEF Pushed
  <2> QED  BY <1>1, <1>4, <2>1, GainCounted
<1> QED  BY <1>8, <1>9, <1>13, <1>14, <1>15, <1>16, <1>17, <1>18, <1>19, <1>20 DEF Sound

(* What init_top leaves at the start of the new memory.                    *)
PushInit(h, t, a, n) ==
  /\ t \in HeapType /\ SameShelf(h, t) /\ t.segs = h.segs /\ t.mapped = h.mapped \cup Pages(a, n)
  /\ t.footprint = h.footprint + n /\ t.top = a /\ t.topsize = n - TopFoot
  /\ \A x \in Int : FootAt(h, t, x) /\ (~ InMem(a, n, x) => SameAt(h, t, x))
  /\ {a, a + (n - TopFoot)} \subseteq Heads(t)
  /\ \A x \in Heads(t) : InMem(a, n, x) => x \in {a, a + (n - TopFoot)}
  /\ t.head[a] = FreeTag(n - TopFoot) /\ t.head[a + (n - TopFoot)] = TopTag

LEMMA PushInitIs ==
  ASSUME NEW h, NEW a, NEW n, NEW c, Pushing(h, a, n, c)
  PROVE  PushInit(h, InitTop(Mapped(h, a, n), a, n - TopFoot), a, n)
<1> DEFINE k == Mapped(h, a, n)
           s == n - TopFoot
           t == InitTop(k, a, s)
<1>1. PushAt(h, a, n, c, h.top, EndOf(h.segs[1])) /\ PushBare(h, a, n)
  BY PushAtIs, PushBareIs
<1>2. a \in Int /\ s \in Nat \ {0} /\ n \in Int /\ TopFoot = 5 /\ Paged(a, n) /\ h \in HeapType
  BY <1>1, ConstantTypes DEF PushAt
<1>3. MappedTo(h, k, a, n)
  BY <1>2, MappedIs
<1>4. k \in HeapType /\ SameTags(h, k) /\ SameShelf(h, k) /\ k.segs = h.segs /\ k.mapped = h.mapped \cup Pages(a, n) /\ k.footprint = h.footprint + n
  BY <1>3 DEF MappedTo
<1> HIDE DEF k
<1>5. InitPut(k, t, a, s)
  <2> HIDE DEF s
  <2> QED  BY <1>2, <1>4, InitTopIs
<1> HIDE DEF t
<1>6. \A x \in Int : (TopSpan(a, s, x) => InMem(a, n, x)) /\ (InMem(a, n, x) => TopSpan(a, s, x))
  BY <1>2 DEF TopSpan, InMem
<1> HIDE DEF s
<1>7. Heads(k) = Heads(h) /\ Feet(k) = Feet(h) /\ k.head = h.head /\ k.foot = h.foot
  BY <1>4 DEF SameTags, Heads, Feet
<1>8. /\ t \in HeapType /\ SameShelf(k, t) /\ SameMap(k, t) /\ t.top = a /\ t.topsize = s
      /\ a \in Heads(t) /\ t.head[a] = FreeTag(s) /\ a + s \in Heads(t) /\ t.head[a + s] = TopTag
      /\ \A x \in Int : ~ TopSpan(a, s, x) => SameOn(k, t, x)
      /\ \A x \in Heads(t) : TopSpan(a, s, x) => x = a \/ x = a + s
      /\ \A x \in Int : x \in Feet(t) => x \in Feet(k) /\ t.foot[x] = k.foot[x]
  BY <1>5 DEF InitPut
<1>9. ASSUME NEW x \in Int PROVE FootAt(h, t, x) /\ (~ InMem(a, n, x) => SameAt(h, t, x))
  <2>1. CASE ~ InMem(a, n, x)
    <3>1. SameOn(k, t, x)
      BY <1>6, <1>8, <2>1
    <3> QED  BY <1>7, <3>1 DEF SameOn, SameAt, FootAt
  <2>2. CASE InMem(a, n, x)
    <3>1. x \notin Feet(h)
      BY <1>1, <2>2 DEF PushBare
    <3>2. x \notin Feet(t)
      BY <1>7, <1>8, <3>1
    <3> QED  BY <2>2, <3>1, <3>2 DEF FootAt
  <2> QED  BY <2>1, <2>2
<1>10. ASSUME NEW x \in Heads(t), InMem(a, n, x) PROVE x \in {a, a + s}
  <2>1. x \in Int
    BY <1>8, HeapFields
  <2> QED  BY <1>6, <1>8, <1>10, <2>1
<1>11. SameShelf(h, t) /\ t.segs = h.segs /\ t.mapped = h.mapped \cup Pages(a, n) /\ t.footprint = h.footprint + n
  BY <1>4, <1>8 DEF SameShelf, SameMap
<1>12. PushInit(h, t, a, n)
  <2>1. s = n - TopFoot
    BY DEF s
  <2> QED  BY <1>8, <1>9, <1>10, <1>11, <2>1 DEF PushInit
<1> QED  BY <1>12 DEF t, k, s

(* With the record of the old segment, and a fencepost.                    *)
PushTags(h, t, a, n, c) ==
  /\ t \in HeapType /\ SameShelf(h, t) /\ t.segs = h.segs /\ t.mapped = h.mapped \cup Pages(a, n)
  /\ t.footprint = h.footprint + n /\ t.top = a /\ t.topsize = n - TopFoot
  /\ \A x \in Int : FootAt(h, t, x) /\ (~ OldTop(h, x) /\ ~ InMem(a, n, x) => SameAt(h, t, x))
  /\ {h.top, c, c + SegmentRecord, a, a + (n - TopFoot)} \subseteq Heads(t)
  /\ \A x \in Heads(t) : /\ OldTop(h, x) => x \in {h.top, c, c + SegmentRecord}
                         /\ InMem(a, n, x) => x \in {a, a + (n - TopFoot)}
  /\ t.head[c] = InuseTag(SegmentRecord) /\ t.head[c + SegmentRecord] = Fencepost
  /\ t.head[a] = FreeTag(n - TopFoot) /\ t.head[a + (n - TopFoot)] = TopTag

(* A record, and a fencepost behind it, are written at c.                  *)
RecordPut(t, g, c) ==
  /\ OnlyTags(t, g)
  /\ \A x \in Int : /\ x \in Heads(g) => x \in Heads(t) \/ x = c \/ x = c + 3
                    /\ x \in Heads(g) => x # c + 1 /\ x # c + 2
                    /\ (x < c \/ x > c + 3) => SameAt(t, g, x)
                    /\ (x \in Feet(g) => x \in Feet(t) /\ g.foot[x] = t.foot[x])
                    /\ (x <= c \/ x > c + 3) => FootAt(t, g, x)
  /\ c \in Heads(g) /\ g.head[c] = InuseTag(SegmentRecord) /\ c + 3 \in Heads(g) /\ g.head[c + 3] = Fencepost

LEMMA RecordPutIs ==
  ASSUME NEW t \in HeapType, NEW c \in Int
  PROVE  RecordPut(t, PutTag(PutInuse(t, c, SegmentRecord), c + SegmentRecord, Fencepost), c)
<1> DEFINE s == SegmentRecord
           u == PutInuse(t, c, s)
           k == c + 3
           g == PutTag(u, k, Fencepost)
<1>1. s = 3 /\ k \in Int /\ c + s = k
  BY ConstantTypes
<1>2. InusePut(t, u, c, s)
  <2> HIDE DEF s
  <2>1. s \in Nat
    BY <1>1
  <2> QED  BY <2>1, PutInuseIs
<1>3. u \in HeapType
  BY <1>2 DEF InusePut, OnlyTags
<1> HIDE DEF u
<1>4. Fencepost \in TagType /\ Fencepost.size = 0
  BY DEF Fencepost, TagType
<1>5. TagPut(u, g, k, Fencepost)
  <2> HIDE DEF k
  <2> QED  BY <1>1, <1>3, <1>4, PutTagIs
<1> HIDE DEF g
<1>6. Inside(k, Fencepost.size) = {}
  BY <1>1, <1>4 DEF Inside
<1>7. \A x \in Int : (x \in Inside(c, s) => x = c + 1 \/ x = c + 2) /\ (x = c + 1 \/ x = c + 2 => x \in Inside(c, s))
  BY <1>1 DEF Inside
<1>8. Heads(t) \subseteq Int /\ Feet(t) \subseteq Int
  BY HeapFields
<1> HIDE DEF s, k
<1>9. OnlyTags(t, g)
  BY <1>2, <1>5, OnlyTagsTwice DEF InusePut, TagPut
<1>10. Heads(g) = Heads(u) \cup {k} /\ g.head[k] = Fencepost /\ (\A b \in Heads(u) \ {k} : g.head[b] = u.head[b])
       /\ Feet(g) = Feet(u) /\ \A b \in Feet(u) : g.foot[b] = u.foot[b]
  BY <1>5, <1>6 DEF TagPut
<1>11. /\ Heads(u) = (Heads(t) \ Inside(c, s)) \cup {c} /\ u.head[c] = InuseTag(s)
       /\ \A b \in Heads(t) \ (Inside(c, s) \cup {c}) : u.head[b] = t.head[b]
       /\ Feet(u) = Feet(t) \ (Inside(c, s) \cup {k})
       /\ \A b \in Feet(t) \ (Inside(c, s) \cup {k}) : u.foot[b] = t.foot[b]
  BY <1>1, <1>2 DEF InusePut
<1>12. k = c + 3
  BY <1>1 DEF k
<1>13. ASSUME NEW x \in Int
       PROVE  /\ x \in Heads(g) => x \in Heads(t) \/ x = c \/ x = k
              /\ x \in Heads(g) => x # c + 1 /\ x # c + 2
              /\ (x < c \/ x > k) => SameAt(t, g, x)
              /\ (x \in Feet(g) => x \in Feet(t) /\ g.foot[x] = t.foot[x])
              /\ (x <= c \/ x > k) => FootAt(t, g, x)
  <2>1. x \in Heads(g) => x \in Heads(t) \/ x = c \/ x = k
    BY <1>10, <1>11
  <2>2. x \in Heads(g) => x # c + 1 /\ x # c + 2
    BY <1>7, <1>10, <1>11, <1>12
  <2>3. (x < c \/ x > k) => SameAt(t, g, x)
    <3>1. (x < c \/ x > k) => x # c /\ x # k /\ x \notin Inside(c, s)
      BY <1>7, <1>12
    <3> QED  BY <1>10, <1>11, <3>1 DEF SameAt
  <2>4. (x \in Feet(g) => x \in Feet(t) /\ g.foot[x] = t.foot[x])
    BY <1>10, <1>11
  <2>5. (x <= c \/ x > k) => FootAt(t, g, x)
    <3>1. (x <= c \/ x > k) => x # k /\ x \notin Inside(c, s)
      BY <1>7, <1>12
    <3> QED  BY <1>10, <1>11, <3>1 DEF FootAt
  <2> QED  BY <2>1, <2>2, <2>3, <2>4, <2>5
<1>14. c \in Heads(g) /\ g.head[c] = InuseTag(s) /\ k \in Heads(g) /\ g.head[k] = Fencepost
  <2>1. c # k
    BY <1>12
  <2> QED  BY <1>10, <1>11, <2>1
<1>15. RecordPut(t, g, c)
  BY <1>9, <1>12, <1>13, <1>14 DEF RecordPut, s
<1>16. c + SegmentRecord = k
  BY <1>1 DEF s
<1> QED  BY <1>15, <1>16 DEF g, u, s

LEMMA PushTagsIs ==
  ASSUME NEW h, NEW a, NEW n, NEW c, Pushing(h, a, n, c), NEW t, PushInit(h, t, a, n), NEW g, RecordPut(t, g, c)
  PROVE  PushTags(h, g, a, n, c)
<1> DEFINE p == h.top
           e == EndOf(h.segs[1])
           k == c + SegmentRecord
           w == a + (n - TopFoot)
<1>1. PushAt(h, a, n, c, p, e) /\ PushBare(h, a, n)
  BY PushAtIs, PushBareIs
<1>2. /\ a \in Int /\ n \in Int /\ n > TopFoot /\ TopFoot = 5 /\ SegmentRecord = 3 /\ c \in Int /\ p \in Int /\ e \in Int
      /\ p <= c /\ c + TopFoot <= e /\ (c = p \/ c = Mark(h)) /\ (c # p => c - p >= MinChunk) /\ MinChunk = 2 /\ p \in Heads(h)
      /\ k \in Int /\ w \in Int /\ Mark(h) = p + h.topsize /\ h.topsize \in Int
  <2>1. Formed(h)
    BY DEF Pushing
  <2>2. p \in Heads(h) /\ h.topsize \in Nat
    BY <2>1, TopIs, ChunkIs
  <2>3. k \in Int /\ w \in Int
    BY <1>1, ConstantTypes DEF PushAt
  <2> HIDE DEF k, w, p, e
  <2>4. Mark(h) = p + h.topsize
    BY DEF Mark, p
  <2> QED  BY <1>1, <2>2, <2>3, <2>4, ConstantTypes DEF PushAt
<1>3. c = p => Mark(h) = p + 1
  <2>1. h.topsize > 0
    BY <1>1 DEF PushAt, TopRight
  <2>2. c = IF h.topsize < MinChunk THEN p ELSE Mark(h)
    BY DEF Pushing, p
  <2> HIDE DEF p
  <2> QED  BY <1>2, <2>1, <2>2
<1>4. /\ t \in HeapType /\ SameShelf(h, t) /\ t.segs = h.segs /\ t.mapped = h.mapped \cup Pages(a, n)
      /\ t.footprint = h.footprint + n /\ t.top = a /\ t.topsize = n - TopFoot
      /\ \A x \in Int : FootAt(h, t, x) /\ (~ InMem(a, n, x) => SameAt(h, t, x))
      /\ {a, w} \subseteq Heads(t) /\ \A x \in Heads(t) : InMem(a, n, x) => x \in {a, w}
      /\ t.head[a] = FreeTag(n - TopFoot) /\ t.head[w] = TopTag
  BY DEF PushInit
<1>5. /\ OnlyTags(t, g)
      /\ \A x \in Int : /\ x \in Heads(g) => x \in Heads(t) \/ x = c \/ x = c + 3
                        /\ x \in Heads(g) => x # c + 1 /\ x # c + 2
                        /\ (x < c \/ x > c + 3) => SameAt(t, g, x)
                        /\ (x \in Feet(g) => x \in Feet(t) /\ g.foot[x] = t.foot[x])
                        /\ (x <= c \/ x > c + 3) => FootAt(t, g, x)
      /\ c \in Heads(g) /\ g.head[c] = InuseTag(SegmentRecord) /\ c + 3 \in Heads(g) /\ g.head[c + 3] = Fencepost
  BY DEF RecordPut
<1>6. \A x \in Int : p <= x /\ x < e => OldTop(h, x)
  BY DEF OldTop, p, e
<1>7. \A x \in Int : OldTop(h, x) => p <= x /\ x < e
  BY DEF OldTop, p, e
<1>8. InMem(a, n, a) /\ InMem(a, n, w)
  BY <1>2 DEF InMem
<1>9. \A x \in Int : OldTop(h, x) => x \notin Feet(h) /\ ~ InMem(a, n, x) /\ (x \in Heads(h) => x = p \/ x = Mark(h))
  BY <1>1 DEF PushBare
<1>10. k = c + 3
  BY <1>2
<1>11. g \in HeapType /\ SameShelf(h, g) /\ g.segs = h.segs /\ g.mapped = h.mapped \cup Pages(a, n)
       /\ g.footprint = h.footprint + n /\ g.top = a /\ g.topsize = n - TopFoot
  BY <1>4, <1>5 DEF OnlyTags, SameTop, SameShelf, SameMap
<1> HIDE DEF p, e, k, w
<1>12. \A x \in Int : ~ (x < c \/ x > c + 3) => OldTop(h, x)
  BY <1>2, <1>6
<1>13. ASSUME NEW x \in Int PROVE FootAt(h, g, x)
  <2>1. CASE x <= c \/ x > c + 3
    <3>1. FootAt(t, g, x) /\ FootAt(h, t, x)
      BY <1>4, <1>5, <2>1
    <3> QED  BY <3>1 DEF FootAt
  <2>2. CASE ~ (x <= c \/ x > c + 3)
    <3>1. x \notin Feet(h)
      BY <1>2, <1>9, <1>12, <2>2
    <3>2. x \notin Feet(t)
      BY <1>4, <3>1 DEF FootAt
    <3>3. x \notin Feet(g)
      BY <1>5, <3>2
    <3> QED  BY <3>1, <3>3 DEF FootAt
  <2> QED  BY <2>1, <2>2
<1>14. ASSUME NEW x \in Int, ~ OldTop(h, x) PROVE SameAt(t, g, x)
  BY <1>5, <1>12, <1>14
<1>15. ASSUME NEW x \in Int, ~ OldTop(h, x), ~ InMem(a, n, x) PROVE SameAt(h, g, x)
  <2>1. SameAt(t, g, x) /\ SameAt(h, t, x)
    BY <1>4, <1>14, <1>15
  <2> QED  BY <2>1 DEF SameAt
<1>16. a \in Heads(g) /\ w \in Heads(g) /\ g.head[a] = FreeTag(n - TopFoot) /\ g.head[w] = TopTag
  <2>1. ~ OldTop(h, a) /\ ~ OldTop(h, w)
    BY <1>2, <1>8, <1>9
  <2>2. SameAt(t, g, a) /\ SameAt(t, g, w)
    BY <1>2, <1>14, <2>1
  <2> QED  BY <1>4, <2>2 DEF SameAt
<1>17. c \in Heads(g) /\ g.head[c] = InuseTag(SegmentRecord) /\ k \in Heads(g) /\ g.head[k] = Fencepost
  BY <1>5, <1>10
<1>18. p \in Heads(g)
  <2>1. CASE c = p
    BY <1>17, <2>1
  <2>2. CASE c # p
    <3>1. p < c
      BY <1>2, <2>2
    <3>2. SameAt(t, g, p)
      BY <1>2, <1>5, <3>1
    <3>3. ~ InMem(a, n, p)
      BY <1>2, <1>6, <1>9
    <3>4. SameAt(h, t, p)
      BY <1>2, <1>4, <3>3
    <3> QED  BY <1>2, <3>2, <3>4 DEF SameAt
  <2> QED  BY <2>1, <2>2
<1>19. ASSUME NEW x \in Heads(g), OldTop(h, x) PROVE x \in {p, c, k}
  <2>1. x \in Int
    BY <1>11, HeapFields
  <2>2. x \in Heads(t) \/ x = c \/ x = k
    BY <1>5, <1>10, <2>1
  <2>3. CASE x \in Heads(t)
    <3>1. ~ InMem(a, n, x)
      BY <1>9, <1>19, <2>1
    <3>2. x \in Heads(h)
      BY <1>4, <2>1, <2>3, <3>1 DEF SameAt
    <3>3. x = p \/ x = Mark(h)
      BY <1>9, <1>19, <2>1, <3>2
    <3>4. CASE x = Mark(h)
      <4>1. x # c + 1
        BY <1>5, <2>1
      <4>2. c # p
        BY <1>3, <3>4, <4>1
      <4> QED  BY <1>2, <3>4, <4>2
    <3> QED  BY <3>3, <3>4
  <2> QED  BY <2>2, <2>3
<1>20. ASSUME NEW x \in Heads(g), InMem(a, n, x) PROVE x \in {a, w}
  <2>1. x \in Int
    BY <1>11, HeapFields
  <2>2. ~ OldTop(h, x)
    BY <1>9, <1>20, <2>1
  <2>3. x \in Heads(t)
    BY <1>14, <2>1, <2>2 DEF SameAt
  <2> QED  BY <1>4, <1>20, <2>3
<1>21. {p, c, k, a, w} \subseteq Heads(g)
  BY <1>16, <1>17, <1>18
<1> QED  BY <1>11, <1>13, <1>15, <1>16, <1>17, <1>19, <1>20, <1>21 DEF PushTags, p, k, w

(* The list of segments that add_segment leaves.                           *)
LEMMA TwoBefore ==
  ASSUME NEW s \in Seq(SegType), s # <<>>, NEW x \in SegType, NEW y \in SegType
  PROVE  LET q == <<x, y>> \o Tail(s)
         IN  /\ q \in Seq(SegType) /\ Len(q) = Len(s) + 1 /\ q[1] = x /\ q[2] = y
             /\ \A j \in 2 .. Len(s) : q[j + 1] = s[j]
<1> DEFINE u == <<x, y>>
           v == Tail(s)
           q == u \o v
<1>1. u \in Seq(SegType) /\ Len(u) = 2 /\ u[1] = x /\ u[2] = y
  OBVIOUS
<1>2. v \in Seq(SegType) /\ Len(v) = Len(s) - 1 /\ \A i \in 1 .. Len(s) - 1 : v[i] = s[i + 1]
  BY HeadTailProperties
<1> HIDE DEF u, v
<1>3. q \in Seq(SegType) /\ Len(q) = Len(u) + Len(v) /\ \A i \in 1 .. Len(u) + Len(v) : q[i] = IF i <= Len(u) THEN u[i] ELSE v[i - Len(u)]
  BY <1>1, <1>2, ConcatProperties
<1> HIDE DEF q
<1>4. Len(s) \in Nat /\ Len(s) >= 1
  OBVIOUS
<1>5. q[1] = x /\ q[2] = y /\ Len(q) = Len(s) + 1
  BY <1>1, <1>2, <1>3, <1>4
<1>6. ASSUME NEW j \in 2 .. Len(s) PROVE q[j + 1] = s[j]
  <2>1. j + 1 \in 1 .. Len(u) + Len(v) /\ ~ (j + 1 <= Len(u)) /\ j + 1 - Len(u) = j - 1
    BY <1>1, <1>2, <1>4, <1>6
  <2>2. q[j + 1] = v[j - 1]
    BY <1>3, <2>1
  <2>3. j - 1 \in 1 .. Len(s) - 1 /\ (j - 1) + 1 = j
    BY <1>4, <1>6
  <2>4. v[j - 1] = s[j]
    BY <1>2, <2>3
  <2> QED  BY <2>2, <2>4
<1> QED  BY <1>3, <1>5, <1>6 DEF q, u, v

PushOpen(h, w, a, n, c) ==
  /\ w \in HeapType /\ SameShelf(h, w) /\ w.mapped = h.mapped \cup Pages(a, n) /\ w.footprint = h.footprint + n
  /\ w.top = a /\ w.topsize = n - TopFoot /\ Len(w.segs) = Len(h.segs) + 1
  /\ w.segs[1].base = a /\ w.segs[1].size = n /\ w.segs[1].rec = h.segs[1].rec
  /\ \A j \in DOMAIN h.segs : /\ w.segs[j + 1].base = h.segs[j].base /\ w.segs[j + 1].size = h.segs[j].size
                              /\ w.segs[j + 1].rec = IF j = 1 THEN c ELSE h.segs[j].rec
  /\ \A x \in Int : FootAt(h, w, x) /\ (~ OldTop(h, x) /\ ~ InMem(a, n, x) => SameAt(h, w, x))
  /\ {h.top, c, c + SegmentRecord, a, a + (n - TopFoot)} \subseteq Heads(w)
  /\ \A x \in Heads(w) : /\ OldTop(h, x) => x \in {h.top, c, c + SegmentRecord}
                         /\ InMem(a, n, x) => x \in {a, a + (n - TopFoot)}
  /\ w.head[c] = InuseTag(SegmentRecord) /\ w.head[c + SegmentRecord] = Fencepost
  /\ w.head[a] = FreeTag(n - TopFoot) /\ w.head[a + (n - TopFoot)] = TopTag

SegsPushed(h, a, n, c) == <<[base |-> a, size |-> n, rec |-> h.segs[1].rec], [h.segs[1] EXCEPT !.rec = c]>> \o Tail(h.segs)

LEMMA SegsPushedIs ==
  ASSUME NEW h, NEW a, NEW n, NEW c, Pushing(h, a, n, c)
  PROVE  LET q == SegsPushed(h, a, n, c)
         IN  /\ q \in Seq(SegType) /\ Len(q) = Len(h.segs) + 1
             /\ q[1].base = a /\ q[1].size = n /\ q[1].rec = h.segs[1].rec
             /\ \A j \in DOMAIN h.segs : /\ q[j + 1].base = h.segs[j].base /\ q[j + 1].size = h.segs[j].size
                                         /\ q[j + 1].rec = IF j = 1 THEN c ELSE h.segs[j].rec
<1> DEFINE s == h.segs
           x == [base |-> a, size |-> n, rec |-> s[1].rec]
           y == [s[1] EXCEPT !.rec = c]
           q == <<x, y>> \o Tail(s)
<1>1. PushAt(h, a, n, c, h.top, EndOf(h.segs[1]))
  BY PushAtIs
<1>2. s \in Seq(SegType) /\ 1 \in DOMAIN s /\ DOMAIN s = 1 .. Len(s) /\ Len(s) \in Nat /\ a \in Nat /\ n \in Nat /\ c \in Int
  BY <1>1, HeapFields DEF PushAt
<1> HIDE DEF s
<1>3. s[1] \in SegType
  BY <1>2
<1>4. x \in SegType /\ x.base = a /\ x.size = n /\ x.rec = s[1].rec
  BY <1>2, <1>3 DEF SegType
<1>5. y \in SegType /\ y.base = s[1].base /\ y.size = s[1].size /\ y.rec = c
  BY <1>2, <1>3 DEF SegType
<1> HIDE DEF x, y
<1>6. /\ q \in Seq(SegType) /\ Len(q) = Len(s) + 1 /\ q[1] = x /\ q[2] = y
      /\ \A j \in 2 .. Len(s) : q[j + 1] = s[j]
  <2>1. s # <<>>
    BY <1>2
  <2> QED  BY <1>2, <1>4, <1>5, <2>1, TwoBefore
<1> HIDE DEF q
<1>7. ASSUME NEW j \in DOMAIN s
      PROVE  q[j + 1].base = s[j].base /\ q[j + 1].size = s[j].size /\ q[j + 1].rec = IF j = 1 THEN c ELSE s[j].rec
  <2>1. CASE j = 1
    <3>1. q[j + 1] = y
      BY <1>6, <2>1
    <3> QED  BY <1>5, <2>1, <3>1
  <2>2. CASE j # 1
    <3>1. j \in 2 .. Len(s)
      BY <1>2, <2>2
    <3>2. q[j + 1] = s[j]
      BY <1>6, <3>1
    <3> QED  BY <2>2, <3>2
  <2> QED  BY <2>1, <2>2
<1>8. q[1].base = a /\ q[1].size = n /\ q[1].rec = s[1].rec
  BY <1>4, <1>6
<1>9. SegsPushed(h, a, n, c) = q
  BY DEF SegsPushed, q, x, y, s
<1> QED  BY <1>6, <1>7, <1>8, <1>9 DEF s

LEMMA PushOpenIs ==
  ASSUME NEW h, NEW a, NEW n, NEW c, Pushing(h, a, n, c), NEW t, PushTags(h, t, a, n, c)
  PROVE  PushOpen(h, Resegmented(t, SegsPushed(h, a, n, c)), a, n, c)
<1> DEFINE q == SegsPushed(h, a, n, c)
           w == Resegmented(t, q)
<1>1. /\ q \in Seq(SegType) /\ Len(q) = Len(h.segs) + 1
      /\ q[1].base = a /\ q[1].size = n /\ q[1].rec = h.segs[1].rec
      /\ \A j \in DOMAIN h.segs : /\ q[j + 1].base = h.segs[j].base /\ q[j + 1].size = h.segs[j].size
                                  /\ q[j + 1].rec = IF j = 1 THEN c ELSE h.segs[j].rec
  BY SegsPushedIs
<1>2. t \in HeapType /\ SameShelf(h, t) /\ t.mapped = h.mapped \cup Pages(a, n) /\ t.footprint = h.footprint + n
      /\ t.top = a /\ t.topsize = n - TopFoot
  BY DEF PushTags
<1> HIDE DEF q
<1>3. /\ w \in HeapType /\ SameTags(t, w) /\ SameTop(t, w) /\ SameShelf(t, w) /\ w.segs = q
      /\ w.mapped = t.mapped /\ w.footprint = t.footprint
  BY <1>1, <1>2, NewSegs
<1> HIDE DEF w
<1>4. w.head = t.head /\ w.foot = t.foot /\ Heads(w) = Heads(t) /\ Feet(w) = Feet(t)
  BY <1>3 DEF SameTags, Heads, Feet
<1>5. \A x \in Int : FootAt(h, w, x) /\ (~ OldTop(h, x) /\ ~ InMem(a, n, x) => SameAt(h, w, x))
  <2>1. \A x \in Int : FootAt(h, t, x) /\ (~ OldTop(h, x) /\ ~ InMem(a, n, x) => SameAt(h, t, x))
    BY DEF PushTags
  <2> QED  BY <1>4, <2>1 DEF FootAt, SameAt
<1>6. /\ {h.top, c, c + SegmentRecord, a, a + (n - TopFoot)} \subseteq Heads(w)
      /\ \A x \in Heads(w) : /\ OldTop(h, x) => x \in {h.top, c, c + SegmentRecord}
                             /\ InMem(a, n, x) => x \in {a, a + (n - TopFoot)}
      /\ w.head[c] = InuseTag(SegmentRecord) /\ w.head[c + SegmentRecord] = Fencepost
      /\ w.head[a] = FreeTag(n - TopFoot) /\ w.head[a + (n - TopFoot)] = TopTag
  BY <1>4 DEF PushTags
<1>7. SameShelf(h, w) /\ w.top = a /\ w.topsize = n - TopFoot
  BY <1>2, <1>3 DEF SameShelf, SameTop
<1>8. PushOpen(h, w, a, n, c)
  BY <1>1, <1>2, <1>3, <1>5, <1>6, <1>7 DEF PushOpen
<1> QED  BY <1>8 DEF w, q

LEMMA PushedIs ==
  ASSUME NEW h, NEW a, NEW n, NEW c, Pushing(h, a, n, c), NEW w, PushOpen(h, w, a, n, c)
  PROVE  /\ c = h.top => Pushed(h, w, a, n, c)
         /\ c # h.top => Pushed(h, Headed(w, h.top, InuseTag(h.topsize)), a, n, c)
<1>1. c = h.top => Pushed(h, w, a, n, c)
  BY DEF Pushed, PushOpen
<1>2. ASSUME c # h.top PROVE Pushed(h, Headed(w, h.top, InuseTag(h.topsize)), a, n, c)
  <2> DEFINE f == Headed(w, h.top, InuseTag(h.topsize))
             p == h.top
  <2>1. PushAt(h, a, n, c, p, EndOf(h.segs[1])) /\ PushBare(h, a, n)
    BY PushAtIs, PushBareIs
  <2>2. w \in HeapType /\ p \in Int /\ c \in Int /\ p < c /\ c + TopFoot <= EndOf(h.segs[1]) /\ EndOf(h.segs[1]) \in Int /\ a \in Int /\ n \in Int /\ n > TopFoot
        /\ TopFoot = 5 /\ SegmentRecord = 3
    BY <1>2, <2>1, ConstantTypes DEF PushAt, PushOpen
  <2>3. h.topsize \in Nat
    <3>1. Formed(h)
      BY DEF Pushing
    <3> QED  BY <3>1, TopIs
  <2>4. HeadIs(w, f, p, InuseTag(h.topsize))
    BY <2>2, <2>3, TagsTyped, HeadPut
  <2> HIDE DEF f
  <2>5. OnlyTags(w, f) /\ Heads(f) = Heads(w) \cup {p} /\ f.head[p] = InuseTag(h.topsize) /\ (\A b \in Heads(w) \ {p} : f.head[b] = w.head[b]) /\ f.foot = w.foot
    BY <2>4 DEF HeadIs
  <2>6. p \in Heads(w)
    BY DEF PushOpen
  <2>7. Heads(f) = Heads(w) /\ Feet(f) = Feet(w)
    BY <2>5, <2>6 DEF Feet
  <2>8. OldTop(h, p)
    BY <2>2 DEF OldTop
  <2>9. ~ InMem(a, n, p)
    BY <2>1, <2>2, <2>8 DEF PushBare
  <2>10. p # c /\ p # c + SegmentRecord /\ p # a /\ p # a + (n - TopFoot)
    <3>1. p # a /\ p # a + (n - TopFoot)
      BY <2>2, <2>9 DEF InMem
    <3> QED  BY <2>2, <3>1
  <2>11. \A x \in Int : FootAt(h, f, x) /\ (~ OldTop(h, x) /\ ~ InMem(a, n, x) => SameAt(h, f, x))
    <3>1. \A x \in Int : FootAt(h, w, x) /\ (~ OldTop(h, x) /\ ~ InMem(a, n, x) => SameAt(h, w, x))
      BY DEF PushOpen
    <3>2. \A x \in Int : FootAt(h, f, x)
      BY <2>5, <2>7, <3>1 DEF FootAt
    <3>3. ASSUME NEW x \in Int, ~ OldTop(h, x), ~ InMem(a, n, x) PROVE SameAt(h, f, x)
      <4>1. x # p
        BY <2>8, <3>3
      <4>2. SameAt(h, w, x)
        BY <3>1, <3>3
      <4> QED  BY <2>5, <2>7, <4>1, <4>2 DEF SameAt
    <3> QED  BY <3>2, <3>3
  <2>12. /\ {p, c, c + SegmentRecord, a, a + (n - TopFoot)} \subseteq Heads(f)
         /\ \A x \in Heads(f) : /\ OldTop(h, x) => x \in {p, c, c + SegmentRecord}
                                /\ InMem(a, n, x) => x \in {a, a + (n - TopFoot)}
    BY <2>7 DEF PushOpen
  <2>13. /\ f.head[c] = InuseTag(SegmentRecord) /\ f.head[c + SegmentRecord] = Fencepost
         /\ f.head[a] = FreeTag(n - TopFoot) /\ f.head[a + (n - TopFoot)] = TopTag
    <3>1. \A b \in {c, c + SegmentRecord, a, a + (n - TopFoot)} : f.head[b] = w.head[b]
      BY <2>5, <2>7, <2>10, <2>12
    <3> QED  BY <3>1 DEF PushOpen
  <2>14. /\ f \in HeapType /\ SameShelf(h, f) /\ f.mapped = h.mapped \cup Pages(a, n) /\ f.footprint = h.footprint + n
         /\ f.top = a /\ f.topsize = n - TopFoot /\ f.segs = w.segs
    BY <2>5 DEF PushOpen, OnlyTags, SameShelf, SameTop, SameMap
  <2>15. /\ Len(f.segs) = Len(h.segs) + 1
         /\ f.segs[1].base = a /\ f.segs[1].size = n /\ f.segs[1].rec = h.segs[1].rec
         /\ \A j \in DOMAIN h.segs : /\ f.segs[j + 1].base = h.segs[j].base /\ f.segs[j + 1].size = h.segs[j].size
                                     /\ f.segs[j + 1].rec = IF j = 1 THEN c ELSE h.segs[j].rec
    BY <2>14 DEF PushOpen
  <2>16. Pushed(h, f, a, n, c)
    BY <2>5, <2>11, <2>12, <2>13, <2>14, <2>15 DEF Pushed
  <2> QED  BY <2>16 DEF f
<1> QED  BY <1>1, <1>2

(* What add_segment leaves in the end.                                     *)
PushWhole(h, a, n, c) ==
  Resegmented(PutTag(PutInuse(InitTop(Mapped(h, a, n), a, n - TopFoot), c, SegmentRecord), c + SegmentRecord, Fencepost),
              SegsPushed(h, a, n, c))

LEMMA PushWholeIs ==
  ASSUME NEW h, NEW a, NEW n, NEW c, Pushing(h, a, n, c)
  PROVE  PushOpen(h, PushWhole(h, a, n, c), a, n, c)
<1> DEFINE t == InitTop(Mapped(h, a, n), a, n - TopFoot)
           g == PutTag(PutInuse(t, c, SegmentRecord), c + SegmentRecord, Fencepost)
<1>1. PushInit(h, t, a, n)
  BY PushInitIs
<1>2. t \in HeapType
  BY <1>1 DEF PushInit
<1>3. c \in Int
  BY PushAtIs DEF PushAt
<1> HIDE DEF t
<1>4. RecordPut(t, g, c)
  BY <1>2, <1>3, RecordPutIs
<1> HIDE DEF g
<1>5. PushTags(h, g, a, n, c)
  BY <1>1, <1>4, PushTagsIs
<1>6. PushOpen(h, Resegmented(g, SegsPushed(h, a, n, c)), a, n, c)
  BY <1>5, PushOpenIs
<1> QED  BY <1>6 DEF PushWhole, g, t

LEMMA AddSegmentIs ==
  ASSUME NEW h, NEW a, NEW n, NEW c, Pushing(h, a, n, c)
  PROVE  LET w == PushWhole(h, a, n, c)
             rest == c - h.top
         IN  AddSegment(Mapped(h, a, n), a, n) = IF rest = 0 THEN w ELSE Insert(SetFree(w, h.top, rest, c), h.top, rest)
<1> DEFINE k == Mapped(h, a, n)
<1>1. PushAt(h, a, n, c, h.top, EndOf(h.segs[1])) /\ Formed(h)
  BY PushAtIs DEF Pushing
<1>2. h \in HeapType /\ Paged(a, n)
  BY <1>1 DEF PushAt
<1>3. MappedTo(h, k, a, n)
  BY <1>2, MappedIs
<1>4. k.top = h.top /\ k.segs = h.segs
  BY <1>3 DEF MappedTo, SameTop
<1> HIDE DEF k
<1>5. SegmentHolding(k, k.top) = 1
  <2>1. SegmentHolding(h, h.top) = 1
    BY <1>1, TopSegment
  <2> QED  BY <1>4, <2>1 DEF SegmentHolding
<1> DEFINE i == SegmentHolding(k, k.top)
           asp == k.segs[i].base + k.segs[i].size - TopFoot
           csp == IF asp < k.top + MinChunk THEN k.top ELSE asp
<1>6. asp = Mark(h)
  <2> DEFINE z == h.segs[1].base + h.segs[1].size
  <2>1. Mark(h) + TopFoot = z /\ Mark(h) \in Int /\ z \in Int
    BY <1>1 DEF PushAt, TopRight, EndOf
  <2>2. asp = h.segs[1].base + (h.segs[1].size - TopFoot)
    <3>1. k.segs[i] = h.segs[1]
      BY <1>4, <1>5, Zenon
    <3> QED  BY <3>1, Zenon
  <2>3. h.segs[1].base \in Int /\ h.segs[1].size \in Int
    BY <1>1, SegFields DEF PushAt
  <2>4. z = h.segs[1].base + h.segs[1].size
    OBVIOUS
  <2> HIDE DEF asp, z
  <2>5. TopFoot = 5
    BY ConstantTypes
  <2> QED  BY <2>1, <2>2, <2>3, <2>4, <2>5
<1> HIDE DEF asp
<1>7. csp = c
  <2>1. c = IF h.topsize < MinChunk THEN h.top ELSE Mark(h)
    BY DEF Pushing
  <2>2. Mark(h) = h.top + h.topsize /\ h.top \in Int /\ h.topsize \in Int /\ MinChunk \in Int
    BY <1>1, TopIs, ConstantTypes
  <2> QED  BY <1>4, <1>6, <2>1, <2>2
<1>8. AddSegment(k, a, n) =
        LET rest == csp - k.top
            g == PutTag(PutInuse(InitTop(k, a, n - TopFoot), csp, SegmentRecord), csp + SegmentRecord, Fencepost)
            pushed == [g EXCEPT !.segs = <<[base |-> a, size |-> n, rec |-> k.segs[1].rec],
                                     [k.segs[1] EXCEPT !.rec = csp]>> \o Tail(g.segs)]
        IN  IF rest = 0 THEN pushed ELSE Insert(SetFree(pushed, k.top, rest, csp), k.top, rest)
  BY DEF AddSegment, asp
<1> HIDE DEF csp
<1> DEFINE g == PutTag(PutInuse(InitTop(k, a, n - TopFoot), c, SegmentRecord), c + SegmentRecord, Fencepost)
<1>9. g.segs = h.segs
  <2> DEFINE t == InitTop(k, a, n - TopFoot)
  <2>1. PushInit(h, t, a, n)
    BY PushInitIs DEF k
  <2>2. t \in HeapType
    BY <2>1 DEF PushInit
  <2>3. c \in Int
    BY <1>1 DEF PushAt
  <2> HIDE DEF t
  <2>4. RecordPut(t, PutTag(PutInuse(t, c, SegmentRecord), c + SegmentRecord, Fencepost), c)
    BY <2>2, <2>3, RecordPutIs
  <2>5. PutTag(PutInuse(t, c, SegmentRecord), c + SegmentRecord, Fencepost).segs = t.segs
    BY <2>4 DEF RecordPut, OnlyTags, SameMap
  <2>6. t.segs = h.segs
    BY <2>1 DEF PushInit
  <2> QED  BY <2>5, <2>6 DEF t
<1>10. PushWhole(h, a, n, c) = Resegmented(g, SegsPushed(h, a, n, c))
  BY DEF PushWhole, g, k
<1> HIDE DEF g
<1>11. SegsPushed(h, a, n, c) = <<[base |-> a, size |-> n, rec |-> k.segs[1].rec], [k.segs[1] EXCEPT !.rec = c]>> \o Tail(g.segs)
  BY <1>4, <1>9 DEF SegsPushed
<1>12. AddSegment(k, a, n) =
        LET rest == c - h.top
            pushed == [g EXCEPT !.segs = <<[base |-> a, size |-> n, rec |-> k.segs[1].rec],
                                     [k.segs[1] EXCEPT !.rec = c]>> \o Tail(g.segs)]
        IN  IF rest = 0 THEN pushed ELSE Insert(SetFree(pushed, h.top, rest, c), h.top, rest)
  BY <1>4, <1>7, <1>8 DEF g
<1>13. AddSegment(k, a, n) =
        LET rest == c - h.top
            pushed == Resegmented(g, SegsPushed(h, a, n, c))
        IN  IF rest = 0 THEN pushed ELSE Insert(SetFree(pushed, h.top, rest, c), h.top, rest)
  BY <1>11, <1>12 DEF Resegmented
<1> QED  BY <1>10, <1>13 DEF k

(* The old top chunk becomes a free one: f has it in use, with bits, w as  *)
(* it was.                                                                 *)
PushFree(f, w, p, c, s) ==
  /\ f \in HeapType /\ w \in HeapType /\ Formed(f) /\ p \in Useds(f) /\ p \notin Records(f) /\ Behind(f, p) = c
  /\ c \in Useds(f) /\ f.head[p].p /\ s = c - p /\ s \in Nat /\ s >= MinChunk /\ p \in Int /\ c \in Int
  /\ OnlyTags(w, f) /\ Heads(f) = Heads(w) /\ Feet(f) = Feet(w) /\ f.foot = w.foot
  /\ \A b \in Heads(w) \ {p} : f.head[b] = w.head[b]

LEMMA PushFreeSet ==
  ASSUME NEW f, NEW w, NEW p, NEW c, NEW s, PushFree(f, w, p, c, s)
  PROVE  FreeSet(f, SetFree(w, p, s, c), p, s) /\ OnlyTags(w, SetFree(w, p, s, c))
<1> DEFINE g == SetFree(w, p, s, c)
<1>1. w \in HeapType /\ p \in Int /\ s \in Nat /\ s > 0 /\ c = p + s /\ c \in Int /\ p # c
  BY ConstantTypes DEF PushFree
<1>2. SetFree(w, p, s, p + s) = g
  BY <1>1
<1> HIDE DEF g
<1>3. OnlyTags(w, g) /\ FreeSet(w, g, p, s)
  BY <1>1, <1>2, SetFreeIs
<1>4. Tag(f, p + s) = Tag(w, p + s)
  <2>1. Heads(f) = Heads(w) /\ \A b \in Heads(w) \ {p} : f.head[b] = w.head[b]
    BY DEF PushFree
  <2>2. p + s # p
    BY <1>1
  <2> QED  BY <2>1, <2>2 DEF Tag, Heads
<1>5. Heads(f) = Heads(w) /\ Feet(f) = Feet(w) /\ f.foot = w.foot /\ \A b \in Heads(w) \ {p} : f.head[b] = w.head[b]
  BY DEF PushFree
<1>6. FreeSet(f, g, p, s)
  BY <1>3, <1>4, <1>5 DEF FreeSet
<1> QED  BY <1>3, <1>6 DEF g

LEMMA PushFreeSound ==
  ASSUME NEW f, NEW w, NEW p, NEW c, NEW s, PushFree(f, w, p, c, s), NEW U, Sound(f, U \cup {p}), p \notin U
  PROVE  LET r == Insert(SetFree(w, p, s, c), p, s)
         IN  Sound(r, U) /\ Keeps(f, r, U) /\ SameMap(f, r) /\ SameTop(f, r)
<1> DEFINE g == SetFree(w, p, s, c)
           r == Insert(g, p, s)
<1>1. FreeSet(f, g, p, s) /\ OnlyTags(w, g)
  BY PushFreeSet
<1>2. /\ f \in HeapType /\ w \in HeapType /\ Formed(f) /\ p \in Useds(f) /\ p \notin Records(f) /\ Behind(f, p) = c
      /\ c \in Useds(f) /\ f.head[p].p /\ s = c - p /\ s \in Nat /\ s >= MinChunk /\ p \in Int /\ c \in Int
      /\ OnlyTags(w, f)
  BY DEF PushFree
<1> HIDE DEF g
<1>3. g \in HeapType /\ SameTop(f, g) /\ SameShelf(f, g) /\ SameMap(f, g)
  BY <1>1, <1>2 DEF OnlyTags, SameTop, SameShelf, SameMap
<1>4. p \in Chunks(f) /\ p # f.top /\ c \in Chunks(f) /\ f.head[c].c /\ p \in Heads(f) /\ c \in Heads(f)
  BY <1>2 DEF Useds, Chunks
<1>5. p < c
  BY <1>2, ConstantTypes
<1>6. Stretch(f, p, c, {p})
  BY <1>2, <1>4, OneStretch
<1>7. TagCut(f, g, p, p, c, "free")
  <2>1. Whole(f, g, p, c)
    BY <1>2, <1>3, <1>4, <1>5 DEF Whole
  <2>2. FreeSet(f, g, p, c - p)
    BY <1>1, <1>2
  <2> QED  BY <1>2, <2>1, <2>2, WholeCuts
<1>8. Cut(f, g, p, p, c, "free")
  <2>1. g.segs = f.segs /\ SameTags(g, g) /\ SameTop(f, g)
    BY <1>3 DEF SameMap, SameTags
  <2> QED  BY <1>7, <2>1, CutIs
<1>9. Cutting(f, g, p, p, c, "free")
  <2>1. g.mapped = f.mapped
    BY <1>3 DEF SameMap
  <2>2. c - p >= MinChunk
    BY <1>2
  <2> QED  BY <1>2, <1>3, <1>4, <1>5, <1>6, <1>8, <2>1, <2>2, StretchCutting
<1>10. Held(f, U \cup {p}) /\ Shelved(f, f, {})
  BY DEF Sound
<1>11. Heads(f) \cap Amid(p, c) = {p}
  BY <1>6 DEF Stretch
<1>12. Useds(f) \cap Amid(p, c) = {p}
  <2>1. Useds(f) \subseteq Heads(f)
    BY DEF Useds, Chunks
  <2> QED  BY <1>2, <1>11, <2>1
<1>13. Held(g, U) /\ Keeps(f, g, U)
  <2>1. Held(g, (U \cup {p}) \ {p}) /\ Keeps(f, g, (U \cup {p}) \ {p})
    BY <1>9, <1>10, <1>12, MergeHeld
  <2>2. (U \cup {p}) \ {p} = U
    OBVIOUS
  <2> QED  BY <2>1, <2>2
<1>14. Shelved(g, g, {p})
  <2>1. Frees(f) \cap Amid(p, c) = {}
    <3>1. Frees(f) \subseteq Heads(f) /\ p \notin Frees(f)
      BY <1>2 DEF Frees, Useds, Chunks
    <3> QED  BY <1>11, <3>1
  <2>2. Shelved(g, f, ({} \ Amid(p, c)) \cup {p})
    BY <1>9, <1>10, <2>1, CutShelved
  <2>3. ({} \ Amid(p, c)) \cup {p} = {p}
    OBVIOUS
  <2>4. Shelved(g, f, {p})
    BY <2>2, <2>3
  <2> QED  BY <1>3, <2>4, SameShelved
<1>15. p \in Frees(g) /\ g.head[p].size = s /\ Formed(g)
  <2>1. Frees(g) = (Frees(f) \ Amid(p, c)) \cup {p} /\ g.head[p].size = c - p /\ Formed(g)
    BY <1>9, CutKinds
  <2> QED  BY <1>2, <2>1
<1>16. Became(g, r, U)
  <2>1. Became(g, Insert(g, p, g.head[p].size), U)
    BY <1>13, <1>14, <1>15, InsertSound
  <2> QED  BY <1>15, <2>1
<1>17. OnlyShelf(g, r)
  <2>1. OnlyShelf(g, Insert(g, p, g.head[p].size))
    BY <1>3, <1>14, <1>15, InsertIs
  <2> QED  BY <1>15, <2>1
<1> HIDE DEF r
<1>18. SameTop(f, r) /\ SameMap(f, r)
  <2>1. SameTop(g, r) /\ SameMap(g, r)
    BY <1>17 DEF OnlyShelf
  <2> QED  BY <1>3, <2>1 DEF SameTop, SameMap
<1>19. Sound(r, U) /\ Keeps(g, r, U)
  BY <1>16 DEF Became
<1>20. Keeps(f, r, U)
  BY <1>13, <1>19, KeepsOn
<1> QED  BY <1>18, <1>19, <1>20 DEF r, g

(* What add_segment has done to the heap.                                  *)
Added(h, r, U, n) ==
  Sound(r, U) /\ Keeps(h, r, U) /\ (Counted(h) => Counted(r)) /\ r.topsize = n - TopFoot

LEMMA AddedIs ==
  ASSUME NEW h, NEW U, Sound(h, U), NEW a, NEW n, NEW c, Pushing(h, a, n, c)
  PROVE  Added(h, AddSegment(Mapped(h, a, n), a, n), U, n)
<1> DEFINE w == PushWhole(h, a, n, c)
           p == h.top
           s == c - p
           f == Headed(w, p, InuseTag(h.topsize))
           r == Insert(SetFree(w, p, s, c), p, s)
<1>1. AddSegment(Mapped(h, a, n), a, n) = IF s = 0 THEN w ELSE r
  BY AddSegmentIs
<1>2. PushOpen(h, w, a, n, c)
  BY PushWholeIs
<1>3. p \in Int /\ c \in Int /\ p <= c /\ (c # p => h.topsize = s /\ s >= MinChunk)
  BY PushAtIs DEF PushAt
<1> HIDE DEF w
<1>4. CASE s = 0
  <2>1. c = p
    BY <1>3, <1>4
  <2>2. Pushed(h, w, a, n, c)
    BY <1>2, <2>1, PushedIs
  <2>3. Sound(w, U \cup ({p} \ {c})) /\ Keeps(h, w, U) /\ (Counted(h) => Counted(w))
    BY <2>2, PushedSound
  <2>4. U \cup ({p} \ {c}) = U
    BY <2>1
  <2>5. w.topsize = n - TopFoot
    BY <1>2 DEF PushOpen
  <2>6. Sound(w, U)
    BY <2>3, <2>4
  <2>7. Added(h, w, U, n)
    BY <2>3, <2>5, <2>6 DEF Added
  <2> QED  BY <1>1, <1>4, <2>7
<1>5. CASE s # 0
  <2>1. c # p /\ h.topsize = s /\ s >= MinChunk /\ s \in Nat
    BY <1>3, <1>5, ConstantTypes
  <2>2. Pushed(h, f, a, n, c)
    BY <1>2, <2>1, PushedIs
  <2>3. HeadIs(w, f, p, InuseTag(h.topsize))
    <3>1. w \in HeapType
      BY <1>2 DEF PushOpen
    <3>2. h.topsize \in Nat
      BY <2>1
    <3> QED  BY <1>3, <3>1, <3>2, TagsTyped, HeadPut
  <2> HIDE DEF f
  <2>4. /\ Sound(f, U \cup ({p} \ {c})) /\ Keeps(h, f, U) /\ (Counted(h) => Counted(f))
        /\ Records(f) = Records(h) \cup {c} /\ p \notin U /\ p \notin Records(h)
    BY <2>2, PushedSound
  <2>5. Sound(f, U \cup {p})
    <3>1. U \cup ({p} \ {c}) = U \cup {p}
      BY <2>1
    <3> QED  BY <2>4, <3>1
  <2>6. PushFree(f, w, p, c, s)
    <3>1. PushAt(h, a, n, c, p, EndOf(h.segs[1]))
      BY PushAtIs
    <3>2. PushChunks(h, f, a, n, c)
      BY <2>2, PushChunksIs
    <3>3. Useds(f) = Useds(h) \cup {c, p}
      BY <3>2 DEF PushChunks
    <3>4. f.head[p] = InuseTag(s)
      BY <2>1, <2>2 DEF Pushed
    <3>5. f.head[p].size = s /\ f.head[p].p
      BY <2>1, <3>4, TagsTyped
    <3>6. Behind(f, p) = c
      <4>1. p + s = c
        BY <1>3
      <4> HIDE DEF s, p
      <4> QED  BY <3>5, <4>1 DEF Behind
    <3>7. OnlyTags(w, f) /\ Heads(f) = Heads(w) \cup {p} /\ f.foot = w.foot /\ \A b \in Heads(w) \ {p} : f.head[b] = w.head[b]
      BY <2>3 DEF HeadIs
    <3>8. p \in Heads(w)
      BY <1>2 DEF PushOpen
    <3>9. Feet(f) = Feet(w)
      BY <3>7 DEF Feet
    <3>10. f \in HeapType /\ w \in HeapType /\ Formed(f)
      BY <1>2, <2>2, <2>5 DEF PushOpen, Pushed, Sound
    <3>11. p \notin Records(f)
      BY <2>1, <2>4
    <3> HIDE DEF p, s
    <3>12. s = c - p
      BY DEF s
    <3>13. Heads(f) = Heads(w)
      BY <3>7, <3>8
    <3> QED  BY <1>3, <2>1, <3>3, <3>5, <3>6, <3>7, <3>9, <3>10, <3>11, <3>12, <3>13 DEF PushFree
  <2>7. Sound(r, U) /\ Keeps(f, r, U) /\ SameMap(f, r) /\ SameTop(f, r)
    <3> HIDE DEF p, s
    <3> QED  BY <2>4, <2>5, <2>6, PushFreeSound DEF p
  <2> HIDE DEF r
  <2>8. Keeps(h, r, U)
    BY <2>4, <2>7, KeepsOn
  <2>9. Counted(h) => Counted(r)
    BY <2>4, <2>7 DEF SameMap, Counted
  <2>10. r.topsize = n - TopFoot
    BY <2>2, <2>7 DEF Pushed, SameTop
  <2>11. Added(h, r, U, n)
    BY <2>7, <2>8, <2>9, <2>10 DEF Added
  <2> QED  BY <1>1, <1>5, <2>11
<1> QED  BY <1>4, <1>5

(* A block from a segment of its own.                                      *)
LEMMA AddServed ==
  ASSUME NEW h, NEW U, Sound(h, U), NEW a, NEW n, Fresh(h, a, n), n > TopFoot,
         NEW nb \in Nat, nb >= MinChunk, nb < n - TopFoot
  PROVE  Served(h, SplitTop(AddSegment(Mapped(h, a, n), a, n), nb), U, nb)
<1> DEFINE c == IF h.topsize < MinChunk THEN h.top ELSE Mark(h)
           g == AddSegment(Mapped(h, a, n), a, n)
           r == SplitTop(g, nb)
<1>1. Pushing(h, a, n, c)
  BY DEF Pushing, Sound
<1> HIDE DEF c
<1>2. Added(h, g, U, n)
  BY <1>1, AddedIs
<1> HIDE DEF g
<1>3. Sound(g, U) /\ Keeps(h, g, U) /\ (Counted(h) => Counted(g)) /\ g.topsize = n - TopFoot
  BY <1>2 DEF Added
<1>4. nb < g.topsize
  BY <1>3
<1>5. Given(g, r, U, nb) /\ SameMap(g, r.m)
  BY <1>3, <1>4, SplitTopGiven
<1>6. Served(h, r, U, nb)
  BY <1>3, <1>5, ServedOn
<1> QED  BY <1>6 DEF g

-----------------------------------------------------------------------------
(* sys_alloc and malloc.                                                   *)

Lengthened(h, j, n) == [h EXCEPT !.segs[j].size = @ + n]

OneOf(S) == CHOOSE j \in S : TRUE

SegsTo(h, a) == {i \in DOMAIN h.segs : h.segs[i].base + h.segs[i].size = a}

SegsFrom(h, a) == {i \in DOMAIN h.segs : h.segs[i].base = a}

Extending(h, nb, a, n, i, k) ==
  LET g == Mapped(h, a, n)
  IN  IF SegsTo(h, a) # {} /\ Holds(h.segs[i], h.top)
      THEN SplitTop(Lengthened(InitTop(g, h.top, h.topsize + n), i, n), nb)
      ELSE IF SegsFrom(h, a + n) # {} THEN PrependAlloc(Rebased(g, k, a, n), a, a + n, nb)
      ELSE SplitTop(AddSegment(g, a, n), nb)

LEMMA ExtendingIs ==
  ASSUME NEW h, NEW nb, NEW a, NEW n
  PROVE  Extend(h, nb, a, n) = Extending(h, nb, a, n, OneOf(SegsTo(h, a)), OneOf(SegsFrom(h, a + n)))
BY Zenon DEF Extend, Extending, OneOf, SegsTo, SegsFrom, Lengthened, Rebased

LEMMA GrownEqual ==
  ASSUME NEW h, Formed(h), NEW a, NEW n, Fresh(h, a, n)
  PROVE  Lengthened(InitTop(Mapped(h, a, n), h.top, h.topsize + n), 1, n) = Grown(h, a, n)
<1> DEFINE k == Mapped(h, a, n)
           t == h.topsize + n
           i == InitTop(k, h.top, t)
<1>1. h \in HeapType /\ 1 \in DOMAIN h.segs /\ h.top \in Int /\ h.topsize \in Nat /\ Paged(a, n)
  BY HeapTypes, TopIs DEF Fresh
<1>2. MappedTo(h, k, a, n)
  BY <1>1, MappedIs
<1>3. k \in HeapType /\ k.segs = h.segs
  BY <1>2 DEF MappedTo
<1> HIDE DEF k
<1>4. t \in Nat \ {0}
  BY <1>1 DEF Paged
<1> HIDE DEF t
<1>5. InitPut(k, i, h.top, t)
  BY <1>1, <1>3, <1>4, InitTopIs
<1> HIDE DEF i
<1>6. i.segs = h.segs
  BY <1>3, <1>5 DEF InitPut, SameMap
<1>7. Lengthened(i, 1, n) = Resized(i, h.segs[1].size + n)
  BY <1>6 DEF Lengthened, Resized
<1> QED  BY <1>7 DEF Grown, Refounded, i, t, k

LEMMA ExtendServed ==
  ASSUME NEW h, NEW U, Sound(h, U), NEW a, NEW n, Fresh(h, a, n), n > TopFoot,
         NEW nb \in Nat, nb >= MinChunk, nb < n - TopFoot, n - nb >= MinChunk
  PROVE  Served(h, Extend(h, nb, a, n), U, nb)
<1> DEFINE i == OneOf(SegsTo(h, a))
           k == OneOf(SegsFrom(h, a + n))
           g == Mapped(h, a, n)
           grown == SplitTop(Lengthened(InitTop(g, h.top, h.topsize + n), i, n), nb)
           front == PrependAlloc(Rebased(g, k, a, n), a, a + n, nb)
           own   == SplitTop(AddSegment(g, a, n), nb)
<1>1. Extend(h, nb, a, n) = IF SegsTo(h, a) # {} /\ Holds(h.segs[i], h.top) THEN grown
                            ELSE IF SegsFrom(h, a + n) # {} THEN front ELSE own
  BY ExtendingIs DEF Extending
<1>2. Formed(h) /\ n \in Nat
  BY DEF Sound, Fresh, Paged
<1>3. SegsTo(h, a) # {} => i \in SegsTo(h, a)
  BY DEF OneOf
<1>4. SegsFrom(h, a + n) # {} => k \in SegsFrom(h, a + n)
  BY DEF OneOf
<1> HIDE DEF i, k, g
<1>5. ASSUME SegsTo(h, a) # {}, Holds(h.segs[i], h.top) PROVE Served(h, grown, U, nb)
  <2>1. i \in DOMAIN h.segs /\ h.segs[i].base + h.segs[i].size = a
    BY <1>3, <1>5 DEF SegsTo
  <2>2. i = 1
    BY <1>2, <1>5, <2>1, TopSegment
  <2>3. a = EndOf(h.segs[1])
    BY <2>1, <2>2 DEF EndOf
  <2>4. Lengthened(InitTop(g, h.top, h.topsize + n), i, n) = Grown(h, a, n)
    BY <1>2, <2>2, GrownEqual DEF g
  <2>5. nb < n
    BY <1>2, ConstantTypes
  <2>6. Served(h, SplitTop(Grown(h, a, n), nb), U, nb)
    BY <2>3, <2>5, AppendServed
  <2> QED  BY <2>4, <2>6
<1>6. ASSUME SegsFrom(h, a + n) # {} PROVE Served(h, front, U, nb)
  <2>1. k \in DOMAIN h.segs /\ h.segs[k].base = a + n
    BY <1>4, <1>6 DEF SegsFrom
  <2>2. n >= MinChunk
    BY <1>2, ConstantTypes
  <2>3. Fronting(h, k, a, n)
    BY <1>2, <2>1, <2>2 DEF Fronting
  <2> QED  BY <2>3, PrependServed DEF g
<1>7. Served(h, own, U, nb)
  BY AddServed DEF g
<1> HIDE DEF grown, front, own
<1> QED  BY <1>1, <1>5, <1>6, <1>7

(* The size of what sys_alloc maps for a segment.                          *)
LEMMA SystemSize ==
  ASSUME NEW nb \in Nat
  PROVE  LET n == AlignTo(nb + Padding, Granularity)
         IN  n \in Nat \ {0} /\ n % Page = 0 /\ n > TopFoot /\ nb < n - TopFoot /\ n - nb >= MinChunk
<1> DEFINE s == nb + Padding
           n == AlignTo(s, Granularity)
           q == (s + (Granularity - 1)) \div Granularity
<1>1. s \in Nat /\ s >= 6 /\ Granularity \in Nat \ {0} /\ TopFoot = 5 /\ MinChunk = 2
  BY ConstantTypes
<1>2. nb < n - TopFoot /\ n - nb >= MinChunk
  BY MappedMemorySuffices
<1> HIDE DEF s
<1>3. n \in Nat /\ n >= s
  BY <1>1, AlignToBounds
<1>4. q \in Nat
  <2> DEFINE x == s + (Granularity - 1)
  <2>1. x \in Nat
    BY <1>1
  <2> HIDE DEF x
  <2>2. x \div Granularity \in Int
    BY <1>1, <2>1, DivIs
  <2>3. 0 <= x \div Granularity
    <3>1. Granularity * 0 <= x
      BY <1>1, <2>1
    <3> QED  BY <1>1, <2>1, <3>1, DivBetween
  <2> QED  BY <2>2, <2>3 DEF x
<1>5. n = q * Granularity
  <2>1. s + Granularity - 1 = s + (Granularity - 1)
    BY <1>1
  <2> QED  BY <2>1 DEF AlignTo
<1> HIDE DEF q
<1>6. WholePages(q * Granularity)
  BY <1>4, GranularityPages
<1>7. n % Page = 0
  BY <1>5, <1>6 DEF WholePages
<1> HIDE DEF n
<1>8. n # 0 /\ n > TopFoot
  BY <1>1, <1>3
<1> QED  BY <1>2, <1>3, <1>7, <1>8 DEF n, s

(* What an allocation does, whichever of the system calls fails.           *)
Allocated(h, r, U, nb) == (r.m = h /\ r.mem = NoMem) \/ Served(h, r, U, nb)

LEMMA SysAllocIs ==
  ASSUME NEW h, NEW U, Sound(h, U), NEW nb \in Nat, nb >= MinChunk, NEW r \in SysAlloc(h, nb)
  PROVE  Allocated(h, r, U, nb)
<1> DEFINE n == AlignTo(nb + Padding, Granularity)
           D == IF nb >= MmapThreshold /\ h.topsize # 0 THEN FreeBases(h, DirectSize(nb)) ELSE {}
<1>1. \/ r \in {MmapAlloc(h, nb, a) : a \in D}
      \/ r \in {Extend(h, nb, a, n) : a \in FreeBases(h, n)}
      \/ r = [m |-> h, mem |-> NoMem]
  BY DEF SysAlloc
<1>2. ASSUME r \in {MmapAlloc(h, nb, a) : a \in D} PROVE Served(h, r, U, nb)
  <2>1. PICK a \in D : r = MmapAlloc(h, nb, a)
    BY <1>2
  <2>2. nb >= MmapThreshold /\ a \in FreeBases(h, DirectSize(nb))
    BY <2>1
  <2>3. nb >= MinLarge
    <3>1. MmapThreshold >= MinLarge /\ MinLarge \in Nat /\ MmapThreshold \in Nat
      BY MallocAssumption, MinLargeAssumption
    <3> QED  BY <2>2, <3>1
  <2> QED  BY <2>1, <2>2, <2>3, MmapGiven DEF Served
<1>3. ASSUME r \in {Extend(h, nb, a, n) : a \in FreeBases(h, n)} PROVE Served(h, r, U, nb)
  <2>1. PICK a \in FreeBases(h, n) : r = Extend(h, nb, a, n)
    BY <1>3
  <2>2. n \in Nat \ {0} /\ n % Page = 0 /\ n > TopFoot /\ nb < n - TopFoot /\ n - nb >= MinChunk
    BY SystemSize
  <2> HIDE DEF n
  <2>3. Fresh(h, a, n)
    BY <2>1, <2>2, FreeBasesAre
  <2> QED  BY <2>1, <2>2, <2>3, ExtendServed
<1>4. ASSUME r = [m |-> h, mem |-> NoMem] PROVE r.m = h /\ r.mem = NoMem
  BY <1>4
<1> QED  BY <1>1, <1>2, <1>3, <1>4 DEF Allocated

LEMMA MallocIs ==
  ASSUME NEW h, NEW U, Sound(h, U), MinLarge <= Memory, NEW nb \in Nat, nb >= MinChunk, NEW r \in MallocChunk(h, nb)
  PROVE  Allocated(h, r, U, nb)
<1>1. r \in SysAlloc(h, nb) \/ (Given(h, r, U, nb) /\ SameMap(h, r.m))
  BY PickGiven
<1>2. ASSUME Given(h, r, U, nb), SameMap(h, r.m) PROVE Served(h, r, U, nb)
  BY <1>2 DEF Served, SameMap, Counted
<1> QED  BY <1>1, <1>2, SysAllocIs DEF Allocated

-----------------------------------------------------------------------------
(* The memory of blocks.                                                   *)

Within(h, p, x) == p <= x /\ x < Behind(h, p)

LEMMA BlockCovered ==
  ASSUME NEW h, NEW U, Sound(h, U), NEW p \in U, NEW x \in Int, Within(h, p, x)
  PROVE  /\ Covered(h, x)
         /\ p \in Useds(h) => InSeg(h, x)
         /\ p \in Direct(h) => InSpan(h, p, x) /\ ~ InSeg(h, x)
<1>1. Formed(h) /\ p \in Useds(h) \cup Direct(h)
  BY BlockTag DEF Sound
<1>2. ASSUME p \in Useds(h) PROVE InSeg(h, x)
  <2>1. p \in Chunks(h)
    BY <1>2 DEF Useds
  <2>2. p \in Int /\ Behind(h, p) \in Int /\ InSeg(h, p) /\ Together(h, p, Behind(h, p))
    BY <1>1, <2>1, ChunkIs
  <2>3. p <= x /\ x <= Behind(h, p)
    BY <2>2 DEF Within
  <2>4. h \in HeapType /\ SegsRight(h)
    BY <1>1, HeapTypes
  <2> HIDE DEF Within
  <2> QED  BY <2>2, <2>3, <2>4, Between
<1>3. ASSUME p \in Direct(h) PROVE InSpan(h, p, x) /\ ~ InSeg(h, x)
  <2>1. p \in Nat /\ Behind(h, p) \in Int /\ DirectRight(h, p)
    BY <1>1, <1>3, DirectIs
  <2>2. InSpan(h, p, x)
    BY <2>1 DEF Within, InSpan
  <2> QED  BY <2>1, <2>2 DEF DirectRight
<1> QED  BY <1>1, <1>2, <1>3 DEF Covered

LEMMA UsedsOrdered ==
  ASSUME NEW h, Formed(h), NEW p \in Useds(h), NEW q \in Useds(h), p < q, NEW x \in Int, Within(h, p, x), Within(h, q, x)
  PROVE  FALSE
<1>1. p \in Chunks(h) /\ q \in Chunks(h)
  BY DEF Useds
<1>2. q \in Heads(h) /\ q \in Int /\ p \in Int /\ Behind(h, p) \in Int
  BY <1>1, ChunkIs
<1>3. h \in HeapType /\ Layout(h)
  BY HeapTypes
<1>4. Behind(h, p) <= q
  BY <1>1, <1>2, <1>3, Apart
<1> QED  BY <1>2, <1>4 DEF Within

(* No unit is in two blocks.                                               *)
LEMMA BlocksBeside ==
  ASSUME NEW h, NEW U, Sound(h, U), NEW p \in U, NEW q \in U, p # q, NEW x \in Int, Within(h, p, x)
  PROVE  ~ Within(h, q, x)
<1> SUFFICES ASSUME Within(h, q, x) PROVE FALSE
  OBVIOUS
<1>1. Formed(h) /\ p \in Useds(h) \cup Direct(h) /\ q \in Useds(h) \cup Direct(h) /\ p \in Int /\ q \in Int
  BY BlockTag DEF Sound
<1>2. CASE p \in Useds(h) /\ q \in Useds(h)
  <2>1. p < q \/ q < p
    BY <1>1
  <2> QED  BY <1>1, <1>2, <2>1, UsedsOrdered
<1>3. /\ p \in Useds(h) => InSeg(h, x)
      /\ p \in Direct(h) => InSpan(h, p, x) /\ ~ InSeg(h, x)
  BY BlockCovered
<1>4. /\ q \in Useds(h) => InSeg(h, x)
      /\ q \in Direct(h) => InSpan(h, q, x) /\ ~ InSeg(h, x)
  BY BlockCovered
<1>5. CASE p \in Direct(h) /\ q \in Direct(h)
  <2>1. InSpan(h, p, x) /\ InSpan(h, q, x)
    BY <1>3, <1>4, <1>5
  <2> QED  BY <1>1, <1>5, <2>1, SpansApart
<1> QED  BY <1>1, <1>2, <1>3, <1>4, <1>5

-----------------------------------------------------------------------------
(* mmap_resize.                                                            *)

(* A block of nb units instead of p, where p is or where nothing is.       *)
Renewed(h, r, p, U, nb) ==
  /\ r.mem \in Int /\ r.mem # NoMem /\ (r.mem # p => r.mem \notin U)
  /\ Sound(r.m, (U \ {p}) \cup {r.mem}) /\ (Counted(h) => Counted(r.m)) /\ Keeps(h, r.m, U \ {p})
  /\ Fits(r.m, r.mem, nb)
  /\ r.mem # p => \A x \in Int : Within(h, p, x) => ~ Within(r.m, r.mem, x)

MapBases(h, g, p, old, new) ==
  {a \in FreeBases(g, new) : a = p \/ Pages(a, new) \cap Pages(p, old) = {}}

LEMMA MmapResizeIs ==
  ASSUME NEW h, Formed(h), NEW p \in Direct(h), NEW nb, NEW r \in MmapResize(h, p, nb)
  PROVE  LET old == h.head[p].size + 2
             gone == Unmapped(h, p, old)
         IN  \/ r.m = h /\ r.mem = NoMem
             \/ r.m = h /\ r.mem = p /\ h.head[p].size > nb /\ ~ IsSmall(nb)
             \/ ~ IsSmall(nb) /\ \E a \in MapBases(h, gone, p, old, DirectSize(nb)) : r = MmapAlloc(gone, nb, a)
<1> DEFINE s == h.head[p].size
           old == s + 2
           gone == Unmapped(h, p, old)
           to == MapBases(h, gone, p, old, DirectSize(nb))
<1>1. Foot(h, p) = 0 /\ Tag(h, p) = h.head[p] /\ s \in Nat /\ p \in Nat
  BY DirectIs
<1>2. p - Foot(h, p) = p /\ s + Foot(h, p) + 2 = old
  BY <1>1
<1>3. MmapResize(h, p, nb) =
        IF IsSmall(nb) THEN {[m |-> h, mem |-> NoMem]}
        ELSE IF s > nb /\ s - nb <= 2 * Granularity THEN {[m |-> h, mem |-> p]}
        ELSE {MmapAlloc(gone, nb, a) : a \in to} \cup {[m |-> h, mem |-> NoMem]}
  BY <1>1, <1>2 DEF MmapResize, MapBases
<1> HIDE DEF gone, to, s
<1>4. \/ r = [m |-> h, mem |-> NoMem]
      \/ ~ IsSmall(nb) /\ s > nb /\ r = [m |-> h, mem |-> p]
      \/ ~ IsSmall(nb) /\ \E a \in to : r = MmapAlloc(gone, nb, a)
  BY <1>3
<1> QED  BY <1>4 DEF gone, to, s

LEMMA MmapMoved ==
  ASSUME NEW h, NEW U, Sound(h, U), NEW p \in U, p \in Direct(h), NEW nb \in Nat, nb >= MinLarge,
         NEW a \in MapBases(h, Unmapped(h, p, h.head[p].size + 2), p, h.head[p].size + 2, DirectSize(nb))
  PROVE  Renewed(h, MmapAlloc(Unmapped(h, p, h.head[p].size + 2), nb, a), p, U, nb)
<1> DEFINE old == h.head[p].size + 2
           g == Unmapped(h, p, old)
           r == MmapAlloc(g, nb, a)
           n == DirectSize(nb)
<1>1. Formed(h)
  BY DEF Sound
<1>2. DirectGone(h, g, p, old)
  BY <1>1, DirectUnmapped
<1>3. a \in FreeBases(g, n) /\ (a = p \/ Pages(a, n) \cap Pages(p, old) = {})
  BY DEF MapBases
<1> HIDE DEF g, r
<1>4. Left(h, g, U \ {p})
  BY <1>2, DirectGoneLeft
<1>5. Sound(g, U \ {p}) /\ Keeps(h, g, U \ {p}) /\ (Counted(h) => Counted(g)) /\ Formed(g)
  BY <1>4 DEF Left, Sound
<1>6. Given(g, r, U \ {p}, nb) /\ (Counted(g) => Counted(r.m))
  BY <1>3, <1>5, MmapGiven DEF r
<1>7. Given(h, r, U \ {p}, nb)
  BY <1>5, <1>6, GivenOn
<1>8. n \in Nat \ {0} /\ n % Page = 0 /\ n > 2
  BY DirectSizeIs
<1> HIDE DEF n
<1>9. r.mem = a /\ r.m.mapped = g.mapped \cup Pages(a, n)
  <2>1. Fresh(g, a, n)
    BY <1>3, <1>8, FreeBasesAre
  <2>2. Mmapped(g, r.m, a, n) /\ r.mem = a
    BY <1>5, <1>8, <2>1, MmapAllocIs DEF r, n
  <2> QED  BY <2>2 DEF Mmapped
<1> HIDE DEF old
<1>10. ASSUME r.mem # p, NEW x \in Int, Within(h, p, x) PROVE ~ Within(r.m, r.mem, x)
  <2>1. InMem(p, old, x)
    <3>1. p \in Nat /\ h.head[p].size \in Nat
      BY <1>1, DirectIs
    <3> QED  BY <1>10, <3>1 DEF InMem, Within, Behind, old
  <2>2. x \div Page \in Pages(p, old)
    <3>1. Paged(p, old)
      BY <1>2 DEF DirectGone
    <3> QED  BY <2>1, <3>1, PagesAre
  <2>3. x \div Page \notin r.m.mapped
    <3>1. g.mapped = h.mapped \ Pages(p, old)
      BY <1>2 DEF DirectGone
    <3> QED  BY <1>3, <1>9, <1>10, <2>2, <3>1
  <2>4. Sound(r.m, (U \ {p}) \cup {r.mem})
    BY <1>7 DEF Given
  <2>5. ASSUME Within(r.m, r.mem, x) PROVE FALSE
    <3>1. r.mem \in (U \ {p}) \cup {r.mem}
      OBVIOUS
    <3>2. Covered(r.m, x)
      BY <2>4, <2>5, <3>1, BlockCovered
    <3>3. Backed(r.m)
      BY <2>4 DEF Sound, Formed
    <3> QED  BY <2>3, <3>2, <3>3 DEF Backed
  <2> QED  BY <2>5
<1>11. /\ r.mem \in Int /\ r.mem # NoMem /\ (r.mem # p => r.mem \notin U)
       /\ Sound(r.m, (U \ {p}) \cup {r.mem}) /\ Keeps(h, r.m, U \ {p}) /\ Fits(r.m, r.mem, nb)
  BY <1>7 DEF Given
<1>12. Renewed(h, r, p, U, nb)
  BY <1>5, <1>6, <1>10, <1>11 DEF Renewed
<1> QED  BY <1>12 DEF r, g, old

LEMMA MmapResized ==
  ASSUME NEW h, NEW U, Sound(h, U), NEW p \in U, p \in Direct(h), NEW nb \in Nat, NEW r \in MmapResize(h, p, nb)
  PROVE  (r.m = h /\ r.mem = NoMem) \/ Renewed(h, r, p, U, nb)
<1> DEFINE old == h.head[p].size + 2
           gone == Unmapped(h, p, old)
<1>1. Formed(h)
  BY DEF Sound
<1>2. \/ r.m = h /\ r.mem = NoMem
      \/ r.m = h /\ r.mem = p /\ h.head[p].size > nb /\ ~ IsSmall(nb)
      \/ ~ IsSmall(nb) /\ \E a \in MapBases(h, gone, p, old, DirectSize(nb)) : r = MmapAlloc(gone, nb, a)
  BY <1>1, MmapResizeIs
<1>3. CASE r.m = h /\ r.mem = p /\ h.head[p].size > nb /\ ~ IsSmall(nb)
  <2>1. (U \ {p}) \cup {r.mem} = U
    BY <1>3
  <2>2. p \in Nat /\ p # NoMem /\ h.head[p].size \in Nat
    BY <1>1, DirectIs
  <2>3. Fits(r.m, r.mem, nb)
    BY <1>3, <2>2 DEF Fits
  <2>4. Keeps(h, r.m, U \ {p})
    BY <1>3 DEF Keeps
  <2>5. Sound(r.m, (U \ {p}) \cup {r.mem}) /\ (Counted(h) => Counted(r.m)) /\ r.mem = p
    <3>1. r.m = h /\ r.mem = p
      BY <1>3
    <3> QED  BY <2>1, <3>1
  <2> QED  BY <2>2, <2>3, <2>4, <2>5 DEF Renewed
<1>4. CASE ~ IsSmall(nb) /\ \E a \in MapBases(h, gone, p, old, DirectSize(nb)) : r = MmapAlloc(gone, nb, a)
  <2>1. nb >= MinLarge
    BY <1>4, MinLargeAssumption DEF IsSmall
  <2>2. PICK a \in MapBases(h, gone, p, old, DirectSize(nb)) : r = MmapAlloc(gone, nb, a)
    BY <1>4
  <2>3. Renewed(h, MmapAlloc(gone, nb, a), p, U, nb)
    BY <2>1, MmapMoved
  <2> QED  BY <2>2, <2>3
<1> QED  BY <1>2, <1>3, <1>4

-----------------------------------------------------------------------------
(* realloc.                                                                *)

LEMMA ReallocIs ==
  ASSUME NEW h, NEW p, NEW nb, NEW r \in ReallocChunk(h, p, nb)
  PROVE  \E t \in TryRealloc(h, p, nb) :
           \/ t.mem # NoMem /\ r = t
           \/ t.mem = NoMem /\ \E q \in MallocChunk(t.m, nb) :
                \/ q.mem = NoMem /\ r = q
                \/ q.mem # NoMem /\ \E k \in FreeChunk(q.m, p) : r = [m |-> k, mem |-> q.mem]
<1> DEFINE moved(g) ==
             UNION {IF r1.mem = NoMem THEN {r1}
                    ELSE {[m |-> k, mem |-> r1.mem] : k \in FreeChunk(r1.m, p)} : r1 \in MallocChunk(g, nb)}
<1>1. PICK t \in TryRealloc(h, p, nb) : r \in (IF t.mem = NoMem THEN moved(t.m) ELSE {t})
  BY DEF ReallocChunk
<1>2. CASE t.mem # NoMem
  BY <1>1, <1>2
<1>3. CASE t.mem = NoMem
  <2>1. r \in moved(t.m)
    BY <1>1, <1>3
  <2>2. PICK q \in MallocChunk(t.m, nb) :
          r \in (IF q.mem = NoMem THEN {q} ELSE {[m |-> k, mem |-> q.mem] : k \in FreeChunk(q.m, p)})
    BY <2>1
  <2> HIDE DEF moved
  <2>3. \/ q.mem = NoMem /\ r = q
        \/ q.mem # NoMem /\ \E k \in FreeChunk(q.m, p) : r = [m |-> k, mem |-> q.mem]
    BY <2>2
  <2> QED  BY <1>3, <2>3
<1> QED  BY <1>2, <1>3

(* In place.                                                               *)
LEMMA TryReallocIn ==
  ASSUME NEW h, NEW U, Sound(h, U), NEW p \in U, NEW nb \in Nat, nb >= MinChunk, NEW r \in TryRealloc(h, p, nb)
  PROVE  (r.m = h /\ r.mem = NoMem) \/ Renewed(h, r, p, U, nb)
<1>1. p \in Useds(h) \cup Direct(h) /\ p \in Int /\ p # NoMem
  BY BlockTag
<1>2. CASE p \in Direct(h)
  <2>1. IsMmapped(Tag(h, p)) /\ Tag(h, p) = h.head[p]
    BY <1>2, BlockTag
  <2>2. Tag(h, p).size \in Int
    <3>1. Formed(h)
      BY DEF Sound
    <3>2. h.head[p].size \in Nat
      BY <1>2, <3>1, DirectIs
    <3> QED  BY <2>1, <3>2
  <2>3. nb \in Int
    OBVIOUS
  <2>4. TryRealloc(h, p, nb) = MmapResize(h, p, nb)
    BY <2>1, <2>2, <2>3, TryReallocIs
  <2>5. r \in MmapResize(h, p, nb)
    BY <2>4
  <2> QED  BY <1>2, <2>5, MmapResized
<1>3. CASE p \in Useds(h)
  <2>1. Retried(h, r, p, U, nb)
    <3>1. Resizing(h, p, U, nb)
      BY <1>3 DEF Resizing
    <3> QED  BY <3>1, TryReallocSound
  <2>2. CASE r.mem = p /\ Again(h, r.m, p, U, nb)
    <3>1. (U \ {p}) \cup {r.mem} = U
      BY <2>2
    <3>2. Sound(r.m, U) /\ Keeps(h, r.m, U \ {p}) /\ SameMap(h, r.m) /\ Fits(r.m, p, nb)
      BY <2>2 DEF Again
    <3>3. Counted(h) => Counted(r.m)
      BY <3>2 DEF SameMap, Counted
    <3>4. Sound(r.m, (U \ {p}) \cup {r.mem}) /\ Fits(r.m, r.mem, nb) /\ r.mem \in Int /\ r.mem # NoMem
      BY <1>1, <2>2, <3>1, <3>2
    <3> QED  BY <2>2, <3>2, <3>3, <3>4 DEF Renewed
  <2> QED  BY <2>1, <2>2 DEF Retried
<1> QED  BY <1>1, <1>2, <1>3

(* A new block, and the old one is freed.                                  *)
LEMMA MovedRenewed ==
  ASSUME NEW h, NEW U, Sound(h, U), NEW p \in U, NEW nb \in Nat, NEW q, Served(h, q, U, nb), NEW k \in FreeChunk(q.m, p)
  PROVE  Renewed(h, [m |-> k, mem |-> q.mem], p, U, nb)
<1> DEFINE V == U \cup {q.mem}
           g == q.m
           r == [m |-> k, mem |-> q.mem]
<1>1. /\ q.mem \in Int /\ q.mem # NoMem /\ q.mem \notin U /\ Sound(g, V) /\ Keeps(h, g, U) /\ Fits(g, q.mem, nb)
      /\ (Counted(h) => Counted(g))
  BY DEF Served, Given
<1>2. p \in V /\ q.mem \in V /\ q.mem # p
  BY <1>1
<1>3. V \ {p} = (U \ {p}) \cup {q.mem}
  BY <1>1
<1> HIDE DEF g, V
<1>4. Left(g, k, V \ {p})
  BY <1>1, <1>2, FreeLeft DEF g
<1>5. Sound(k, V \ {p}) /\ Keeps(g, k, V \ {p}) /\ (Counted(h) => Counted(k))
  BY <1>1, <1>4 DEF Left
<1>6. Keeps(h, k, U \ {p})
  BY <1>1, <1>3, <1>5 DEF Keeps
<1>7. k.head[q.mem].size = g.head[q.mem].size /\ Fits(k, q.mem, nb)
  <2>1. q.mem \in V \ {p}
    BY <1>2
  <2>2. k.head[q.mem].size = g.head[q.mem].size /\ (q.mem \in Direct(g) => q.mem \in Direct(k))
    BY <1>5, <2>1 DEF Keeps
  <2> QED  BY <1>1, <2>2 DEF Fits
<1>8. ASSUME NEW x \in Int, Within(h, p, x) PROVE ~ Within(k, q.mem, x)
  <2>1. Within(g, p, x)
    <3>1. g.head[p].size = h.head[p].size
      BY <1>1 DEF Keeps
    <3> QED  BY <1>8, <3>1 DEF Within, Behind
  <2>2. ~ Within(g, q.mem, x)
    BY <1>1, <1>2, <2>1, BlocksBeside
  <2> QED  BY <1>7, <2>2 DEF Within, Behind
<1>9. r.m = k /\ r.mem = q.mem
  OBVIOUS
<1> HIDE DEF r
<1>10. Sound(r.m, (U \ {p}) \cup {r.mem}) /\ (Counted(h) => Counted(r.m)) /\ Keeps(h, r.m, U \ {p}) /\ Fits(r.m, r.mem, nb)
  BY <1>3, <1>5, <1>6, <1>7, <1>9
<1>11. r.mem \in Int /\ r.mem # NoMem /\ r.mem \notin U /\ \A x \in Int : Within(h, p, x) => ~ Within(r.m, r.mem, x)
  BY <1>1, <1>8, <1>9
<1>12. Renewed(h, r, p, U, nb)
  BY <1>10, <1>11 DEF Renewed
<1> QED  BY <1>12 DEF r

LEMMA ReallocRenewed ==
  ASSUME NEW h, NEW U, Sound(h, U), MinLarge <= Memory, NEW p \in U, NEW nb \in Nat, nb >= MinChunk,
         NEW r \in ReallocChunk(h, p, nb)
  PROVE  (r.m = h /\ r.mem = NoMem) \/ Renewed(h, r, p, U, nb)
<1>1. PICK t \in TryRealloc(h, p, nb) :
           \/ t.mem # NoMem /\ r = t
           \/ t.mem = NoMem /\ \E q \in MallocChunk(t.m, nb) :
                \/ q.mem = NoMem /\ r = q
                \/ q.mem # NoMem /\ \E k \in FreeChunk(q.m, p) : r = [m |-> k, mem |-> q.mem]
  BY ReallocIs
<1>2. (t.m = h /\ t.mem = NoMem) \/ Renewed(h, t, p, U, nb)
  BY TryReallocIn
<1>3. CASE t.mem # NoMem
  BY <1>1, <1>2, <1>3
<1>4. CASE t.mem = NoMem
  <2>1. t.m = h
    BY <1>2, <1>4 DEF Renewed
  <2>2. PICK q \in MallocChunk(h, nb) :
                \/ q.mem = NoMem /\ r = q
                \/ q.mem # NoMem /\ \E k \in FreeChunk(q.m, p) : r = [m |-> k, mem |-> q.mem]
    BY <1>1, <1>4, <2>1
  <2>3. Allocated(h, q, U, nb)
    BY MallocIs
  <2>4. CASE q.mem = NoMem /\ r = q
    <3>1. ~ Served(h, q, U, nb)
      BY <2>4 DEF Served, Given
    <3> QED  BY <2>3, <2>4, <3>1 DEF Allocated
  <2>5. CASE q.mem # NoMem /\ \E k \in FreeChunk(q.m, p) : r = [m |-> k, mem |-> q.mem]
    <3>1. PICK k \in FreeChunk(q.m, p) : r = [m |-> k, mem |-> q.mem]
      BY <2>5
    <3>2. Served(h, q, U, nb)
      BY <2>3, <2>5 DEF Allocated
    <3>3. Renewed(h, [m |-> k, mem |-> q.mem], p, U, nb)
      BY <3>2, MovedRenewed
    <3> QED  BY <3>1, <3>3
  <2> QED  BY <2>2, <2>4, <2>5
<1> QED  BY <1>3, <1>4

-----------------------------------------------------------------------------
(* create_mspace.                                                          *)

LEMMA BlankIs ==
  ASSUME NEW S \in SUBSET Nat
  PROVE  LET h == Blank(S)
         IN  /\ h \in HeapType /\ Heads(h) = {} /\ Feet(h) = {} /\ h.segs = <<>> /\ h.mapped = S /\ h.footprint = 0
             /\ h.dv = NoMem /\ h.dvsize = 0 /\ \A s \in Sizes : h.bins[s] = <<>>
<1> DEFINE h == Blank(S)
<1>1. <<>> \in TagMaps /\ <<>> \in FootMaps /\ DOMAIN <<>> = {}
  <2>1. DOMAIN <<>> = {} /\ <<>> = [x \in {} |-> 0]
    OBVIOUS
  <2>2. [x \in {} |-> 0] \in [{} -> TagType] /\ [x \in {} |-> 0] \in [{} -> Nat]
    OBVIOUS
  <2>3. {} \in SUBSET Int
    OBVIOUS
  <2> QED  BY <2>1, <2>2, <2>3 DEF TagMaps, FootMaps
<1>2. [s \in MinChunk .. Memory |-> <<>>] \in [MinChunk .. Memory -> Seq(Int)]
  OBVIOUS
<1>3. NoMem \in Int /\ Never \in Int /\ 0 \in Int /\ <<>> \in Seq(SegType) /\ S \in SUBSET Nat
  BY MallocAssumption DEF NoMem, Never
<1>4. h \in HeapType
  BY <1>1, <1>2, <1>3 DEF Blank, HeapType
<1>5. Heads(h) = {} /\ Feet(h) = {}
  BY <1>1 DEF Blank, Heads, Feet
<1> QED  BY <1>4, <1>5 DEF Blank, Sizes

(* The size of the first top chunk.                                        *)
FirstTop == Granularity - TopFoot - StateChunk

Founded(g, a) ==
  /\ g \in HeapType /\ Fresh(Blank({}), a, Granularity)
  /\ Heads(g) = {a, a + StateChunk, a + StateChunk + FirstTop} /\ Feet(g) = {}
  /\ g.head[a] = InuseTag(StateChunk) /\ g.head[a + StateChunk] = FreeTag(FirstTop)
  /\ g.head[a + StateChunk + FirstTop] = TopTag
  /\ g.top = a + StateChunk /\ g.topsize = FirstTop
  /\ g.segs = <<[base |-> a, size |-> Granularity, rec |-> a]>>
  /\ g.mapped = Pages(a, Granularity) /\ g.footprint = Granularity
  /\ g.dv = NoMem /\ g.dvsize = 0 /\ \A s \in Sizes : g.bins[s] = <<>>

Settled(k, segs) == [k EXCEPT !.checks = MaxChecks, !.segs = segs]

LEMMA SettledIs ==
  ASSUME NEW k \in HeapType, NEW segs \in Seq(SegType)
  PROVE  LET g == Settled(k, segs)
         IN  /\ g \in HeapType /\ SameTags(k, g) /\ SameTop(k, g) /\ SameShelf(k, g) /\ g.segs = segs
             /\ g.mapped = k.mapped /\ g.footprint = k.footprint
<1>1. MaxChecks \in Int
  BY MallocAssumption
<1> QED  BY <1>1 DEF Settled, HeapType, SameTags, SameTop, SameShelf

FirstSpace(a) ==
  Settled(InitTop(PutInuse(Mapped(Blank({}), a, Granularity), a, StateChunk), a + StateChunk, FirstTop),
          <<[base |-> a, size |-> Granularity, rec |-> a]>>)

LEMMA FirstSizes ==
  /\ Granularity \in Nat \ {0} /\ Granularity % Page = 0 /\ StateChunk \in Nat /\ StateChunk >= MinChunk /\ StateChunk > 0
  /\ TopFoot \in Nat /\ TopFoot = 5 /\ FirstTop \in Nat \ {0} /\ FirstTop > MinLarge
  /\ StateChunk + FirstTop + TopFoot = Granularity /\ MinLarge \in Nat /\ MinChunk = 2
<1>1. Granularity \in Nat /\ Granularity % Page = 0 /\ StateChunk \in Nat /\ StateChunk >= MinChunk
      /\ Granularity > StateChunk + TopFoot + MinLarge
  BY MallocAssumption
<1>2. MinLarge \in Nat
  BY MinLargeAssumption
<1>3. MinChunk = 2 /\ TopFoot = 5
  BY DEF MinChunk, TopFoot, SegmentRecord
<1> QED  BY <1>1, <1>2, <1>3 DEF FirstTop

LEMMA FirstSpaceIs ==
  ASSUME NEW a \in FreeBases(Blank({}), Granularity)
  PROVE  Founded(FirstSpace(a), a)
<1> DEFINE b == Blank({})
           k == Mapped(b, a, Granularity)
           u == PutInuse(k, a, StateChunk)
           t == InitTop(u, a + StateChunk, FirstTop)
           sg == <<[base |-> a, size |-> Granularity, rec |-> a]>>
           g == Settled(t, sg)
<1>1. Fresh(b, a, Granularity)
  BY FirstSizes, FreeBasesAre
<1>2. Paged(a, Granularity) /\ a \in Nat
  BY <1>1 DEF Fresh, Paged
<1>3. /\ b \in HeapType /\ Heads(b) = {} /\ Feet(b) = {} /\ b.mapped = {} /\ b.footprint = 0
      /\ b.dv = NoMem /\ b.dvsize = 0 /\ \A s \in Sizes : b.bins[s] = <<>>
  <2>1. {} \in SUBSET Nat
    OBVIOUS
  <2> QED  BY <2>1, BlankIs
<1> HIDE DEF b
<1>4. MappedTo(b, k, a, Granularity)
  BY <1>2, <1>3, MappedIs
<1> HIDE DEF k
<1>5. /\ k \in HeapType /\ Heads(k) = {} /\ Feet(k) = {} /\ k.mapped = Pages(a, Granularity) /\ k.footprint = Granularity
      /\ SameShelf(b, k)
  <2>1. Granularity \in Nat
    BY FirstSizes
  <2> QED  BY <1>3, <1>4, <2>1 DEF MappedTo, SameTags, Heads, Feet
<1>6. InusePut(k, u, a, StateChunk)
  BY <1>2, <1>5, FirstSizes, PutInuseIs
<1> HIDE DEF u
<1>7. /\ u \in HeapType /\ Heads(u) = {a} /\ u.head[a] = InuseTag(StateChunk) /\ Feet(u) = {}
      /\ SameShelf(k, u) /\ SameMap(k, u)
  BY <1>5, <1>6 DEF InusePut, OnlyTags
<1>8. InitPut(u, t, a + StateChunk, FirstTop)
  <2>1. a + StateChunk \in Int
    BY <1>2, FirstSizes
  <2> QED  BY <1>7, <2>1, FirstSizes, InitTopIs
<1> HIDE DEF t
<1>9. Heads(t) = {a, a + StateChunk, a + StateChunk + FirstTop} /\ t.head[a] = InuseTag(StateChunk) /\ Feet(t) = {}
  <2>1. ~ TopSpan(a + StateChunk, FirstTop, a) /\ a \in Int
    BY <1>2, FirstSizes DEF TopSpan
  <2>2. SameOn(u, t, a)
    BY <1>8, <2>1 DEF InitPut
  <2>3. a \in Heads(t) /\ t.head[a] = InuseTag(StateChunk)
    BY <1>7, <2>2 DEF SameOn, SameAt
  <2>4. t \in HeapType /\ a + StateChunk \in Heads(t) /\ a + StateChunk + FirstTop \in Heads(t)
    BY <1>8 DEF InitPut
  <2>5. Heads(t) \subseteq Int /\ Feet(t) \subseteq Int
    BY <2>4, HeapFields
  <2>6. ASSUME NEW x \in Heads(t) PROVE x \in {a, a + StateChunk, a + StateChunk + FirstTop}
    <3>1. CASE TopSpan(a + StateChunk, FirstTop, x)
      BY <1>8, <3>1 DEF InitPut
    <3>2. CASE ~ TopSpan(a + StateChunk, FirstTop, x)
      <4>1. SameOn(u, t, x)
        BY <1>8, <2>5, <3>2 DEF InitPut
      <4>2. x \in Heads(u)
        BY <4>1 DEF SameOn, SameAt
      <4> QED  BY <1>7, <4>2
    <3> QED  BY <3>1, <3>2
  <2>7. ASSUME NEW x \in Feet(t) PROVE FALSE
    <3>1. x \in Int
      BY <2>5
    <3>2. x \in Feet(u)
      BY <1>8, <3>1 DEF InitPut
    <3> QED  BY <1>7, <3>2
  <2> QED  BY <2>3, <2>4, <2>6, <2>7
<1>10. sg \in Seq(SegType)
  <2>1. a \in Nat /\ a \in Int /\ Granularity \in Nat
    BY <1>2, FirstSizes
  <2>2. [base |-> a, size |-> Granularity, rec |-> a] \in SegType
    BY <2>1 DEF SegType
  <2> QED  BY <2>2
<1> HIDE DEF sg
<1>11. t \in HeapType
  BY <1>8 DEF InitPut
<1>12. /\ g \in HeapType /\ SameTags(t, g) /\ SameTop(t, g) /\ SameShelf(t, g) /\ g.segs = sg
       /\ g.mapped = t.mapped /\ g.footprint = t.footprint
  BY <1>10, <1>11, SettledIs
<1> HIDE DEF g
<1>13. /\ g.top = a + StateChunk /\ g.topsize = FirstTop /\ g.head = t.head /\ g.foot = t.foot
       /\ t.head[a + StateChunk] = FreeTag(FirstTop) /\ t.head[a + StateChunk + FirstTop] = TopTag
  BY <1>8, <1>12 DEF InitPut, SameTop, SameTags
<1>14. Heads(g) = Heads(t) /\ Feet(g) = Feet(t)
  BY <1>13 DEF Heads, Feet
<1>15. g.mapped = Pages(a, Granularity) /\ g.footprint = Granularity
  BY <1>5, <1>7, <1>8, <1>12 DEF InitPut, SameMap
<1>16. g.bins = b.bins /\ g.dv = b.dv /\ g.dvsize = b.dvsize
  BY <1>5, <1>7, <1>8, <1>12 DEF InitPut, SameShelf
<1>17. Founded(g, a)
  BY <1>1, <1>3, <1>9, <1>12, <1>13, <1>14, <1>15, <1>16 DEF Founded, sg, b
<1> QED  BY <1>17 DEF g, t, u, k, b, sg, FirstSpace

(* What the first chunks of a space are.                                   *)
FirstChunks(g, a) ==
  /\ a \in Nat /\ g.segs # <<>> /\ DOMAIN g.segs = {1} /\ Len(g.segs) = 1 /\ 1 .. Len(g.segs) = {1} /\ 2 .. Len(g.segs) = {}
  /\ g.segs[1].base = a /\ g.segs[1].size = Granularity /\ g.segs[1].rec = a
  /\ \A x \in Int : (Holds(g.segs[1], x) => InMem(a, Granularity, x)) /\ (InMem(a, Granularity, x) => Holds(g.segs[1], x))
  /\ \A x \in Int : (InSeg(g, x) => InMem(a, Granularity, x)) /\ (InMem(a, Granularity, x) => InSeg(g, x))
  /\ Mark(g) = a + StateChunk + FirstTop
  /\ Chunks(g) = {a, a + StateChunk} /\ Frees(g) = {} /\ Useds(g) = {a} /\ Direct(g) = {}
  /\ \A x \in Heads(g) : InMem(a, Granularity, x)

LEMMA FirstChunksAre ==
  ASSUME NEW g, NEW a, Founded(g, a)
  PROVE  FirstChunks(g, a)
<1> DEFINE f == a + StateChunk
           e == f + FirstTop
<1>1. a \in Nat /\ f \in Nat /\ e \in Nat /\ a < f /\ f < e /\ e + 5 = a + Granularity /\ Granularity \in Nat
  <2>1. a \in Nat
    BY DEF Founded, Fresh, Paged
  <2> QED  BY <2>1, FirstSizes
<1>2. /\ Heads(g) = {a, f, e} /\ g.head[a] = InuseTag(StateChunk) /\ g.head[f] = FreeTag(FirstTop)
      /\ g.head[e] = TopTag /\ g.top = f /\ g.topsize = FirstTop /\ g.segs = <<[base |-> a, size |-> Granularity, rec |-> a]>>
  BY DEF Founded
<1>3. /\ DOMAIN g.segs = {1} /\ Len(g.segs) = 1 /\ g.segs # <<>> /\ 1 .. Len(g.segs) = {1} /\ 2 .. Len(g.segs) = {}
      /\ g.segs[1].base = a /\ g.segs[1].size = Granularity /\ g.segs[1].rec = a
  BY <1>2
<1>4. Mark(g) = e
  BY <1>2 DEF Mark
<1> HIDE DEF f, e
<1>5. \A x \in Int : (Holds(g.segs[1], x) => InMem(a, Granularity, x)) /\ (InMem(a, Granularity, x) => Holds(g.segs[1], x))
  BY <1>3 DEF Holds, InMem
<1>6. \A x : (InSeg(g, x) => Holds(g.segs[1], x)) /\ (Holds(g.segs[1], x) => InSeg(g, x))
  BY <1>3 DEF InSeg
<1>7. InMem(a, Granularity, a) /\ InMem(a, Granularity, f) /\ InMem(a, Granularity, e)
  BY <1>1 DEF InMem
<1>8. \A x \in Heads(g) : InSeg(g, x)
  BY <1>1, <1>2, <1>5, <1>6, <1>7
<1>9. /\ g.head[a].size = StateChunk /\ g.head[f].size = FirstTop /\ g.head[a].c = TRUE /\ g.head[f].c = FALSE
      /\ StateChunk # 0 /\ FirstTop # 0
  BY <1>2, FirstSizes DEF InuseTag, FreeTag
<1>10. Chunks(g) = {a, f}
  <2>1. a # e /\ f # e
    BY <1>1
  <2> QED  BY <1>2, <1>4, <1>8, <1>9, <2>1 DEF Chunks
<1>11. Frees(g) = {} /\ Useds(g) = {a}
  <2>1. a # f
    BY <1>1
  <2> QED  BY <1>2, <1>9, <1>10, <2>1 DEF Frees, Useds
<1>12. Direct(g) = {}
  BY <1>8 DEF Direct
<1>13. \A x \in Heads(g) : InMem(a, Granularity, x)
  BY <1>2, <1>7
<1>14. \A x \in Int : (InSeg(g, x) => InMem(a, Granularity, x)) /\ (InMem(a, Granularity, x) => InSeg(g, x))
  BY <1>5, <1>6
<1> QED  BY <1>1, <1>3, <1>4, <1>5, <1>10, <1>11, <1>12, <1>13, <1>14 DEF FirstChunks, f, e

LEMMA FirstLayout ==
  ASSUME NEW g, NEW a, Founded(g, a)
  PROVE  Layout(g)
<1> DEFINE f == a + StateChunk
           e == f + FirstTop
<1>1. FirstChunks(g, a)
  BY FirstChunksAre
<1>2. /\ Heads(g) = {a, f, e} /\ g.head[a] = InuseTag(StateChunk) /\ g.head[f] = FreeTag(FirstTop)
      /\ g.top = f /\ Feet(g) = {}
  BY DEF Founded
<1>3. a \in Nat /\ f \in Nat /\ e \in Nat /\ a < f /\ f < e /\ e + 5 = a + Granularity /\ Granularity \in Nat
      /\ f - a >= MinChunk
  <2>1. a \in Nat
    BY <1>1 DEF FirstChunks
  <2> QED  BY <2>1, FirstSizes
<1>4. Behind(g, a) = f /\ Behind(g, f) = e
  BY <1>2 DEF Behind, InuseTag, FreeTag
<1>5. Chunks(g) = {a, f} /\ Useds(g) = {a} /\ Frees(g) = {} /\ DOMAIN g.segs = {1}
  BY <1>1 DEF FirstChunks
<1>6. g.head[f].p = TRUE /\ g.head[a].p = TRUE
  BY <1>2 DEF FreeTag, InuseTag
<1> HIDE DEF f, e
<1>7. Holds(g.segs[1], a) /\ Holds(g.segs[1], f) /\ Holds(g.segs[1], e)
  <2>1. InMem(a, Granularity, a) /\ InMem(a, Granularity, f) /\ InMem(a, Granularity, e)
    BY <1>3 DEF InMem
  <2> QED  BY <1>1, <1>3, <2>1 DEF FirstChunks
<1>8. Together(g, a, f) /\ Together(g, f, e)
  BY <1>5, <1>7 DEF Together
<1>9. Laid(g, a)
  <2>1. \A b \in Heads(g) \cup Feet(g) : ~ (a < b /\ b < f)
    BY <1>2, <1>3
  <2> QED  BY <1>2, <1>3, <1>4, <1>5, <1>6, <1>8, <2>1 DEF Laid
<1>10. Laid(g, f)
  <2>1. \A b \in Heads(g) \cup Feet(g) : ~ (f < b /\ b < e)
    BY <1>2, <1>3
  <2>2. f \notin Useds(g) /\ f \notin Frees(g)
    BY <1>3, <1>5
  <2> QED  BY <1>2, <1>3, <1>4, <1>8, <2>1, <2>2 DEF Laid
<1> QED  BY <1>2, <1>5, <1>6, <1>9, <1>10 DEF Layout

LEMMA FirstEnds ==
  ASSUME NEW g, NEW a, Founded(g, a)
  PROVE  Ends(g) /\ SegsRight(g)
<1> DEFINE f == a + StateChunk
           e == f + FirstTop
<1>1. FirstChunks(g, a)
  BY FirstChunksAre
<1>2. /\ Heads(g) = {a, f, e} /\ g.head[a] = InuseTag(StateChunk) /\ g.head[f] = FreeTag(FirstTop)
      /\ g.head[e] = TopTag /\ g.top = f /\ g.topsize = FirstTop
  BY DEF Founded
<1>3. a \in Nat /\ f \in Nat /\ e \in Nat /\ a < f /\ f < e /\ e + 5 = a + Granularity /\ Granularity \in Nat
      /\ TopFoot = 5 /\ FirstTop > 0 /\ FirstTop \in Nat /\ StateChunk \in Nat /\ StateChunk # 0
  <2>1. a \in Nat
    BY <1>1 DEF FirstChunks
  <2> QED  BY <2>1, FirstSizes
<1>4. /\ Chunks(g) = {a, f} /\ Useds(g) = {a} /\ Mark(g) = e /\ DOMAIN g.segs = {1} /\ 2 .. Len(g.segs) = {}
      /\ g.segs[1].base = a /\ g.segs[1].size = Granularity /\ g.segs[1].rec = a /\ g.segs # <<>>
      /\ \A x \in Int : (InMem(a, Granularity, x) => Holds(g.segs[1], x))
  BY <1>1 DEF FirstChunks
<1> HIDE DEF f, e
<1>5. TopRight(g)
  <2>1. Holds(g.segs[1], f)
    <3>1. InMem(a, Granularity, f)
      BY <1>3 DEF InMem
    <3> QED  BY <1>3, <1>4, <3>1
  <2>2. Mark(g) + TopFoot = EndOf(g.segs[1])
    BY <1>3, <1>4 DEF EndOf
  <2>3. \A x \in Heads(g) : x <= e
    BY <1>2, <1>3
  <2>4. /\ g.head[f].size = FirstTop /\ g.head[f].p = TRUE /\ g.head[f].c = FALSE
        /\ g.head[e].size = TopFoot /\ g.head[e].p = FALSE /\ g.head[e].c = FALSE
    BY <1>2 DEF FreeTag, TopTag
  <2> QED  BY <1>2, <1>3, <1>4, <2>1, <2>2, <2>3, <2>4 DEF TopRight
<1>6. \A x \in Heads(g) : g.head[x].size # 0
  <2>1. g.head[a].size # 0 /\ g.head[f].size # 0 /\ g.head[e].size # 0
    BY <1>2, <1>3 DEF InuseTag, FreeTag, TopTag
  <2> QED  BY <1>2, <2>1
<1>7. g.segs[1].rec \in Useds(g) /\ g.head[g.segs[1].rec].size = StateChunk
  <2>1. g.head[a].size = StateChunk
    BY <1>2 DEF InuseTag
  <2> QED  BY <1>4, <2>1
<1>8. Ends(g)
  BY <1>4, <1>5, <1>6, <1>7 DEF Ends
<1>9. SegsRight(g)
  <2>1. a % Page = 0 /\ Granularity % Page = 0 /\ Granularity > 0
    <3>1. Paged(a, Granularity)
      BY DEF Founded, Fresh
    <3> QED  BY <3>1 DEF Paged
  <2>2. \A i \in DOMAIN g.segs : i = 1
    BY <1>4
  <2> QED  BY <1>4, <2>1, <2>2 DEF SegsRight
<1> QED  BY <1>8, <1>9

LEMMA FirstBacked ==
  ASSUME NEW g, NEW a, Founded(g, a)
  PROVE  Backed(g) /\ Counted(g) /\ Granularity <= Memory
<1>1. FirstChunks(g, a)
  BY FirstChunksAre
<1>2. Paged(a, Granularity) /\ a + Granularity <= Memory /\ g.mapped = Pages(a, Granularity) /\ g.footprint = Granularity
  BY DEF Founded, Fresh
<1>3. \A x : (Covered(g, x) => InSeg(g, x)) /\ (InSeg(g, x) => Covered(g, x))
  BY <1>1 DEF Covered, FirstChunks
<1>4. a \in Nat /\ Granularity \in Nat /\ Memory \in Nat
  BY <1>2, MallocAssumption DEF Paged
<1>5. \A x \in Heads(g) : Covered(g, x)
  <2>1. g \in HeapType
    BY DEF Founded
  <2>2. Heads(g) \subseteq Int
    BY <2>1, HeapFields
  <2> QED  BY <1>1, <1>3, <2>2 DEF FirstChunks
<1>6. ASSUME NEW x \in Int
      PROVE  /\ Covered(g, x) => x >= 0 /\ x \div Page \in g.mapped /\ x < Memory
             /\ x >= 0 /\ x \div Page \in g.mapped => Covered(g, x)
  <2>1. (Covered(g, x) => InMem(a, Granularity, x)) /\ (InMem(a, Granularity, x) => Covered(g, x))
    BY <1>1, <1>3 DEF FirstChunks
  <2>2. (x \div Page \in Pages(a, Granularity) => InMem(a, Granularity, x))
        /\ (InMem(a, Granularity, x) => x \div Page \in Pages(a, Granularity))
    BY <1>2, PagesAre
  <2>3. InMem(a, Granularity, x) => x >= 0 /\ x < Memory
    BY <1>2, <1>4 DEF InMem
  <2> QED  BY <1>2, <2>1, <2>2, <2>3
<1>7. Backed(g)
  BY <1>5, <1>6 DEF Backed
<1>8. Counted(g)
  BY <1>2, PagesCount DEF Counted
<1>9. Granularity <= Memory
  BY <1>2, <1>4
<1> QED  BY <1>7, <1>8, <1>9

LEMMA FoundedSound ==
  ASSUME NEW g, NEW a, Founded(g, a)
  PROVE  Sound(g, {}) /\ Counted(g) /\ Granularity <= Memory
<1>1. FirstChunks(g, a)
  BY FirstChunksAre
<1>2. /\ g \in HeapType /\ g.dv = NoMem /\ g.dvsize = 0 /\ \A s \in Sizes : g.bins[s] = <<>>
  BY DEF Founded
<1>3. Direct(g) = {} /\ Frees(g) = {} /\ Useds(g) = {a} /\ DOMAIN g.segs = {1} /\ g.segs[1].rec = a
  BY <1>1 DEF FirstChunks
<1>4. Formed(g)
  BY <1>2, <1>3, FirstLayout, FirstEnds, FirstBacked DEF Formed
<1>5. Shelved(g, g, {})
  <2>1. \A s \in Sizes : DOMAIN g.bins[s] = {}
    BY <1>2
  <2> QED  BY <1>2, <1>3, <2>1 DEF Shelved, Once, In
<1>6. Held(g, {})
  <2>1. Records(g) = {a}
    BY <1>3 DEF Records
  <2> QED  BY <1>3, <2>1 DEF Held
<1> QED  BY <1>4, <1>5, <1>6, FirstBacked DEF Sound

-----------------------------------------------------------------------------
(* The inductive invariant.                                                *)

(* Each block has what was asked for.                                      *)
Fitted == \A p \in DOMAIN live : live[p] \in Requests /\ Fits(m, p, Request2Size(live[p]))

SpaceSound == Sound(m, DOMAIN live) /\ Counted(m) /\ Granularity <= Memory /\ Fitted

IInv ==
  /\ Exists => SpaceSound
  /\ ~ Exists => m = Blank(m.mapped) /\ m.mapped \in SUBSET Nat /\ live = <<>>

LEMMA RequestIs ==
  ASSUME NEW words \in Requests
  PROVE  words \in Nat /\ Request2Size(words) \in Nat /\ Request2Size(words) >= MinChunk
         /\ 2 * Request2Size(words) - 1 >= words
<1>1. words \in Nat
  BY MallocAssumption
<1> QED  BY <1>1, ChunkHoldsRequest

LEMMA SoundExists ==
  ASSUME NEW h, NEW U, Sound(h, U)
  PROVE  h.segs # <<>>
BY DEF Sound, Formed, SegsRight

LEMMA LargeInMemory ==
  ASSUME Granularity <= Memory
  PROVE  MinLarge <= Memory
<1>1. Memory \in Nat
  BY MallocAssumption
<1>2. FirstTop \in Nat \ {0} /\ FirstTop > MinLarge /\ StateChunk + FirstTop + TopFoot = Granularity /\ MinLarge \in Nat
      /\ StateChunk \in Nat /\ TopFoot \in Nat /\ Granularity \in Nat
  BY FirstSizes
<1> QED  BY <1>1, <1>2

LEMMA KeepsFits ==
  ASSUME NEW h, NEW g, NEW U, Keeps(h, g, U), NEW p \in U, NEW nb, Fits(h, p, nb)
  PROVE  Fits(g, p, nb)
BY DEF Keeps, Fits

(* What a call did that takes away all blocks but those of U, and gives    *)
(* one of so many words.                                                   *)
Renews(U, q, words) ==
  /\ U \in SUBSET DOMAIN live /\ q \notin U /\ words \in Requests
  /\ Sound(m', U \cup {q}) /\ Counted(m') /\ Keeps(m, m', U) /\ Fits(m', q, Request2Size(words))
  /\ DOMAIN live' = U \cup {q} /\ live'[q] = words /\ \A c \in U : live'[c] = live[c]

LEMMA RenewsInv ==
  ASSUME SpaceSound, NEW U, NEW q, NEW words, Renews(U, q, words)
  PROVE  SpaceSound'
<1>1. Sound(m', DOMAIN live') /\ Counted(m')
  BY DEF Renews
<1>2. ASSUME NEW p \in DOMAIN live' PROVE live'[p] \in Requests /\ Fits(m', p, Request2Size(live'[p]))
  <2>1. CASE p = q
    BY <2>1 DEF Renews
  <2>2. CASE p \in U
    <3>1. p \in DOMAIN live /\ live'[p] = live[p] /\ Keeps(m, m', U)
      BY <2>2 DEF Renews
    <3>2. live[p] \in Requests /\ Fits(m, p, Request2Size(live[p]))
      BY <3>1 DEF SpaceSound, Fitted
    <3>3. Fits(m', p, Request2Size(live[p]))
      BY <2>2, <3>1, <3>2, KeepsFits
    <3> QED  BY <3>1, <3>2, <3>3
  <2> QED  BY <2>1, <2>2 DEF Renews
<1> QED  BY <1>1, <1>2 DEF SpaceSound, Fitted

-----------------------------------------------------------------------------
(* What each call does.                                                    *)

LEMMA CreateStep ==
  ASSUME IInv, CreateMspace
  PROVE  ~ Exists /\ live = <<>> /\ live' = <<>> /\ SpaceSound'
<1>1. ~ Exists /\ m.mapped = {} /\ m = Blank({}) /\ live = <<>> /\ live' = <<>>
  BY DEF IInv, CreateMspace
<1>2. PICK a \in FreeBases(m, Granularity) :
        LET g == PutInuse(Mapped(m, a, Granularity), a, StateChunk)
            first == a + StateChunk
        IN  m' = [InitTop(g, first, a + Granularity - TopFoot - first)
                    EXCEPT !.checks = MaxChecks,
                           !.segs = <<[base |-> a, size |-> Granularity, rec |-> a]>>]
  BY DEF CreateMspace
<1>3. a \in FreeBases(Blank({}), Granularity)
  BY <1>1, <1>2
<1>4. Founded(FirstSpace(a), a)
  BY <1>3, FirstSpaceIs
<1>5. a + Granularity - TopFoot - (a + StateChunk) = FirstTop
  <2>1. a \in Nat
    BY <1>4 DEF Founded, Fresh, Paged
  <2> QED  BY <2>1, FirstSizes DEF FirstTop
<1>6. m' = FirstSpace(a)
  BY <1>1, <1>2, <1>5 DEF FirstSpace, Settled
<1>7. Sound(m', {}) /\ Counted(m') /\ Granularity <= Memory
  BY <1>4, <1>6, FoundedSound
<1>8. DOMAIN live' = {}
  BY <1>1
<1>9. Fitted'
  BY <1>8 DEF Fitted
<1>10. SpaceSound'
  BY <1>7, <1>8, <1>9 DEF SpaceSound
<1> QED  BY <1>1, <1>10

LEMMA DestroyStep ==
  ASSUME IInv, DestroyMspace
  PROVE  Exists /\ ~ Exists' /\ IInv' /\ live' = <<>>
<1> DEFINE S == m.mapped \ UNION {Pages(m.segs[i].base, m.segs[i].size) : i \in DOMAIN m.segs}
<1>1. Exists /\ m' = Blank(S) /\ live' = <<>>
  BY DEF DestroyMspace
<1>2. S \in SUBSET Nat
  <2>1. m \in HeapType
    BY <1>1 DEF IInv, SpaceSound, Sound, Formed
  <2>2. m.mapped \in SUBSET Nat
    BY <2>1, HeapFields
  <2> QED  BY <2>2
<1> HIDE DEF S
<1>3. m'.segs = <<>> /\ m'.mapped = S
  BY <1>1, <1>2, BlankIs
<1>4. ~ Exists'
  BY <1>3 DEF Exists
<1>5. m' = Blank(m'.mapped) /\ m'.mapped \in SUBSET Nat
  BY <1>1, <1>2, <1>3
<1> QED  BY <1>1, <1>4, <1>5 DEF IInv

LEMMA MallocStep ==
  ASSUME SpaceSound, NEW words \in Requests, Malloc(words)
  PROVE  (m' = m /\ live' = live) \/ \E q : Renews(DOMAIN live, q, words)
<1> DEFINE nb == Request2Size(words)
           U == DOMAIN live
<1>1. PICK r \in MallocChunk(m, nb) : m' = r.m /\ live' = IF r.mem = NoMem THEN live ELSE With(live, r.mem, words)
  BY DEF Malloc
<1>2. nb \in Nat /\ nb >= MinChunk
  BY RequestIs
<1>3. Sound(m, U) /\ Counted(m) /\ MinLarge <= Memory
  BY LargeInMemory DEF SpaceSound
<1> HIDE DEF nb, U
<1>4. Allocated(m, r, U, nb)
  BY <1>1, <1>2, <1>3, MallocIs
<1>5. CASE r.m = m /\ r.mem = NoMem
  BY <1>1, <1>5
<1>6. CASE Served(m, r, U, nb)
  <2>1. /\ r.mem # NoMem /\ r.mem \notin U /\ Sound(r.m, U \cup {r.mem}) /\ Keeps(m, r.m, U) /\ Fits(r.m, r.mem, nb)
        /\ Counted(r.m)
    BY <1>3, <1>6 DEF Served, Given
  <2>2. live' = With(live, r.mem, words)
    BY <1>1, <2>1
  <2>3. DOMAIN live' = U \cup {r.mem} /\ live'[r.mem] = words /\ \A c \in U : live'[c] = live[c]
    BY <2>1, <2>2 DEF With, U
  <2>4. Renews(U, r.mem, words)
    BY <1>1, <2>1, <2>3 DEF Renews, nb, U
  <2> QED  BY <2>4 DEF U
<1> QED  BY <1>4, <1>5, <1>6 DEF Allocated

LEMMA FreeStep ==
  ASSUME SpaceSound, NEW p \in DOMAIN live, Free(p)
  PROVE  /\ SpaceSound' /\ DOMAIN live' = DOMAIN live \ {p} /\ \A c \in DOMAIN live' : live'[c] = live[c]
<1>1. m' \in FreeChunk(m, p) /\ live' = Without(live, {p})
  BY DEF Free
<1>2. DOMAIN live' = DOMAIN live \ {p} /\ \A c \in DOMAIN live' : live'[c] = live[c]
  BY <1>1 DEF Without
<1>3. Left(m, m', DOMAIN live \ {p})
  <2>1. Sound(m, DOMAIN live)
    BY DEF SpaceSound
  <2> QED  BY <1>1, <2>1, FreeLeft
<1>4. Sound(m', DOMAIN live') /\ Counted(m') /\ Keeps(m, m', DOMAIN live')
  BY <1>2, <1>3 DEF Left, SpaceSound
<1>5. ASSUME NEW c \in DOMAIN live' PROVE live'[c] \in Requests /\ Fits(m', c, Request2Size(live'[c]))
  <2>1. live'[c] = live[c] /\ c \in DOMAIN live
    BY <1>2
  <2>2. live[c] \in Requests /\ Fits(m, c, Request2Size(live[c]))
    BY <2>1 DEF SpaceSound, Fitted
  <2>3. Fits(m', c, Request2Size(live[c]))
    BY <1>4, <2>2, KeepsFits
  <2> QED  BY <2>1, <2>2, <2>3
<1>6. SpaceSound'
  BY <1>4, <1>5 DEF SpaceSound, Fitted
<1> QED  BY <1>2, <1>6

(* Where it moves, a block moves to memory that was not its own.           *)
LEMMA ReallocStep ==
  ASSUME SpaceSound, NEW p \in DOMAIN live, NEW words \in Requests, Realloc(p, words)
  PROVE  \/ m' = m /\ live' = live
         \/ \E q : /\ Renews(DOMAIN live \ {p}, q, words)
                   /\ q # p => q \notin DOMAIN live /\ \A x \in Int : Within(m, p, x) => ~ Within(m', q, x)
<1> DEFINE nb == Request2Size(words)
           U == DOMAIN live
<1>1. PICK r \in ReallocChunk(m, p, nb) :
        m' = r.m /\ live' = IF r.mem = NoMem THEN live ELSE With(Without(live, {p}), r.mem, words)
  BY DEF Realloc
<1>2. nb \in Nat /\ nb >= MinChunk
  BY RequestIs
<1>3. Sound(m, U) /\ Counted(m) /\ MinLarge <= Memory /\ p \in U
  BY LargeInMemory DEF SpaceSound
<1> HIDE DEF nb, U
<1>4. (r.m = m /\ r.mem = NoMem) \/ Renewed(m, r, p, U, nb)
  BY <1>1, <1>2, <1>3, ReallocRenewed
<1>5. CASE r.m = m /\ r.mem = NoMem
  BY <1>1, <1>5
<1>6. CASE Renewed(m, r, p, U, nb)
  <2>1. /\ r.mem # NoMem /\ (r.mem # p => r.mem \notin U)
        /\ Sound(r.m, (U \ {p}) \cup {r.mem}) /\ Counted(r.m) /\ Keeps(m, r.m, U \ {p}) /\ Fits(r.m, r.mem, nb)
        /\ r.mem # p => \A x \in Int : Within(m, p, x) => ~ Within(r.m, r.mem, x)
    BY <1>3, <1>6 DEF Renewed
  <2>2. live' = With(Without(live, {p}), r.mem, words)
    BY <1>1, <2>1
  <2>3. r.mem \notin U \ {p}
    BY <2>1
  <2>4. DOMAIN live' = (U \ {p}) \cup {r.mem} /\ live'[r.mem] = words /\ \A c \in U \ {p} : live'[c] = live[c]
    BY <2>2, <2>3 DEF With, Without, U
  <2>5. Renews(U \ {p}, r.mem, words)
    BY <1>1, <2>1, <2>3, <2>4 DEF Renews, nb, U
  <2> QED  BY <1>1, <2>1, <2>5 DEF U
<1> QED  BY <1>4, <1>5, <1>6

LEMMA IInvInit == Init => IInv
<1> SUFFICES ASSUME Init PROVE IInv
  OBVIOUS
<1>1. m = Blank({}) /\ live = <<>>
  BY DEF Init
<1>2. {} \in SUBSET Nat
  OBVIOUS
<1>3. m.segs = <<>> /\ m.mapped = {}
  BY <1>1, <1>2, BlankIs
<1> QED  BY <1>1, <1>3 DEF IInv, Exists

(* Every call leaves a space in order.                                     *)
LEMMA IInvNext == IInv /\ [Next]_vars => IInv'
<1> SUFFICES ASSUME IInv, [Next]_vars PROVE IInv'
  OBVIOUS
<1>1. CASE UNCHANGED vars
  BY <1>1 DEF vars, IInv, Exists, SpaceSound, Fitted
<1>2. CASE CreateMspace
  <2>1. SpaceSound'
    BY <1>2, CreateStep
  <2> QED  BY <2>1, SoundExists DEF IInv, SpaceSound, Exists
<1>3. CASE DestroyMspace
  BY <1>3, DestroyStep
<1>4. ASSUME SpaceSound' PROVE IInv'
  BY <1>4, SoundExists DEF IInv, SpaceSound, Exists
<1>5. ASSUME NEW words \in Requests, Malloc(words) PROVE IInv'
  <2>1. SpaceSound
    BY <1>5 DEF Malloc, IInv
  <2>2. CASE m' = m /\ live' = live
    BY <2>2 DEF IInv, Exists, SpaceSound, Fitted
  <2>3. CASE \E q : Renews(DOMAIN live, q, words)
    BY <1>4, <2>1, <2>3, RenewsInv
  <2> QED  BY <1>5, <2>1, <2>2, <2>3, MallocStep
<1>6. ASSUME NEW p \in DOMAIN live PROVE SpaceSound
  <2>1. live # <<>>
    BY <1>6
  <2> QED  BY <2>1 DEF IInv
<1>7. ASSUME NEW p \in DOMAIN live, Free(p) PROVE IInv'
  BY <1>4, <1>6, <1>7, FreeStep
<1>8. ASSUME NEW p \in DOMAIN live, NEW words \in Requests, Realloc(p, words) PROVE IInv'
  <2>1. SpaceSound
    BY <1>6
  <2>2. CASE m' = m /\ live' = live
    BY <2>2 DEF IInv, Exists, SpaceSound, Fitted
  <2>3. CASE \E q : Renews(DOMAIN live \ {p}, q, words)
    BY <1>4, <2>1, <2>3, RenewsInv
  <2> QED  BY <1>8, <2>1, <2>2, <2>3, ReallocStep
<1> QED  BY <1>1, <1>2, <1>3, <1>5, <1>7, <1>8 DEF Next

(* A space that exists is sound: its memory is in order, its bins hold     *)
(* what is free, its blocks and segment records are what is in use and as  *)
(* large as they should be, and the footprint counts its pages. A space    *)
(* that was destroyed has nothing left of it. Every malloc, free, realloc, *)
(* creation and destruction keeps this, also when mmap, munmap or mremap   *)
(* fails.                                                                  *)
THEOREM MallocInvariant == Spec => []IInv
<1>1. Init => IInv
  BY IInvInit
<1>2. IInv /\ [Next]_vars => IInv'
  BY IInvNext
<1> QED  BY <1>1, <1>2, PTL DEF Spec

-----------------------------------------------------------------------------
(* What the runtime checks find in a heap that is in order.                *)

(* The chunks that traverse_and_check visits.                              *)
LEMMA VisitedIs ==
  ASSUME NEW U, Sound(m, U), NEW i \in DOMAIN m.segs, NEW a \in Visited(m.segs[i])
  PROVE  a \in Frees(m) \cup Useds(m) /\ Holds(m.segs[i], a) /\ a \in Heads(m) /\ a \in Chunks(m)
<1>1. Formed(m)
  BY DEF Sound
<1>2. a \in Heads(m) /\ Holds(m.segs[i], a) /\ m.head[a] # Fencepost /\ ~ (Holds(m.segs[i], m.top) /\ a >= m.top)
  BY DEF Visited, IsFence, Heads
<1>3. InSeg(m, a)
  BY <1>2 DEF InSeg
<1>4. m.head[a].size # 0
  <2> SUFFICES ASSUME m.head[a].size = 0 PROVE FALSE
    OBVIOUS
  <2>1. Ends(m)
    BY <1>1, HeapTypes
  <2>2. PICK j \in 2 .. Len(m.segs) : a = m.segs[j].rec + SegmentRecord
    BY <1>2, <1>3, <2>1 DEF Ends
  <2>3. m.head[m.segs[j].rec + SegmentRecord] = Fencepost
    BY <1>1, RecordIs
  <2> QED  BY <1>2, <2>2, <2>3
<1>5. /\ m.top \in Int /\ Mark(m) \in Int /\ m.top < Mark(m) /\ Together(m, m.top, Mark(m))
  BY <1>1, TopIs
<1>6. a # Mark(m) /\ a # m.top
  <2>1. Holds(m.segs[i], Mark(m)) => Holds(m.segs[i], m.top)
    BY <1>5 DEF Together
  <2> QED  BY <1>2, <1>5, <2>1
<1>7. a \in Chunks(m)
  BY <1>2, <1>3, <1>4, <1>6 DEF Chunks
<1> QED  BY <1>2, <1>6, <1>7 DEF Frees, Useds

(* Every free chunk is visited.                                            *)
LEMMA FreeVisited ==
  ASSUME NEW U, Sound(m, U), NEW a \in Frees(m)
  PROVE  \E j \in DOMAIN m.segs : a \in Visited(m.segs[j])
<1>1. Formed(m)
  BY DEF Sound
<1>2. a \in Chunks(m) /\ a # m.top /\ ~ m.head[a].c
  BY <1>1, FreeIs
<1>3. a \in Heads(m) /\ InSeg(m, a) /\ a # Mark(m) /\ a \in Int
  BY <1>1, <1>2, ChunkIs
<1>4. PICK j \in DOMAIN m.segs : Holds(m.segs[j], a)
  BY <1>3 DEF InSeg
<1>5. m.head[a] # Fencepost
  BY <1>2 DEF Fencepost
<1>6. ASSUME Holds(m.segs[j], m.top), a >= m.top PROVE FALSE
  <2>1. j = 1
    BY <1>1, <1>6, TopSegment
  <2>2. m.top \in Int /\ Mark(m) \in Int /\ Heads(m) \cap Amid(m.top, Mark(m)) = {m.top}
    BY <1>1, TopIs
  <2>3. a <= Mark(m)
    <3>1. TopRight(m)
      BY <1>1, HeapTypes
    <3> QED  BY <1>3, <1>4, <2>1, <3>1 DEF TopRight
  <2>4. a \in Amid(m.top, Mark(m))
    BY <1>3, <1>6, <2>2, <2>3 DEF Amid
  <2> QED  BY <1>2, <1>3, <2>2, <2>4
<1>7. a \in Visited(m.segs[j])
  BY <1>3, <1>4, <1>5, <1>6 DEF Visited, IsFence, Heads
<1> QED  BY <1>7

LEMMA BinnedIs ==
  ASSUME NEW U, Sound(m, U), NEW a
  PROVE  /\ Binned(m.bins, a) => a \in Frees(m) /\ a # m.dv
         /\ \A s \in DOMAIN m.bins : \A i \in DOMAIN m.bins[s] : m.bins[s][i] \in Frees(m)
<1>1. Formed(m) /\ Shelved(m, m, {})
  BY DEF Sound
<1>2. DOMAIN m.bins = Sizes
  <2>1. m \in HeapType
    BY <1>1, HeapTypes
  <2>2. m.bins \in [MinChunk .. Memory -> Seq(Int)]
    BY <2>1, HeapFields
  <2> QED  BY <2>2 DEF Sizes
<1>3. ASSUME NEW s \in Sizes, NEW b, In(m.bins[s], b) PROVE b \in Frees(m) /\ b # m.dv
  BY <1>1, <1>3 DEF Shelved
<1>4. ASSUME Binned(m.bins, a) PROVE a \in Frees(m) /\ a # m.dv
  <2>1. PICK s \in Sizes : \E i \in DOMAIN m.bins[s] : m.bins[s][i] = a
    BY <1>2, <1>4 DEF Binned
  <2>2. In(m.bins[s], a)
    BY <2>1 DEF In
  <2> QED  BY <1>3, <2>2
<1>5. ASSUME NEW s \in DOMAIN m.bins, NEW i \in DOMAIN m.bins[s] PROVE m.bins[s][i] \in Frees(m)
  <2>1. In(m.bins[s], m.bins[s][i])
    BY DEF In
  <2> QED  BY <1>2, <1>3, <2>1
<1> QED  BY <1>4, <1>5

(* do_check_inuse_chunk and do_check_free_chunk.                           *)
LEMMA UsedChecked ==
  ASSUME NEW U, Sound(m, U), NEW a \in Useds(m)
  PROVE  IsInuse(m.head[a]) /\ CheckInuseChunk(a) /\ ~ Binned(m.bins, a)
<1>1. Formed(m) /\ a \in Chunks(m) /\ a # m.top /\ m.head[a].c
  BY DEF Sound, Useds
<1>2. /\ a \in Int /\ m.head[a] \in TagType /\ Behind(m, a) \in Heads(m) /\ Behind(m, a) = a + m.head[a].size
      /\ m.head[a].size >= MinChunk
  BY <1>1, ChunkIs
<1>3. Tag(m, a + m.head[a].size).p
  <2>1. Laid(m, a)
    BY <1>1, HeapTypes DEF Layout
  <2>2. m.head[Behind(m, a)].p
    BY <2>1 DEF Laid
  <2>3. Tag(m, Behind(m, a)) = m.head[Behind(m, a)]
    BY <1>2 DEF Tag, Heads
  <2> QED  BY <1>2, <2>2, <2>3
<1>4. ASSUME ~ m.head[a].p PROVE Tag(m, a - Foot(m, a)).size = Foot(m, a)
  <2>1. Foot(m, a) = m.foot[a] /\ a - m.foot[a] \in Frees(m) /\ m.head[a - m.foot[a]].size = m.foot[a]
    BY <1>1, <1>4, BeforeIs
  <2>2. a - m.foot[a] \in Heads(m)
    BY <2>1 DEF Frees, Chunks
  <2> QED  BY <2>1, <2>2 DEF Tag, Heads
<1>5. a \notin Frees(m)
  BY <1>1 DEF Frees
<1> QED  BY <1>1, <1>2, <1>3, <1>4, <1>5, BinnedIs DEF CheckInuseChunk, IsInuse

LEMMA FreeChecked ==
  ASSUME NEW U, Sound(m, U), NEW a \in Frees(m)
  PROVE  /\ ~ IsInuse(m.head[a]) /\ CheckFreeChunk(a)
         /\ a # m.dv => \E i \in DOMAIN m.bins[m.head[a].size] : m.bins[m.head[a].size][i] = a
<1>1. Formed(m) /\ Shelved(m, m, {})
  BY DEF Sound
<1>2. /\ a \in Chunks(m) /\ a # m.top /\ m.head[a].p /\ ~ m.head[a].c
      /\ m.head[Behind(m, a)].c /\ ~ m.head[Behind(m, a)].p
      /\ Behind(m, a) \in Feet(m) /\ m.foot[Behind(m, a)] = Behind(m, a) - a
  BY <1>1, FreeIs
<1>3. /\ a \in Int /\ m.head[a] \in TagType /\ Behind(m, a) \in Heads(m) /\ Behind(m, a) = a + m.head[a].size
      /\ m.head[a].size >= MinChunk /\ m.head[a].size = Behind(m, a) - a
  BY <1>1, <1>2, ChunkIs
<1>4. Tag(m, a + m.head[a].size) = m.head[Behind(m, a)]
  BY <1>3 DEF Tag, Heads
<1>5. Foot(m, a + m.head[a].size) = m.head[a].size
  <2>1. Foot(m, Behind(m, a)) = m.foot[Behind(m, a)]
    BY <1>2 DEF Foot, Feet
  <2> QED  BY <1>2, <1>3, <2>1
<1>6. CheckFreeChunk(a)
  BY <1>2, <1>3, <1>4, <1>5 DEF CheckFreeChunk, IsInuse
<1>7. m.head[a].size \in Sizes
  BY <1>1, FreeSizes
<1>8. ASSUME a # m.dv PROVE \E i \in DOMAIN m.bins[m.head[a].size] : m.bins[m.head[a].size][i] = a
  <2>1. In(m.bins[m.head[a].size], a)
    BY <1>1, <1>7, <1>8 DEF Shelved
  <2> QED  BY <2>1 DEF In
<1> QED  BY <1>2, <1>6, <1>8 DEF IsInuse

(* No chunk is before the first of a segment.                              *)
LEMMA BaseFirst ==
  ASSUME NEW U, Sound(m, U), NEW i \in DOMAIN m.segs
  PROVE  Tag(m, m.segs[i].base).p
<1> DEFINE b == m.segs[i].base
<1>1. Formed(m)
  BY DEF Sound
<1>2. b \in Chunks(m) /\ Holds(m.segs[i], b)
  BY <1>1, SegIs
<1>3. b \in Int /\ Tag(m, b) = m.head[b]
  BY <1>1, <1>2, ChunkIs
<1>4. ASSUME ~ m.head[b].p PROVE FALSE
  <2> DEFINE f == b - m.foot[b]
  <2>1. f \in Frees(m) /\ Behind(m, f) = b
    BY <1>1, <1>2, <1>4, BeforeIs
  <2> HIDE DEF f
  <2>2. f \in Chunks(m)
    BY <1>1, <2>1, FreeIs
  <2>3. f \in Int /\ f < b /\ Together(m, f, b)
    BY <1>1, <2>1, <2>2, ChunkIs
  <2>4. Holds(m.segs[i], f)
    BY <1>2, <2>3 DEF Together
  <2> QED  BY <1>3, <2>3, <2>4 DEF Holds
<1> QED  BY <1>3, <1>4

LEMMA Traversed ==
  ASSUME NEW U, Sound(m, U), NEW i \in DOMAIN m.segs
  PROVE  TraverseAndCheck(m.segs[i])
<1>1. Formed(m)
  BY DEF Sound
<1>2. ASSUME NEW a \in Visited(m.segs[i])
      PROVE  /\ a + m.head[a].size \in DOMAIN m.head /\ Holds(m.segs[i], a + m.head[a].size)
             /\ IF IsInuse(m.head[a]) THEN CheckInuseChunk(a) /\ ~ Binned(m.bins, a)
                ELSE CheckFreeChunk(a) /\ (a # m.dv => \E k \in DOMAIN m.bins[m.head[a].size] : m.bins[m.head[a].size][k] = a)
  <2>1. a \in Frees(m) \cup Useds(m) /\ Holds(m.segs[i], a) /\ a \in Chunks(m)
    BY VisitedIs
  <2>2. Behind(m, a) \in Heads(m) /\ Together(m, a, Behind(m, a))
    BY <1>1, <2>1, ChunkIs
  <2>3. a + m.head[a].size \in DOMAIN m.head /\ Holds(m.segs[i], a + m.head[a].size)
    BY <2>1, <2>2 DEF Together, Behind, Heads
  <2>4. CASE a \in Useds(m)
    BY <2>3, <2>4, UsedChecked
  <2>5. CASE a \in Frees(m)
    BY <2>3, <2>5, FreeChecked
  <2> QED  BY <2>1, <2>4, <2>5
<1>3. Tag(m, m.segs[i].base).p
  BY BaseFirst
<1> QED  BY <1>2, <1>3 DEF TraverseAndCheck

LEMMA DirectChunksAre ==
  ASSUME NEW U, Sound(m, U)
  PROVE  DirectChunks = Direct(m)
<1>1. Formed(m)
  BY DEF Sound
<1>2. ASSUME NEW a \in DirectChunks PROVE a \in Direct(m)
  <2>1. a \in Heads(m) /\ ~ m.head[a].p /\ ~ m.head[a].c /\ a # Mark(m)
    BY <1>2 DEF DirectChunks, IsMmapped, Heads, Mark
  <2>2. m.head[a] # Fencepost
    BY <2>1 DEF Fencepost
  <2>3. a \in Int
    BY <1>1, <2>1, HeapTypes
  <2>4. ASSUME InSeg(m, a) PROVE FALSE
    <3>1. CASE m.head[a].size = 0
      <4>1. Ends(m)
        BY <1>1, HeapTypes
      <4>2. PICK j \in 2 .. Len(m.segs) : a = m.segs[j].rec + SegmentRecord
        BY <2>1, <2>4, <3>1, <4>1 DEF Ends
      <4>3. m.head[m.segs[j].rec + SegmentRecord] = Fencepost
        BY <1>1, RecordIs
      <4> QED  BY <2>2, <4>2, <4>3
    <3>2. CASE m.head[a].size # 0
      <4>1. a \in Chunks(m)
        BY <2>1, <2>4, <3>2 DEF Chunks
      <4>2. a # m.top
        BY <1>1, <2>1, TopIs
      <4>3. a \in Frees(m)
        BY <2>1, <4>1, <4>2 DEF Frees
      <4> QED  BY <1>1, <2>1, <4>3, FreeIs
    <3> QED  BY <3>1, <3>2
  <2>5. PICK d \in Direct(m) : InSpan(m, d, a)
    <3>1. Backed(m)
      BY <1>1 DEF Formed
    <3>2. Covered(m, a)
      BY <2>1, <3>1 DEF Backed
    <3> QED  BY <2>4, <3>2 DEF Covered
  <2>6. DirectRight(m, d)
    BY <1>1, DirectIs
  <2>7. a = d \/ a = Behind(m, d)
    BY <2>1, <2>3, <2>5, <2>6 DEF DirectRight
  <2>8. m.head[Behind(m, d)] = Fencepost
    BY <2>6 DEF DirectRight
  <2> QED  BY <2>2, <2>7, <2>8
<1>3. ASSUME NEW a \in Direct(m) PROVE a \in DirectChunks
  <2>1. a \in Heads(m) /\ ~ InSeg(m, a) /\ DirectRight(m, a)
    BY <1>1, DirectIs
  <2>2. IsMmapped(m.head[a])
    BY <2>1 DEF DirectRight, IsMmapped
  <2>3. a # Mark(m)
    <3>1. Holds(m.segs[1], m.top) /\ 1 \in DOMAIN m.segs
      BY <1>1, TopSegment
    <3>2. Together(m, m.top, Mark(m))
      BY <1>1, TopIs
    <3>3. Holds(m.segs[1], Mark(m))
      BY <3>1, <3>2 DEF Together
    <3>4. InSeg(m, Mark(m))
      BY <3>1, <3>3 DEF InSeg
    <3> QED  BY <2>1, <3>4
  <2> QED  BY <2>1, <2>2, <2>3 DEF DirectChunks, Heads, Mark
<1> QED  BY <1>2, <1>3

LEMMA MmappedChecked ==
  ASSUME NEW U, Sound(m, U), NEW a \in DirectChunks
  PROVE  CheckMmappedChunk(a)
<1>1. Formed(m) /\ a \in Direct(m)
  BY DirectChunksAre DEF Sound
<1>2. Foot(m, a) = 0 /\ DirectRight(m, a) /\ m.head[a].size \in Nat
  BY <1>1, DirectIs
<1>3. m.head[a].size + Foot(m, a) + 2 = m.head[a].size + 2
  BY <1>2
<1>4. Tag(m, a + m.head[a].size) = Fencepost
  <2>1. Behind(m, a) \in Heads(m) /\ m.head[Behind(m, a)] = Fencepost
    BY <1>2 DEF DirectRight
  <2> QED  BY <2>1 DEF Tag, Heads, Behind
<1> QED  BY <1>2, <1>3, <1>4 DEF CheckMmappedChunk, DirectRight

LEMMA TopChecked ==
  ASSUME NEW U, Sound(m, U)
  PROVE  CheckTopChunk /\ CheckDv
<1>1. Formed(m) /\ Shelved(m, m, {})
  BY DEF Sound
<1>2. /\ m.top \in Chunks(m) /\ m.top \in Int /\ m.topsize \in Nat /\ Mark(m) = m.top + m.topsize /\ Mark(m) \in Heads(m)
      /\ m.head[m.top].p /\ m.head[m.top].size = m.topsize /\ ~ m.head[Mark(m)].p
  BY <1>1, TopIs
<1>3. SegmentHolding(m, m.top) = 1 /\ 1 \in DOMAIN m.segs
  BY <1>1, TopSegment
<1>4. Tag(m, m.top) = m.head[m.top] /\ Tag(m, m.top + m.topsize) = m.head[Mark(m)]
  <2>1. m.top \in Heads(m)
    BY <1>1, <1>2, ChunkIs
  <2> QED  BY <1>2, <2>1 DEF Tag, Heads
<1>5. m.topsize > 0 /\ Mark(m) + TopFoot = m.segs[1].base + m.segs[1].size
  <2>1. TopRight(m)
    BY <1>1, HeapTypes
  <2> QED  BY <2>1 DEF TopRight, EndOf
<1>6. m.topsize = m.segs[1].base + m.segs[1].size - m.top - TopFoot
  <2>1. m.segs[1].base \in Nat /\ m.segs[1].size \in Nat
    BY <1>1, <1>3, HeapTypes, SegFields
  <2> QED  BY <1>2, <1>5, <2>1, FirstSizes
<1>7. ~ Binned(m.bins, m.top) /\ ~ Binned(m.bins, m.dv)
  <2>1. m.top \notin Frees(m)
    BY DEF Frees
  <2> QED  BY <2>1, BinnedIs
<1>8. CheckTopChunk
  BY <1>2, <1>3, <1>4, <1>5, <1>6, <1>7 DEF CheckTopChunk
<1>9. ASSUME m.dvsize # 0 PROVE Tag(m, m.dv).size = m.dvsize /\ m.dvsize >= MinChunk
  <2>1. m.dv \in Frees(m) /\ m.head[m.dv].size = m.dvsize
    BY <1>1, <1>9 DEF Shelved
  <2>2. m.dv \in Chunks(m) /\ m.dv # m.top
    BY <1>1, <2>1, FreeIs
  <2> QED  BY <1>1, <2>1, <2>2, ChunkIs
<1> QED  BY <1>7, <1>8, <1>9 DEF CheckDv

LEMMA StateChecked == IInv => MallocStateChecked
<1> SUFFICES ASSUME IInv, Exists PROVE MallocStateChecked
  BY DEF MallocStateChecked
<1>1. Sound(m, DOMAIN live)
  BY DEF IInv, SpaceSound
<1>2. \A s \in DOMAIN m.bins : \A i \in DOMAIN m.bins[s] : \E j \in DOMAIN m.segs : m.bins[s][i] \in Visited(m.segs[j])
  BY <1>1, BinnedIs, FreeVisited
<1>3. \A i \in DOMAIN m.segs : TraverseAndCheck(m.segs[i])
  BY <1>1, Traversed
<1>4. \A a \in DirectChunks : CheckMmappedChunk(a)
  BY <1>1, MmappedChecked
<1>5. CheckTopChunk /\ CheckDv
  BY <1>1, TopChecked
<1> QED  BY <1>2, <1>3, <1>4, <1>5 DEF MallocStateChecked

-----------------------------------------------------------------------------
(* Blocks and the footprint.                                               *)

(* The memory of a block is mapped.                                        *)
LEMMA BlockMapped ==
  ASSUME NEW U, Sound(m, U), NEW p \in U
  PROVE  Pages(p, m.head[p].size) \subseteq m.mapped
<1> DEFINE s == m.head[p].size
<1>1. Formed(m) /\ p \in Heads(m)
  BY BlockTag DEF Sound
<1>2. p \in Nat /\ s \in Nat
  <2>1. m \in HeapType /\ m.head \in [Heads(m) -> TagType]
    BY <1>1, HeapTypes
  <2> QED  BY <1>1, <2>1, InMemory DEF TagType
<1>3. Page \in Nat \ {0}
  BY ConstantTypes
<1> HIDE DEF s
<1>4. ASSUME NEW k \in p \div Page .. (p + s - 1) \div Page PROVE k \in m.mapped
  <2>1. k \in Int /\ p \div Page <= k /\ k <= (p + s - 1) \div Page /\ p + s - 1 \in Int /\ p \div Page \in Int
    BY <1>2, <1>3, DivIs
  <2>2. Page * k <= p + s - 1
    BY <1>3, <2>1, DivBetween
  <2>3. p \div Page \in Nat /\ k \in Nat
    <3>1. Page * 0 <= p
      BY <1>2, <1>3
    <3>2. 0 <= p \div Page
      BY <1>2, <1>3, <3>1, DivBetween
    <3> QED  BY <2>1, <3>2
  <2>4. Page * k \in Nat /\ (Page * k) \div Page = k
    BY <2>3, PageStart
  <2>5. \E x \in Int : Within(m, p, x) /\ x \div Page = k
    <3>1. CASE k = p \div Page
      <4>1. 0 < s
        <5>1. p \in Useds(m) \cup Direct(m)
          BY BlockTag
        <5>2. p \in Direct(m) => m.head[p].size # 0
          BY <1>1, DirectIs
        <5>3. p \in Useds(m) => m.head[p].size > 0
          <6>1. p \in Useds(m) => p \in Chunks(m)
            BY DEF Useds
          <6> QED  BY <1>1, <6>1, ChunkIs
        <5> QED  BY <1>2, <5>1, <5>2, <5>3 DEF s
      <4>2. Within(m, p, p)
        BY <1>2, <4>1 DEF Within, Behind, s
      <4> QED  BY <1>2, <3>1, <4>2
    <3>2. CASE k # p \div Page
      <4>1. ~ (k <= p \div Page)
        BY <2>1, <3>2
      <4>2. ~ (Page * k <= p)
        BY <1>2, <1>3, <2>1, <4>1, DivBetween
      <4>3. Within(m, p, Page * k)
        BY <1>2, <2>2, <2>4, <4>2 DEF Within, Behind, s
      <4> QED  BY <2>4, <4>3
    <3> QED  BY <3>1, <3>2
  <2>6. PICK x \in Int : Within(m, p, x) /\ x \div Page = k
    BY <2>5
  <2>7. Covered(m, x)
    BY <2>6, BlockCovered
  <2>8. Backed(m)
    BY <1>1 DEF Formed
  <2> QED  BY <2>6, <2>7, <2>8 DEF Backed
<1> QED  BY <1>4 DEF Pages, s

LEMMA BlockIs ==
  ASSUME NEW U, Sound(m, U), NEW p \in U, NEW nb, Fits(m, p, nb)
  PROVE  LET n == Tag(m, p)
         IN  /\ IsInuse(n) /\ n.size >= nb
             /\ IsMmapped(n) \/ n.size < nb + MinChunk
             /\ Pages(p, n.size) \subseteq m.mapped /\ p + n.size \notin DOMAIN m.foot
<1>1. Formed(m)
  BY DEF Sound
<1>2. p \in Useds(m) \cup Direct(m) /\ Tag(m, p) = m.head[p]
  BY BlockTag
<1>3. p \in Direct(m) => IsMmapped(Tag(m, p))
  BY BlockTag
<1>4. IsInuse(Tag(m, p)) /\ Behind(m, p) \notin Feet(m)
  <2>1. CASE p \in Useds(m)
    <3>1. p \in Chunks(m) /\ m.head[p].c
      BY <2>1 DEF Useds
    <3>2. Laid(m, p)
      BY <1>1, <3>1, HeapTypes DEF Layout
    <3> QED  BY <1>2, <2>1, <3>1, <3>2 DEF Laid, IsInuse
  <2>2. CASE p \in Direct(m)
    <3>1. IsMmapped(Tag(m, p))
      BY <1>3, <2>2
    <3>2. p \in Nat /\ Behind(m, p) \in Int /\ DirectRight(m, p) /\ p < Behind(m, p)
      BY <1>1, <2>2, DirectIs
    <3>3. InSpan(m, p, Behind(m, p))
      BY <3>2 DEF InSpan
    <3>4. ~ InSeg(m, Behind(m, p))
      BY <3>2, <3>3 DEF DirectRight
    <3>5. Behind(m, p) \notin Feet(m)
      BY <1>1, <3>4, FootIs
    <3> QED  BY <3>1, <3>5 DEF IsMmapped, IsInuse
  <2> QED  BY <1>2, <2>1, <2>2
<1>5. Tag(m, p).size >= nb /\ (IsMmapped(Tag(m, p)) \/ Tag(m, p).size < nb + MinChunk)
  BY <1>2, <1>3 DEF Fits
<1>6. p + Tag(m, p).size \notin DOMAIN m.foot
  BY <1>2, <1>4 DEF Behind, Feet
<1> QED  BY <1>2, <1>4, <1>5, <1>6, BlockMapped

LEMMA ChunksOwned == IInv => EveryChunkOwned
<1> SUFFICES ASSUME IInv PROVE EveryChunkOwned
  OBVIOUS
<1> DEFINE records == {m.segs[i].rec : i \in DOMAIN m.segs}
<1>1. CASE ~ Exists
  <2>1. m.segs = <<>> /\ live = <<>>
    BY <1>1 DEF IInv, Exists
  <2>2. DOMAIN m.segs = {} /\ DOMAIN live = {} /\ 2 .. Len(m.segs) = {}
    BY <2>1
  <2>3. records = {}
    BY <2>2
  <2> QED  BY <2>2, <2>3 DEF EveryChunkOwned
<1>2. CASE Exists
  <2>1. Sound(m, DOMAIN live) /\ Fitted /\ Formed(m) /\ Held(m, DOMAIN live)
    BY <1>2 DEF IInv, SpaceSound, Sound
  <2>2. records = Records(m)
    BY DEF Records
  <2> HIDE DEF records
  <2>3. ASSUME NEW i \in DOMAIN m.segs, NEW a \in Visited(m.segs[i]), IsInuse(m.head[a]) PROVE a \in DOMAIN live \cup records
    <3>1. a \in Frees(m) \cup Useds(m)
      BY <2>1, VisitedIs
    <3>2. a \notin Frees(m)
      BY <2>1, <2>3, FreeChecked
    <3> QED  BY <2>1, <2>2, <3>1, <3>2 DEF Held
  <2>4. ASSUME NEW r \in records PROVE IsInuse(Tag(m, r)) /\ r \notin DOMAIN live
    <3>1. r \in Useds(m)
      BY <2>1, <2>2, <2>4, RecordsUsed
    <3>2. IsInuse(m.head[r])
      BY <2>1, <3>1, UsedChecked
    <3>3. r \in Chunks(m)
      BY <3>1 DEF Useds
    <3>4. Tag(m, r) = m.head[r]
      BY <2>1, <3>3, ChunkIs
    <3> QED  BY <2>1, <2>2, <2>4, <3>2, <3>4 DEF Held
  <2>5. \A i \in 2 .. Len(m.segs) : Holds(m.segs[i], m.segs[i].rec)
    BY <2>1, RecordIs
  <2>6. ASSUME NEW p \in DOMAIN live
        PROVE  LET n == Tag(m, p) IN
               /\ IsInuse(n) /\ n.size >= Request2Size(live[p])
               /\ IsMmapped(n) \/ n.size < Request2Size(live[p]) + MinChunk
               /\ Pages(p, n.size) \subseteq m.mapped /\ p + n.size \notin DOMAIN m.foot
    <3>1. Fits(m, p, Request2Size(live[p]))
      BY <2>1 DEF Fitted
    <3> QED  BY <2>1, <3>1, BlockIs
  <2> QED  BY <2>3, <2>4, <2>5, <2>6 DEF EveryChunkOwned, records
<1> QED  BY <1>1, <1>2

(* What is mapped is in a segment, or was mapped directly.                 *)
LEMMA MappedOwned ==
  ASSUME NEW U, Sound(m, U)
  PROVE  m.mapped = UNION ({Pages(m.segs[i].base, m.segs[i].size) : i \in DOMAIN m.segs}
                           \cup {Pages(a, m.head[a].size + 2) : a \in DirectChunks})
<1> DEFINE S == {Pages(m.segs[i].base, m.segs[i].size) : i \in DOMAIN m.segs}
           D == {Pages(a, m.head[a].size + 2) : a \in DirectChunks}
<1>1. Formed(m) /\ DirectChunks = Direct(m)
  BY DirectChunksAre DEF Sound
<1>2. Backed(m) /\ m.mapped \in SUBSET Nat
  <2>1. m \in HeapType
    BY <1>1, HeapTypes
  <2> QED  BY <1>1, <2>1, HeapFields DEF Formed
<1>3. ASSUME NEW d \in Direct(m)
      PROVE  /\ Paged(d, m.head[d].size + 2)
             /\ \A x \in Int : (InSpan(m, d, x) => InMem(d, m.head[d].size + 2, x)) /\ (InMem(d, m.head[d].size + 2, x) => InSpan(m, d, x))
  <2>1. d \in Nat /\ m.head[d].size \in Nat /\ DirectRight(m, d)
    BY <1>1, DirectIs
  <2> QED  BY <2>1 DEF DirectRight, Paged, InSpan, InMem, Behind
<1>4. ASSUME NEW k \in m.mapped PROVE (\E i \in DOMAIN m.segs : k \in Pages(m.segs[i].base, m.segs[i].size))
                                      \/ \E a \in Direct(m) : k \in Pages(a, m.head[a].size + 2)
  <2>1. Page * k \in Nat /\ (Page * k) \div Page = k
    BY <1>2, PageStart
  <2> DEFINE x == Page * k
  <2>2. Covered(m, x)
    BY <1>2, <2>1 DEF Backed
  <2>3. CASE InSeg(m, x)
    <3>1. PICK i \in DOMAIN m.segs : Holds(m.segs[i], x)
      BY <2>3 DEF InSeg
    <3>2. Paged(m.segs[i].base, m.segs[i].size) /\ InMem(m.segs[i].base, m.segs[i].size, x)
      BY <1>1, <2>1, <3>1, SegIs
    <3>3. x \div Page \in Pages(m.segs[i].base, m.segs[i].size)
      BY <2>1, <3>2, PagesAre
    <3> QED  BY <2>1, <3>3
  <2>4. CASE \E a \in Direct(m) : InSpan(m, a, x)
    <3>1. PICK a \in Direct(m) : InSpan(m, a, x)
      BY <2>4
    <3>2. Paged(a, m.head[a].size + 2) /\ InMem(a, m.head[a].size + 2, x)
      BY <1>3, <2>1, <3>1
    <3>3. x \div Page \in Pages(a, m.head[a].size + 2)
      BY <2>1, <3>2, PagesAre
    <3> QED  BY <2>1, <3>3
  <2> QED  BY <2>2, <2>3, <2>4 DEF Covered
<1>5. ASSUME NEW i \in DOMAIN m.segs PROVE Pages(m.segs[i].base, m.segs[i].size) \subseteq m.mapped
  <2>1. Paged(m.segs[i].base, m.segs[i].size)
    BY <1>1, SegIs
  <2>2. \A x \in Int : InMem(m.segs[i].base, m.segs[i].size, x) => Covered(m, x)
    BY <1>1, SegIs DEF Covered
  <2> QED  BY <1>1, <2>1, <2>2, PagesMapped
<1>6. ASSUME NEW a \in Direct(m) PROVE Pages(a, m.head[a].size + 2) \subseteq m.mapped
  <2>1. Paged(a, m.head[a].size + 2)
    BY <1>3
  <2>2. \A x \in Int : InMem(a, m.head[a].size + 2, x) => Covered(m, x)
    BY <1>3 DEF Covered
  <2> QED  BY <1>1, <2>1, <2>2, PagesMapped
<1>7. m.mapped \subseteq UNION (S \cup D)
  BY <1>1, <1>4
<1>8. UNION (S \cup D) \subseteq m.mapped
  BY <1>1, <1>5, <1>6
<1> QED  BY <1>7, <1>8

LEMMA FootprintIs == IInv => FootprintExact
<1> SUFFICES ASSUME IInv, Exists PROVE FootprintExact
  BY DEF FootprintExact
<1>1. Sound(m, DOMAIN live) /\ Counted(m)
  BY DEF IInv, SpaceSound
<1> QED  BY <1>1, MappedOwned DEF FootprintExact, Counted

(* After every call do_check_malloc_state finds nothing wrong: for every   *)
(* page size, granularity and threshold, all requests, whatever the system *)
(* gives or refuses.                                                       *)
THEOREM SpaceChecked == Spec => []MallocStateChecked
<1>1. IInv => MallocStateChecked
  BY StateChecked
<1> QED  BY <1>1, MallocInvariant, PTL

(* No sequence of splits, merges, failed trims and released segments loses *)
(* a chunk: what is in use is a block or a segment record, and every block *)
(* is as large as was asked for.                                           *)
THEOREM ChunksNeverLost == Spec => []EveryChunkOwned
<1>1. IInv => EveryChunkOwned
  BY ChunksOwned
<1> QED  BY <1>1, MallocInvariant, PTL

(* footprint is exactly the memory mapped, and all of it is in a segment   *)
(* or a direct mapping, however many system calls failed half way through  *)
(* sys_trim, release_unused_segments or mmap_resize.                       *)
THEOREM FootprintNeverDrifts == Spec => []FootprintExact
<1>1. IInv => FootprintExact
  BY FootprintIs
<1> QED  BY <1>1, MallocInvariant, PTL

-----------------------------------------------------------------------------
(* The space implements a heap.                                            *)

(* The blocks of a heap, by the address of their first word.               *)
Spread(l) == [b \in {2 * p + 2 : p \in DOMAIN l} |-> l[(b - 2) \div 2]]

FirstWord(p) == 2 * p + 2

LEMMA FirstWordsDiffer ==
  ASSUME NEW p \in Int, NEW q \in Int, p # q
  PROVE  FirstWord(p) # FirstWord(q)
BY DEF FirstWord

LEMMA SpreadIs ==
  ASSUME NEW l, DOMAIN l \in SUBSET Int
  PROVE  /\ DOMAIN Spread(l) = {FirstWord(p) : p \in DOMAIN l}
         /\ \A p \in DOMAIN l : FirstWord(p) \in DOMAIN Spread(l) /\ Spread(l)[FirstWord(p)] = l[p]
         /\ \A b \in DOMAIN Spread(l) : \E p \in DOMAIN l : b = FirstWord(p)
<1>1. ASSUME NEW p \in Int PROVE (FirstWord(p) - 2) \div 2 = p
  BY DEF FirstWord
<1>2. DOMAIN Spread(l) = {FirstWord(p) : p \in DOMAIN l}
  BY DEF Spread, FirstWord
<1>3. ASSUME NEW p \in DOMAIN l PROVE Spread(l)[FirstWord(p)] = l[p]
  <2>1. FirstWord(p) \in {2 * k + 2 : k \in DOMAIN l}
    BY DEF FirstWord
  <2>2. Spread(l)[FirstWord(p)] = l[(FirstWord(p) - 2) \div 2]
    BY <2>1 DEF Spread
  <2> QED  BY <1>1, <2>2
<1> QED  BY <1>2, <1>3

LEMMA SpreadEqual ==
  ASSUME NEW l, DOMAIN l \in SUBSET Int, NEW g, g = [b \in DOMAIN g |-> g[b]],
         DOMAIN g = {FirstWord(p) : p \in DOMAIN l}, \A p \in DOMAIN l : g[FirstWord(p)] = l[p]
  PROVE  Spread(l) = g
<1> DEFINE f == Spread(l)
<1>1. /\ DOMAIN f = DOMAIN g
      /\ \A b \in DOMAIN f : \E p \in DOMAIN l : b = FirstWord(p)
      /\ \A p \in DOMAIN l : f[FirstWord(p)] = l[p]
  BY SpreadIs
<1>2. f = [b \in DOMAIN f |-> f[b]]
  BY DEF Spread
<1> HIDE DEF f
<1>3. \A b \in DOMAIN f : f[b] = g[b]
  BY <1>1
<1>4. [b \in DOMAIN f |-> f[b]] = [b \in DOMAIN g |-> g[b]]
  BY <1>1, <1>3
<1>5. f = g
  BY <1>2, <1>4
<1> QED  BY <1>5 DEF f

(* The words of a block are in its chunk: all but the first, the size of   *)
(* the chunk, and with the first of the next one.                          *)
LEMMA WordWithin ==
  ASSUME NEW h, NEW U, Sound(h, U), NEW p \in U, NEW words \in Requests, Fits(h, p, Request2Size(words)),
         NEW w \in H!Range(FirstWord(p), words)
  PROVE  (w - 1) \div 2 \in Int /\ Within(h, p, (w - 1) \div 2)
<1> DEFINE nb == Request2Size(words)
           s == h.head[p].size
           x == (w - 1) \div 2
<1>1. words \in Nat /\ nb \in Nat /\ 2 * nb - 1 >= words
  BY RequestIs
<1>2. s >= nb
  BY DEF Fits
<1>3. p \in Int /\ s \in Nat
  <2>1. p \in Int /\ p \in Heads(h) /\ Formed(h)
    BY BlockTag DEF Sound
  <2>2. h.head \in [Heads(h) -> TagType]
    BY <2>1, HeapTypes
  <2> QED  BY <2>1, <2>2 DEF TagType
<1> HIDE DEF nb, s
<1>4. w \in Int /\ 2 * p + 2 <= w /\ w <= 2 * p + 2 + words - 1
  BY <1>1, <1>3 DEF H!Range, FirstWord
<1>5. x \in Int /\ 2 * x <= w - 1 /\ w - 1 <= 2 * x + 1
  BY <1>4
<1> HIDE DEF x
<1>6. p <= x
  BY <1>3, <1>4, <1>5
<1>7. x < p + s
  BY <1>1, <1>2, <1>3, <1>4, <1>5
<1> QED  BY <1>5, <1>6, <1>7 DEF Within, Behind, s, x

(* Chunks that share no unit have blocks that share no word.               *)
LEMMA WordsBeside ==
  ASSUME NEW g, NEW U, Sound(g, U), NEW q \in U, NEW n \in Requests, Fits(g, q, Request2Size(n)),
         NEW h, NEW V, Sound(h, V), NEW p \in V, NEW k \in Requests, Fits(h, p, Request2Size(k)),
         \A x \in Int : Within(h, p, x) => ~ Within(g, q, x)
  PROVE  H!Range(FirstWord(q), n) \cap H!Range(FirstWord(p), k) = {}
<1> SUFFICES ASSUME NEW w \in H!Range(FirstWord(q), n), w \in H!Range(FirstWord(p), k) PROVE FALSE
  OBVIOUS
<1>1. (w - 1) \div 2 \in Int /\ Within(g, q, (w - 1) \div 2)
  BY WordWithin
<1>2. Within(h, p, (w - 1) \div 2)
  BY WordWithin
<1> QED  BY <1>1, <1>2

(* A new block has room beside the others.                                 *)
LEMMA RoomBeside ==
  ASSUME SpaceSound, NEW U, NEW q, NEW words, Renews(U, q, words), NEW p \in U
  PROVE  H!Range(FirstWord(q), words) \cap H!Range(FirstWord(p), live[p]) = {}
<1> DEFINE V == U \cup {q}
<1>1. SpaceSound'
  BY RenewsInv
<1>2. /\ q \notin U /\ words \in Requests /\ Sound(m', V) /\ Fits(m', q, Request2Size(words))
      /\ DOMAIN live' = V /\ live'[p] = live[p] /\ q \in V /\ p \in V /\ p # q
  BY DEF Renews
<1>3. live[p] \in Requests /\ Fits(m', p, Request2Size(live[p]))
  BY <1>1, <1>2 DEF SpaceSound, Fitted
<1> HIDE DEF V
<1>4. \A x \in Int : Within(m', p, x) => ~ Within(m', q, x)
  BY <1>2, BlocksBeside
<1> QED  BY <1>2, <1>3, <1>4, WordsBeside

LEMMA WordsTyped ==
  ASSUME NEW h, NEW U, Sound(h, U), NEW p \in U
  PROVE  p \in Int /\ FirstWord(p) \in 0 .. 2 * Memory
<1>1. Formed(h) /\ p \in Heads(h)
  BY BlockTag DEF Sound
<1>2. p \in Nat /\ p < Memory /\ Memory \in Nat
  BY <1>1, InMemory, MallocAssumption
<1> QED  BY <1>2 DEF FirstWord

(* What a call makes of the blocks.                                        *)
LEMMA RenewsBlocks ==
  ASSUME SpaceSound, NEW U, NEW q, NEW words, Renews(U, q, words)
  PROVE  /\ DOMAIN live \in SUBSET Int /\ q \in Int /\ FirstWord(q) \in 0 .. 2 * Memory
         /\ \A g : g = [b \in DOMAIN g |-> g[b]] /\ DOMAIN g = {FirstWord(p) : p \in U} =>
              ((\A p \in U : g[FirstWord(p)] = live[p]) => Spread(live') = H!With(g, FirstWord(q), words))
<1>1. /\ q \notin U /\ DOMAIN live' = U \cup {q} /\ live'[q] = words /\ \A c \in U : live'[c] = live[c]
      /\ Sound(m', U \cup {q})
  BY DEF Renews
<1>2. q \in Int /\ FirstWord(q) \in 0 .. 2 * Memory /\ DOMAIN live' \in SUBSET Int
  BY <1>1, WordsTyped
<1>3. DOMAIN live \in SUBSET Int
  BY WordsTyped DEF SpaceSound
<1>4. ASSUME NEW g, DOMAIN g = {FirstWord(p) : p \in U}, \A p \in U : g[FirstWord(p)] = live[p]
      PROVE  Spread(live') = H!With(g, FirstWord(q), words)
  <2> DEFINE k == H!With(g, FirstWord(q), words)
  <2>1. k = [b \in DOMAIN k |-> k[b]] /\ DOMAIN k = DOMAIN g \cup {FirstWord(q)}
    BY DEF H!With
  <2>2. k[FirstWord(q)] = words /\ \A b \in DOMAIN g : b # FirstWord(q) => k[b] = g[b]
    BY DEF H!With
  <2> HIDE DEF k
  <2>3. DOMAIN k = {FirstWord(p) : p \in DOMAIN live'}
    BY <1>1, <1>4, <2>1
  <2>4. ASSUME NEW p \in DOMAIN live' PROVE k[FirstWord(p)] = live'[p]
    <3>1. CASE p = q
      BY <1>1, <2>2, <3>1
    <3>2. CASE p \in U
      <4>1. p \in Int /\ p # q
        BY <1>1, <1>2, <3>2
      <4>2. FirstWord(p) # FirstWord(q)
        BY <1>2, <4>1, FirstWordsDiffer
      <4>3. k[FirstWord(p)] = g[FirstWord(p)]
        BY <1>4, <2>2, <3>2, <4>2
      <4> QED  BY <1>1, <1>4, <3>2, <4>3
    <3> QED  BY <1>1, <3>1, <3>2
  <2>5. Spread(live') = k
    BY <1>2, <2>1, <2>3, <2>4, SpreadEqual
  <2> QED  BY <2>5 DEF k
<1> QED  BY <1>2, <1>3, <1>4

BlocksOf == Spread(live)

LEMMA BlocksAre ==
  ASSUME DOMAIN live \in SUBSET Int
  PROVE  /\ DOMAIN BlocksOf = {FirstWord(p) : p \in DOMAIN live}
         /\ \A p \in DOMAIN live : FirstWord(p) \in DOMAIN BlocksOf /\ BlocksOf[FirstWord(p)] = live[p]
         /\ \A b \in DOMAIN BlocksOf : \E p \in DOMAIN live : b = FirstWord(p)
         /\ BlocksOf = [b \in DOMAIN BlocksOf |-> BlocksOf[b]]
<1>1. BlocksOf = [b \in DOMAIN BlocksOf |-> BlocksOf[b]]
  BY DEF BlocksOf, Spread
<1> QED  BY <1>1, SpreadIs DEF BlocksOf

(* The blocks but for that of p.                                           *)
OthersOf(p) == [b \in DOMAIN BlocksOf \ {FirstWord(p)} |-> BlocksOf[b]]

LEMMA OthersAre ==
  ASSUME DOMAIN live \in SUBSET Int, NEW p \in DOMAIN live
  PROVE  /\ DOMAIN OthersOf(p) = {FirstWord(c) : c \in DOMAIN live \ {p}}
         /\ \A c \in DOMAIN live \ {p} : OthersOf(p)[FirstWord(c)] = live[c]
         /\ OthersOf(p) = [b \in DOMAIN OthersOf(p) |-> OthersOf(p)[b]]
<1>1. /\ DOMAIN BlocksOf = {FirstWord(c) : c \in DOMAIN live}
      /\ \A c \in DOMAIN live : FirstWord(c) \in DOMAIN BlocksOf /\ BlocksOf[FirstWord(c)] = live[c]
  BY BlocksAre
<1>2. \A c \in DOMAIN live \ {p} : FirstWord(c) # FirstWord(p)
  BY FirstWordsDiffer
<1>3. DOMAIN OthersOf(p) = DOMAIN BlocksOf \ {FirstWord(p)} /\ \A b \in DOMAIN OthersOf(p) : OthersOf(p)[b] = BlocksOf[b]
  BY DEF OthersOf
<1>4. OthersOf(p) = [b \in DOMAIN OthersOf(p) |-> OthersOf(p)[b]]
  BY DEF OthersOf
<1>5. DOMAIN OthersOf(p) = {FirstWord(c) : c \in DOMAIN live \ {p}}
  BY <1>1, <1>2, <1>3
<1>6. ASSUME NEW c \in DOMAIN live \ {p} PROVE OthersOf(p)[FirstWord(c)] = live[c]
  <2>1. FirstWord(c) \in DOMAIN OthersOf(p)
    BY <1>5
  <2> QED  BY <1>1, <1>3, <2>1
<1> QED  BY <1>4, <1>5, <1>6

(* The calls of the heap in terms of these.                                *)
LEMMA HeapCalls ==
  /\ \A n, b : /\ Exists /\ (Exists)' /\ b \in DOMAIN BlocksOf' \ DOMAIN BlocksOf /\ b \in 0 .. 2 * Memory
               /\ H!Free(BlocksOf, b, n) /\ BlocksOf' = H!With(BlocksOf, b, n)
               => H!Malloc(n)
  /\ \A p : Exists /\ (Exists)' /\ BlocksOf' = OthersOf(p) => H!Release(FirstWord(p))
  /\ \A p, n : /\ Exists /\ (Exists)' /\ H!Free(OthersOf(p), FirstWord(p), n)
               /\ BlocksOf' = H!With(BlocksOf, FirstWord(p), n)
               => H!Realloc(FirstWord(p), n)
  /\ \A p, n, b : /\ Exists /\ (Exists)' /\ b \in DOMAIN BlocksOf' \ DOMAIN BlocksOf /\ b \in 0 .. 2 * Memory
                  /\ H!Free(BlocksOf, b, n) /\ BlocksOf' = H!With(OthersOf(p), b, n)
                  => H!Realloc(FirstWord(p), n)
<1>1. ASSUME NEW n, NEW b, Exists, (Exists)', b \in DOMAIN BlocksOf' \ DOMAIN BlocksOf, b \in 0 .. 2 * Memory,
             H!Free(BlocksOf, b, n), BlocksOf' = H!With(BlocksOf, b, n)
      PROVE  H!Malloc(n)
  BY <1>1 DEF H!Malloc, BlocksOf, Spread, Exists
<1>2. ASSUME NEW p, Exists, (Exists)', BlocksOf' = OthersOf(p) PROVE H!Release(FirstWord(p))
  BY <1>2 DEF H!Release, H!Others, OthersOf, BlocksOf, Spread, Exists
<1>3. ASSUME NEW p, NEW n, Exists, (Exists)', H!Free(OthersOf(p), FirstWord(p), n),
             BlocksOf' = H!With(BlocksOf, FirstWord(p), n)
      PROVE  H!Realloc(FirstWord(p), n)
  BY <1>3 DEF H!Realloc, H!Others, OthersOf, BlocksOf, Spread, Exists
<1>4. ASSUME NEW p, NEW n, NEW b, Exists, (Exists)', b \in DOMAIN BlocksOf' \ DOMAIN BlocksOf, b \in 0 .. 2 * Memory,
             H!Free(BlocksOf, b, n), BlocksOf' = H!With(OthersOf(p), b, n)
      PROVE  H!Realloc(FirstWord(p), n)
  BY <1>4 DEF H!Realloc, H!Others, OthersOf, BlocksOf, Spread, Exists
<1> QED  BY <1>1, <1>2, <1>3, <1>4

LEMMA MallocCall ==
  ASSUME SpaceSound, SpaceSound', NEW words \in Requests, NEW q, Renews(DOMAIN live, q, words)
  PROVE  H!Malloc(words)
<1> DEFINE b == FirstWord(q)
<1>1. Exists /\ (Exists)'
  BY SoundExists DEF SpaceSound, Exists
<1>2. DOMAIN live \in SUBSET Int /\ q \in Int /\ b \in 0 .. 2 * Memory
  BY RenewsBlocks
<1>3. /\ DOMAIN BlocksOf = {FirstWord(p) : p \in DOMAIN live}
      /\ \A p \in DOMAIN live : BlocksOf[FirstWord(p)] = live[p]
      /\ BlocksOf = [c \in DOMAIN BlocksOf |-> BlocksOf[c]]
  BY <1>2, BlocksAre
<1>4. BlocksOf' = H!With(BlocksOf, b, words)
  <2>1. Spread(live') = H!With(BlocksOf, b, words)
    BY <1>3, RenewsBlocks
  <2> QED  BY <2>1 DEF BlocksOf, Spread
<1>5. q \notin DOMAIN live
  BY DEF Renews
<1>6. b \in DOMAIN BlocksOf' \ DOMAIN BlocksOf
  <2>1. b \in DOMAIN BlocksOf'
    BY <1>4 DEF H!With
  <2>2. b \notin DOMAIN BlocksOf
    <3>1. \A p \in DOMAIN live : FirstWord(p) # b
      BY <1>2, <1>5, FirstWordsDiffer
    <3> QED  BY <1>3, <3>1
  <2> QED  BY <2>1, <2>2
<1>7. H!Free(BlocksOf, b, words)
  <2>1. ASSUME NEW c \in DOMAIN BlocksOf PROVE H!Range(b, words) \cap H!Range(c, BlocksOf[c]) = {} /\ c # b
    <3>1. PICK p \in DOMAIN live : c = FirstWord(p)
      BY <1>3
    <3>2. H!Range(FirstWord(q), words) \cap H!Range(FirstWord(p), live[p]) = {}
      BY RoomBeside
    <3> QED  BY <1>3, <1>6, <3>1, <3>2
  <2> QED  BY <2>1 DEF H!Free
<1> QED  BY <1>1, <1>2, <1>4, <1>6, <1>7, HeapCalls

LEMMA FreeCall ==
  ASSUME SpaceSound, SpaceSound', NEW p \in DOMAIN live, DOMAIN live' = DOMAIN live \ {p},
         \A c \in DOMAIN live' : live'[c] = live[c]
  PROVE  H!Release(FirstWord(p)) /\ FirstWord(p) \in DOMAIN BlocksOf
<1>1. Exists /\ (Exists)'
  BY SoundExists DEF SpaceSound, Exists
<1>2. DOMAIN live \in SUBSET Int
  BY WordsTyped DEF SpaceSound
<1>3. FirstWord(p) \in DOMAIN BlocksOf
  BY <1>2, BlocksAre
<1>4. /\ DOMAIN OthersOf(p) = {FirstWord(c) : c \in DOMAIN live'}
      /\ \A c \in DOMAIN live' : OthersOf(p)[FirstWord(c)] = live'[c]
      /\ OthersOf(p) = [b \in DOMAIN OthersOf(p) |-> OthersOf(p)[b]]
  BY <1>2, OthersAre
<1>5. DOMAIN live' \in SUBSET Int
  BY <1>2
<1>6. Spread(live') = OthersOf(p)
  BY <1>4, <1>5, SpreadEqual
<1>7. BlocksOf' = OthersOf(p)
  BY <1>6 DEF BlocksOf, Spread
<1> QED  BY <1>1, <1>3, <1>7, HeapCalls

LEMMA ReallocCall ==
  ASSUME SpaceSound, SpaceSound', NEW p \in DOMAIN live, NEW words \in Requests, NEW q,
         Renews(DOMAIN live \ {p}, q, words),
         q # p => q \notin DOMAIN live /\ \A x \in Int : Within(m, p, x) => ~ Within(m', q, x)
  PROVE  H!Realloc(FirstWord(p), words) /\ FirstWord(p) \in DOMAIN BlocksOf
<1> DEFINE U == DOMAIN live \ {p}
           b == FirstWord(q)
<1>1. Exists /\ (Exists)'
  BY SoundExists DEF SpaceSound, Exists
<1>2. DOMAIN live \in SUBSET Int /\ q \in Int /\ b \in 0 .. 2 * Memory
  BY RenewsBlocks
<1>3. /\ DOMAIN BlocksOf = {FirstWord(c) : c \in DOMAIN live}
      /\ \A c \in DOMAIN live : BlocksOf[FirstWord(c)] = live[c]
      /\ BlocksOf = [c \in DOMAIN BlocksOf |-> BlocksOf[c]]
  BY <1>2, BlocksAre
<1>4. /\ DOMAIN OthersOf(p) = {FirstWord(c) : c \in U}
      /\ \A c \in U : OthersOf(p)[FirstWord(c)] = live[c]
      /\ OthersOf(p) = [c \in DOMAIN OthersOf(p) |-> OthersOf(p)[c]]
  BY <1>2, OthersAre
<1>5. BlocksOf' = H!With(OthersOf(p), b, words)
  <2>1. Spread(live') = H!With(OthersOf(p), b, words)
    BY <1>4, RenewsBlocks
  <2> QED  BY <2>1 DEF BlocksOf, Spread
<1>6. ASSUME NEW c \in U PROVE H!Range(b, words) \cap H!Range(FirstWord(c), live[c]) = {} /\ FirstWord(c) # b
  <2>1. c \in Int /\ c # q
    BY <1>2 DEF Renews
  <2> QED  BY <1>2, <2>1, RoomBeside, FirstWordsDiffer
<1>7. CASE q = p
  <2>1. H!Free(OthersOf(p), b, words)
    <3>1. ASSUME NEW c \in DOMAIN OthersOf(p) PROVE H!Range(b, words) \cap H!Range(c, OthersOf(p)[c]) = {} /\ c # b
      <4>1. PICK d \in U : c = FirstWord(d)
        BY <1>4
      <4> QED  BY <1>4, <1>6, <4>1
    <3> QED  BY <3>1 DEF H!Free
  <2>2. H!With(OthersOf(p), b, words) = H!With(BlocksOf, b, words)
    <3>1. b \in DOMAIN BlocksOf
      BY <1>3, <1>7
    <3>2. DOMAIN OthersOf(p) \cup {b} = DOMAIN BlocksOf \cup {b}
          /\ \A c \in DOMAIN BlocksOf : c # b => OthersOf(p)[c] = BlocksOf[c]
      BY <1>7, <3>1 DEF OthersOf
    <3> QED  BY <3>2 DEF H!With
  <2>3. BlocksOf' = H!With(BlocksOf, FirstWord(p), words) /\ H!Free(OthersOf(p), FirstWord(p), words)
    BY <1>5, <1>7, <2>1, <2>2
  <2> QED  BY <1>1, <1>3, <2>3, HeapCalls
<1>8. CASE q # p
  <2>1. q \notin DOMAIN live /\ \A x \in Int : Within(m, p, x) => ~ Within(m', q, x)
    BY <1>8
  <2>2. H!Range(b, words) \cap H!Range(FirstWord(p), live[p]) = {}
    <3>1. Sound(m', U \cup {q}) /\ Fits(m', q, Request2Size(words)) /\ q \in U \cup {q}
      BY DEF Renews
    <3>2. Sound(m, DOMAIN live) /\ live[p] \in Requests /\ Fits(m, p, Request2Size(live[p]))
      BY DEF SpaceSound, Fitted
    <3> HIDE DEF U
    <3> QED  BY <2>1, <3>1, <3>2, WordsBeside
  <2>3. \A c \in DOMAIN live : FirstWord(c) # b
    BY <1>2, <2>1, FirstWordsDiffer
  <2>4. H!Free(BlocksOf, b, words)
    <3>1. ASSUME NEW c \in DOMAIN BlocksOf PROVE H!Range(b, words) \cap H!Range(c, BlocksOf[c]) = {} /\ c # b
      <4>1. PICK d \in DOMAIN live : c = FirstWord(d)
        BY <1>3
      <4>2. H!Range(b, words) \cap H!Range(FirstWord(d), live[d]) = {}
        BY <1>6, <2>2
      <4> QED  BY <1>3, <2>3, <4>1, <4>2
    <3> QED  BY <3>1 DEF H!Free
  <2>5. b \in DOMAIN BlocksOf' \ DOMAIN BlocksOf
    <3>1. b \in DOMAIN BlocksOf'
      BY <1>5 DEF H!With
    <3> QED  BY <1>3, <2>3, <3>1
  <2> QED  BY <1>1, <1>2, <1>3, <1>5, <2>4, <2>5, HeapCalls
<1> QED  BY <1>7, <1>8

LEMMA HeapInit == Init => H!Init
<1> SUFFICES ASSUME Init PROVE H!Init
  OBVIOUS
<1>1. live = <<>> /\ ~ Exists
  <2>1. {} \in SUBSET Nat
    OBVIOUS
  <2> QED  BY <2>1, BlankIs DEF Init, Exists
<1>2. BlocksOf = <<>>
  <2>1. DOMAIN live = {}
    BY <1>1
  <2>2. {2 * p + 2 : p \in DOMAIN live} = {}
    BY <2>1
  <2> QED  BY <2>2 DEF BlocksOf, Spread
<1> QED  BY <1>1, <1>2 DEF H!Init, BlocksOf, Spread, Exists

LEMMA HeapNext == IInv /\ IInv' /\ [Next]_vars => [H!Next]_<<Exists, BlocksOf>>
<1> SUFFICES ASSUME IInv, IInv', [Next]_vars PROVE [H!Next]_<<Exists, BlocksOf>>
  OBVIOUS
<1>1. ASSUME UNCHANGED vars PROVE UNCHANGED <<Exists, BlocksOf>>
  BY <1>1 DEF vars, Exists, BlocksOf, Spread
<1>2. ASSUME CreateMspace PROVE H!Create
  <2>1. ~ Exists /\ live' = live /\ SpaceSound'
    BY <1>2, CreateStep
  <2>2. (Exists)'
    BY <2>1, SoundExists DEF SpaceSound, Exists
  <2> QED  BY <2>1, <2>2 DEF H!Create, Exists
<1>3. ASSUME DestroyMspace PROVE H!Destroy
  <2>1. Exists /\ ~ (Exists)' /\ live' = <<>>
    BY <1>3, DestroyStep
  <2>2. BlocksOf' = <<>>
    <3>1. Spread(live') = <<>>
      <4>1. DOMAIN live' = {}
        BY <2>1
      <4>2. {2 * p + 2 : p \in DOMAIN live'} = {}
        BY <4>1
      <4> QED  BY <4>2 DEF Spread
    <3> QED  BY <3>1 DEF BlocksOf, Spread
  <2> QED  BY <2>1, <2>2 DEF H!Destroy, BlocksOf, Spread, Exists
<1>4. ASSUME Exists, (Exists)' PROVE SpaceSound /\ SpaceSound'
  BY <1>4 DEF IInv
<1>5. ASSUME NEW words \in Requests, Malloc(words) PROVE H!Malloc(words) \/ UNCHANGED <<Exists, BlocksOf>>
  <2>1. SpaceSound
    BY <1>5 DEF Malloc, IInv
  <2>2. ASSUME m' = m /\ live' = live PROVE UNCHANGED <<Exists, BlocksOf>>
    BY <2>2 DEF Exists, BlocksOf, Spread
  <2>3. ASSUME NEW q, Renews(DOMAIN live, q, words) PROVE H!Malloc(words)
    <3>1. SpaceSound'
      BY <2>1, <2>3, RenewsInv
    <3> QED  BY <2>1, <2>3, <3>1, MallocCall
  <2> QED  BY <1>5, <2>1, <2>2, <2>3, MallocStep
<1>6. ASSUME NEW p \in DOMAIN live PROVE SpaceSound
  <2>1. live # <<>>
    BY <1>6
  <2> QED  BY <2>1 DEF IInv
<1>7. ASSUME NEW p \in DOMAIN live, Free(p) PROVE H!Release(FirstWord(p)) /\ FirstWord(p) \in DOMAIN BlocksOf
  <2>1. SpaceSound
    BY <1>6
  <2>2. SpaceSound' /\ DOMAIN live' = DOMAIN live \ {p} /\ \A c \in DOMAIN live' : live'[c] = live[c]
    BY <1>7, <2>1, FreeStep
  <2> QED  BY <2>1, <2>2, FreeCall
<1>8. ASSUME NEW p \in DOMAIN live, NEW words \in Requests, Realloc(p, words)
      PROVE  (H!Realloc(FirstWord(p), words) /\ FirstWord(p) \in DOMAIN BlocksOf) \/ UNCHANGED <<Exists, BlocksOf>>
  <2>1. SpaceSound
    BY <1>6
  <2>2. ASSUME m' = m /\ live' = live PROVE UNCHANGED <<Exists, BlocksOf>>
    BY <2>2 DEF Exists, BlocksOf, Spread
  <2>3. ASSUME NEW q, Renews(DOMAIN live \ {p}, q, words),
               q # p => q \notin DOMAIN live /\ \A x \in Int : Within(m, p, x) => ~ Within(m', q, x)
        PROVE  H!Realloc(FirstWord(p), words) /\ FirstWord(p) \in DOMAIN BlocksOf
    <3>1. SpaceSound'
      BY <2>1, <2>3, RenewsInv
    <3> QED  BY <2>1, <2>3, <3>1, ReallocCall
  <2> QED  BY <1>8, <2>1, <2>2, <2>3, ReallocStep
<1>9. H!Next <=> \/ H!Create \/ H!Destroy
                 \/ \E n \in Requests : H!Malloc(n)
                 \/ \E b \in DOMAIN BlocksOf : H!Release(b) \/ \E n \in Requests : H!Realloc(b, n)
  BY DEF H!Next, BlocksOf, Spread
<1> QED  BY <1>1, <1>2, <1>3, <1>5, <1>7, <1>8, <1>9 DEF Next

(* mspace_malloc, mspace_free, mspace_realloc and the creation and         *)
(* destruction of a space do what Heap promises, seen by the words of the  *)
(* blocks: a new block has no word of another, no block moves or shrinks   *)
(* but by realloc or free, and a call that fails changes nothing.          *)
THEOREM MallocRefinesHeap == Spec => ImplementsHeap
<1>1. Init => H!Init
  BY HeapInit
<1>2. IInv /\ IInv' /\ [Next]_vars => [H!Next]_<<Exists, [b \in {2 * p + 2 : p \in DOMAIN live} |-> live[(b - 2) \div 2]]>>
  BY HeapNext DEF BlocksOf, Spread
<1> QED  BY <1>1, <1>2, MallocInvariant, PTL DEF Spec, ImplementsHeap, H!Spec

(* Hence no two blocks that spp_allocator holds ever share a word, and     *)
(* none outlives its space.                                                *)
THEOREM MallocKeepsBlocksApart == Spec => []H!BlocksApart
<1>1. H!Spec => []H!BlocksApart
  BY H!BlocksStayApart
<1> QED  BY <1>1, MallocRefinesHeap, PTL DEF ImplementsHeap
=============================================================================
