-------------------------- MODULE SparseGroupProofs --------------------------
(***************************************************************************)
(* Theorems about SparseGroup, for any groups, positions and values, both  *)
(* group sizes, every allocation policy, and allocations that fail.        *)
(***************************************************************************)
EXTENDS SparseGroup, FiniteSetTheorems, SequenceTheorems, TLAPS

-----------------------------------------------------------------------------
(* Sizes of arrays.                                                        *)

LEMMA SizingOfNone == Sizing(0) = 0
BY DEF Sizing

(* The table that the constructor of alloc_batch_size fills.               *)
LEMMA SizingTable ==
  ASSUME AllocSize = 0
  PROVE  /\ GroupSize = 32 => \A k \in 1 .. 32 :
              Sizing(k) = IF k <= 8 THEN ((k + 3) \div 4) * 4 ELSE ((k + 1) \div 2) * 2
         /\ GroupSize = 64 => \A k \in 1 .. 64 :
              Sizing(k) = IF k <= 16 THEN ((k + 7) \div 8) * 8
                          ELSE IF k <= 32 THEN ((k + 3) \div 4) * 4
                          ELSE ((k + 1) \div 2) * 2
<1>1. CASE GroupSize = 32
  <2>1. Batch(0) = 4 /\ Batch(1) = 2 /\ Batch(2) = 2 /\ Batch(3) = 2
    BY <1>1 DEF Batch, Halved
  <2> QED  BY <1>1, <2>1 DEF Sizing, RoundUp
<1>2. CASE GroupSize = 64
  <2>1. Batch(0) = 8 /\ Batch(1) = 4 /\ Batch(2) = 2 /\ Batch(3) = 2
    BY <1>2 DEF Batch, Halved
  <2> QED  BY <1>2, <2>1 DEF Sizing, RoundUp
<1> QED  BY <1>1, <1>2

(* With SPP_ALLOC_SZ, sizes are its multiples.                             *)
LEMMA SizingRounds ==
  ASSUME AllocSize # 0
  PROVE  /\ AllocSize \in {1, 2, 4, 8, 16, 32}
         /\ \A k \in 1 .. GroupSize : Sizing(k) = RoundUp(k, AllocSize)
BY ConfigurationAssumption DEF ConfigurationAssumption, Sizing

LEMMA GroupSizeValue == GroupSize \in {32, 64}
BY ConfigurationAssumption DEF ConfigurationAssumption

(* There is room for n values, and rounding twice changes nothing, which   *)
(* the path for values that cannot be relocated relies on.                 *)
LEMMA SizingBounds ==
  ASSUME NEW n \in 1 .. GroupSize
  PROVE  /\ Sizing(n) \in n .. GroupSize
         /\ Sizing(Sizing(n)) = Sizing(n)
<1>1. CASE AllocSize = 0 /\ GroupSize = 32
  BY <1>1, SizingTable
<1>2. CASE AllocSize = 0 /\ GroupSize = 64
  BY <1>2, SizingTable
<1>3. CASE AllocSize # 0
  <2>1. \A s \in {1, 2, 4, 8, 16, 32} :
          /\ RoundUp(n, s) \in n .. GroupSize
          /\ RoundUp(RoundUp(n, s), s) = RoundUp(n, s)
    BY GroupSizeValue DEF RoundUp
  <2> QED  BY <1>3, <2>1, SizingRounds
<1> QED  BY <1>1, <1>2, <1>3, GroupSizeValue

(* While an array is not full the next value needs no other one.           *)
LEMMA SizingStep ==
  ASSUME NEW n \in 0 .. GroupSize - 1, Sizing(n) # n
  PROVE  Sizing(n + 1) = Sizing(n)
<1>0. n \in 1 .. GroupSize - 1
  BY SizingOfNone, GroupSizeValue
<1>1. CASE AllocSize = 0 /\ GroupSize = 32
  BY <1>0, <1>1, SizingTable
<1>2. CASE AllocSize = 0 /\ GroupSize = 64
  BY <1>0, <1>2, SizingTable
<1>3. CASE AllocSize # 0
  <2>1. n \in 1 .. GroupSize /\ n + 1 \in 1 .. GroupSize
    BY <1>0, GroupSizeValue
  <2>2. \A s \in {1, 2, 4, 8, 16, 32} :
          RoundUp(n, s) # n => RoundUp(n + 1, s) = RoundUp(n, s)
    BY <1>0, GroupSizeValue DEF RoundUp
  <2> QED  BY <1>3, <2>1, <2>2, SizingRounds
<1> QED  BY <1>1, <1>2, <1>3, GroupSizeValue

-----------------------------------------------------------------------------
(* Positions and offsets.                                                  *)

LEMMA BitmapFinite ==
  ASSUME NEW bm \in SUBSET Positions
  PROVE  /\ IsFiniteSet(bm)
         /\ Cardinality(bm) \in 0 .. GroupSize
         /\ bm # {} => Cardinality(bm) > 0
<1>1. GroupSize \in Nat /\ GroupSize > 0
  BY ConfigurationAssumption DEF ConfigurationAssumption
<1>2. IsFiniteSet(0 .. GroupSize - 1) /\ Cardinality(0 .. GroupSize - 1) = GroupSize
  BY <1>1, FS_Interval
<1>3. bm \in SUBSET (0 .. GroupSize - 1)
  BY PositionsAssumption DEF PositionsAssumption
<1>4. IsFiniteSet(bm) /\ Cardinality(bm) <= GroupSize
  BY <1>2, <1>3, FS_Subset, ZenonT(40)
<1>5. Cardinality(bm) \in Nat /\ (Cardinality(bm) = 0 <=> bm = {})
  BY <1>4, FS_CardinalityType, FS_EmptySet
<1> QED  BY <1>1, <1>4, <1>5

LEMMA PositionType == Positions \subseteq Nat
BY PositionsAssumption, ConfigurationAssumption
   DEF PositionsAssumption, ConfigurationAssumption

LEMMA OffsetBounds ==
  ASSUME NEW bm \in SUBSET Positions, NEW i \in Positions
  PROVE  /\ PosToOffset(bm, i) \in 0 .. Cardinality(bm)
         /\ i \in bm => PosToOffset(bm, i) < Cardinality(bm)
<1> DEFINE below == {j \in bm : j < i}
<1>1. below \in SUBSET bm /\ i \notin below
  BY PositionType
<1>2. IsFiniteSet(bm) /\ Cardinality(bm) \in Nat
  BY BitmapFinite
<1>3. /\ Cardinality(below) \in Nat /\ Cardinality(below) <= Cardinality(bm)
      /\ Cardinality(bm) = Cardinality(below) => bm = below
  <2> HIDE DEF below
  <2> QED  BY <1>1, <1>2, FS_Subset, FS_CardinalityType
<1> QED  BY <1>1, <1>2, <1>3 DEF PosToOffset

(* The values at lower positions have lower offsets.                       *)
LEMMA OffsetOrder ==
  ASSUME NEW bm \in SUBSET Positions, NEW i \in Positions, NEW j \in bm
  PROVE  /\ j < i => PosToOffset(bm, j) < PosToOffset(bm, i)
         /\ i <= j => PosToOffset(bm, i) <= PosToOffset(bm, j)
<1> DEFINE below(k) == {l \in bm : l < k}
<1>1. IsFiniteSet(bm) /\ i \in Nat /\ j \in Nat /\ bm \subseteq Nat
  BY BitmapFinite, PositionType
<1>2. \A k : IsFiniteSet(below(k)) /\ Cardinality(below(k)) \in Nat
  <2> TAKE k
  <2>1. below(k) \in SUBSET bm
    OBVIOUS
  <2> HIDE DEF below
  <2> QED  BY <1>1, <2>1, FS_Subset, FS_CardinalityType
<1>3. ASSUME j < i  PROVE Cardinality(below(j)) < Cardinality(below(i))
  <2>1. \A k \in Nat : j \in below(k) <=> j < k
    OBVIOUS
  <2>2. below(j) \in SUBSET below(i)
    <3>1. \A l \in Nat : l < j => l < i
      BY <1>1, <1>3
    <3> QED  BY <1>1, <3>1
  <2>3. below(j) # below(i)
    BY <1>1, <1>3, <2>1
  <2> HIDE DEF below
  <2>4. /\ Cardinality(below(j)) <= Cardinality(below(i))
        /\ Cardinality(below(i)) = Cardinality(below(j)) => below(i) = below(j)
    BY <1>2, <2>2, FS_Subset
  <2> QED  BY <1>2, <2>3, <2>4
<1>4. ASSUME i <= j  PROVE Cardinality(below(i)) <= Cardinality(below(j))
  <2>1. \A l \in Nat : l < i => l < j
    BY <1>1, <1>4
  <2>2. below(i) \in SUBSET below(j)
    BY <1>1, <2>1
  <2> HIDE DEF below
  <2> QED  BY <1>2, <2>2, FS_Subset
<1> QED  BY <1>3, <1>4 DEF PosToOffset

(* Setting a bit moves up the offsets of the positions above it.           *)
LEMMA OffsetAfterSet ==
  ASSUME NEW bm \in SUBSET Positions, NEW i \in Positions \ bm, NEW j \in Positions
  PROVE  PosToOffset(bm \cup {i}, j) =
           IF i < j THEN PosToOffset(bm, j) + 1 ELSE PosToOffset(bm, j)
<1> DEFINE below == {l \in bm : l < j}
<1>1. IsFiniteSet(below) /\ i \notin below
  BY BitmapFinite, FS_Subset
<1>2. {l \in bm \cup {i} : l < j} = IF i < j THEN below \cup {i} ELSE below
  OBVIOUS
<1> HIDE DEF below
<1> QED  BY <1>1, <1>2, FS_AddElement DEF PosToOffset, below

(* Clearing a bit moves them down.                                         *)
LEMMA OffsetAfterClear ==
  ASSUME NEW bm \in SUBSET Positions, NEW i \in bm, NEW j \in Positions
  PROVE  PosToOffset(bm \ {i}, j) =
           IF i < j THEN PosToOffset(bm, j) - 1 ELSE PosToOffset(bm, j)
<1> DEFINE below == {l \in bm : l < j}
<1>1. IsFiniteSet(below) /\ (i < j => i \in below)
  BY BitmapFinite, FS_Subset
<1>2. {l \in bm \ {i} : l < j} = IF i < j THEN below \ {i} ELSE below
  OBVIOUS
<1>3. PosToOffset(bm, j) = Cardinality(below)
  BY DEF PosToOffset
<1>4. PosToOffset(bm \ {i}, j) = Cardinality({l \in bm \ {i} : l < j})
  BY DEF PosToOffset
<1> HIDE DEF below
<1>5. Cardinality(below \ {i}) = IF i \in below THEN Cardinality(below) - 1
                                               ELSE Cardinality(below)
  BY <1>1, FS_RemoveElement
<1> QED  BY <1>1, <1>2, <1>3, <1>4, <1>5

-----------------------------------------------------------------------------
(* Sequences.                                                              *)

LEMMA InsertedObject ==
  ASSUME NEW S, NEW s \in Seq(S), NEW v \in S, NEW o \in 0 .. Len(s)
  PROVE  LET t == InsertAt(s, o + 1, v)
         IN  /\ t \in Seq(S) /\ Len(t) = Len(s) + 1
             /\ \A k \in 1 .. Len(s) + 1 :
                  t[k] = IF k <= o THEN s[k] ELSE IF k = o + 1 THEN v ELSE s[k - 1]
<1> DEFINE front == SubSeq(s, 1, (o + 1) - 1)
           middle == front \o <<v>>
           back == SubSeq(s, o + 1, Len(s))
           t == middle \o back
<1>1. o \in Nat /\ Len(s) \in Nat /\ o <= Len(s) /\ \A k \in 1 .. Len(s) : s[k] \in S
  OBVIOUS
<1>2. InsertAt(s, o + 1, v) = t
  BY DEF InsertAt
<1>3. front \in Seq(S) /\ Len(front) = o /\ \A k \in 1 .. o : front[k] = s[k]
  BY <1>1, SubSeqProperties
<1>4. /\ back \in Seq(S) /\ Len(back) = Len(s) - o
      /\ \A k \in 1 .. Len(s) - o : back[k] = s[o + k]
  BY <1>1, SubSeqProperties
<1>5. <<v>> \in Seq(S) /\ Len(<<v>>) = 1 /\ <<v>>[1] = v
  OBVIOUS
<1> HIDE DEF front, back
<1>6. /\ middle \in Seq(S) /\ Len(middle) = o + 1
      /\ \A k \in 1 .. o + 1 : middle[k] = IF k <= o THEN s[k] ELSE v
  BY <1>1, <1>3, <1>5, ConcatProperties
<1> HIDE DEF middle
<1>7. /\ t \in Seq(S) /\ Len(t) = Len(s) + 1
      /\ \A k \in 1 .. Len(s) + 1 :
           t[k] = IF k <= o + 1 THEN middle[k] ELSE back[k - (o + 1)]
  BY <1>1, <1>4, <1>6, ConcatProperties
<1> HIDE DEF t
<1>8. \A k \in 1 .. Len(s) + 1 :
        t[k] = IF k <= o THEN s[k] ELSE IF k = o + 1 THEN v ELSE s[k - 1]
  <2> TAKE k \in 1 .. Len(s) + 1
  <2>1. k > o + 1 => k - (o + 1) \in 1 .. Len(s) - o /\ o + (k - (o + 1)) = k - 1
    BY <1>1
  <2>2. CASE k <= o
    BY <1>1, <1>6, <1>7, <2>2
  <2>3. CASE k = o + 1
    BY <1>1, <1>6, <1>7, <2>3
  <2>4. CASE k > o + 1
    <3>1. t[k] = back[k - (o + 1)]
      BY <1>1, <1>7, <2>4
    <3>2. back[k - (o + 1)] = s[o + (k - (o + 1))]
      BY <1>4, <2>1, <2>4
    <3>3. o + (k - (o + 1)) = k - 1 /\ ~ (k <= o) /\ k # o + 1
      BY <1>1, <2>4
    <3> QED  BY <3>1, <3>2, <3>3
  <2> QED  BY <1>1, <2>2, <2>3, <2>4
<1> QED  BY <1>2, <1>7, <1>8

LEMMA RemovedObject ==
  ASSUME NEW S, NEW s \in Seq(S), NEW o \in 0 .. Len(s) - 1
  PROVE  LET t == RemoveAt(s, o + 1)
         IN  /\ t \in Seq(S) /\ Len(t) = Len(s) - 1
             /\ \A k \in 1 .. Len(s) - 1 : t[k] = IF k <= o THEN s[k] ELSE s[k + 1]
<1> DEFINE front == SubSeq(s, 1, (o + 1) - 1)
           back == SubSeq(s, (o + 1) + 1, Len(s))
           t == front \o back
<1>1. o \in Nat /\ Len(s) \in Nat /\ o < Len(s) /\ \A k \in 1 .. Len(s) : s[k] \in S
  OBVIOUS
<1>2. RemoveAt(s, o + 1) = t
  BY DEF RemoveAt
<1>3. front \in Seq(S) /\ Len(front) = o /\ \A k \in 1 .. o : front[k] = s[k]
  BY <1>1, SubSeqProperties
<1>4. /\ back \in Seq(S) /\ Len(back) = Len(s) - o - 1
      /\ \A k \in 1 .. Len(s) - o - 1 : back[k] = s[o + 1 + k]
  BY <1>1, SubSeqProperties
<1> HIDE DEF front, back
<1>5. /\ t \in Seq(S) /\ Len(t) = Len(s) - 1
      /\ \A k \in 1 .. Len(s) - 1 : t[k] = IF k <= o THEN front[k] ELSE back[k - o]
  <2>1. Len(front) + Len(back) = Len(s) - 1
    BY <1>1, <1>3, <1>4
  <2>2. /\ front \o back \in Seq(S) /\ Len(front \o back) = Len(front) + Len(back)
        /\ \A k \in 1 .. Len(front) + Len(back) :
             (front \o back)[k] = IF k <= Len(front) THEN front[k]
                                                   ELSE back[k - Len(front)]
    BY <1>3, <1>4, ConcatProperties, ZenonT(40)
  <2> QED  BY <1>3, <2>1, <2>2
<1> HIDE DEF t
<1>6. \A k \in 1 .. Len(s) - 1 : t[k] = IF k <= o THEN s[k] ELSE s[k + 1]
  <2> TAKE k \in 1 .. Len(s) - 1
  <2>1. k > o => k - o \in 1 .. Len(s) - o - 1 /\ o + 1 + (k - o) = k + 1
    BY <1>1
  <2> QED  BY <1>1, <1>3, <1>4, <1>5, <2>1
<1> QED  BY <1>2, <1>5, <1>6

-----------------------------------------------------------------------------
(* Groups.                                                                 *)

(* A group whose bitmap, count and objects agree.                          *)
Packed(G) ==
  /\ G \in GroupType
  /\ G.bitmap \cap G.erased = {}
  /\ G.numItems = Cardinality(G.bitmap)
  /\ Len(G.objs) = G.numItems

(* The array has the size derived from the count, too.                     *)
Fitting(G) == Packed(G) /\ G.cap = Sizing(G.numItems)

LEMMA GroupSizeType == GroupSize \in Nat /\ GroupSize > 0
BY ConfigurationAssumption DEF ConfigurationAssumption

LEMMA PackedFacts ==
  ASSUME NEW G, Packed(G)
  PROVE  /\ G.bitmap \in SUBSET Positions /\ G.erased \in SUBSET Positions
         /\ IsFiniteSet(G.bitmap)
         /\ G.objs \in Seq(Values \cup {Destroyed})
         /\ G.numItems \in 0 .. GroupSize
         /\ \A i \in G.bitmap : /\ PosToOffset(G.bitmap, i) \in 0 .. Len(G.objs) - 1
                                /\ G.numItems > 0
         /\ \A i \in Positions : PosToOffset(G.bitmap, i) \in 0 .. Len(G.objs)
<1>1. G.bitmap \in SUBSET Positions /\ G.erased \in SUBSET Positions
  BY DEF Packed, GroupType
<1>2. /\ G.objs \in Seq(Values \cup {Destroyed}) /\ G.numItems \in 0 .. GroupSize
      /\ Len(G.objs) = Cardinality(G.bitmap) /\ G.numItems = Len(G.objs)
  BY DEF Packed, GroupType
<1>3. /\ \A i \in Positions : PosToOffset(G.bitmap, i) \in 0 .. Cardinality(G.bitmap)
      /\ \A i \in G.bitmap : PosToOffset(G.bitmap, i) < Cardinality(G.bitmap)
  BY <1>1, OffsetBounds
<1> QED  BY <1>1, <1>2, <1>3, BitmapFinite, GroupSizeType

LEMMA NewGroupFits == Fitting(NewGroup)
BY SizingOfNone, FS_EmptySet, GroupSizeType
   DEF Fitting, Packed, GroupType, NewGroup

LEMMA ClearedGroupFits ==
  ASSUME NEW G, Packed(G), NEW marks \in BOOLEAN, NEW S \in SUBSET Positions
  PROVE  /\ Fitting(ClearedGroup(G, marks))
         /\ Fitting([ClearedGroup(G, marks) EXCEPT !.erased = @ \cup S])
<1>1. G.erased \in SUBSET Positions
  BY PackedFacts
<1> DEFINE Blank(E) == [NewGroup EXCEPT !.erased = E]
<1>2. \A E \in SUBSET Positions : Fitting(Blank(E))
  <2> TAKE E \in SUBSET Positions
  <2> QED  BY NewGroupFits DEF Fitting, Packed, GroupType, NewGroup
<1>3. PICK E \in SUBSET Positions : ClearedGroup(G, marks) = Blank(E)
  BY <1>1 DEF ClearedGroup
<1>4. [Blank(E) EXCEPT !.erased = @ \cup S] = Blank(E \cup S)
  BY DEF NewGroup
<1> QED  BY <1>2, <1>3, <1>4

LEMMA ReallocatedPacked ==
  ASSUME NEW G, Packed(G), NEW n \in 0 .. GroupSize
  PROVE  /\ Packed(Reallocated(G, n))
         /\ Reallocated(G, n).cap = n
         /\ Reallocated(G, n).bitmap = G.bitmap
         /\ Reallocated(G, n).numItems = G.numItems
BY DEF Packed, GroupType, Reallocated

LEMMA ConstructedFits ==
  ASSUME NEW G, Packed(G), NEW i \in Positions \ G.bitmap, NEW v \in Values,
         G.cap = Sizing(G.numItems + 1)
  PROVE  Fitting(Constructed(G, i, v))
<1> DEFINE o == PosToOffset(G.bitmap, i)
           t == InsertAt(G.objs, o + 1, v)
           bm == G.bitmap \cup {i}
<1>1. /\ bm \in SUBSET Positions /\ (G.erased \ {i}) \in SUBSET Positions
      /\ bm \cap (G.erased \ {i}) = {}
  BY PackedFacts DEF Packed
<1>2. Cardinality(bm) = G.numItems + 1 /\ Cardinality(bm) \in 0 .. GroupSize
  BY <1>1, PackedFacts, FS_AddElement, BitmapFinite DEF Packed
<1>3. t \in Seq(Values \cup {Destroyed}) /\ Len(t) = G.numItems + 1
  <2> DEFINE S == Values \cup {Destroyed}
  <2>1. v \in S /\ o \in 0 .. Len(G.objs)
    BY PackedFacts
  <2>2. G.objs \in Seq(S) /\ G.numItems = Len(G.objs)
    BY PackedFacts DEF Packed
  <2> HIDE DEF o, S
  <2>3. t \in Seq(S) /\ Len(t) = Len(G.objs) + 1
    BY <2>1, <2>2, InsertedObject
  <2> QED  BY <2>2, <2>3 DEF S
<1>4. Constructed(G, i, v) =
        [G EXCEPT !.objs = t, !.bitmap = bm, !.numItems = G.numItems + 1,
                  !.erased = G.erased \ {i}]
  BY DEF Constructed, Packed, GroupType
<1> HIDE DEF t, bm
<1> QED  BY <1>1, <1>2, <1>3, <1>4, ZenonT(40) DEF Fitting, Packed, GroupType

LEMMA RemovedFits ==
  ASSUME NEW G, Packed(G), NEW i \in G.bitmap, G.cap = Sizing(G.numItems - 1)
  PROVE  Fitting(Removed(G, i))
<1> DEFINE o == PosToOffset(G.bitmap, i)
           t == RemoveAt(G.objs, o + 1)
           bm == G.bitmap \ {i}
<1>1. /\ bm \in SUBSET Positions /\ (G.erased \cup {i}) \in SUBSET Positions
      /\ bm \cap (G.erased \cup {i}) = {}
  BY PackedFacts DEF Packed
<1>2. Cardinality(bm) = G.numItems - 1 /\ Cardinality(bm) \in 0 .. GroupSize
  BY <1>1, PackedFacts, FS_RemoveElement, BitmapFinite DEF Packed
<1>3. t \in Seq(Values \cup {Destroyed}) /\ Len(t) = G.numItems - 1
  <2>1. o \in 0 .. Len(G.objs) - 1
    BY PackedFacts
  <2> HIDE DEF o
  <2> QED  BY <2>1, PackedFacts, RemovedObject DEF Packed
<1>4. Removed(G, i) =
        [G EXCEPT !.objs = t, !.bitmap = bm, !.numItems = G.numItems - 1,
                  !.erased = G.erased \cup {i}]
  BY DEF Removed, Packed, GroupType
<1> HIDE DEF t, bm
<1> QED  BY <1>1, <1>2, <1>3, <1>4, ZenonT(40) DEF Fitting, Packed, GroupType

-----------------------------------------------------------------------------
(* The inductive invariant.                                                *)

GroupInv ==
  /\ grp = [g \in Groups |-> grp[g]]
  /\ \A g \in Groups : Fitting(grp[g])

LEMMA OneGroupFits ==
  ASSUME GroupInv, NEW g \in Groups, NEW G, Fitting(G), grp' = [grp EXCEPT ![g] = G]
  PROVE  GroupInv'
BY DEF GroupInv

(* A group that has a free position is not at the limit.                   *)
LEMMA RoomForOneMore ==
  ASSUME NEW G, Packed(G), NEW i \in Positions \ G.bitmap
  PROVE  G.numItems \in 0 .. GroupSize - 1
<1>1. (G.bitmap \cup {i}) \in SUBSET Positions
  BY PackedFacts
<1>2. Cardinality(G.bitmap \cup {i}) = G.numItems + 1
  BY PackedFacts, FS_AddElement DEF Packed
<1> QED  BY <1>1, <1>2, BitmapFinite, GroupSizeType, PackedFacts

LEMMA GrownCapacityValue ==
  ASSUME NEW G, G.numItems \in 0 .. GroupSize - 1
  PROVE  /\ GrownCapacity(G) = Sizing(G.numItems + 1)
         /\ GrownCapacity(G) \in 0 .. GroupSize
<1>1. G.numItems + 1 \in 1 .. GroupSize
  BY GroupSizeType
<1> QED  BY <1>1, SizingBounds, GroupSizeType DEF GrownCapacity

LEMMA OverwriteKeeps ==
  ASSUME GroupInv, NEW g \in Groups, NEW i \in Positions, NEW v \in Values,
         Overwrite(g, i, v)
  PROVE  GroupInv'
<1> DEFINE G == grp[g]
           o == PosToOffset(G.bitmap, i)
           H == [G EXCEPT !.objs = [G.objs EXCEPT ![o + 1] = v], !.erased = G.erased \ {i}]
<1>1. Fitting(G) /\ Packed(G) /\ i \in G.bitmap
  BY DEF GroupInv, Fitting, Overwrite
<1>2. [G.objs EXCEPT ![o + 1] = v] \in Seq(Values \cup {Destroyed})
  BY <1>1, PackedFacts
<1>3. Len([G.objs EXCEPT ![o + 1] = v]) = Len(G.objs)
  BY <1>1, PackedFacts
<1>4. Fitting(H)
  BY <1>1, <1>2, <1>3 DEF Fitting, Packed, GroupType
<1>5. grp' = [grp EXCEPT ![g] = H]
  BY <1>1 DEF Overwrite, GroupInv
<1> HIDE DEF H
<1> QED  BY <1>4, <1>5, OneGroupFits

LEMMA SetNewKeeps ==
  ASSUME GroupInv, NEW g \in Groups, NEW i \in Positions, NEW v \in Values,
         SetNew(g, i, v)
  PROVE  GroupInv'
<1> DEFINE G == grp[g]
           n == GrownCapacity(G)
<1>1. Fitting(G) /\ Packed(G) /\ i \in Positions \ G.bitmap
  BY DEF GroupInv, Fitting, SetNew
<1>2. G.numItems \in 0 .. GroupSize - 1
  BY <1>1, RoomForOneMore
<1>3. CASE ~ IsFull(G) /\ grp' = [grp EXCEPT ![g] = Constructed(G, i, v)]
  <2>1. G.cap = Sizing(G.numItems + 1)
    BY <1>1, <1>2, <1>3, SizingStep DEF Fitting, IsFull
  <2>2. Fitting(Constructed(G, i, v))
    BY <1>1, <2>1, ConstructedFits
  <2> QED  BY <1>3, <2>2, OneGroupFits
<1>4. CASE grp' = [grp EXCEPT ![g] = Constructed(Reallocated(G, n), i, v)]
  <2>1. n = Sizing(G.numItems + 1) /\ n \in 0 .. GroupSize
    BY <1>2, GrownCapacityValue
  <2>2. /\ Packed(Reallocated(G, n)) /\ Reallocated(G, n).cap = n
        /\ Reallocated(G, n).bitmap = G.bitmap
        /\ Reallocated(G, n).numItems = G.numItems
    BY <1>1, <2>1, ReallocatedPacked
  <2>3. Fitting(Constructed(Reallocated(G, n), i, v))
    BY <1>1, <2>1, <2>2, ConstructedFits
  <2> QED  BY <1>4, <2>3, OneGroupFits
<1> QED  BY <1>3, <1>4 DEF SetNew

LEMMA SetFailsKeeps ==
  ASSUME GroupInv, NEW g \in Groups, NEW i \in Positions, SetFails(g, i)
  PROVE  GroupInv'
<1> DEFINE G == grp[g]
           n == IF Relocatable THEN G.numAlloc ELSE GrownCapacity(G)
           H == [G EXCEPT !.erased = G.erased \ {i}, !.numAlloc = n]
<1>1. Fitting(G) /\ Packed(G) /\ i \in Positions \ G.bitmap
  BY DEF GroupInv, Fitting, SetFails
<1>2. n \in 0 .. GroupSize
  BY <1>1, RoomForOneMore, GrownCapacityValue DEF Packed, GroupType
<1>3. grp' = [grp EXCEPT ![g] = H]
  BY DEF SetFails, GroupInv
<1> HIDE DEF n
<1>4. Fitting(H)
  BY <1>1, <1>2 DEF Fitting, Packed, GroupType
<1> HIDE DEF H
<1> QED  BY <1>3, <1>4, OneGroupFits

(* The size for one value less.                                            *)
LEMMA ShrunkCapacity ==
  ASSUME NEW G, Packed(G), G.numItems > 1
  PROVE  Sizing(G.numItems - 1) \in 0 .. GroupSize
<1>1. G.numItems - 1 \in 1 .. GroupSize
  BY PackedFacts, GroupSizeType
<1> QED  BY <1>1, SizingBounds, GroupSizeType

LEMMA EraseKeeps ==
  ASSUME GroupInv, NEW g \in Groups, NEW i \in Positions, Erase(g, i)
  PROVE  GroupInv'
<1> DEFINE G == grp[g]
           n == Sizing(G.numItems - 1)
<1>1. Fitting(G) /\ Packed(G) /\ i \in G.bitmap
  BY DEF GroupInv, Fitting, Erase
<1>2. CASE grp' = [grp EXCEPT ![g] = [ClearedGroup(G, FALSE) EXCEPT !.erased = @ \cup {i}]]
  <2>1. Fitting([ClearedGroup(G, FALSE) EXCEPT !.erased = @ \cup {i}])
    BY <1>1, ClearedGroupFits
  <2> QED  BY <1>2, <2>1, OneGroupFits
<1>3. CASE n = Sizing(G.numItems) /\ grp' = [grp EXCEPT ![g] = Removed(G, i)]
  <2>1. Fitting(Removed(G, i))
    BY <1>1, <1>3, RemovedFits DEF Fitting
  <2> QED  BY <1>3, <2>1, OneGroupFits
<1>4. CASE G.numItems > 1 /\ grp' = [grp EXCEPT ![g] = Removed(Reallocated(G, n), i)]
  <2>1. n \in 0 .. GroupSize
    BY <1>1, <1>4, ShrunkCapacity
  <2>2. /\ Packed(Reallocated(G, n)) /\ Reallocated(G, n).cap = n
        /\ Reallocated(G, n).bitmap = G.bitmap
        /\ Reallocated(G, n).numItems = G.numItems
    BY <1>1, <2>1, ReallocatedPacked
  <2>3. Fitting(Removed(Reallocated(G, n), i))
    BY <1>1, <2>2, RemovedFits
  <2> QED  BY <1>4, <2>3, OneGroupFits
<1> QED  BY <1>2, <1>3, <1>4 DEF Erase

LEMMA HalfRemovedObjects ==
  ASSUME NEW G, Packed(G), NEW i \in G.bitmap
  PROVE  /\ HalfRemoved(G, i) \in Seq(Values \cup {Destroyed})
         /\ Len(HalfRemoved(G, i)) = Len(G.objs)
<1> DEFINE S == Values \cup {Destroyed}
           o == PosToOffset(G.bitmap, i)
           t == RemoveAt(G.objs, o + 1)
           last == IF o + 1 = Len(G.objs) THEN Destroyed ELSE G.objs[Len(G.objs)]
<1>1. G.objs \in Seq(S) /\ o \in 0 .. Len(G.objs) - 1
  BY PackedFacts
<1>2. last \in S
  BY <1>1
<1>3. HalfRemoved(G, i) = Append(t, last)
  BY DEF HalfRemoved
<1> HIDE DEF S, o, last
<1>4. t \in Seq(S) /\ Len(t) = Len(G.objs) - 1
  BY <1>1, RemovedObject
<1> HIDE DEF t
<1>5. Append(t, last) \in Seq(S) /\ Len(Append(t, last)) = Len(G.objs)
  BY <1>1, <1>2, <1>4
<1> QED  BY <1>3, <1>5 DEF S

LEMMA EraseFailsKeeps ==
  ASSUME GroupInv, NEW g \in Groups, NEW i \in Positions, EraseFails(g, i)
  PROVE  GroupInv'
<1> DEFINE G == grp[g]
           n == Sizing(G.numItems - 1)
           t == IF Relocatable THEN HalfRemoved(G, i) ELSE G.objs
           H == [G EXCEPT !.numAlloc = n, !.objs = t]
<1>1. Fitting(G) /\ Packed(G) /\ i \in G.bitmap /\ G.numItems > 1
  BY DEF GroupInv, Fitting, EraseFails
<1>2. n \in 0 .. GroupSize
  BY <1>1, ShrunkCapacity
<1>3. t \in Seq(Values \cup {Destroyed}) /\ Len(t) = Len(G.objs)
  BY <1>1, HalfRemovedObjects, PackedFacts
<1>4. grp' = [grp EXCEPT ![g] = H]
  BY DEF EraseFails, GroupInv
<1> HIDE DEF n, t
<1>5. Fitting(H)
  BY <1>1, <1>2, <1>3 DEF Fitting, Packed, GroupType
<1> HIDE DEF H
<1> QED  BY <1>4, <1>5, OneGroupFits

LEMMA ClearKeeps ==
  ASSUME GroupInv, NEW g \in Groups, Clear(g)
  PROVE  GroupInv'
<1>1. Packed(grp[g])
  BY DEF GroupInv, Fitting
<1>2. Fitting(ClearedGroup(grp[g], TRUE))
  BY <1>1, ClearedGroupFits
<1> QED  BY <1>2, OneGroupFits DEF Clear

LEMMA CopyConstructKeeps ==
  ASSUME GroupInv, NEW g \in Groups, NEW h \in Groups, CopyConstruct(g, h)
  PROVE  GroupInv'
<1> DEFINE H == grp[h]
           n == Sizing(H.numItems)
<1>1. Packed(H)
  BY DEF GroupInv, Fitting
<1>2. n \in 0 .. GroupSize
  <2>1. H.numItems \in 0 .. GroupSize
    BY <1>1, PackedFacts
  <2>2. CASE H.numItems = 0
    BY <2>2, SizingOfNone, GroupSizeType
  <2>3. CASE H.numItems # 0
    <3>1. H.numItems \in 1 .. GroupSize
      BY <2>1, <2>3
    <3> QED  BY <3>1, SizingBounds, GroupSizeType
  <2> QED  BY <2>2, <2>3
<1>3. Fitting(Reallocated(H, n))
  BY <1>1, <1>2, ReallocatedPacked DEF Fitting
<1>4. \/ grp' = [grp EXCEPT ![g] = Reallocated(H, n)]
      \/ grp' = [grp EXCEPT ![g] = NewGroup]
  BY DEF CopyConstruct
<1> QED  BY <1>3, <1>4, NewGroupFits, OneGroupFits

LEMMA SwapKeeps ==
  ASSUME GroupInv, NEW g \in Groups, NEW h \in Groups, Swap(g, h)
  PROVE  GroupInv'
BY DEF GroupInv, Swap

LEMMA InitFits == Init => GroupInv
BY NewGroupFits DEF Init, GroupInv

LEMMA NextFits == GroupInv /\ [Next]_grp => GroupInv'
<1> SUFFICES ASSUME GroupInv, [Next]_grp  PROVE GroupInv'
  OBVIOUS
<1>1. ASSUME NEW g \in Groups, NEW i \in Positions, NEW v \in Values, Overwrite(g, i, v)
      PROVE  GroupInv'
  BY <1>1, OverwriteKeeps
<1>2. ASSUME NEW g \in Groups, NEW i \in Positions, NEW v \in Values, SetNew(g, i, v)
      PROVE  GroupInv'
  BY <1>2, SetNewKeeps
<1>3. ASSUME NEW g \in Groups, NEW i \in Positions, SetFails(g, i)
      PROVE  GroupInv'
  BY <1>3, SetFailsKeeps
<1>4. ASSUME NEW g \in Groups, NEW i \in Positions, Erase(g, i)
      PROVE  GroupInv'
  BY <1>4, EraseKeeps
<1>5. ASSUME NEW g \in Groups, NEW i \in Positions, EraseFails(g, i)
      PROVE  GroupInv'
  BY <1>5, EraseFailsKeeps
<1>6. ASSUME NEW g \in Groups, Clear(g)
      PROVE  GroupInv'
  BY <1>6, ClearKeeps
<1>7. ASSUME NEW g \in Groups, NEW h \in Groups, CopyConstruct(g, h)
      PROVE  GroupInv'
  BY <1>7, CopyConstructKeeps
<1>8. ASSUME NEW g \in Groups, NEW h \in Groups, Swap(g, h)
      PROVE  GroupInv'
  BY <1>8, SwapKeeps
<1>9. CASE UNCHANGED grp
  BY <1>9 DEF GroupInv
<1> QED  BY <1>1, <1>2, <1>3, <1>4, <1>5, <1>6, <1>7, <1>8, <1>9 DEF Next

LEMMA GroupsFit == Spec => []GroupInv
BY InitFits, NextFits, PTL DEF Spec

LEMMA FitGroups ==
  ASSUME GroupInv, NEW g \in Groups
  PROVE  /\ Packed(grp[g]) /\ grp[g] \in GroupType
         /\ grp[g].cap = Sizing(grp[g].numItems)
         /\ grp[g].numItems \in 0 .. GroupSize
BY DEF GroupInv, Fitting, Packed, GroupType

-----------------------------------------------------------------------------
(* Theorems about every group, whichever allocations fail.                 *)

(* Groups stay well formed: no position is both full and erased.           *)
THEOREM TypeCorrect == Spec => []TypeOK
<1>1. GroupInv => TypeOK
  BY FitGroups DEF GroupInv, TypeOK, Packed
<1> QED  BY <1>1, GroupsFit, PTL

(* The capacity is the one computed from the count, and suffices.          *)
THEOREM CapacityIsDerived == Spec => []CapacityDerived
<1>1. ASSUME NEW n \in 0 .. GroupSize  PROVE n <= Sizing(n)
  <2>1. CASE n = 0
    BY <2>1, SizingOfNone
  <2>2. CASE n # 0
    <3>1. n \in 1 .. GroupSize
      BY <2>2, GroupSizeType
    <3> QED  BY <3>1, SizingBounds, GroupSizeType
  <2> QED  BY <2>1, <2>2
<1>2. GroupInv => CapacityDerived
  BY <1>1, FitGroups DEF CapacityDerived, Packed
<1> QED  BY <1>2, GroupsFit, PTL
-----------------------------------------------------------------------------
(* The recorded size.                                                      *)

(* If an array is grown in place or never fails to grow, and never fails to *)
(* shrink, the size recorded for it is the one it has: what deallocate is   *)
(* told is right.  _allocate_group records it before it has the array.      *)
THEOREM SizeIsKnown ==
  (Relocatable \/ ~ StorageFails) /\ ~ ShrinkFails => (Spec => []SizeKnown)
<1> DEFINE Recorded == \A g \in Groups : grp[g].numAlloc = grp[g].cap
<1> SUFFICES ASSUME Relocatable \/ ~ StorageFails, ~ ShrinkFails
             PROVE  Spec => []SizeKnown
  OBVIOUS
<1>1. Init => Recorded
  BY DEF Init, NewGroup
<1>2. GroupInv /\ Recorded /\ [Next]_grp => Recorded'
  <2> SUFFICES ASSUME GroupInv, Recorded, [Next]_grp  PROVE Recorded'
    OBVIOUS
  <2>1. ASSUME NEW g \in Groups, NEW G, G.numAlloc = G.cap, grp' = [grp EXCEPT ![g] = G]
        PROVE  Recorded'
    BY <2>1 DEF GroupInv
  <2>2. ASSUME NEW g \in Groups
        PROVE  Packed(grp[g]) /\ grp[g] \in GroupType /\ grp[g].numAlloc = grp[g].cap
    BY <2>2, FitGroups
  <2>3. ASSUME NEW g \in Groups, NEW i \in Positions, NEW v \in Values, Overwrite(g, i, v)
        PROVE  Recorded'
    <3> DEFINE H == [grp[g] EXCEPT !.objs[PosToOffset(grp[g].bitmap, i) + 1] = v,
                                   !.erased = @ \ {i}]
    <3>1. H.numAlloc = H.cap
      BY <2>2, <2>3 DEF GroupType
    <3>2. grp' = [grp EXCEPT ![g] = H]
      BY <2>3 DEF Overwrite, GroupInv
    <3> HIDE DEF H
    <3> QED  BY <2>1, <3>1, <3>2
  <2>4. ASSUME NEW g \in Groups, NEW i \in Positions, NEW v \in Values, SetNew(g, i, v)
        PROVE  Recorded'
    <3> DEFINE R == Reallocated(grp[g], GrownCapacity(grp[g]))
    <3>1. R.numAlloc = R.cap
      BY <2>2 DEF Reallocated, GroupType
    <3>2. PICK K \in {grp[g], R} : grp' = [grp EXCEPT ![g] = Constructed(K, i, v)]
      BY <2>4 DEF SetNew
    <3>3. Constructed(K, i, v).numAlloc = Constructed(K, i, v).cap
      BY <2>2, <3>1, ZenonT(40) DEF Constructed, Reallocated, GroupType
    <3> QED  BY <2>1, <3>2, <3>3
  <2>5. ASSUME NEW g \in Groups, NEW i \in Positions, SetFails(g, i)
        PROVE  Recorded'
    <3> DEFINE H == [grp[g] EXCEPT !.erased = @ \ {i}, !.numAlloc = @]
    <3>1. H.numAlloc = H.cap
      BY <2>2 DEF GroupType
    <3>2. Relocatable /\ grp' = [grp EXCEPT ![g] = H]
      BY <2>5 DEF SetFails, GroupInv
    <3> HIDE DEF H
    <3> QED  BY <2>1, <3>1, <3>2
  <2>6. ASSUME NEW g \in Groups, NEW i \in Positions, Erase(g, i)
        PROVE  Recorded'
    <3> DEFINE R == Reallocated(grp[g], Sizing(grp[g].numItems - 1))
               N == [ClearedGroup(grp[g], FALSE) EXCEPT !.erased = @ \cup {i}]
    <3>1. R.numAlloc = R.cap /\ N.numAlloc = N.cap
      BY <2>2 DEF Reallocated, GroupType, ClearedGroup, NewGroup
    <3>2. ASSUME NEW K \in {grp[g], R}
          PROVE  Removed(K, i).numAlloc = Removed(K, i).cap
      BY <2>2, <3>1, <3>2, ZenonT(40) DEF Removed, Reallocated, GroupType
    <3>3. \/ grp' = [grp EXCEPT ![g] = N]
          \/ \E K \in {grp[g], R} : grp' = [grp EXCEPT ![g] = Removed(K, i)]
      BY <2>6 DEF Erase
    <3> HIDE DEF N, R
    <3> QED  BY <2>1, <3>1, <3>2, <3>3
  <2>7. ASSUME NEW g \in Groups, Clear(g)
        PROVE  Recorded'
    <3>1. ClearedGroup(grp[g], TRUE).numAlloc = ClearedGroup(grp[g], TRUE).cap
      BY DEF ClearedGroup, NewGroup
    <3> QED  BY <2>1, <2>7, <3>1 DEF Clear, GroupInv
  <2>8. ASSUME NEW g \in Groups, NEW h \in Groups, CopyConstruct(g, h)
        PROVE  Recorded'
    <3> DEFINE R == Reallocated(grp[h], Sizing(grp[h].numItems))
    <3>1. R.numAlloc = R.cap /\ NewGroup.numAlloc = NewGroup.cap
      BY <2>2 DEF Reallocated, GroupType, NewGroup
    <3>2. grp' = [grp EXCEPT ![g] = R] \/ grp' = [grp EXCEPT ![g] = NewGroup]
      BY <2>8 DEF CopyConstruct
    <3> QED  BY <2>1, <3>1, <3>2
  <2>9. ASSUME NEW g \in Groups, NEW h \in Groups, Swap(g, h)
        PROVE  Recorded'
    BY <2>9 DEF Swap, GroupInv
  <2>10. ASSUME NEW g \in Groups, NEW i \in Positions, EraseFails(g, i)
         PROVE  Recorded'
    BY <2>10 DEF EraseFails
  <2>11. CASE UNCHANGED grp
    BY <2>11
  <2> QED
    BY <2>3, <2>4, <2>5, <2>6, <2>7, <2>8, <2>9, <2>10, <2>11 DEF Next
<1>3. Recorded => SizeKnown
  BY DEF SizeKnown
<1> QED  BY <1>1, <1>2, <1>3, GroupsFit, PTL DEF Spec

-----------------------------------------------------------------------------
(* SparseGroup implements CellArray: packing values in a compact array     *)
(* cannot be told from having one cell per position.                       *)

(* An array that is made smaller in place is made smaller after a value    *)
(* was destroyed and others moved: if reallocate throws then, the bitmap   *)
(* still counts the value, and the last slot is no object of its own.      *)
Whole == ~ (Relocatable /\ ShrinkFails)

-----------------------------------------------------------------------------
(* Values of groups.                                                       *)

CellsOf(G) == [i \in Positions |-> CellAt(G, i)]

(* What is in a position without a value.                                  *)
LEMMA CellOfGap ==
  ASSUME NEW G, NEW i, i \notin G.bitmap
  PROVE  CellAt(G, i) = IF i \in G.erased THEN Erased ELSE Empty
BY DEF CellAt

LEMMA CellOfValue ==
  ASSUME NEW G, NEW i, i \in G.bitmap
  PROVE  CellAt(G, i) = G.objs[PosToOffset(G.bitmap, i) + 1]
BY DEF CellAt, ValueAt

LEMMA ConstructedCells ==
  ASSUME NEW G, Packed(G), G.objs \in Seq(Values),
         NEW i \in Positions \ G.bitmap, NEW v \in Values
  PROVE  LET H == Constructed(G, i, v)
         IN  /\ H.objs \in Seq(Values)
             /\ CellsOf(H) = [CellsOf(G) EXCEPT ![i] = v]
<1> DEFINE H == Constructed(G, i, v)
           s == G.objs
           o == PosToOffset(G.bitmap, i)
           t == InsertAt(s, o + 1, v)
<1>1. /\ G.bitmap \in SUBSET Positions /\ Positions \subseteq Nat
      /\ o \in 0 .. Len(s) /\ Len(s) \in Nat
      /\ \A j \in G.bitmap : PosToOffset(G.bitmap, j) \in 0 .. Len(s) - 1
  BY PackedFacts, PositionType
<1>2. H.bitmap = G.bitmap \cup {i} /\ H.erased = G.erased \ {i} /\ H.objs = t
  BY DEF Constructed, Packed, GroupType
<1>3. /\ t \in Seq(Values) /\ Len(t) = Len(s) + 1
      /\ \A k \in 1 .. Len(s) + 1 :
           t[k] = IF k <= o THEN s[k] ELSE IF k = o + 1 THEN v ELSE s[k - 1]
  <2>1. s \in Seq(Values) /\ v \in Values /\ o \in 0 .. Len(s)
    BY <1>1
  <2> HIDE DEF o, s
  <2> QED  BY <2>1, InsertedObject
<1> HIDE DEF H, t
<1>4. ASSUME NEW j \in Positions  PROVE CellAt(H, j) = IF j = i THEN v ELSE CellAt(G, j)
  <2> DEFINE p == PosToOffset(G.bitmap, j)
             q == PosToOffset(H.bitmap, j)
  <2>1. q = IF i < j THEN p + 1 ELSE p
    BY <1>1, <1>2, OffsetAfterSet
  <2>2. CASE j = i
    <3>1. q = o
      BY <1>1, <2>1, <2>2
    <3>2. CellAt(H, j) = t[q + 1]
      BY <1>2, <2>2, CellOfValue
    <3> QED  BY <1>1, <1>3, <2>2, <3>1, <3>2
  <2>3. CASE j \in G.bitmap
    <3>1. CellAt(H, j) = t[q + 1] /\ CellAt(G, j) = s[p + 1]
      BY <1>2, <2>3, CellOfValue
    <3>2. p \in 0 .. Len(s) - 1 /\ j # i
      BY <1>1, <2>3
    <3>3. CASE j < i
      <4>1. p < o
        BY <1>1, <2>3, <3>3, OffsetOrder
      <4>2. q = p
        BY <1>1, <2>1, <3>3
      <4>3. q + 1 \in 1 .. Len(s) + 1 /\ q + 1 <= o
        BY <1>1, <3>2, <4>1, <4>2
      <4>4. t[q + 1] = s[q + 1]
        BY <1>3, <4>3
      <4> QED  BY <3>1, <3>2, <4>2, <4>4
    <3>4. CASE i < j
      <4>1. o <= p
        BY <1>1, <2>3, <3>4, OffsetOrder
      <4>2. q = p + 1
        BY <2>1, <3>4
      <4>3. /\ q + 1 \in 1 .. Len(s) + 1 /\ ~ (q + 1 <= o) /\ q + 1 # o + 1
            /\ (q + 1) - 1 = p + 1
        BY <1>1, <3>2, <4>1, <4>2
      <4>4. t[q + 1] = s[(q + 1) - 1]
        BY <1>3, <4>3
      <4> QED  BY <3>1, <3>2, <4>3, <4>4
    <3> QED  BY <1>1, <2>3, <3>2, <3>3, <3>4
  <2>4. CASE j # i /\ j \notin G.bitmap
    BY <1>2, <2>4, CellOfGap
  <2> QED  BY <2>2, <2>3, <2>4
<1>5. CellsOf(H) = [CellsOf(G) EXCEPT ![i] = v]
  BY <1>1, <1>4 DEF CellsOf
<1> QED  BY <1>2, <1>3, <1>5 DEF H

LEMMA RemovedCells ==
  ASSUME NEW G, Packed(G), G.objs \in Seq(Values), NEW i \in G.bitmap
  PROVE  LET H == Removed(G, i)
         IN  /\ H.objs \in Seq(Values)
             /\ CellsOf(H) = [CellsOf(G) EXCEPT ![i] = Erased]
<1> DEFINE H == Removed(G, i)
           s == G.objs
           o == PosToOffset(G.bitmap, i)
           t == RemoveAt(s, o + 1)
<1>1. /\ G.bitmap \in SUBSET Positions /\ Positions \subseteq Nat
      /\ o \in 0 .. Len(s) - 1 /\ Len(s) \in Nat
      /\ \A j \in G.bitmap : PosToOffset(G.bitmap, j) \in 0 .. Len(s) - 1
  BY PackedFacts, PositionType
<1>2. H.bitmap = G.bitmap \ {i} /\ H.erased = G.erased \cup {i} /\ H.objs = t
  BY DEF Removed, Packed, GroupType
<1>3. /\ t \in Seq(Values) /\ Len(t) = Len(s) - 1
      /\ \A k \in 1 .. Len(s) - 1 : t[k] = IF k <= o THEN s[k] ELSE s[k + 1]
  <2> HIDE DEF o
  <2> QED  BY <1>1, RemovedObject
<1> HIDE DEF H, t
<1>4. ASSUME NEW j \in Positions
      PROVE  CellAt(H, j) = IF j = i THEN Erased ELSE CellAt(G, j)
  <2> DEFINE p == PosToOffset(G.bitmap, j)
             q == PosToOffset(H.bitmap, j)
  <2>1. q = IF i < j THEN p - 1 ELSE p
    <3>1. PosToOffset(G.bitmap \ {i}, j) = IF i < j THEN p - 1 ELSE p
      BY <1>1, OffsetAfterClear
    <3> QED  BY <1>2, <3>1
  <2>2. CASE j = i
    BY <1>2, <2>2, CellOfGap
  <2>3. CASE j \in G.bitmap /\ j # i
    <3>1. CellAt(H, j) = t[q + 1] /\ CellAt(G, j) = s[p + 1]
      BY <1>2, <2>3, CellOfValue
    <3>2. p \in 0 .. Len(s) - 1 /\ j # i
      BY <1>1, <2>3
    <3>3. CASE j < i
      <4>1. p < o
        BY <1>1, <2>3, <3>3, OffsetOrder
      <4>2. q = p
        BY <1>1, <2>1, <3>3
      <4>3. q + 1 \in 1 .. Len(s) - 1 /\ q + 1 <= o
        BY <1>1, <3>2, <4>1, <4>2
      <4>4. t[q + 1] = s[q + 1]
        BY <1>3, <4>3
      <4> QED  BY <3>1, <3>2, <4>2, <4>4
    <3>4. CASE i < j
      <4>1. o < p
        BY <1>1, <2>3, <3>4, OffsetOrder
      <4>2. q = p - 1
        BY <2>1, <3>4
      <4>3. q + 1 \in 1 .. Len(s) - 1 /\ ~ (q + 1 <= o) /\ (q + 1) + 1 = p + 1
        BY <1>1, <3>2, <4>1, <4>2
      <4>4. t[q + 1] = s[(q + 1) + 1]
        BY <1>3, <4>3
      <4> QED  BY <3>1, <3>2, <4>3, <4>4
    <3>5. j < i \/ i < j
      BY <1>1, <3>2
    <3> QED  BY <3>3, <3>4, <3>5
  <2>4. CASE j # i /\ j \notin G.bitmap
    BY <1>2, <2>4, CellOfGap
  <2> QED  BY <2>2, <2>3, <2>4
<1>5. CellsOf(H) = [CellsOf(G) EXCEPT ![i] = Erased]
  BY <1>1, <1>4 DEF CellsOf
<1> QED  BY <1>2, <1>3, <1>5 DEF H

LEMMA ReallocatedCells ==
  ASSUME NEW G, Packed(G), NEW n
  PROVE  /\ Reallocated(G, n).objs = G.objs
         /\ CellsOf(Reallocated(G, n)) = CellsOf(G)
BY DEF Reallocated, Packed, GroupType, CellsOf, CellAt, ValueAt

LEMMA OverwrittenCells ==
  ASSUME NEW G, Packed(G), G.objs \in Seq(Values), NEW i \in G.bitmap, NEW v \in Values,
         NEW H, H = [G EXCEPT !.objs[PosToOffset(G.bitmap, i) + 1] = v,
                              !.erased = @ \ {i}]
  PROVE  /\ H.objs \in Seq(Values)
         /\ CellsOf(H) = [CellsOf(G) EXCEPT ![i] = v]
<1> DEFINE s == G.objs
           o == PosToOffset(G.bitmap, i)
           t == [s EXCEPT ![o + 1] = v]
<1>1. /\ G.bitmap \in SUBSET Positions /\ Positions \subseteq Nat
      /\ o \in 0 .. Len(s) - 1 /\ Len(s) \in Nat
      /\ \A j \in G.bitmap : PosToOffset(G.bitmap, j) \in 0 .. Len(s) - 1
  BY PackedFacts, PositionType
<1>2. H.bitmap = G.bitmap /\ H.erased = G.erased \ {i} /\ H.objs = t
  BY DEF Packed, GroupType
<1>3. t \in Seq(Values) /\ \A k \in 1 .. Len(s) : t[k] = IF k = o + 1 THEN v ELSE s[k]
  BY <1>1
<1> HIDE DEF t
<1>4. ASSUME NEW j \in G.bitmap  PROVE CellAt(H, j) = IF j = i THEN v ELSE CellAt(G, j)
  <2> DEFINE p == PosToOffset(G.bitmap, j)
  <2>1. CellAt(H, j) = t[p + 1] /\ CellAt(G, j) = s[p + 1]
    BY <1>2, CellOfValue
  <2>2. j # i => p # o
    BY <1>1, OffsetOrder
  <2>3. p \in 0 .. Len(s) - 1
    BY <1>1
  <2>4. t[p + 1] = IF p + 1 = o + 1 THEN v ELSE s[p + 1]
    BY <1>1, <1>3, <2>3
  <2> QED  BY <1>1, <2>1, <2>2, <2>3, <2>4
<1>5. ASSUME NEW j \in Positions \ G.bitmap  PROVE CellAt(H, j) = CellAt(G, j) /\ j # i
  BY <1>2, CellOfGap
<1>6. CellsOf(H) = [CellsOf(G) EXCEPT ![i] = v]
  BY <1>1, <1>4, <1>5 DEF CellsOf
<1> QED  BY <1>2, <1>3, <1>6

-----------------------------------------------------------------------------
(* Steps.                                                                  *)

(* No group holds the remains of a destroyed object.                       *)
CellInv == GroupInv /\ \A g \in Groups : grp[g].objs \in Seq(Values)

LEMMA GroupFacts ==
  ASSUME CellInv, NEW g \in Groups
  PROVE  Packed(grp[g]) /\ grp[g].objs \in Seq(Values) /\ GroupInv
BY FitGroups DEF CellInv

LEMMA CellsFacts == Cells = [g \in Groups |-> CellsOf(grp[g])]
BY DEF Cells, CellsOf

(* Replacing one group changes the cells of that array only.               *)
LEMMA OneGroupCells ==
  ASSUME CellInv, NEW g \in Groups, NEW G, grp' = [grp EXCEPT ![g] = G],
         G.objs \in Seq(Values), GroupInv'
  PROVE  /\ CellInv'
         /\ Cells' = [Cells EXCEPT ![g] = CellsOf(G)]
<1>1. grp'[g] = G /\ \A h \in Groups \ {g} : grp'[h] = grp[h]
  BY DEF CellInv, GroupInv
<1>2. CellInv'
  BY <1>1 DEF CellInv
<1>3. Cells' = [h \in Groups |-> CellsOf(grp'[h])]
  BY DEF Cells, CellsOf
<1>4. \A h \in Groups : CellsOf(grp'[h]) = IF h = g THEN CellsOf(G) ELSE CellsOf(grp[h])
  BY <1>1
<1> QED  BY <1>2, <1>3, <1>4, CellsFacts

LEMMA OverwriteSets ==
  ASSUME CellInv, NEW g \in Groups, NEW i \in Positions, NEW v \in Values,
         Overwrite(g, i, v)
  PROVE  CellInv' /\ Abstract!Set(g, i, v)
<1> DEFINE G == grp[g]
           H == [G EXCEPT !.objs[PosToOffset(G.bitmap, i) + 1] = v, !.erased = @ \ {i}]
<1>1. Packed(G) /\ G.objs \in Seq(Values) /\ GroupInv /\ i \in G.bitmap
  BY GroupFacts DEF Overwrite
<1>2. GroupInv'
  BY <1>1, OverwriteKeeps
<1>3. grp' = [grp EXCEPT ![g] = H]
  BY <1>1 DEF Overwrite, GroupInv
<1>4. H.objs \in Seq(Values) /\ CellsOf(H) = [CellsOf(G) EXCEPT ![i] = v]
  BY <1>1, OverwrittenCells
<1> HIDE DEF H
<1>5. CellInv' /\ Cells' = [Cells EXCEPT ![g] = CellsOf(H)]
  BY <1>2, <1>3, <1>4, OneGroupCells
<1> QED  BY <1>4, <1>5, CellsFacts DEF Abstract!Set

LEMMA SetNewSets ==
  ASSUME CellInv, NEW g \in Groups, NEW i \in Positions, NEW v \in Values,
         SetNew(g, i, v)
  PROVE  CellInv' /\ Abstract!Set(g, i, v)
<1> DEFINE G == grp[g]
           R == Reallocated(G, GrownCapacity(G))
<1>1. Packed(G) /\ G.objs \in Seq(Values) /\ GroupInv /\ i \in Positions \ G.bitmap
  BY GroupFacts DEF SetNew
<1>2. GroupInv'
  BY <1>1, SetNewKeeps
<1>3. /\ Packed(R) /\ R.objs \in Seq(Values) /\ i \in Positions \ R.bitmap
      /\ CellsOf(R) = CellsOf(G)
  <2>1. GrownCapacity(G) \in 0 .. GroupSize
    BY <1>1, RoomForOneMore, GrownCapacityValue
  <2> QED  BY <1>1, <2>1, ReallocatedPacked, ReallocatedCells
<1> HIDE DEF R
<1>4. PICK K \in {G, R} : grp' = [grp EXCEPT ![g] = Constructed(K, i, v)]
  BY DEF SetNew, R
<1> DEFINE H == Constructed(K, i, v)
<1>5. H.objs \in Seq(Values) /\ CellsOf(H) = [CellsOf(G) EXCEPT ![i] = v]
  BY <1>1, <1>3, ConstructedCells
<1>6. grp' = [grp EXCEPT ![g] = H]
  BY <1>4
<1> HIDE DEF H
<1>7. CellInv' /\ Cells' = [Cells EXCEPT ![g] = CellsOf(H)]
  BY <1>2, <1>5, <1>6, OneGroupCells
<1> QED  BY <1>5, <1>7, CellsFacts DEF Abstract!Set

LEMMA SetFailsForgets ==
  ASSUME CellInv, NEW g \in Groups, NEW i \in Positions, SetFails(g, i)
  PROVE  CellInv' /\ (Abstract!Forget(g, i) \/ Cells' = Cells)
<1> DEFINE G == grp[g]
           n == IF Relocatable THEN G.numAlloc ELSE GrownCapacity(G)
           H == [G EXCEPT !.erased = G.erased \ {i}, !.numAlloc = n]
<1>1. /\ Packed(G) /\ G.objs \in Seq(Values) /\ GroupInv
      /\ i \in Positions \ G.bitmap /\ StorageFails
  BY GroupFacts DEF SetFails
<1>2. GroupInv'
  BY <1>1, SetFailsKeeps
<1>3. grp' = [grp EXCEPT ![g] = H]
  BY <1>1 DEF SetFails, GroupInv
<1> HIDE DEF n
<1>4. H.objs = G.objs /\ H.bitmap = G.bitmap /\ H.erased = G.erased \ {i}
  BY <1>1 DEF Packed, GroupType
<1> HIDE DEF H
<1>5. CellInv' /\ Cells' = [Cells EXCEPT ![g] = CellsOf(H)]
  BY <1>1, <1>2, <1>3, <1>4, OneGroupCells
<1>6. \A j \in Positions : CellAt(H, j) = IF j = i THEN Empty ELSE CellAt(G, j)
  BY <1>1, <1>4 DEF CellAt, ValueAt
<1>7. CASE i \in G.erased
  <2>1. CellsOf(H) = [CellsOf(G) EXCEPT ![i] = Empty]
    BY <1>6 DEF CellsOf
  <2>2. CellsOf(G)[i] = Erased
    BY <1>1, <1>7, CellOfGap DEF CellsOf
  <2> QED  BY <1>1, <1>5, <2>1, <2>2, CellsFacts DEF Abstract!Forget
<1>8. CASE i \notin G.erased
  <2>1. CellAt(G, i) = Empty
    BY <1>1, <1>8, CellOfGap
  <2>2. CellsOf(H) = CellsOf(G)
    BY <1>6, <2>1 DEF CellsOf
  <2> QED  BY <1>5, <2>2, CellsFacts
<1> QED  BY <1>7, <1>8

LEMMA EraseErases ==
  ASSUME CellInv, NEW g \in Groups, NEW i \in Positions, Erase(g, i)
  PROVE  CellInv' /\ Abstract!Erase(g, i)
<1> DEFINE G == grp[g]
           n == Sizing(G.numItems - 1)
           R == Reallocated(G, n)
           N == [ClearedGroup(G, FALSE) EXCEPT !.erased = @ \cup {i}]
<1>1. Packed(G) /\ G.objs \in Seq(Values) /\ GroupInv /\ i \in G.bitmap
  BY GroupFacts DEF Erase
<1>2. GroupInv'
  BY <1>1, EraseKeeps
<1>3. ASSUME G.numItems = 1
      PROVE  N.objs \in Seq(Values) /\ CellsOf(N) = [CellsOf(G) EXCEPT ![i] = Erased]
  <2>1. G.bitmap = {i}
    <3>1. IsFiniteSet(G.bitmap) /\ Cardinality(G.bitmap) = 1
      BY <1>1, <1>3, PackedFacts DEF Packed
    <3>2. \E x : G.bitmap = {x}
      BY <3>1, FS_Singleton
    <3> QED  BY <1>1, <3>2
  <2>2. N.bitmap = {} /\ N.erased = G.erased \cup {i} /\ N.objs = <<>>
    BY DEF ClearedGroup, NewGroup
  <2> HIDE DEF N
  <2>3. \A j \in Positions : CellAt(N, j) = IF j = i THEN Erased ELSE CellAt(G, j)
    BY <2>1, <2>2, CellOfGap
  <2>4. CellsOf(N) = [CellsOf(G) EXCEPT ![i] = Erased]
    BY <2>3 DEF CellsOf
  <2> QED  BY <2>2, <2>4
<1>4. ASSUME NEW K \in {G, R}, G.numItems > 1
      PROVE  /\ Removed(K, i).objs \in Seq(Values)
             /\ CellsOf(Removed(K, i)) = [CellsOf(G) EXCEPT ![i] = Erased]
  <2>1. n \in 0 .. GroupSize
    BY <1>1, <1>4, ShrunkCapacity
  <2>2. Packed(R) /\ R.objs \in Seq(Values) /\ i \in R.bitmap /\ CellsOf(R) = CellsOf(G)
    BY <1>1, <2>1, ReallocatedPacked, ReallocatedCells
  <2> HIDE DEF R
  <2> QED  BY <1>1, <2>2, RemovedCells
<1>5. \/ G.numItems = 1 /\ grp' = [grp EXCEPT ![g] = N]
      \/ G.numItems > 1 /\ \E K \in {G, R} : grp' = [grp EXCEPT ![g] = Removed(K, i)]
  BY DEF Erase
<1>6. PICK H : /\ grp' = [grp EXCEPT ![g] = H] /\ H.objs \in Seq(Values)
               /\ CellsOf(H) = [CellsOf(G) EXCEPT ![i] = Erased]
  <2> HIDE DEF N, R
  <2> QED  BY <1>3, <1>4, <1>5
<1>7. CellInv' /\ Cells' = [Cells EXCEPT ![g] = CellsOf(H)]
  BY <1>2, <1>6, OneGroupCells
<1>8. CellsOf(G)[i] \in Values
  BY <1>1, PackedFacts, CellOfValue DEF CellsOf
<1> QED  BY <1>6, <1>7, <1>8, CellsFacts DEF Abstract!Erase

(* A failed erasure has done nothing the array above could see.            *)
LEMMA EraseFailsStutters ==
  ASSUME Whole, CellInv, NEW g \in Groups, NEW i \in Positions, EraseFails(g, i)
  PROVE  CellInv' /\ Cells' = Cells
<1> DEFINE G == grp[g]
           H == [G EXCEPT !.numAlloc = Sizing(G.numItems - 1), !.objs = G.objs]
<1>1. Packed(G) /\ G.objs \in Seq(Values) /\ GroupInv /\ ~ Relocatable
  BY GroupFacts DEF EraseFails, Whole
<1>2. GroupInv'
  BY <1>1, EraseFailsKeeps
<1>3. grp' = [grp EXCEPT ![g] = H]
  BY <1>1 DEF EraseFails, GroupInv
<1>4. H.objs = G.objs /\ H.bitmap = G.bitmap /\ H.erased = G.erased
  BY <1>1 DEF Packed, GroupType
<1> HIDE DEF H
<1>5. CellsOf(H) = CellsOf(G)
  BY <1>4 DEF CellsOf, CellAt, ValueAt
<1>6. CellInv' /\ Cells' = [Cells EXCEPT ![g] = CellsOf(H)]
  BY <1>1, <1>2, <1>3, <1>4, OneGroupCells
<1> QED  BY <1>5, <1>6, CellsFacts

LEMMA VacantGroup ==
  ASSUME NEW G, G.bitmap = {}, G.erased = {}
  PROVE  CellsOf(G) = Abstract!Vacated
BY DEF CellsOf, CellAt, Abstract!Vacated

LEMMA ClearClears ==
  ASSUME CellInv, NEW g \in Groups, Clear(g)
  PROVE  CellInv' /\ Abstract!Clear(g)
<1> DEFINE H == ClearedGroup(grp[g], TRUE)
<1>1. GroupInv' /\ grp' = [grp EXCEPT ![g] = H]
  BY ClearKeeps DEF Clear, CellInv
<1>2. H.objs \in Seq(Values) /\ H.bitmap = {} /\ H.erased = {}
  BY DEF ClearedGroup, NewGroup
<1> HIDE DEF H
<1>3. CellInv' /\ Cells' = [Cells EXCEPT ![g] = CellsOf(H)]
  BY <1>1, <1>2, OneGroupCells
<1> QED  BY <1>2, <1>3, VacantGroup DEF Abstract!Clear

LEMMA CopyConstructCopies ==
  ASSUME CellInv, NEW g \in Groups, NEW h \in Groups, CopyConstruct(g, h)
  PROVE  CellInv' /\ (Abstract!Copy(g, h) \/ Abstract!Clear(g))
<1> DEFINE R == Reallocated(grp[h], Sizing(grp[h].numItems))
<1>1. GroupInv' /\ Packed(grp[h]) /\ grp[h].objs \in Seq(Values)
  BY CopyConstructKeeps, GroupFacts
<1>2. CASE grp' = [grp EXCEPT ![g] = R]
  <2>1. R.objs \in Seq(Values) /\ CellsOf(R) = CellsOf(grp[h])
    BY <1>1, ReallocatedCells
  <2> HIDE DEF R
  <2>2. CellInv' /\ Cells' = [Cells EXCEPT ![g] = CellsOf(R)]
    BY <1>1, <1>2, <2>1, OneGroupCells
  <2> QED  BY <2>1, <2>2, CellsFacts DEF Abstract!Copy
<1>3. CASE grp' = [grp EXCEPT ![g] = NewGroup]
  <2>1. NewGroup.objs \in Seq(Values) /\ NewGroup.bitmap = {} /\ NewGroup.erased = {}
    BY DEF NewGroup
  <2>2. CellInv' /\ Cells' = [Cells EXCEPT ![g] = CellsOf(NewGroup)]
    BY <1>1, <1>3, <2>1, OneGroupCells
  <2> QED  BY <2>1, <2>2, VacantGroup DEF Abstract!Clear
<1> QED  BY <1>2, <1>3 DEF CopyConstruct

LEMMA SwapSwaps ==
  ASSUME CellInv, NEW g \in Groups, NEW h \in Groups, Swap(g, h)
  PROVE  CellInv' /\ Abstract!Swap(g, h)
<1>1. GroupInv' /\ grp' = [grp EXCEPT ![g] = grp[h], ![h] = grp[g]]
  BY SwapKeeps DEF Swap, CellInv
<1>2. CellInv'
  BY <1>1 DEF CellInv, GroupInv
<1>3. Cells' = [f \in Groups |-> CellsOf(grp'[f])]
  BY DEF Cells, CellsOf
<1>4. Cells' = [Cells EXCEPT ![g] = Cells[h], ![h] = Cells[g]]
  BY <1>1, <1>3, CellsFacts DEF CellInv, GroupInv
<1> QED  BY <1>2, <1>4 DEF Abstract!Swap
-----------------------------------------------------------------------------
(* Theorems about groups whose arrays do not fail to shrink in place.      *)

LEMMA CellInvKept ==
  ASSUME Whole, CellInv, [Next]_grp
  PROVE  CellInv' /\ [Abstract!Next]_Cells
<1>1. CASE \E g \in Groups, i \in Positions, v \in Values :
             Overwrite(g, i, v) \/ SetNew(g, i, v)
  BY <1>1, OverwriteSets, SetNewSets DEF Abstract!Next
<1>2. CASE \E g \in Groups, i \in Positions : SetFails(g, i)
  BY <1>2, SetFailsForgets DEF Abstract!Next
<1>3. CASE \E g \in Groups, i \in Positions : Erase(g, i)
  BY <1>3, EraseErases DEF Abstract!Next
<1>4. CASE \E g \in Groups, i \in Positions : EraseFails(g, i)
  BY <1>4, EraseFailsStutters
<1>5. CASE \E g \in Groups : Clear(g)
  BY <1>5, ClearClears DEF Abstract!Next
<1>6. CASE \E g, h \in Groups : CopyConstruct(g, h)
  BY <1>6, CopyConstructCopies DEF Abstract!Next
<1>7. CASE \E g, h \in Groups : Swap(g, h)
  BY <1>7, SwapSwaps DEF Abstract!Next
<1>8. CASE UNCHANGED grp
  <2>1. CellInv' /\ Cells' = Cells
    BY <1>8 DEF CellInv, GroupInv, Fitting, Packed, Cells, CellAt, ValueAt
  <2> QED  BY <2>1
<1> QED  BY <1>1, <1>2, <1>3, <1>4, <1>5, <1>6, <1>7, <1>8 DEF Next

LEMMA InitCells == Init => CellInv /\ Abstract!Init
<1> SUFFICES ASSUME Init  PROVE CellInv /\ Abstract!Init
  OBVIOUS
<1>1. \A g \in Groups : grp[g] = NewGroup
  BY DEF Init
<1>2. NewGroup.objs \in Seq(Values) /\ NewGroup.bitmap = {} /\ NewGroup.erased = {}
  BY DEF NewGroup
<1>3. CellInv
  BY <1>1, <1>2, InitFits DEF CellInv
<1>4. \A g \in Groups : CellsOf(grp[g]) = Abstract!Vacated
  BY <1>1, <1>2, VacantGroup
<1> QED  BY <1>3, <1>4, CellsFacts DEF Abstract!Init

(* The bitmap and the count agree with the objects in the array, and every *)
(* counted slot is an object, also after growth, moves to other arrays and *)
(* copies that failed.                                                     *)
THEOREM ObjectsAreCounted == Whole => (Spec => []ObjectsCounted)
<1> SUFFICES ASSUME Whole  PROVE Spec => []ObjectsCounted
  OBVIOUS
<1>1. CellInv /\ [Next]_grp => CellInv'
  BY CellInvKept
<1>2. CellInv => ObjectsCounted
  BY FitGroups DEF ObjectsCounted, Packed, CellInv
<1> QED  BY <1>1, <1>2, InitCells, PTL DEF Spec

(* A group is an array of cells, whatever is set, erased, copied or swapped, *)
(* and whether arrays are resized in place or moved: every operation changes *)
(* the value of one position at most and leaves what is packed around it     *)
(* where the table above finds it.                                           *)
THEOREM GroupImplementsCells == Whole => (Spec => ImplementsCells)
<1> SUFFICES ASSUME Whole  PROVE Spec => ImplementsCells
  OBVIOUS
<1>1. CellInv /\ [Next]_grp => CellInv' /\ [Abstract!Next]_Cells
  BY CellInvKept
<1> QED  BY <1>1, InitCells, PTL DEF Spec, ImplementsCells, Abstract!Spec
=============================================================================
