------------------------- MODULE SparseTableProofs -------------------------
(***************************************************************************)
(* Theorems about GroupIterators, for groups of any size and contents:     *)
(* what get_iter, get_pos, the increments, the distance and the erasures   *)
(* compute.  Then about SparseTable, for any tables, sizes, values and     *)
(* groups: its type invariant, the count of its values, the ownership of   *)
(* memory spaces and arrays, what its iterators pass, and that it          *)
(* implements BucketArrays.                                                *)
(***************************************************************************)
EXTENDS SparseTable, FiniteSetTheorems, SequenceTheorems, TLAPS

-----------------------------------------------------------------------------
(* Bucket numbers.                                                         *)

CellType == Values \cup {Raw, Empty, Erased}

GroupType == [Positions -> CellType]

LEMMA SizeType == GroupSize \in Nat \ {0}
BY GroupAssumption DEF GroupAssumption

LEMMA BucketParts ==
  ASSUME NEW b \in Nat
  PROVE  /\ GroupNum(b) \in Nat \ {0} /\ PosInGroup(b) \in Positions
         /\ b = (GroupNum(b) - 1) * GroupSize + PosInGroup(b)
<1> DEFINE q == b \div GroupSize
           m == b % GroupSize
<1>1. q \in Nat /\ m \in 0 .. GroupSize - 1 /\ b = q * GroupSize + m
  BY SizeType, SMT
<1> HIDE DEF q, m
<1>2. GroupNum(b) = q + 1 /\ PosInGroup(b) = m
  BY DEF GroupNum, PosInGroup, q, m
<1>3. (q + 1) - 1 = q
  BY <1>1
<1> QED  BY <1>1, <1>2, <1>3 DEF Positions

(* Rows do not overlap.                                                    *)
LEMMA RowsApart ==
  ASSUME NEW r \in Nat, NEW s \in Nat, r < s
  PROVE  (r * GroupSize) + GroupSize <= s * GroupSize
<1>1. s - r - 1 \in Nat
  OBVIOUS
<1>2. (s - r - 1) * GroupSize \in Nat
  BY <1>1, SizeType
<1>3. s * GroupSize = (r * GroupSize) + GroupSize + (s - r - 1) * GroupSize
  BY SizeType
<1>4. r * GroupSize \in Nat /\ s * GroupSize \in Nat
  BY SizeType
<1> QED  BY <1>2, <1>3, <1>4, SizeType

LEMMA BucketOf ==
  ASSUME NEW r \in Nat \ {0}, NEW p \in Positions
  PROVE  LET b == (r - 1) * GroupSize + p
         IN  b \in Nat /\ GroupNum(b) = r /\ PosInGroup(b) = p
<1> DEFINE b == (r - 1) * GroupSize + p
           s == GroupNum(b) - 1
           q == PosInGroup(b)
<1>1. r - 1 \in Nat /\ (r - 1) * GroupSize \in Nat /\ p \in Nat /\ p < GroupSize
  BY SizeType DEF Positions
<1>2. b \in Nat
  BY <1>1
<1> HIDE DEF b
<1>3. s \in Nat /\ q \in Nat /\ q < GroupSize /\ b = s * GroupSize + q
  BY <1>2, BucketParts, SizeType, SMTT(30) DEF Positions
<1>4. GroupNum(b) = s + 1
  BY <1>2, BucketParts
<1> HIDE DEF s, q
<1>5. s * GroupSize \in Nat
  BY <1>3, SizeType
<1>6. ~ (s < r - 1)
  <2> SUFFICES ASSUME s < r - 1 PROVE FALSE
    OBVIOUS
  <2>1. s * GroupSize + GroupSize <= (r - 1) * GroupSize
    BY <1>1, <1>3, RowsApart
  <2> QED  BY <1>1, <1>3, <1>5, <2>1, SizeType DEF b
<1>7. ~ (r - 1 < s)
  <2> SUFFICES ASSUME r - 1 < s PROVE FALSE
    OBVIOUS
  <2>1. (r - 1) * GroupSize + GroupSize <= s * GroupSize
    BY <1>1, <1>3, RowsApart
  <2> QED  BY <1>1, <1>3, <1>5, <2>1, SizeType DEF b
<1>8. s = r - 1
  BY <1>1, <1>3, <1>6, <1>7
<1>9. q = p
  <2>1. s * GroupSize = (r - 1) * GroupSize
    BY <1>8
  <2> QED  BY <1>1, <1>3, <1>5, <2>1 DEF b
<1>10. GroupNum(b) = r
  BY <1>4, <1>8
<1> QED  BY <1>2, <1>9, <1>10 DEF b, q

(* The buckets of the first n groups.                                      *)
LEMMA BucketRange ==
  ASSUME NEW b \in Nat, NEW n \in Nat
  PROVE  b < n * GroupSize <=> GroupNum(b) <= n
<1> DEFINE s == GroupNum(b) - 1
           q == PosInGroup(b)
<1>0. GroupNum(b) \in Nat \ {0} /\ q \in Positions /\ b = s * GroupSize + q
  BY BucketParts
<1>1. s \in Nat /\ q \in Nat /\ q < GroupSize /\ b = s * GroupSize + q /\ GroupNum(b) = s + 1
  BY <1>0, SizeType DEF Positions
<1> HIDE DEF s, q
<1>2. s * GroupSize \in Nat /\ n * GroupSize \in Nat
  BY <1>1, SizeType
<1>3. CASE s < n
  <2>1. s * GroupSize + GroupSize <= n * GroupSize
    BY <1>1, <1>3, RowsApart
  <2> QED  BY <1>1, <1>2, <1>3, <2>1, SizeType
<1>4. CASE n = s
  <2>1. n * GroupSize = s * GroupSize
    BY <1>4
  <2> QED  BY <1>1, <1>2, <1>4, <2>1
<1>5. CASE n < s
  <2>1. n * GroupSize + GroupSize <= s * GroupSize
    BY <1>1, <1>5, RowsApart
  <2> QED  BY <1>1, <1>2, <1>5, <2>1, SizeType
<1> QED  BY <1>1, <1>3, <1>4, <1>5

(* Buckets are ordered by group, then by position.                         *)
LEMMA BucketOrder ==
  ASSUME NEW b \in Nat, NEW c \in Nat
  PROVE  b < c <=> \/ GroupNum(b) < GroupNum(c)
                   \/ GroupNum(b) = GroupNum(c) /\ PosInGroup(b) < PosInGroup(c)
<1> DEFINE r == GroupNum(b) - 1
           p == PosInGroup(b)
           s == GroupNum(c) - 1
           q == PosInGroup(c)
<1>1. /\ r \in Nat /\ p \in Nat /\ p < GroupSize /\ b = r * GroupSize + p /\ GroupNum(b) = r + 1
      /\ s \in Nat /\ q \in Nat /\ q < GroupSize /\ c = s * GroupSize + q /\ GroupNum(c) = s + 1
  BY BucketParts, SizeType, SMTT(30) DEF Positions
<1>0. p = PosInGroup(b) /\ q = PosInGroup(c)
  OBVIOUS
<1> HIDE DEF r, p, s, q
<1>2. r * GroupSize \in Nat /\ s * GroupSize \in Nat
  BY <1>1, SizeType
<1>3. CASE r < s
  <2>1. r * GroupSize + GroupSize <= s * GroupSize
    BY <1>1, <1>3, RowsApart
  <2> QED  BY <1>1, <1>2, <1>3, <2>1, SizeType
<1>4. CASE r = s
  <2>1. r * GroupSize = s * GroupSize
    BY <1>4
  <2> QED  BY <1>0, <1>1, <1>2, <1>4, <2>1
<1>5. CASE s < r
  <2>1. s * GroupSize + GroupSize <= r * GroupSize
    BY <1>1, <1>5, RowsApart
  <2> QED  BY <1>1, <1>2, <1>5, <2>1, SizeType
<1> QED  BY <1>1, <1>3, <1>4, <1>5

LEMMA BucketEqual ==
  ASSUME NEW b \in Nat, NEW c \in Nat, GroupNum(b) = GroupNum(c), PosInGroup(b) = PosInGroup(c)
  PROVE  b = c
BY BucketParts

LEMMA FullBucket ==
  ASSUME NEW groups \in Seq(GroupType), NEW b
  PROVE  b \in FullBuckets(groups) <=>
           /\ b \in Nat /\ GroupNum(b) \in 1 .. Len(groups)
           /\ PosInGroup(b) \in Occupied(groups[GroupNum(b)])
<1>1. Len(groups) \in Nat /\ Len(groups) * GroupSize \in Nat
  BY SizeType
<1>2. b \in 0 .. Len(groups) * GroupSize - 1 <=> b \in Nat /\ GroupNum(b) \in 1 .. Len(groups)
  <2>1. b \in 0 .. Len(groups) * GroupSize - 1 <=> b \in Nat /\ b < Len(groups) * GroupSize
    BY <1>1
  <2>2. ASSUME b \in Nat
        PROVE  GroupNum(b) \in 1 .. Len(groups) <=> b < Len(groups) * GroupSize
    <3>1. GroupNum(b) \in Nat \ {0}
      BY <2>2, BucketParts
    <3>2. b < Len(groups) * GroupSize <=> GroupNum(b) <= Len(groups)
      BY <1>1, <2>2, BucketRange
    <3> QED  BY <1>1, <3>1, <3>2
  <2> QED  BY <2>1, <2>2
<1>3. b \in Nat => PosInGroup(b) \in Positions
  BY BucketParts
<1> QED  BY <1>2, <1>3 DEF FullBuckets, CellAt, Occupied

LEMMA FullFinite ==
  ASSUME NEW groups \in Seq(GroupType)
  PROVE  /\ IsFiniteSet(FullBuckets(groups)) /\ Cardinality(FullBuckets(groups)) \in Nat
         /\ FullBuckets(groups) \in SUBSET Nat
<1>1. Len(groups) * GroupSize - 1 \in Int
  BY SizeType
<1>2. IsFiniteSet(0 .. Len(groups) * GroupSize - 1)
  BY <1>1, FS_Interval
<1>3. FullBuckets(groups) \in SUBSET (0 .. Len(groups) * GroupSize - 1)
  BY DEF FullBuckets
<1>4. IsFiniteSet(FullBuckets(groups))
  BY <1>2, <1>3, FS_Subset
<1>5. FullBuckets(groups) \in SUBSET Nat
  BY FullBucket
<1> QED  BY <1>4, <1>5, FS_CardinalityType

-----------------------------------------------------------------------------
(* Positions and offsets in one group.                                     *)

LEMMA OccupiedFinite ==
  ASSUME NEW g
  PROVE  /\ Occupied(g) \subseteq Positions /\ Occupied(g) \subseteq Nat
         /\ IsFiniteSet(Occupied(g)) /\ NumItems(g) \in Nat
         /\ NumItems(g) <= GroupSize
<1>1. IsFiniteSet(Positions) /\ Cardinality(Positions) = GroupSize /\ Positions \subseteq Nat
  BY FS_Interval, SizeType DEF Positions
<1>2. Occupied(g) \subseteq Positions
  BY DEF Occupied
<1>3. /\ IsFiniteSet(Occupied(g)) /\ Cardinality(Occupied(g)) \in Nat
      /\ Cardinality(Occupied(g)) <= GroupSize
  BY <1>1, <1>2, FS_Subset, FS_CardinalityType
<1> QED  BY <1>1, <1>2, <1>3 DEF NumItems

LEMMA OffsetType ==
  ASSUME NEW g, NEW p
  PROVE  /\ PosToOffset(g, p) \in Nat /\ PosToOffset(g, p) <= NumItems(g)
         /\ IsFiniteSet({q \in Occupied(g) : q < p})
<1>1. {q \in Occupied(g) : q < p} \in SUBSET Occupied(g)
  OBVIOUS
<1>2. IsFiniteSet(Occupied(g))
  BY OccupiedFinite
<1> QED  BY <1>1, <1>2, FS_Subset, FS_CardinalityType DEF PosToOffset, NumItems

(* The offset of a position counts the occupied ones in front of it, so it *)
(* grows with each of them.                                                *)
LEMMA OffsetGrows ==
  ASSUME NEW g, NEW p \in Nat, NEW q \in Nat, p < q
  PROVE  /\ PosToOffset(g, p) <= PosToOffset(g, q)
         /\ p \in Occupied(g) => PosToOffset(g, p) < PosToOffset(g, q)
<1> DEFINE A == {x \in Occupied(g) : x < p}
           B == {x \in Occupied(g) : x < q}
<1>1. IsFiniteSet(A) /\ IsFiniteSet(B)
  BY OffsetType
<1>2. Occupied(g) \subseteq Nat
  BY OccupiedFinite
<1>3. A \in SUBSET B
  BY <1>2
<1>4. p \in Occupied(g) => p \in B /\ p \notin A
  OBVIOUS
<1>5. Cardinality(A) \in Nat /\ Cardinality(B) \in Nat
  BY <1>1, FS_CardinalityType
<1>6. Cardinality(A) <= Cardinality(B)
  BY <1>1, <1>3, FS_Subset
<1>7. Cardinality(B) = Cardinality(A) => A = B
  BY <1>1, <1>3, FS_Subset
<1> HIDE DEF A, B
<1>8. p \in Occupied(g) => Cardinality(A) < Cardinality(B)
  BY <1>4, <1>5, <1>6, <1>7
<1> QED  BY <1>6, <1>8 DEF PosToOffset, A, B

LEMMA OffsetBelow ==
  ASSUME NEW g, NEW p \in Occupied(g)
  PROVE  PosToOffset(g, p) \in 0 .. NumItems(g) - 1
<1> DEFINE A == {x \in Occupied(g) : x < p}
<1>1. IsFiniteSet(Occupied(g)) /\ IsFiniteSet(A) /\ p \in Nat /\ NumItems(g) \in Nat
  BY OccupiedFinite, OffsetType
<1>2. A \in SUBSET Occupied(g) /\ p \notin A
  BY <1>1
<1>3. Cardinality(A) <= Cardinality(Occupied(g)) /\ Cardinality(A) # Cardinality(Occupied(g))
  BY <1>1, <1>2, FS_Subset
<1>4. PosToOffset(g, p) \in Nat /\ PosToOffset(g, p) = Cardinality(A)
  BY OffsetType DEF PosToOffset
<1> QED  BY <1>1, <1>3, <1>4 DEF NumItems

(* Offsets order the occupied positions.                                   *)
LEMMA OffsetOrder ==
  ASSUME NEW g, NEW p \in Occupied(g), NEW q \in Occupied(g)
  PROVE  p < q <=> PosToOffset(g, p) < PosToOffset(g, q)
<1>1. p \in Nat /\ q \in Nat /\ PosToOffset(g, p) \in Nat /\ PosToOffset(g, q) \in Nat
  BY OccupiedFinite, OffsetType
<1>2. p < q => PosToOffset(g, p) < PosToOffset(g, q)
  BY <1>1, OffsetGrows
<1>3. q < p => PosToOffset(g, q) < PosToOffset(g, p)
  BY <1>1, OffsetGrows
<1> QED  BY <1>1, <1>2, <1>3

LEMMA OffsetDetermines ==
  ASSUME NEW g, NEW p \in Occupied(g), NEW q \in Occupied(g),
         PosToOffset(g, p) = PosToOffset(g, q)
  PROVE  p = q
<1>1. p \in Nat /\ q \in Nat /\ PosToOffset(g, p) \in Nat /\ PosToOffset(g, q) \in Nat
  BY OccupiedFinite, OffsetType
<1>2. p < q <=> PosToOffset(g, p) < PosToOffset(g, q)
  BY OffsetOrder
<1>3. q < p <=> PosToOffset(g, q) < PosToOffset(g, p)
  BY OffsetOrder
<1> QED  BY <1>1, <1>2, <1>3

(* offset_to_pos finds the position of every offset.                       *)
LEMMA PosOfOffset ==
  ASSUME NEW g, NEW c \in 0 .. NumItems(g) - 1
  PROVE  OffsetToPos(g, c) \in Occupied(g) /\ PosToOffset(g, OffsetToPos(g, c)) = c
<1> DEFINE T == 0 .. NumItems(g) - 1
           f == [p \in Occupied(g) |-> PosToOffset(g, p)]
<1>1. IsFiniteSet(Occupied(g)) /\ Occupied(g) \subseteq Nat /\ NumItems(g) \in Nat
  BY OccupiedFinite
<1>2. IsFiniteSet(T) /\ Cardinality(T) = NumItems(g)
  BY <1>1, FS_Interval
<1>3. f \in [Occupied(g) -> T]
  BY OffsetBelow
<1>4. \A p, q \in Occupied(g) : f[p] = f[q] => p = q
  <2> SUFFICES ASSUME NEW p \in Occupied(g), NEW q \in Occupied(g), f[p] = f[q]
               PROVE  p = q
    OBVIOUS
  <2>1. PosToOffset(g, p) = PosToOffset(g, q)
    OBVIOUS
  <2> QED  BY <2>1, OffsetDetermines
<1>5. f \in Injection(Occupied(g), T)
  BY <1>3, <1>4 DEF Injection, IsInjective
<1>6. f \in Surjection(Occupied(g), T)
  BY <1>2, <1>5, FS_Injection DEF NumItems
<1>7. \E p \in Occupied(g) : f[p] = c
  BY <1>6 DEF Surjection
<1>8. \E p \in Occupied(g) : PosToOffset(g, p) = c
  BY <1>7
<1> QED  BY <1>8 DEF OffsetToPos

LEMMA OffsetOfPos ==
  ASSUME NEW g, NEW p \in Occupied(g)
  PROVE  OffsetToPos(g, PosToOffset(g, p)) = p
<1> DEFINE q == OffsetToPos(g, PosToOffset(g, p))
<1>1. q \in Occupied(g) /\ PosToOffset(g, q) = PosToOffset(g, p)
  BY OffsetBelow, PosOfOffset
<1> QED  BY <1>1, OffsetDetermines

-----------------------------------------------------------------------------
(* Least and greatest members.                                             *)

LEMMA LeastNat ==
  ASSUME NEW T \in SUBSET Nat, T # {}
  PROVE  Min(T) \in T /\ \A y \in T : Min(T) <= y
<1>1. PICK x \in T : \A y \in T : ~ (<<y, x>> \in OpToRel(<, Nat))
  BY NatLessThanWellFounded, WFMin
<1>2. \A y \in T : ~ (y < x)
  BY <1>1 DEF OpToRel
<1>3. \E z \in T : \A y \in T : z <= y
  BY <1>2
<1> QED  BY <1>3 DEF Min

LEMMA GreatestNat ==
  ASSUME NEW T \in SUBSET Nat, T # {}, NEW n \in Nat, \A x \in T : x <= n
  PROVE  Max(T) \in T /\ \A y \in T : y <= Max(T)
<1> DEFINE U == {u \in Nat : \A x \in T : x <= u}
           m == Min(U)
<1>1. m \in U /\ \A u \in U : m <= u
  BY LeastNat
<1>2. m \in Nat /\ \A x \in T : x <= m
  BY <1>1
<1>3. m \in T
  <2> SUFFICES ASSUME m \notin T PROVE FALSE
    OBVIOUS
  <2>0. PICK z \in T : TRUE
    OBVIOUS
  <2>1. \A x \in T : x \in Nat /\ x < m
    BY <1>2
  <2>2. m # 0
    BY <1>2, <2>0, <2>1
  <2>3. m - 1 \in Nat /\ \A x \in T : x <= m - 1
    BY <1>2, <2>1, <2>2
  <2>4. m - 1 \in U
    BY <2>3
  <2>5. m <= m - 1
    BY <1>1, <2>4
  <2> QED  BY <1>2, <2>5
<1> HIDE DEF m
<1>4. \E z \in T : \A y \in T : y <= z
  BY <1>2, <1>3
<1> QED  BY <1>4 DEF Max

-----------------------------------------------------------------------------
(* Iterators.  Ready allows the column behind the last value, where an     *)
(* increment or an erasure leaves an iterator before it advances.          *)

Iterator == [row : Nat, col : Nat]

Ready(groups, i) ==
  i \in Iterator /\ i.row \in 1 .. Len(groups) /\ i.col \in 0 .. NumItems(groups[i.row])

Points(groups, i) == Ready(groups, i) /\ i.col < NumItems(groups[i.row])

Valid(groups, i) == i = EndOf(groups) \/ Points(groups, i)

(* The full buckets that iteration has met when it gets to i.              *)
Before(groups, i) ==
  {b \in FullBuckets(groups) :
     \/ GroupNum(b) < i.row
     \/ GroupNum(b) = i.row /\ PosToOffset(groups[i.row], PosInGroup(b)) < i.col}

LEMMA EndIsMarked ==
  ASSUME NEW groups \in Seq(GroupType)
  PROVE  /\ EndOf(groups) \in Iterator /\ IsMarked(groups, EndOf(groups))
         /\ \A i : Ready(groups, i) => ~ IsMarked(groups, i)
         /\ \A i : Valid(groups, i) /\ IsMarked(groups, i) => i = EndOf(groups)
<1>1. Len(groups) \in Nat
  OBVIOUS
<1> QED  BY <1>1 DEF EndOf, IsMarked, Ready, Points, Valid, Iterator

LEMMA PointsType ==
  ASSUME NEW groups \in Seq(GroupType), NEW i, Points(groups, i)
  PROVE  /\ i \in Iterator /\ i = [row |-> i.row, col |-> i.col]
         /\ i.row \in 1 .. Len(groups) /\ i.row \in Nat \ {0}
         /\ i.col \in 0 .. NumItems(groups[i.row]) - 1
         /\ ~ IsMarked(groups, i)
<1>1. Len(groups) \in Nat /\ NumItems(groups[i.row]) \in Nat
  BY OccupiedFinite
<1> QED  BY <1>1 DEF Points, Ready, Iterator, IsMarked

(* get_pos gives the full bucket an iterator points to, and get_iter makes *)
(* the same iterator of it again.                                          *)
THEOREM PosOfIterator ==
  ASSUME NEW groups \in Seq(GroupType), NEW i, Points(groups, i)
  PROVE  LET b == GetPos(groups, i)
         IN  /\ b \in FullBuckets(groups)
             /\ GroupNum(b) = i.row /\ PosInGroup(b) = OffsetToPos(groups[i.row], i.col)
             /\ PosToOffset(groups[i.row], PosInGroup(b)) = i.col
             /\ GetIter(groups, b) = i
<1> DEFINE b == GetPos(groups, i)
           p == OffsetToPos(groups[i.row], i.col)
<1>1. i.row \in 1 .. Len(groups) /\ i.row \in Nat \ {0} /\ i = [row |-> i.row, col |-> i.col]
  BY PointsType
<1>2. p \in Occupied(groups[i.row]) /\ PosToOffset(groups[i.row], p) = i.col
  BY PointsType, PosOfOffset
<1>3. p \in Positions
  BY <1>2, OccupiedFinite
<1>4. b \in Nat /\ GroupNum(b) = i.row /\ PosInGroup(b) = p
  BY <1>1, <1>3, BucketOf DEF GetPos
<1>5. b \in FullBuckets(groups)
  BY <1>1, <1>2, <1>4, FullBucket
<1> QED  BY <1>1, <1>2, <1>4, <1>5 DEF GetIter

(* get_iter makes of every full bucket an iterator that points to it: the  *)
(* column is the number of values in front, whatever the group holds.      *)
THEOREM IteratorOfPos ==
  ASSUME NEW groups \in Seq(GroupType), NEW b \in FullBuckets(groups)
  PROVE  Points(groups, GetIter(groups, b)) /\ GetPos(groups, GetIter(groups, b)) = b
<1> DEFINE r == GroupNum(b)
           p == PosInGroup(b)
           c == PosToOffset(groups[r], p)
<1>1. b \in Nat /\ r \in 1 .. Len(groups) /\ p \in Occupied(groups[r])
  BY FullBucket
<1>2. c \in 0 .. NumItems(groups[r]) - 1 /\ NumItems(groups[r]) \in Nat
  BY <1>1, OffsetBelow, OccupiedFinite
<1>3. OffsetToPos(groups[r], c) = p
  BY <1>1, OffsetOfPos
<1>4. b = (r - 1) * GroupSize + p
  BY <1>1, BucketParts
<1> HIDE DEF r, p, c
<1>5. GetIter(groups, b) = [row |-> r, col |-> c]
  BY DEF GetIter, r, p, c
<1>6. GetPos(groups, [row |-> r, col |-> c]) = b
  BY <1>3, <1>4 DEF GetPos
<1>7. Points(groups, [row |-> r, col |-> c])
  BY <1>1, <1>2 DEF Points, Ready, Iterator
<1> QED  BY <1>5, <1>6, <1>7

(* What an iterator has met is what is below the bucket it points to.      *)
LEMMA BeforeIsBelow ==
  ASSUME NEW groups \in Seq(GroupType), NEW i, Valid(groups, i)
  PROVE  /\ Place(groups, i) \in Nat
         /\ Before(groups, i) = {b \in FullBuckets(groups) : b < Place(groups, i)}
<1>1. CASE i = EndOf(groups)
  <2>1. Place(groups, i) = Len(groups) * GroupSize /\ i.row = Len(groups) + 1 /\ Len(groups) \in Nat
    BY <1>1, EndIsMarked DEF Place, EndOf
  <2>2. Len(groups) * GroupSize \in Nat
    BY <2>1, SizeType
  <2>3. ASSUME NEW b \in FullBuckets(groups)
        PROVE  b < Len(groups) * GroupSize /\ GroupNum(b) < i.row
    <3>1. b \in Nat /\ GroupNum(b) \in 1 .. Len(groups)
      BY FullBucket
    <3> QED  BY <2>1, <3>1, BucketRange
  <2> QED  BY <2>1, <2>2, <2>3 DEF Before
<1>2. CASE Points(groups, i)
  <2> DEFINE c == GetPos(groups, i)
             g == groups[i.row]
  <2>1. /\ c \in FullBuckets(groups) /\ GroupNum(c) = i.row
        /\ PosToOffset(g, PosInGroup(c)) = i.col
    BY <1>2, PosOfIterator
  <2>2. Place(groups, i) = c
    BY <1>2, PointsType DEF Place
  <2>3. c \in Nat /\ PosInGroup(c) \in Occupied(g)
    BY <2>1, FullBucket
  <2> HIDE DEF c
  <2>4. ASSUME NEW b \in FullBuckets(groups)
        PROVE  b < c <=> \/ GroupNum(b) < i.row
                         \/ GroupNum(b) = i.row /\ PosToOffset(g, PosInGroup(b)) < i.col
    <3>1. b \in Nat /\ PosInGroup(b) \in Occupied(groups[GroupNum(b)])
      BY FullBucket
    <3>2. b < c <=> \/ GroupNum(b) < i.row
                    \/ GroupNum(b) = i.row /\ PosInGroup(b) < PosInGroup(c)
      BY <2>1, <2>3, <3>1, BucketOrder
    <3>3. GroupNum(b) = i.row =>
            (PosInGroup(b) < PosInGroup(c) <=> PosToOffset(g, PosInGroup(b)) < i.col)
      BY <2>1, <2>3, <3>1, OffsetOrder
    <3> QED  BY <3>2, <3>3
  <2> QED  BY <2>2, <2>3, <2>4 DEF Before
<1> QED  BY <1>1, <1>2 DEF Valid

LEMMA SomeItem ==
  ASSUME NEW g
  PROVE  NumItems(g) > 0 <=> Occupied(g) # {}
<1>1. IsFiniteSet(Occupied(g)) /\ NumItems(g) \in Nat /\ NumItems(g) = Cardinality(Occupied(g))
  BY OccupiedFinite DEF NumItems
<1>2. NumItems(g) = 0 <=> Occupied(g) = {}
  BY <1>1, FS_EmptySet
<1> QED  BY <1>1, <1>2

(* A full bucket is in a group that has values.                            *)
LEMMA FullInGroup ==
  ASSUME NEW groups \in Seq(GroupType), NEW b \in FullBuckets(groups)
  PROVE  /\ GroupNum(b) \in 1 .. Len(groups) /\ GroupNum(b) \in Nat
         /\ NumItems(groups[GroupNum(b)]) > 0
         /\ PosToOffset(groups[GroupNum(b)], PosInGroup(b))
              \in 0 .. NumItems(groups[GroupNum(b)]) - 1
<1>1. b \in Nat /\ GroupNum(b) \in 1 .. Len(groups) /\ PosInGroup(b) \in Occupied(groups[GroupNum(b)])
  BY FullBucket
<1> QED  BY <1>1, SomeItem, OffsetBelow

(* advance_past_end skips no value.                                        *)
LEMMA AdvanceKeeps ==
  ASSUME NEW groups \in Seq(GroupType), NEW i, Ready(groups, i) \/ i = EndOf(groups)
  PROVE  /\ Valid(groups, AdvancePastEnd(groups, i))
         /\ Before(groups, AdvancePastEnd(groups, i)) = Before(groups, i)
<1> DEFINE j == AdvancePastEnd(groups, i)
           later == {r \in i.row + 1 .. Len(groups) : NumItems(groups[r]) > 0}
<1>1. CASE i = EndOf(groups)
  BY <1>1, EndIsMarked DEF AdvancePastEnd, Valid
<1>2. CASE Ready(groups, i) /\ i.col < NumItems(groups[i.row])
  BY <1>2 DEF AdvancePastEnd, Valid, Points
<1>3. CASE Ready(groups, i) /\ ~ (i.col < NumItems(groups[i.row]))
  <2>1. /\ i.row \in Nat /\ i.row \in 1 .. Len(groups) /\ i.col = NumItems(groups[i.row])
        /\ Len(groups) \in Nat /\ ~ IsMarked(groups, i)
    BY <1>3, OccupiedFinite, EndIsMarked DEF Ready
  <2>2. j = IF later = {} THEN EndOf(groups) ELSE [row |-> Min(later), col |-> 0]
    BY <1>3, <2>1 DEF AdvancePastEnd
  <2>3. ASSUME NEW b \in FullBuckets(groups)
        PROVE  /\ GroupNum(b) \in Nat /\ GroupNum(b) \in 1 .. Len(groups)
               /\ GroupNum(b) <= i.row \/ GroupNum(b) \in later
               /\ GroupNum(b) = i.row => PosToOffset(groups[i.row], PosInGroup(b)) < i.col
    <3>1. /\ GroupNum(b) \in 1 .. Len(groups) /\ GroupNum(b) \in Nat
          /\ NumItems(groups[GroupNum(b)]) > 0
      BY FullInGroup
    <3>2. GroupNum(b) <= i.row \/ GroupNum(b) \in later
      BY <2>1, <3>1
    <3>3. GroupNum(b) = i.row => PosToOffset(groups[i.row], PosInGroup(b)) < i.col
      <4> SUFFICES ASSUME GroupNum(b) = i.row
                   PROVE  PosToOffset(groups[i.row], PosInGroup(b)) < i.col
        OBVIOUS
      <4>1. PosToOffset(groups[i.row], PosInGroup(b)) \in 0 .. NumItems(groups[i.row]) - 1
        BY FullInGroup
      <4>2. NumItems(groups[i.row]) \in Nat
        BY OccupiedFinite
      <4> QED  BY <2>1, <4>1, <4>2
    <3> QED  BY <3>1, <3>2, <3>3
  <2>4. CASE later = {}
    <3>1. j = EndOf(groups) /\ EndOf(groups).row = Len(groups) + 1
      BY <2>2, <2>4 DEF EndOf
    <3>2. Before(groups, j) = FullBuckets(groups) /\ Before(groups, i) = FullBuckets(groups)
      BY <2>1, <2>3, <2>4, <3>1 DEF Before
    <3> QED  BY <3>1, <3>2 DEF Valid
  <2>5. CASE later # {}
    <3> DEFINE m == Min(later)
    <3>1. later \in SUBSET Nat
      BY <2>1
    <3>2. m \in later /\ \A r \in later : m <= r
      BY <2>5, <3>1, LeastNat
    <3>3. m \in Nat /\ m > i.row /\ m \in 1 .. Len(groups) /\ NumItems(groups[m]) > 0
      BY <2>1, <3>1, <3>2
    <3>4. j = [row |-> m, col |-> 0]
      BY <2>2, <2>5
    <3> HIDE DEF m, j, later
    <3>5. Points(groups, j)
      BY <3>3, <3>4, OccupiedFinite DEF Points, Ready, Iterator
    <3>6. ASSUME NEW b \in FullBuckets(groups)
          PROVE  (\/ GroupNum(b) < m
                  \/ GroupNum(b) = m /\ PosToOffset(groups[m], PosInGroup(b)) < 0)
                 <=> (\/ GroupNum(b) < i.row
                      \/ GroupNum(b) = i.row /\ PosToOffset(groups[i.row], PosInGroup(b)) < i.col)
      <4>1. (GroupNum(b) \in Nat /\ GroupNum(b) <= i.row) \/ GroupNum(b) \in later
        BY <2>3
      <4>2. GroupNum(b) < m <=> GroupNum(b) <= i.row
        BY <2>1, <2>3, <3>2, <3>3
      <4>3. GroupNum(b) = m => PosToOffset(groups[m], PosInGroup(b)) \in Nat
        BY OffsetType
      <4> QED  BY <2>1, <2>3, <4>2, <4>3
    <3>7. Before(groups, j) = Before(groups, i)
      BY <3>4, <3>6 DEF Before
    <3> QED  BY <3>5, <3>7 DEF Valid, j
  <2> QED  BY <2>4, <2>5
<1> QED  BY <1>1, <1>2, <1>3

(* An iterator is determined by what it has met.                           *)
LEMMA SameBefore ==
  ASSUME NEW groups \in Seq(GroupType), NEW i, NEW j, Valid(groups, i), Valid(groups, j),
         Before(groups, i) = Before(groups, j)
  PROVE  i = j
<1> DEFINE Full == FullBuckets(groups)
           x == Place(groups, i)
           y == Place(groups, j)
<1>1. \A b \in Full : b < x <=> b < y
  <2>1. {b \in Full : b < x} = {b \in Full : b < y}
    BY BeforeIsBelow
  <2> QED  BY <2>1
<1>2. /\ Place(groups, EndOf(groups)) = Len(groups) * GroupSize
      /\ \A b \in Full : b < Len(groups) * GroupSize
  <2>1. Len(groups) \in Nat /\ Len(groups) * GroupSize \in Nat
    BY SizeType
  <2>2. \A b \in Full : b < Len(groups) * GroupSize
    BY <2>1 DEF FullBuckets
  <2> QED  BY <2>2, EndIsMarked DEF Place
<1>3. ASSUME NEW k, Points(groups, k)
      PROVE  Place(groups, k) \in Full /\ Place(groups, k) \in Nat /\ GetIter(groups, Place(groups, k)) = k
  BY <1>3, PosOfIterator, PointsType, FullFinite DEF Place
<1>4. CASE Points(groups, i) /\ Points(groups, j)
  <2>1. x \in Full /\ x \in Nat /\ y \in Full /\ y \in Nat
    BY <1>3, <1>4
  <2>2. GetIter(groups, x) = i /\ GetIter(groups, y) = j
    BY <1>3, <1>4
  <2> HIDE DEF x, y, Full
  <2>3. (x < x <=> x < y) /\ (y < x <=> y < y)
    BY <1>1, <2>1
  <2>4. x = y
    BY <2>1, <2>3
  <2> QED  BY <2>2, <2>4
<1>5. ASSUME NEW k, Points(groups, k)
      PROVE  /\ Place(groups, k) \in Full /\ ~ (Place(groups, k) < Place(groups, k))
             /\ Place(groups, k) < Place(groups, EndOf(groups))
  <2>1. Place(groups, k) \in Full /\ Place(groups, k) \in Nat
    BY <1>3, <1>5
  <2>2. ~ (Place(groups, k) < Place(groups, k))
    BY <2>1
  <2> QED  BY <1>2, <2>1, <2>2
<1>6. CASE i = EndOf(groups) /\ Points(groups, j)
  BY <1>1, <1>5, <1>6
<1>7. CASE Points(groups, i) /\ j = EndOf(groups)
  BY <1>1, <1>5, <1>7
<1> QED  BY <1>4, <1>6, <1>7 DEF Valid

(* ++ meets the bucket the iterator points to, which it had not met, and   *)
(* no other, however many empty groups it crosses.                         *)
THEOREM IncrementMeets ==
  ASSUME NEW groups \in Seq(GroupType), NEW i, Points(groups, i)
  PROVE  /\ Valid(groups, Incremented(groups, i))
         /\ Before(groups, Incremented(groups, i)) = Before(groups, i) \cup {GetPos(groups, i)}
         /\ GetPos(groups, i) \notin Before(groups, i)
<1> DEFINE j == [i EXCEPT !.col = @ + 1]
           c == GetPos(groups, i)
           g == groups[i.row]
<1>1. /\ i.row \in 1 .. Len(groups) /\ i.row \in Nat /\ i.col \in 0 .. NumItems(g) - 1
      /\ i = [row |-> i.row, col |-> i.col] /\ NumItems(g) \in Nat
  BY PointsType, OccupiedFinite
<1>2. j = [row |-> i.row, col |-> i.col + 1]
  BY <1>1
<1>3. Ready(groups, j)
  BY <1>1, <1>2 DEF Ready, Iterator
<1>4. /\ c \in FullBuckets(groups) /\ GroupNum(c) = i.row
      /\ PosToOffset(g, PosInGroup(c)) = i.col
  BY PosOfIterator
<1> HIDE DEF c, j
<1>5. ASSUME NEW b \in FullBuckets(groups), GroupNum(b) = i.row
      PROVE  /\ PosToOffset(g, PosInGroup(b)) < i.col + 1
                  <=> PosToOffset(g, PosInGroup(b)) < i.col \/ b = c
             /\ PosToOffset(g, PosInGroup(b)) \in Nat
  <2>1. b \in Nat /\ PosInGroup(b) \in Occupied(g)
    BY <1>5, FullBucket
  <2>2. c \in Nat /\ PosInGroup(c) \in Occupied(g)
    BY <1>4, FullBucket
  <2>3. PosToOffset(g, PosInGroup(b)) \in Nat
    BY OffsetType
  <2>4. PosToOffset(g, PosInGroup(b)) = i.col => b = c
    BY <1>4, <1>5, <2>1, <2>2, OffsetDetermines, BucketEqual
  <2> QED  BY <1>1, <1>4, <2>3, <2>4
<1>6. Before(groups, j) = Before(groups, i) \cup {c}
  BY <1>1, <1>2, <1>4, <1>5 DEF Before
<1>7. c \notin Before(groups, i)
  BY <1>1, <1>4 DEF Before
<1> QED  BY <1>3, <1>6, <1>7, AdvanceKeeps DEF Incremented, j, c

LEMMA BeginMeetsNone ==
  ASSUME NEW groups \in Seq(GroupType)
  PROVE  Valid(groups, BeginOf(groups)) /\ Before(groups, BeginOf(groups)) = {}
<1> DEFINE i == [row |-> 1, col |-> 0]
<1>1. Len(groups) \in Nat
  OBVIOUS
<1>2. Ready(groups, i) \/ i = EndOf(groups)
  <2>1. CASE Len(groups) = 0
    BY <2>1 DEF EndOf
  <2>2. CASE Len(groups) > 0
    BY <1>1, <2>2, OccupiedFinite DEF Ready, Iterator
  <2> QED  BY <1>1, <2>1, <2>2
<1>3. Before(groups, i) = {}
  <2> SUFFICES ASSUME NEW b \in Before(groups, i) PROVE FALSE
    OBVIOUS
  <2>1. b \in FullBuckets(groups) /\ (GroupNum(b) < 1 \/ PosToOffset(groups[1], PosInGroup(b)) < 0)
    BY DEF Before
  <2>2. GroupNum(b) \in 1 .. Len(groups) /\ PosToOffset(groups[1], PosInGroup(b)) \in Nat
    BY <2>1, FullInGroup, OffsetType
  <2> QED  BY <1>1, <2>1, <2>2
<1> QED  BY <1>2, <1>3, AdvanceKeeps DEF BeginOf

(* operator-- is the inverse of ++, from every iterator that is not at the *)
(* beginning, the end included.                                            *)
THEOREM DecrementReturns ==
  ASSUME NEW groups \in Seq(GroupType), NEW i, Valid(groups, i), i # BeginOf(groups)
  PROVE  /\ Points(groups, Decremented(groups, i))
         /\ Incremented(groups, Decremented(groups, i)) = i
<1> DEFINE j == Decremented(groups, i)
           n == Len(groups)
           S == {q \in 1 .. i.row - 1 : NumItems(groups[q]) > 0}
<1>1. n \in Nat /\ i \in Iterator /\ i.row \in Nat \ {0} /\ i.row <= n + 1 /\ i.col \in Nat
      /\ i = [row |-> i.row, col |-> i.col]
  <2>1. CASE i = EndOf(groups)
    BY <2>1, EndIsMarked DEF EndOf, Iterator
  <2>2. CASE Points(groups, i)
    <3>1. i.row \in 1 .. n /\ i \in Iterator
      BY <2>2, PointsType
    <3> QED  BY <3>1 DEF Iterator
  <2> QED  BY <2>1, <2>2 DEF Valid
<1>2. CASE i.col > 0
  <2>1. Points(groups, i)
    BY <1>2 DEF Valid, EndOf
  <2>2. j = [row |-> i.row, col |-> i.col - 1]
    BY <1>1, <1>2 DEF Decremented
  <2>3. i.col < NumItems(groups[i.row]) /\ NumItems(groups[i.row]) \in Nat /\ i.row \in 1 .. n
    BY <2>1, OccupiedFinite DEF Points, Ready
  <2> HIDE DEF j
  <2>4. Points(groups, j)
    BY <1>1, <1>2, <2>2, <2>3 DEF Points, Ready, Iterator
  <2>5. [j EXCEPT !.col = @ + 1] = i
    BY <1>1, <2>2
  <2>6. AdvancePastEnd(groups, i) = i
    BY <2>3 DEF AdvancePastEnd
  <2> QED  BY <2>4, <2>5, <2>6 DEF Incremented, j
<1>3. CASE i.col = 0
  <2>1. S # {}
    <3> SUFFICES ASSUME S = {} PROVE FALSE
      OBVIOUS
    <3>1. ASSUME NEW b \in Before(groups, i) PROVE FALSE
      <4>1. b \in FullBuckets(groups)
        BY DEF Before
      <4>2. PosToOffset(groups[i.row], PosInGroup(b)) \in Nat
        BY OffsetType
      <4>3. GroupNum(b) < i.row
        BY <1>3, <4>2 DEF Before
      <4>4. GroupNum(b) \in 1 .. n /\ NumItems(groups[GroupNum(b)]) > 0
        BY <4>1, FullInGroup
      <4> QED  BY <1>1, <4>3, <4>4
    <3> QED  BY <3>1, BeginMeetsNone, SameBefore
  <2>2. S \in SUBSET Nat /\ \A x \in S : x <= i.row
    BY <1>1
  <2> DEFINE r == Max(S)
             c == NumItems(groups[r])
  <2>3. r \in S /\ \A x \in S : x <= r
    BY <1>1, <2>1, <2>2, GreatestNat
  <2>4. r \in 1 .. i.row - 1 /\ r \in Nat /\ r \in 1 .. n /\ c > 0 /\ c \in Nat
    BY <1>1, <2>3, OccupiedFinite
  <2>5. j = [row |-> r, col |-> c - 1]
    BY <1>3 DEF Decremented
  <2> HIDE DEF j, r, c
  <2>6. Points(groups, j)
    BY <2>4, <2>5 DEF Points, Ready, Iterator, c
  <2> DEFINE k == [row |-> r, col |-> c]
             later == {q \in r + 1 .. n : NumItems(groups[q]) > 0}
  <2>7. [j EXCEPT !.col = @ + 1] = k
    BY <2>4, <2>5
  <2>8. AdvancePastEnd(groups, k) = IF later = {} THEN EndOf(groups) ELSE [row |-> Min(later), col |-> 0]
    BY <1>1, <2>4 DEF AdvancePastEnd, IsMarked, c
  <2>9. AdvancePastEnd(groups, k) = i
    <3>1. CASE i = EndOf(groups)
      <4>1. i.row = n + 1
        BY <3>1 DEF EndOf
      <4>2. later = {}
        BY <1>1, <2>3, <2>4, <4>1
      <4> QED  BY <2>8, <3>1, <4>2
    <3>2. CASE Points(groups, i)
      <4>1. i.row \in later
        BY <1>1, <1>3, <2>4, <3>2 DEF Points, Ready
      <4>2. \A q \in later : i.row <= q
        <5> SUFFICES ASSUME NEW q \in later, q < i.row PROVE FALSE
          BY <1>1, <2>4
        <5>1. q \in S
          BY <1>1, <2>4
        <5> QED  BY <2>3, <2>4, <5>1
      <4>3. later \in SUBSET Nat
        BY <2>4
      <4>4. Min(later) \in later /\ \A q \in later : Min(later) <= q
        BY <4>1, <4>3, LeastNat
      <4>5. Min(later) = i.row
        BY <4>1, <4>2, <4>3, <4>4
      <4> QED  BY <1>1, <1>3, <2>8, <4>1, <4>5
    <3> QED  BY <3>1, <3>2 DEF Valid
  <2> QED  BY <2>6, <2>7, <2>9 DEF Incremented, j
<1> QED  BY <1>1, <1>2, <1>3

-----------------------------------------------------------------------------
(* Tables of which one bucket or the first groups change.                  *)

Altered(groups, b, c) ==
  [groups EXCEPT ![GroupNum(b)] = [@ EXCEPT ![PosInGroup(b)] = c]]

LEMMA FullCell ==
  ASSUME NEW groups \in Seq(GroupType), NEW b
  PROVE  b \in FullBuckets(groups) <=>
           b \in Nat /\ GroupNum(b) \in 1 .. Len(groups) /\ CellAt(groups, b) \in Values \cup {Raw}
BY FullBucket, BucketParts DEF CellAt, Occupied

LEMMA AlteredCells ==
  ASSUME NEW groups \in Seq(GroupType), NEW b \in Nat, GroupNum(b) \in 1 .. Len(groups),
         NEW c \in CellType
  PROVE  /\ Altered(groups, b, c) \in Seq(GroupType)
         /\ Len(Altered(groups, b, c)) = Len(groups)
         /\ \A r \in 1 .. Len(groups) :
              r # GroupNum(b) => Altered(groups, b, c)[r] = groups[r]
         /\ Altered(groups, b, c)[GroupNum(b)] = [groups[GroupNum(b)] EXCEPT ![PosInGroup(b)] = c]
<1> DEFINE r == GroupNum(b)
           p == PosInGroup(b)
           new == Altered(groups, b, c)
           n == Len(groups)
<1>1. n \in Nat /\ groups \in [1 .. n -> GroupType] /\ r \in 1 .. n /\ p \in Positions
  <2>1. n \in Nat /\ groups \in [1 .. n -> GroupType] /\ r \in 1 .. n
    OBVIOUS
  <2>2. p \in Positions
    BY BucketParts
  <2> QED  BY <2>1, <2>2
<1>2. groups[r] \in [Positions -> CellType]
  BY <1>1 DEF GroupType
<1>3. [groups[r] EXCEPT ![p] = c] \in GroupType
  BY <1>1, <1>2 DEF GroupType
<1>4. new = [groups EXCEPT ![r] = [groups[r] EXCEPT ![p] = c]]
  BY <1>1 DEF Altered
<1> HIDE DEF new, r, p
<1>5. new \in [1 .. n -> GroupType] /\ new \in Seq(GroupType) /\ Len(new) = n
  BY <1>1, <1>3, <1>4
<1>6. /\ \A s \in 1 .. n : s # r => new[s] = groups[s]
      /\ new[r] = [groups[r] EXCEPT ![p] = c]
  BY <1>1, <1>4
<1> QED  BY <1>5, <1>6 DEF new, r, p

LEMMA AlteredCell ==
  ASSUME NEW groups \in Seq(GroupType), NEW b \in Nat, GroupNum(b) \in 1 .. Len(groups),
         NEW c \in CellType, NEW d \in Nat, GroupNum(d) \in 1 .. Len(groups)
  PROVE  CellAt(Altered(groups, b, c), d) = IF d = b THEN c ELSE CellAt(groups, d)
<1> DEFINE r == GroupNum(b)
           p == PosInGroup(b)
           new == Altered(groups, b, c)
<1>1. /\ \A s \in 1 .. Len(groups) : s # r => new[s] = groups[s]
      /\ new[r] = [groups[r] EXCEPT ![p] = c]
  BY AlteredCells
<1>2. groups[r] \in [Positions -> CellType]
  BY DEF GroupType
<1>3. PosInGroup(d) \in Positions /\ p \in Positions
  BY BucketParts
<1> HIDE DEF new, r, p
<1>4. CASE GroupNum(d) # r
  BY <1>1, <1>4 DEF CellAt, r, new
<1>5. CASE GroupNum(d) = r
  <2>1. CellAt(new, d) = IF PosInGroup(d) = p THEN c ELSE groups[r][PosInGroup(d)]
    BY <1>1, <1>2, <1>3, <1>5 DEF CellAt
  <2>2. PosInGroup(d) = p <=> d = b
    BY <1>5, BucketEqual DEF r, p
  <2> QED  BY <1>5, <2>1, <2>2 DEF CellAt, new
<1> QED  BY <1>4, <1>5

LEMMA AlteredFull ==
  ASSUME NEW groups \in Seq(GroupType), NEW b \in Nat, GroupNum(b) \in 1 .. Len(groups),
         NEW c \in CellType
  PROVE  FullBuckets(Altered(groups, b, c)) =
           IF c \in Values \cup {Raw} THEN FullBuckets(groups) \cup {b} ELSE FullBuckets(groups) \ {b}
<1> DEFINE new == Altered(groups, b, c)
<1>1. new \in Seq(GroupType) /\ Len(new) = Len(groups)
  BY AlteredCells
<1>5. ASSUME NEW d \in Nat, GroupNum(d) \in 1 .. Len(groups)
      PROVE  CellAt(new, d) = IF d = b THEN c ELSE CellAt(groups, d)
  BY <1>5, AlteredCell
<1> HIDE DEF new
<1>2. \A d : d \in FullBuckets(new) <=>
         d \in Nat /\ GroupNum(d) \in 1 .. Len(groups) /\ CellAt(new, d) \in Values \cup {Raw}
  BY <1>1, FullCell
<1>3. \A d : d \in FullBuckets(groups) <=>
         d \in Nat /\ GroupNum(d) \in 1 .. Len(groups) /\ CellAt(groups, d) \in Values \cup {Raw}
  BY FullCell
<1>4. \A d : d \in FullBuckets(new) <=>
         IF d = b THEN c \in Values \cup {Raw} ELSE d \in FullBuckets(groups)
  BY <1>1, <1>2, <1>3, <1>5
<1> QED  BY <1>4 DEF new

-----------------------------------------------------------------------------
(* Erasing at an iterator, and the destructive iterator.                   *)

LEMMA ErasedIsAltered ==
  ASSUME NEW groups \in Seq(GroupType), NEW i, Points(groups, i)
  PROVE  ErasedAt(groups, i) = Altered(groups, GetPos(groups, i), Erased)
<1>1. /\ GroupNum(GetPos(groups, i)) = i.row
      /\ PosInGroup(GetPos(groups, i)) = OffsetToPos(groups[i.row], i.col)
  BY PosOfIterator
<1>2. i.row \in DOMAIN groups
  BY PointsType
<1>3. /\ ErasedAt(groups, i) =
           [groups EXCEPT ![i.row] = [groups[i.row] EXCEPT ![OffsetToPos(groups[i.row], i.col)] = Erased]]
      /\ Altered(groups, GetPos(groups, i), Erased) =
           [groups EXCEPT ![i.row] = [groups[i.row] EXCEPT ![OffsetToPos(groups[i.row], i.col)] = Erased]]
  BY <1>1, <1>2 DEF ErasedAt, Altered
<1> QED  BY <1>3

(* One value less in group g: the offsets behind it move down.             *)
LEMMA OffsetAfterErase ==
  ASSUME NEW g \in GroupType, NEW p \in Occupied(g), NEW q \in Occupied(g), q # p
  PROVE  LET h == [g EXCEPT ![p] = Erased]
         IN  /\ Occupied(h) = Occupied(g) \ {p} /\ NumItems(h) = NumItems(g) - 1
             /\ PosToOffset(h, q) = IF q < p THEN PosToOffset(g, q) ELSE PosToOffset(g, q) - 1
<1> DEFINE h == [g EXCEPT ![p] = Erased]
           A == {x \in Occupied(g) : x < q}
           B == {x \in Occupied(h) : x < q}
<1>1. Occupied(g) \subseteq Positions /\ Occupied(g) \subseteq Nat /\ IsFiniteSet(Occupied(g))
  BY OccupiedFinite
<1>0. p \in Nat /\ q \in Nat
  BY <1>1
<1>2. Erased \notin Values \cup {Raw}
  BY GroupAssumption DEF GroupAssumption
<1>3. Occupied(h) = Occupied(g) \ {p}
  BY <1>1, <1>2 DEF Occupied, GroupType
<1>4. NumItems(h) = NumItems(g) - 1
  BY <1>1, <1>3, FS_RemoveElement, ZenonT(40) DEF NumItems
<1>5. IsFiniteSet(A)
  BY OffsetType
<1>6. CASE q < p
  <2>1. \A x \in Occupied(g) : x < q => x # p
    BY <1>0, <1>6
  <2>2. A = B
    BY <1>3, <2>1
  <2> QED  BY <1>3, <1>4, <1>6, <2>2 DEF PosToOffset
<1>7. CASE ~ (q < p)
  <2>0. p < q
    BY <1>0, <1>7
  <2>1. p \in A /\ B = A \ {p}
    BY <1>3, <2>0
  <2>2. Cardinality(B) = Cardinality(A) - 1
    BY <1>5, <2>1, FS_RemoveElement
  <2> QED  BY <1>3, <1>4, <1>7, <2>2 DEF PosToOffset
<1> QED  BY <1>6, <1>7

(* erase_ne takes away the bucket the iterator points to; what the         *)
(* iterator has met stays what it has met.                                 *)
LEMMA ErasedKeeps ==
  ASSUME NEW groups \in Seq(GroupType), NEW i, Points(groups, i)
  PROVE  /\ ErasedAt(groups, i) \in Seq(GroupType) /\ Len(ErasedAt(groups, i)) = Len(groups)
         /\ FullBuckets(ErasedAt(groups, i)) = FullBuckets(groups) \ {GetPos(groups, i)}
         /\ Ready(ErasedAt(groups, i), i)
         /\ Before(ErasedAt(groups, i), i) = Before(groups, i)
<1> DEFINE new == ErasedAt(groups, i)
           b == GetPos(groups, i)
           g == groups[i.row]
           p == PosInGroup(b)
<1>1. /\ b \in FullBuckets(groups) /\ GroupNum(b) = i.row /\ PosToOffset(g, p) = i.col
      /\ b \in Nat /\ GroupNum(b) \in 1 .. Len(groups) /\ p \in Occupied(g)
  <2>1. b \in FullBuckets(groups) /\ GroupNum(b) = i.row /\ PosToOffset(g, p) = i.col
    BY PosOfIterator
  <2> QED  BY <2>1, FullBucket
<1>2. new = Altered(groups, b, Erased)
  BY ErasedIsAltered
<1>3. Erased \notin Values \cup {Raw} /\ Erased \in CellType
  BY GroupAssumption DEF GroupAssumption, CellType
<1>4. i \in Iterator /\ i.row \in 1 .. Len(groups) /\ i.col \in 0 .. NumItems(g) - 1
  BY PointsType
<1> HIDE DEF new, b, p
<1>5. new \in Seq(GroupType) /\ Len(new) = Len(groups) /\ new[i.row] = [g EXCEPT ![p] = Erased]
  BY <1>1, <1>2, <1>3, AlteredCells DEF p
<1>6. FullBuckets(new) = FullBuckets(groups) \ {b}
  BY <1>1, <1>2, <1>3, AlteredFull
<1> HIDE DEF g
<1>7. g \in GroupType
  BY <1>4 DEF g
<1> DEFINE h == new[i.row]
<1>8. NumItems(h) = NumItems(g) - 1 /\ NumItems(g) \in Nat
  <2>1. IsFiniteSet(Occupied(g)) /\ Occupied(g) \subseteq Positions /\ NumItems(g) \in Nat
    BY OccupiedFinite
  <2>2. Occupied(h) = Occupied(g) \ {p}
    BY <1>1, <1>3, <1>5, <1>7, <2>1 DEF Occupied, GroupType
  <2> QED  BY <1>1, <2>1, <2>2, FS_RemoveElement, ZenonT(40) DEF NumItems
<1>9. Ready(new, i)
  BY <1>4, <1>5, <1>8 DEF Ready
<1>10. ASSUME NEW d \in FullBuckets(groups), d # b, GroupNum(d) = i.row
       PROVE  PosToOffset(h, PosInGroup(d)) < i.col <=> PosToOffset(g, PosInGroup(d)) < i.col
  <2> DEFINE q == PosInGroup(d)
  <2>1. d \in Nat /\ q \in Occupied(g)
    BY <1>10, FullBucket DEF g
  <2>2. q # p
    BY <1>1, <1>10, <2>1, BucketEqual DEF p
  <2>3. p \in Nat /\ q \in Nat /\ PosToOffset(g, q) \in Nat /\ PosToOffset(h, q) \in Nat /\ i.col \in Nat
    BY <1>1, <1>4, <2>1, OccupiedFinite, OffsetType
  <2>4. q < p <=> PosToOffset(g, q) < i.col
    BY <1>1, <2>1, OffsetOrder
  <2>5. p < q <=> i.col < PosToOffset(g, q)
    BY <1>1, <2>1, OffsetOrder
  <2>6. PosToOffset(h, q) = IF q < p THEN PosToOffset(g, q) ELSE PosToOffset(g, q) - 1
    BY <1>1, <1>5, <1>7, <2>1, <2>2, OffsetAfterErase, ZenonT(40)
  <2> QED  BY <2>2, <2>3, <2>4, <2>5, <2>6
<1>11. b \notin Before(groups, i)
  BY <1>1, <1>4 DEF Before, g, p
<1>12. Before(new, i) = Before(groups, i)
  <2>1. \A d \in FullBuckets(new) : d \in FullBuckets(groups) /\ d # b
    BY <1>6
  <2>2. Before(new, i) \subseteq Before(groups, i)
    BY <1>10, <2>1 DEF Before, g
  <2>3. Before(groups, i) \subseteq Before(new, i)
    BY <1>6, <1>10, <1>11 DEF Before, g
  <2> QED  BY <2>2, <2>3
<1> QED  BY <1>5, <1>6, <1>9, <1>12 DEF new, b

(* The destructive iterator stays where it is when the rows it has left    *)
(* are cleared, and of the full buckets those it has met are gone.         *)
LEMMA LeftBehindKeeps ==
  ASSUME NEW groups \in Seq(GroupType), NEW i, Valid(groups, i)
  PROVE  /\ LeftBehind(groups, i) \in Seq(GroupType) /\ Len(LeftBehind(groups, i)) = Len(groups)
         /\ Valid(LeftBehind(groups, i), i)
         /\ Place(LeftBehind(groups, i), i) = Place(groups, i)
         /\ FullBuckets(LeftBehind(groups, i)) = {b \in FullBuckets(groups) : i.row <= GroupNum(b)}
<1> DEFINE new == LeftBehind(groups, i)
           vacant == [p \in Positions |-> Empty]
<1>1. Len(groups) \in Nat /\ vacant \in GroupType
  BY DEF GroupType, CellType
<1>2. new = [r \in 1 .. Len(groups) |-> IF r < i.row THEN vacant ELSE groups[r]]
  BY DEF LeftBehind
<1>3. new \in Seq(GroupType) /\ Len(new) = Len(groups)
  BY <1>1, <1>2
<1>4. Occupied(vacant) = {}
  BY GroupAssumption DEF GroupAssumption, Occupied
<1> HIDE DEF new, vacant
<1>5. FullBuckets(new) = {b \in FullBuckets(groups) : i.row <= GroupNum(b)}
  <2>1. i.row \in Nat
    BY EndIsMarked, PointsType DEF Valid, Iterator
  <2>2. ASSUME NEW b
        PROVE  b \in FullBuckets(new) <=> b \in FullBuckets(groups) /\ i.row <= GroupNum(b)
    <3>1. b \in FullBuckets(new) <=> /\ b \in Nat /\ GroupNum(b) \in 1 .. Len(groups)
                                     /\ PosInGroup(b) \in Occupied(new[GroupNum(b)])
      BY <1>3, FullBucket
    <3>2. b \in FullBuckets(groups) <=> /\ b \in Nat /\ GroupNum(b) \in 1 .. Len(groups)
                                        /\ PosInGroup(b) \in Occupied(groups[GroupNum(b)])
      BY FullBucket
    <3> QED  BY <1>2, <1>4, <2>1, <3>1, <3>2
  <2> QED  BY <2>2
<1>6. CASE i = EndOf(groups)
  <2>1. EndOf(new) = EndOf(groups)
    BY <1>3 DEF EndOf
  <2> QED  BY <1>3, <1>5, <1>6, <2>1, EndIsMarked DEF Valid, Place, new
<1>7. CASE Points(groups, i)
  <2>1. i.row \in 1 .. Len(groups) /\ i.row \in Nat /\ ~ IsMarked(groups, i)
    BY <1>7, PointsType
  <2>2. new[i.row] = groups[i.row]
    BY <1>2, <2>1
  <2>3. Points(new, i) /\ ~ IsMarked(new, i) /\ GetPos(new, i) = GetPos(groups, i)
    BY <1>3, <1>7, <2>1, <2>2 DEF Points, Ready, IsMarked, GetPos
  <2> QED  BY <1>3, <1>5, <2>1, <2>3 DEF Valid, Place, new
<1> QED  BY <1>6, <1>7 DEF Valid

LEMMA BeforeFinite ==
  ASSUME NEW groups \in Seq(GroupType), NEW i
  PROVE  /\ Before(groups, i) \subseteq FullBuckets(groups)
         /\ IsFiniteSet(Before(groups, i)) /\ Cardinality(Before(groups, i)) \in Nat
         /\ Cardinality(Before(groups, i)) <= Cardinality(FullBuckets(groups))
<1>1. Before(groups, i) \in SUBSET FullBuckets(groups)
  BY DEF Before
<1> QED  BY <1>1, FullFinite, FS_Subset, FS_CardinalityType

LEMMA EndMeetsAll ==
  ASSUME NEW groups \in Seq(GroupType)
  PROVE  Before(groups, EndOf(groups)) = FullBuckets(groups)
<1>1. ASSUME NEW b \in FullBuckets(groups) PROVE GroupNum(b) < Len(groups) + 1
  <2>1. GroupNum(b) \in 1 .. Len(groups) /\ Len(groups) \in Nat
    BY FullInGroup
  <2> QED  BY <2>1
<1> QED  BY <1>1 DEF Before, EndOf

(* What two iterators have met is the same if it is as much.               *)
LEMMA BeforeNested ==
  ASSUME NEW groups \in Seq(GroupType), NEW i, NEW j, Valid(groups, i), Valid(groups, j),
         Cardinality(Before(groups, i)) = Cardinality(Before(groups, j))
  PROVE  i = j
<1> DEFINE x == Place(groups, i)
           y == Place(groups, j)
<1>1. /\ x \in Nat /\ Before(groups, i) = {b \in FullBuckets(groups) : b < x}
      /\ y \in Nat /\ Before(groups, j) = {b \in FullBuckets(groups) : b < y}
  BY BeforeIsBelow
<1>2. IsFiniteSet(Before(groups, i)) /\ IsFiniteSet(Before(groups, j)) /\ FullBuckets(groups) \subseteq Nat
  BY BeforeFinite, FullFinite
<1> HIDE DEF x, y
<1>3. Before(groups, i) \in SUBSET Before(groups, j) \/ Before(groups, j) \in SUBSET Before(groups, i)
  BY <1>1, <1>2
<1>4. Before(groups, i) = Before(groups, j)
  BY <1>2, <1>3, FS_Subset
<1> QED  BY <1>4, SameBefore

(* The first full bucket that an iterator has not met is where it points.  *)
LEMMA PointsToLeast ==
  ASSUME NEW groups \in Seq(GroupType), NEW i, Valid(groups, i),
         NEW b \in FullBuckets(groups), b \notin Before(groups, i)
  PROVE  /\ Points(groups, i)
         /\ GetPos(groups, i) \in FullBuckets(groups) /\ GetPos(groups, i) \notin Before(groups, i)
         /\ GetPos(groups, i) <= b
<1>1. Points(groups, i)
  BY EndMeetsAll DEF Valid
<1>2. Before(groups, i) = {c \in FullBuckets(groups) : c < Place(groups, i)}
  BY BeforeIsBelow
<1>3. Place(groups, i) = GetPos(groups, i)
  BY <1>1, PointsType DEF Place
<1>4. GetPos(groups, i) \in FullBuckets(groups) /\ GetPos(groups, i) \in Nat /\ b \in Nat
  BY <1>1, PosOfIterator, FullFinite
<1>5. ~ (b < GetPos(groups, i))
  BY <1>2, <1>3
<1> QED  BY <1>1, <1>2, <1>3, <1>4, <1>5

-----------------------------------------------------------------------------
(* Distances and ranges.                                                   *)

(* The iterators that Distance counts.                                     *)
Steps(groups, f) ==
  CHOOSE s : s = [n \in 0 .. Cardinality(FullBuckets(groups)) |->
                    IF n = 0 THEN f ELSE Incremented(groups, s[n - 1])]

LEMMA StepsExist ==
  ASSUME NEW groups, NEW f, NEW m \in Nat
  PROVE  \E s : s = [n \in 0 .. m |-> IF n = 0 THEN f ELSE Incremented(groups, s[n - 1])]
<1> DEFINE Good(k) == \E s : s = [n \in 0 .. k |-> IF n = 0 THEN f ELSE Incremented(groups, s[n - 1])]
           T == {k \in Nat : ~ Good(k)}
<1>1. ASSUME T # {} PROVE FALSE
  <2> DEFINE k == Min(T)
  <2>1. k \in T /\ \A j \in T : k <= j
    BY <1>1, LeastNat
  <2> HIDE DEF k
  <2>2. CASE k = 0
    <3> DEFINE s == [n \in 0 .. k |-> f]
    <3>1. s = [n \in 0 .. k |-> IF n = 0 THEN f ELSE Incremented(groups, s[n - 1])]
      BY <2>2
    <3> QED  BY <2>1, <3>1
  <2>3. CASE k # 0
    <3>0. k \in Nat
      BY <2>1
    <3>1. k - 1 \in Nat /\ k \in Nat /\ ~ (k <= k - 1)
      BY <2>3, <3>0
    <3>7. k - 1 \notin T
      BY <2>1, <3>1
    <3>2. PICK t : t = [n \in 0 .. k - 1 |-> IF n = 0 THEN f ELSE Incremented(groups, t[n - 1])]
      BY <3>1, <3>7
    <3> DEFINE s == [n \in 0 .. k |-> IF n = k THEN Incremented(groups, t[k - 1]) ELSE t[n]]
    <3>3. \A n \in 0 .. k - 1 : s[n] = t[n]
      BY <3>1
    <3>4. \A n \in 0 .. k : s[n] = IF n = 0 THEN f ELSE Incremented(groups, s[n - 1])
      <4> SUFFICES ASSUME NEW n \in 0 .. k
                   PROVE  s[n] = IF n = 0 THEN f ELSE Incremented(groups, s[n - 1])
        OBVIOUS
      <4>1. CASE n = k
        <5>1. s[k] = Incremented(groups, t[k - 1]) /\ k - 1 \in 0 .. k - 1
          BY <3>1
        <5> QED  BY <2>3, <3>3, <4>1, <5>1
      <4>2. CASE n # k
        <5>1. n \in 0 .. k - 1 /\ (n # 0 => n - 1 \in 0 .. k - 1)
          BY <3>1, <4>2
        <5>2. s[n] = t[n] /\ (n # 0 => s[n - 1] = t[n - 1])
          BY <3>3, <5>1
        <5>3. t[n] = IF n = 0 THEN f ELSE Incremented(groups, t[n - 1])
          BY <3>2, <5>1
        <5> QED  BY <5>2, <5>3
      <4> QED  BY <4>1, <4>2
    <3> HIDE DEF s
    <3>5. s = [n \in 0 .. k |-> IF n = 0 THEN f ELSE Incremented(groups, s[n - 1])]
      BY <3>4 DEF s
    <3>6. Good(k)
      BY <3>5
    <3> QED  BY <2>1, <3>6
  <2> QED  BY <2>2, <2>3
<1>2. m \notin T
  BY <1>1
<1>3. Good(m)
  BY <1>2
<1> QED  BY <1>3

LEMMA StepsAre ==
  ASSUME NEW groups \in Seq(GroupType), NEW f
  PROVE  LET s == Steps(groups, f)
             m == Cardinality(FullBuckets(groups))
         IN  /\ DOMAIN s = 0 .. m /\ m \in Nat /\ s[0] = f
             /\ \A n \in 1 .. m : s[n] = Incremented(groups, s[n - 1])
<1> DEFINE s == Steps(groups, f)
           m == Cardinality(FullBuckets(groups))
<1>1. m \in Nat
  BY FullFinite
<1>2. s = [n \in 0 .. m |-> IF n = 0 THEN f ELSE Incremented(groups, s[n - 1])]
  BY <1>1, StepsExist, SMTT(30) DEF Steps
<1> HIDE DEF s, m
<1>3. DOMAIN s = 0 .. m
  BY <1>2, Zenon
<1>4. s[0] = f
  BY <1>1, <1>2
<1>5. \A n \in 1 .. m : s[n] = Incremented(groups, s[n - 1])
  BY <1>1, <1>2
<1> QED  BY <1>1, <1>3, <1>4, <1>5 DEF s, m

(* A step of the walk meets one bucket more; before it has met what l has  *)
(* it is not at the end.                                                   *)
LEMMA WalkMeets ==
  ASSUME NEW groups \in Seq(GroupType), NEW f, NEW l, Points(groups, f), Valid(groups, l),
         Before(groups, f) \subseteq Before(groups, l)
  PROVE  LET s == Steps(groups, f)
             d == Cardinality(Before(groups, l)) - Cardinality(Before(groups, f))
         IN  /\ d \in Nat /\ d <= Cardinality(FullBuckets(groups))
             /\ \A k \in 0 .. d :
                  /\ Valid(groups, s[k])
                  /\ Cardinality(Before(groups, s[k])) = Cardinality(Before(groups, f)) + k
                  /\ k < d => Points(groups, s[k]) /\ s[k + 1] = Incremented(groups, s[k])
<1> DEFINE s == Steps(groups, f)
           a == Cardinality(Before(groups, f))
           d == Cardinality(Before(groups, l)) - a
           m == Cardinality(FullBuckets(groups))
<1>1. a \in Nat /\ Cardinality(Before(groups, l)) \in Nat /\ Cardinality(Before(groups, l)) <= m /\ m \in Nat
  BY BeforeFinite, FullFinite
<1>2. a <= Cardinality(Before(groups, l))
  BY BeforeFinite, FS_Subset
<1>3. d \in Nat /\ d <= m /\ a + d <= m
  BY <1>1, <1>2
<1>4. s[0] = f /\ \A n \in 1 .. m : s[n] = Incremented(groups, s[n - 1])
  BY StepsAre
<1> HIDE DEF s, a, d, m
<1>5. ASSUME NEW k \in 0 .. d, k < d, Valid(groups, s[k]), Cardinality(Before(groups, s[k])) = a + k
      PROVE  /\ Points(groups, s[k]) /\ s[k + 1] = Incremented(groups, s[k])
             /\ Valid(groups, s[k + 1]) /\ Cardinality(Before(groups, s[k + 1])) = a + k + 1
  <2>1. s[k] # EndOf(groups)
    <3>1. a + k # m
      BY <1>1, <1>3, <1>5
    <3> QED  BY <1>5, <3>1, EndMeetsAll DEF m
  <2>2. Points(groups, s[k])
    BY <1>5, <2>1 DEF Valid
  <2>3. s[k + 1] = Incremented(groups, s[k])
    <3>1. k + 1 \in 1 .. m /\ (k + 1) - 1 = k
      BY <1>1, <1>3, <1>5
    <3> QED  BY <1>4, <3>1
  <2>4. /\ Valid(groups, s[k + 1])
        /\ Before(groups, s[k + 1]) = Before(groups, s[k]) \cup {GetPos(groups, s[k])}
        /\ GetPos(groups, s[k]) \notin Before(groups, s[k])
    BY <2>2, <2>3, IncrementMeets
  <2>5. Cardinality(Before(groups, s[k + 1])) = Cardinality(Before(groups, s[k])) + 1
    BY <2>4, BeforeFinite, FS_AddElement
  <2> QED  BY <1>1, <1>5, <2>2, <2>3, <2>4, <2>5
<1> DEFINE Good(k) == Valid(groups, s[k]) /\ Cardinality(Before(groups, s[k])) = a + k
           T == {k \in 0 .. d : ~ Good(k)}
<1>6. ASSUME T # {} PROVE FALSE
  <2> DEFINE k == Min(T)
  <2>1. T \in SUBSET Nat
    BY <1>3
  <2>2. k \in T /\ \A j \in T : k <= j
    BY <1>6, <2>1, LeastNat
  <2> HIDE DEF k
  <2>3. k # 0
    <3>1. Good(0)
      BY <1>1, <1>4 DEF Valid, a
    <3> QED  BY <2>2, <3>1
  <2>4. k - 1 \in 0 .. d /\ k - 1 < d /\ k \in Nat
    BY <1>3, <2>2, <2>3
  <2>5. Good(k - 1)
    BY <2>2, <2>4
  <2>6. Valid(groups, s[(k - 1) + 1]) /\ Cardinality(Before(groups, s[(k - 1) + 1])) = a + (k - 1) + 1
    BY <1>5, <2>4, <2>5
  <2>7. (k - 1) + 1 = k /\ a + (k - 1) + 1 = a + k
    BY <1>1, <2>4
  <2>8. Good(k)
    BY <2>6, <2>7
  <2> QED  BY <2>2, <2>8
<1>7. \A k \in 0 .. d : Good(k)
  BY <1>6
<1>8. \A k \in 0 .. d : k < d => Points(groups, s[k]) /\ s[k + 1] = Incremented(groups, s[k])
  BY <1>5, <1>7
<1> QED  BY <1>3, <1>7, <1>8 DEF s, a, d, m

(* operator-: the distance of two iterators is the number of full buckets  *)
(* from the one to the other, and so many increments get from f to l.      *)
THEOREM DistanceCounts ==
  ASSUME NEW groups \in Seq(GroupType), NEW f, NEW l, Points(groups, f), Valid(groups, l),
         Before(groups, f) \subseteq Before(groups, l)
  PROVE  /\ Distance(groups, l, f) = Cardinality(Before(groups, l)) - Cardinality(Before(groups, f))
         /\ Steps(groups, f)[Distance(groups, l, f)] = l
<1> DEFINE s == Steps(groups, f)
           a == Cardinality(Before(groups, f))
           d == Cardinality(Before(groups, l)) - a
           m == Cardinality(FullBuckets(groups))
           S == {n \in DOMAIN s : s[n] = l}
<1>1. /\ d \in Nat /\ d <= m
      /\ \A k \in 0 .. d : Valid(groups, s[k]) /\ Cardinality(Before(groups, s[k])) = a + k
  BY WalkMeets
<1>2. a \in Nat /\ Cardinality(Before(groups, l)) \in Nat
  BY BeforeFinite
<1>3. DOMAIN s = 0 .. m /\ m \in Nat
  BY StepsAre
<1>4. Distance(groups, l, f) = Min(S)
  <2>1. ~ IsMarked(groups, f)
    BY PointsType
  <2> QED  BY <2>1, Zenon DEF Distance, Steps
<1>5. s[d] = l
  <2>1. Valid(groups, s[d]) /\ Cardinality(Before(groups, s[d])) = a + d
    BY <1>1
  <2>2. Cardinality(Before(groups, s[d])) = Cardinality(Before(groups, l))
    BY <1>2, <2>1
  <2> QED  BY <2>1, <2>2, BeforeNested
<1> HIDE DEF s, m
<1>6. d \in S /\ S \in SUBSET Nat
  BY <1>1, <1>3, <1>5
<1>7. Min(S) \in S /\ Min(S) <= d
  BY <1>6, LeastNat
<1>8. Min(S) \in 0 .. d
  BY <1>1, <1>6, <1>7
<1>9. Cardinality(Before(groups, l)) = a + Min(S)
  BY <1>1, <1>7, <1>8
<1>10. Min(S) = d
  BY <1>2, <1>8, <1>9
<1> QED  BY <1>4, <1>5, <1>10 DEF s

(* erase(f, l) after k of its erasures.                                    *)
EraseOne(x) ==
  [groups |-> ErasedAt(x.groups, x.it),
   it     |-> AdvancePastEnd(ErasedAt(x.groups, x.it), x.it)]

Erasures(groups, f, m) ==
  CHOOSE s : s = [k \in 0 .. m |-> IF k = 0 THEN [groups |-> groups, it |-> f] ELSE EraseOne(s[k - 1])]

LEMMA ErasuresExist ==
  ASSUME NEW x, NEW m \in Nat
  PROVE  \E s : s = [n \in 0 .. m |-> IF n = 0 THEN x ELSE EraseOne(s[n - 1])]
<1> DEFINE Good(k) == \E s : s = [n \in 0 .. k |-> IF n = 0 THEN x ELSE EraseOne(s[n - 1])]
           T == {k \in Nat : ~ Good(k)}
<1>1. ASSUME T # {} PROVE FALSE
  <2> DEFINE k == Min(T)
  <2>1. k \in T /\ \A j \in T : k <= j
    BY <1>1, LeastNat
  <2> HIDE DEF k
  <2>2. CASE k = 0
    <3> DEFINE s == [n \in 0 .. k |-> x]
    <3>1. s = [n \in 0 .. k |-> IF n = 0 THEN x ELSE EraseOne(s[n - 1])]
      BY <2>2
    <3> QED  BY <2>1, <3>1
  <2>3. CASE k # 0
    <3>0. k \in Nat
      BY <2>1
    <3>1. k - 1 \in Nat /\ ~ (k <= k - 1)
      BY <2>3, <3>0
    <3>7. k - 1 \notin T
      BY <2>1, <3>1
    <3>2. PICK t : t = [n \in 0 .. k - 1 |-> IF n = 0 THEN x ELSE EraseOne(t[n - 1])]
      BY <3>1, <3>7
    <3> DEFINE s == [n \in 0 .. k |-> IF n = k THEN EraseOne(t[k - 1]) ELSE t[n]]
    <3>3. \A n \in 0 .. k - 1 : s[n] = t[n]
      BY <3>0
    <3>4. \A n \in 0 .. k : s[n] = IF n = 0 THEN x ELSE EraseOne(s[n - 1])
      <4> SUFFICES ASSUME NEW n \in 0 .. k
                   PROVE  s[n] = IF n = 0 THEN x ELSE EraseOne(s[n - 1])
        OBVIOUS
      <4>1. CASE n = k
        <5>1. s[k] = EraseOne(t[k - 1]) /\ k - 1 \in 0 .. k - 1
          BY <3>0, <3>1
        <5> QED  BY <2>3, <3>3, <4>1, <5>1
      <4>2. CASE n # k
        <5>1. n \in 0 .. k - 1 /\ (n # 0 => n - 1 \in 0 .. k - 1)
          BY <3>0, <4>2
        <5>2. s[n] = t[n] /\ (n # 0 => s[n - 1] = t[n - 1])
          BY <3>3, <5>1
        <5>3. t[n] = IF n = 0 THEN x ELSE EraseOne(t[n - 1])
          BY <3>2, <5>1
        <5> QED  BY <5>2, <5>3
      <4> QED  BY <4>1, <4>2
    <3> HIDE DEF s
    <3>5. s = [n \in 0 .. k |-> IF n = 0 THEN x ELSE EraseOne(s[n - 1])]
      BY <3>4 DEF s
    <3>6. Good(k)
      BY <3>5
    <3> QED  BY <2>1, <3>6
  <2> QED  BY <2>2, <2>3
<1>2. m \notin T
  BY <1>1
<1>3. Good(m)
  BY <1>2
<1> QED  BY <1>3

LEMMA ErasuresAre ==
  ASSUME NEW groups, NEW f, NEW m \in Nat
  PROVE  LET s == Erasures(groups, f, m)
         IN  /\ s[0] = [groups |-> groups, it |-> f]
             /\ \A k \in 1 .. m : s[k] = EraseOne(s[k - 1])
<1> DEFINE s == Erasures(groups, f, m)
           x == [groups |-> groups, it |-> f]
<1>1. s = [k \in 0 .. m |-> IF k = 0 THEN x ELSE EraseOne(s[k - 1])]
  BY ErasuresExist DEF Erasures
<1> HIDE DEF s, x
<1>2. s[0] = x
  BY <1>1
<1>3. \A k \in 1 .. m : s[k] = EraseOne(s[k - 1])
  BY <1>1
<1> QED  BY <1>2, <1>3 DEF s, x

LEMMA RangeIsErasures ==
  ASSUME NEW groups, NEW f, NEW l
  PROVE  ErasedRange(groups, f, l) = Erasures(groups, f, Distance(groups, l, f))[Distance(groups, l, f)]
BY Zenon DEF ErasedRange, Erasures, EraseOne

(* x has the groups and the iterator that are left when of the buckets in  *)
(* groups those that f meets before m are erased.                          *)
ErasedUpTo(groups, f, m, x) ==
  LET G == Before(groups, m) \ Before(groups, f)
  IN  /\ x.groups \in Seq(GroupType) /\ Len(x.groups) = Len(groups)
      /\ Valid(x.groups, x.it)
      /\ Before(x.groups, x.it) = Before(groups, f)
      /\ Before(groups, f) \subseteq Before(groups, m)
      /\ FullBuckets(x.groups) = FullBuckets(groups) \ G
      /\ \A b \in Nat : GroupNum(b) \in 1 .. Len(groups) =>
           CellAt(x.groups, b) = IF b \in G THEN Erased ELSE CellAt(groups, b)

LEMMA ErasuresKeep ==
  ASSUME NEW groups \in Seq(GroupType), NEW f, NEW l, Points(groups, f), Valid(groups, l),
         Before(groups, f) \subseteq Before(groups, l),
         NEW k \in 0 .. Distance(groups, l, f)
  PROVE  ErasedUpTo(groups, f, Steps(groups, f)[k], Erasures(groups, f, Distance(groups, l, f))[k])
<1> DEFINE n == Distance(groups, l, f)
           e == Erasures(groups, f, n)
           s == Steps(groups, f)
           B == Before(groups, f)
           F == FullBuckets(groups)
           Cells(j) == \A b \in Nat : GroupNum(b) \in 1 .. Len(groups) =>
                         CellAt(e[j].groups, b) = IF b \in Before(groups, s[j]) \ B THEN Erased
                                                  ELSE CellAt(groups, b)
           Good(j) == /\ e[j].groups \in Seq(GroupType) /\ Len(e[j].groups) = Len(groups)
                      /\ Valid(e[j].groups, e[j].it)
                      /\ Before(e[j].groups, e[j].it) = B
                      /\ B \subseteq Before(groups, s[j])
                      /\ FullBuckets(e[j].groups) = F \ (Before(groups, s[j]) \ B)
                      /\ Cells(j)
           T == {j \in 0 .. n : ~ Good(j)}
<1>1. n \in Nat /\ n <= Cardinality(F) /\ n = Cardinality(Before(groups, l)) - Cardinality(B)
  BY DistanceCounts, WalkMeets
<1>2. \A j \in 0 .. n : j < n => Points(groups, s[j]) /\ s[j + 1] = Incremented(groups, s[j])
  BY <1>1, WalkMeets
<1>3. s[0] = f
  BY StepsAre
<1>4. e[0] = [groups |-> groups, it |-> f] /\ \A j \in 1 .. n : e[j] = EraseOne(e[j - 1])
  BY <1>1, ErasuresAre
<1> HIDE DEF n, e, s
<1>5. Good(0)
  <2>1. e[0].groups = groups /\ e[0].it = f
    BY <1>4
  <2>2. Before(groups, s[0]) \ B = {}
    BY <1>3
  <2>3. Valid(groups, f)
    BY DEF Valid
  <2> QED  BY <1>3, <2>1, <2>2, <2>3
<1>6. ASSUME NEW j \in 0 .. n, j < n, Good(j)
      PROVE  Good(j + 1)
  <2> DEFINE old == e[j].groups
             i == e[j].it
             c == GetPos(groups, s[j])
             M == Before(groups, s[j])
             new == ErasedAt(old, i)
  <2>1. /\ Points(groups, s[j]) /\ s[j + 1] = Incremented(groups, s[j])
        /\ e[j + 1] = EraseOne(e[j])
    <3>1. j + 1 \in 1 .. n /\ (j + 1) - 1 = j
      BY <1>1, <1>6
    <3> QED  BY <1>2, <1>4, <1>6, <3>1
  <2>2. c \in F /\ c \notin M /\ Before(groups, s[j + 1]) = M \cup {c} /\ F \subseteq Nat
    BY <2>1, IncrementMeets, PosOfIterator, FullFinite
  <2>3. /\ old \in Seq(GroupType) /\ Len(old) = Len(groups) /\ Valid(old, i)
        /\ Before(old, i) = B /\ B \subseteq M /\ FullBuckets(old) = F \ (M \ B)
    BY <1>6
  <2>4. Cells(j)
    BY <1>6
  <2>5. new = e[j + 1].groups /\ e[j + 1].it = AdvancePastEnd(new, i)
    BY <2>1 DEF EraseOne
  <2> HIDE DEF old, i, c, M, new, F, B, Good, Cells
  <2>6. c \in FullBuckets(old) /\ c \notin Before(old, i)
    BY <2>2, <2>3
  <2>7. Points(old, i) /\ GetPos(old, i) = c
    <3> DEFINE x == GetPos(old, i)
    <3>1. Points(old, i) /\ x \in FullBuckets(old) /\ x \notin Before(old, i) /\ x <= c
      BY <2>3, <2>6, PointsToLeast
    <3>2. x \in F /\ x \notin M
      BY <2>3, <3>1
    <3>3. GetPos(groups, s[j]) <= x
      BY <2>1, <3>2, PointsToLeast DEF F, M, Valid
    <3> HIDE DEF x
    <3>4. c <= x /\ x \in Nat /\ c \in Nat
      BY <2>2, <3>2, <3>3 DEF c
    <3>5. x = c
      BY <3>1, <3>4
    <3> QED  BY <3>1, <3>5 DEF x
  <2>8. /\ new \in Seq(GroupType) /\ Len(new) = Len(groups)
        /\ FullBuckets(new) = FullBuckets(old) \ {c}
        /\ Ready(new, i) /\ Before(new, i) = B
    BY <2>3, <2>7, ErasedKeeps DEF new
  <2>9. Valid(new, AdvancePastEnd(new, i)) /\ Before(new, AdvancePastEnd(new, i)) = B
    BY <2>8, AdvanceKeeps
  <2>10. FullBuckets(new) = F \ ((M \cup {c}) \ B)
    BY <2>2, <2>3, <2>8
  <2>11. Cells(j + 1)
    <3>1. new = Altered(old, c, Erased)
      BY <2>3, <2>7, ErasedIsAltered DEF new
    <3>2. c \in Nat /\ GroupNum(c) \in 1 .. Len(old) /\ Erased \in CellType
      BY <2>2, <2>3, <2>6, FullBucket DEF CellType
    <3>3. c \notin B
      BY <2>2, <2>3
    <3>4. ASSUME NEW b \in Nat, GroupNum(b) \in 1 .. Len(groups)
          PROVE  CellAt(new, b) = IF b \in (M \cup {c}) \ B THEN Erased ELSE CellAt(groups, b)
      <4>1. CellAt(new, b) = IF b = c THEN Erased ELSE CellAt(old, b)
        BY <2>3, <3>1, <3>2, <3>4, AlteredCell
      <4>2. CellAt(old, b) = IF b \in M \ B THEN Erased ELSE CellAt(groups, b)
        BY <2>4, <3>4 DEF Cells, old, M
      <4> QED  BY <3>3, <4>1, <4>2
    <3> QED  BY <2>2, <2>5, <3>4 DEF Cells
  <2> QED  BY <2>2, <2>3, <2>5, <2>8, <2>9, <2>10, <2>11 DEF Good
<1> HIDE DEF Good
<1>7. ASSUME T # {} PROVE FALSE
  <2> DEFINE j == Min(T)
  <2>1. T \in SUBSET Nat
    BY <1>1
  <2>2. j \in T /\ \A h \in T : j <= h
    BY <1>7, <2>1, LeastNat
  <2> HIDE DEF j
  <2>3. j \in 0 .. n /\ ~ Good(j) /\ j # 0
    BY <1>5, <2>2
  <2>4. j - 1 \in 0 .. n /\ j - 1 < n /\ (j - 1) + 1 = j /\ ~ (j <= j - 1)
    BY <1>1, <2>3
  <2>5. Good(j - 1)
    BY <2>2, <2>4
  <2>6. Good((j - 1) + 1)
    BY <1>6, <2>4, <2>5
  <2> QED  BY <2>3, <2>4, <2>6
<1>8. Good(k)
  BY <1>7 DEF n
<1> QED  BY <1>8 DEF Good, ErasedUpTo, n, e, s

(* erase(f, l) erases the buckets from f up to l, as many as it counted,   *)
(* and returns an iterator to where l pointed.                             *)
THEOREM RangeErased ==
  ASSUME NEW groups \in Seq(GroupType), NEW f, NEW l, Points(groups, f), Valid(groups, l),
         Before(groups, f) \subseteq Before(groups, l)
  PROVE  LET done == ErasedRange(groups, f, l)
             G == Before(groups, l) \ Before(groups, f)
         IN  /\ done.groups \in Seq(GroupType) /\ Len(done.groups) = Len(groups)
             /\ Valid(done.groups, done.it)
             /\ Place(done.groups, done.it) = Place(groups, l)
             /\ FullBuckets(done.groups) = FullBuckets(groups) \ G
             /\ Cardinality(FullBuckets(done.groups)) =
                  Cardinality(FullBuckets(groups)) - Distance(groups, l, f)
             /\ \A b \in Nat : GroupNum(b) \in 1 .. Len(groups) =>
                  CellAt(done.groups, b) = IF b \in G THEN Erased ELSE CellAt(groups, b)
<1> DEFINE n == Distance(groups, l, f)
           done == ErasedRange(groups, f, l)
           B == Before(groups, f)
           F == FullBuckets(groups)
           L == Before(groups, l)
           new == done.groups
           i == done.it
<1>1. n \in Nat /\ n = Cardinality(L) - Cardinality(B) /\ Steps(groups, f)[n] = l
  BY DistanceCounts, WalkMeets
<1>2. done = Erasures(groups, f, n)[n]
  BY RangeIsErasures
<1>3. n \in 0 .. n
  BY <1>1
<1>8. ErasedUpTo(groups, f, l, done)
  <2>1. ErasedUpTo(groups, f, Steps(groups, f)[n], Erasures(groups, f, n)[n])
    BY <1>3, ErasuresKeep
  <2> QED  BY <1>1, <1>2, <2>1
<1> HIDE DEF n, done
<1>4. /\ new \in Seq(GroupType) /\ Len(new) = Len(groups)
      /\ Valid(new, i) /\ Before(new, i) = B
      /\ FullBuckets(new) = F \ (L \ B)
      /\ \A b \in Nat : GroupNum(b) \in 1 .. Len(groups) =>
           CellAt(new, b) = IF b \in L \ B THEN Erased ELSE CellAt(groups, b)
  BY <1>8 DEF ErasedUpTo
<1> HIDE DEF new, i
<1>5. L \subseteq F /\ IsFiniteSet(L) /\ IsFiniteSet(F) /\ IsFiniteSet(B) /\ F \subseteq Nat
  BY BeforeFinite, FullFinite
<1>6. Cardinality(FullBuckets(new)) = Cardinality(F) - n
  <2>1. IsFiniteSet(L \ B) /\ Cardinality(L \ B) = Cardinality(L) - Cardinality(L \cap B)
    BY <1>5, FS_Difference
  <2>2. L \cap B = B
    OBVIOUS
  <2>3. Cardinality(L \ B) = n
    BY <1>1, <2>1, <2>2
  <2>4. Cardinality(F \ (L \ B)) = Cardinality(F) - Cardinality(F \cap (L \ B))
    BY <1>5, FS_Difference
  <2>5. F \cap (L \ B) = L \ B
    BY <1>5
  <2> QED  BY <1>4, <2>3, <2>4, <2>5
<1>7. Place(new, i) = Place(groups, l)
  <2>1. CASE l = EndOf(groups)
    <3>1. FullBuckets(new) = B
      BY <1>4, <1>5, <2>1, EndMeetsAll
    <3>2. ASSUME Points(new, i) PROVE FALSE
      BY <1>4, <3>1, <3>2, PosOfIterator, IncrementMeets
    <3>3. i = EndOf(new)
      BY <1>4, <3>2 DEF Valid
    <3> QED  BY <1>4, <2>1, <3>3, EndIsMarked DEF Place
  <2>2. CASE Points(groups, l)
    <3> DEFINE b == GetPos(groups, l)
               x == GetPos(new, i)
    <3>1. b \in F /\ b \notin L /\ Place(groups, l) = b
      BY <2>2, IncrementMeets, PosOfIterator, PointsType DEF Place
    <3>2. b \in FullBuckets(new) /\ b \notin Before(new, i)
      BY <1>4, <3>1
    <3>3. Points(new, i) /\ x \in FullBuckets(new) /\ x \notin Before(new, i) /\ x <= b
      BY <1>4, <3>2, PointsToLeast
    <3>4. x \in F /\ x \notin L
      BY <1>4, <3>3
    <3>5. b <= x
      BY <2>2, <3>4, PointsToLeast
    <3>6. Place(new, i) = x
      BY <1>4, <3>3, PointsType DEF Place
    <3> HIDE DEF b, x
    <3>7. x = b
      BY <1>5, <3>1, <3>3, <3>4, <3>5
    <3> QED  BY <3>1, <3>6, <3>7
  <2> QED  BY <2>1, <2>2 DEF Valid
<1> QED  BY <1>4, <1>6, <1>7 DEF new, i, done, n

-----------------------------------------------------------------------------
(* What one step of an iteration passes.                                   *)

LEMMA PlaceOfPoint ==
  ASSUME NEW groups \in Seq(GroupType), NEW i, Points(groups, i)
  PROVE  Place(groups, i) = GetPos(groups, i) /\ Place(groups, i) \in FullBuckets(groups)
BY PointsType, PosOfIterator DEF Place

LEMMA FullBelowEnd ==
  ASSUME NEW groups \in Seq(GroupType), NEW b \in FullBuckets(groups)
  PROVE  b \in Nat /\ b < Len(groups) * GroupSize /\ Len(groups) * GroupSize \in Nat
<1>1. Len(groups) \in Nat /\ Len(groups) * GroupSize \in Nat
  BY SizeType
<1> QED  BY <1>1 DEF FullBuckets

(* The iterator j that has met one bucket more than i is at the next one.  *)
LEMMA NextBucket ==
  ASSUME NEW groups \in Seq(GroupType), NEW i, NEW j, Points(groups, i), Valid(groups, j),
         Before(groups, j) = Before(groups, i) \cup {GetPos(groups, i)}
  PROVE  /\ Place(groups, i) < Place(groups, j)
         /\ \A b \in FullBuckets(groups) : ~ (Place(groups, i) < b /\ b < Place(groups, j))
<1> DEFINE x == Place(groups, i)
           y == Place(groups, j)
<1>1. x = GetPos(groups, i) /\ x \in FullBuckets(groups)
  BY PlaceOfPoint
<1>2. /\ x \in Nat /\ Before(groups, i) = {b \in FullBuckets(groups) : b < x}
      /\ y \in Nat /\ Before(groups, j) = {b \in FullBuckets(groups) : b < y}
  BY BeforeIsBelow DEF Valid
<1> HIDE DEF x, y
<1>3. x < y
  BY <1>1, <1>2
<1>4. ASSUME NEW b \in FullBuckets(groups), x < b, b < y PROVE FALSE
  <2>1. b \in Before(groups, j) /\ b \in Nat
    BY <1>2, <1>4, FullFinite
  <2>2. b \in Before(groups, i) \/ b = x
    BY <1>1, <2>1
  <2> QED  BY <1>2, <1>4, <2>1, <2>2
<1> QED  BY <1>3, <1>4 DEF x, y

(* After an erasure at i the iterator is at what came next.                *)
LEMMA NextAfterErase ==
  ASSUME NEW groups \in Seq(GroupType), NEW i, Points(groups, i)
  PROVE  LET rest == ErasedAt(groups, i)
             j    == AdvancePastEnd(rest, i)
         IN  /\ Valid(rest, j) /\ Place(groups, i) < Place(rest, j)
             /\ \A b \in FullBuckets(groups) : ~ (Place(groups, i) < b /\ b < Place(rest, j))
<1> DEFINE rest == ErasedAt(groups, i)
           j == AdvancePastEnd(rest, i)
           x == Place(groups, i)
           y == Place(rest, j)
<1>1. x = GetPos(groups, i) /\ x \in FullBuckets(groups)
  BY PlaceOfPoint
<1>2. /\ rest \in Seq(GroupType) /\ Len(rest) = Len(groups)
      /\ FullBuckets(rest) = FullBuckets(groups) \ {x}
      /\ Ready(rest, i) /\ Before(rest, i) = Before(groups, i)
  BY <1>1, ErasedKeeps
<1> HIDE DEF rest
<1>3. Valid(rest, j) /\ Before(rest, j) = Before(groups, i)
  BY <1>2, AdvanceKeeps
<1>4. /\ x \in Nat /\ Before(groups, i) = {b \in FullBuckets(groups) : b < x}
      /\ y \in Nat /\ Before(rest, j) = {b \in FullBuckets(rest) : b < y}
  BY <1>2, <1>3, BeforeIsBelow DEF Valid
<1> HIDE DEF x, j
<1>5. x < y
  <2>1. CASE j = EndOf(rest)
    <3>1. y = Len(groups) * GroupSize
      BY <1>2, <2>1, EndIsMarked DEF Place
    <3> QED  BY <1>1, <3>1, FullBelowEnd
  <2>2. CASE Points(rest, j)
    <3>1. y \in FullBuckets(rest)
      BY <1>2, <2>2, PlaceOfPoint
    <3> HIDE DEF y
    <3>2. y \in FullBuckets(groups) /\ y # x /\ ~ (y < y)
      BY <1>2, <1>4, <3>1
    <3>3. y \notin Before(rest, j)
      BY <1>4, <3>2
    <3>4. ~ (y < x)
      BY <1>3, <1>4, <3>2, <3>3
    <3> QED  BY <1>4, <3>2, <3>4
  <2> QED  BY <1>3, <2>1, <2>2 DEF Valid
<1> HIDE DEF y
<1>6. ASSUME NEW b \in FullBuckets(groups), x < b, b < y PROVE FALSE
  <2>1. b \in Nat /\ b # x
    BY <1>4, <1>6, FullFinite
  <2>2. b \in Before(rest, j)
    BY <1>2, <1>4, <1>6, <2>1
  <2>3. b < x
    BY <1>3, <1>4, <2>2
  <2> QED  BY <1>4, <1>6, <2>1, <2>3
<1> QED  BY <1>3, <1>5, <1>6 DEF x, y, j, rest

-----------------------------------------------------------------------------
(* Books.  P has the pointers to memory spaces and Q the arrays that were  *)
(* allocated from them, each with its space as third component: the books  *)
(* of the spaces are kept if they agree, and no array outlives its space.  *)

With(X, s) == {x \in X : x[3] = s}

Kept(sp, P, Q) ==
  /\ sp \in [Spaces -> [count : Nat, arrays : Nat]]
  /\ IsFiniteSet(P) /\ IsFiniteSet(Q)
  /\ \A x \in P \cup Q : x[3] \in Spaces
  /\ \A q \in Q : \E p \in P : p[3] = q[3]
  /\ \A s \in Spaces : /\ sp[s].count = Cardinality(With(P, s))
                       /\ sp[s].arrays = Cardinality(With(Q, s))

LEMMA WithFinite ==
  ASSUME NEW X, IsFiniteSet(X), NEW s
  PROVE  IsFiniteSet(With(X, s)) /\ Cardinality(With(X, s)) \in Nat
<1>1. With(X, s) \in SUBSET X
  BY DEF With
<1> QED  BY <1>1, FS_Subset, FS_CardinalityType

LEMMA WithAdded ==
  ASSUME NEW X, IsFiniteSet(X), NEW x, x \notin X, NEW s
  PROVE  /\ IsFiniteSet(X \cup {x})
         /\ Cardinality(With(X \cup {x}, s)) =
              IF x[3] = s THEN Cardinality(With(X, s)) + 1 ELSE Cardinality(With(X, s))
<1>1. IsFiniteSet(X \cup {x}) /\ IsFiniteSet(With(X, s))
  BY WithFinite, FS_AddElement
<1>2. x \notin With(X, s)
  BY DEF With
<1>3. With(X \cup {x}, s) = IF x[3] = s THEN With(X, s) \cup {x} ELSE With(X, s)
  BY DEF With
<1> QED  BY <1>1, <1>2, <1>3, FS_AddElement

LEMMA WithRemoved ==
  ASSUME NEW X, IsFiniteSet(X), NEW x \in X, NEW s
  PROVE  /\ IsFiniteSet(X \ {x})
         /\ Cardinality(With(X \ {x}, s)) =
              IF x[3] = s THEN Cardinality(With(X, s)) - 1 ELSE Cardinality(With(X, s))
<1>1. IsFiniteSet(X \ {x}) /\ IsFiniteSet(With(X, s))
  BY WithFinite, FS_RemoveElement
<1>2. x[3] = s => x \in With(X, s)
  BY DEF With
<1>3. With(X \ {x}, s) = IF x[3] = s THEN With(X, s) \ {x} ELSE With(X, s)
  BY DEF With
<1> QED  BY <1>1, <1>2, <1>3, FS_RemoveElement

(* A space exists if and only if there is a pointer to it.                 *)
LEMMA PointedTo ==
  ASSUME NEW sp, NEW P, NEW Q, Kept(sp, P, Q), NEW s \in Spaces
  PROVE  /\ Exists(sp, s) <=> \E p \in P : p[3] = s
         /\ sp[s] = [count |-> sp[s].count, arrays |-> sp[s].arrays]
         /\ sp[s].count \in Nat /\ sp[s].arrays \in Nat
         /\ ~ Exists(sp, s) => sp[s] = Unused
<1>1. IsFiniteSet(With(P, s)) /\ Cardinality(With(P, s)) \in Nat
  BY WithFinite DEF Kept
<1>2. /\ sp[s] \in [count : Nat, arrays : Nat]
      /\ sp[s].count = Cardinality(With(P, s)) /\ sp[s].arrays = Cardinality(With(Q, s))
  BY DEF Kept
<1>3. Exists(sp, s) <=> With(P, s) # {}
  BY <1>1, <1>2, FS_EmptySet DEF Exists
<1>4. With(P, s) = {} => With(Q, s) = {}
  BY DEF With, Kept
<1>5. ~ Exists(sp, s) => sp[s].count = 0 /\ sp[s].arrays = 0
  BY <1>2, <1>3, <1>4, FS_EmptySet
<1>6. sp[s] = [count |-> sp[s].count, arrays |-> sp[s].arrays] /\ sp[s].count \in Nat /\ sp[s].arrays \in Nat
  BY <1>2
<1> QED  BY <1>3, <1>4, <1>5, <1>6 DEF With, Unused

LEMMA KeptIncrement ==
  ASSUME NEW sp, NEW P, NEW Q, Kept(sp, P, Q), NEW p, p \notin P, NEW s \in Spaces, p[3] = s
  PROVE  Kept(Increment(sp, s), P \cup {p}, Q)
<1> DEFINE new == Increment(sp, s)
<1>1. sp \in [Spaces -> [count : Nat, arrays : Nat]] /\ IsFiniteSet(P) /\ IsFiniteSet(Q)
  BY DEF Kept
<1>2. new \in [Spaces -> [count : Nat, arrays : Nat]]
  BY <1>1 DEF Increment
<1>3. ASSUME NEW z \in Spaces
      PROVE  /\ new[z].count = IF z = s THEN sp[z].count + 1 ELSE sp[z].count
             /\ new[z].arrays = sp[z].arrays
  BY <1>1 DEF Increment
<1>4. ASSUME NEW z \in Spaces
      PROVE  /\ new[z].count = Cardinality(With(P \cup {p}, z))
             /\ new[z].arrays = Cardinality(With(Q, z))
  <2>1. Cardinality(With(P \cup {p}, z)) =
          IF p[3] = z THEN Cardinality(With(P, z)) + 1 ELSE Cardinality(With(P, z))
    BY <1>1, WithAdded
  <2>2. sp[z].count = Cardinality(With(P, z)) /\ sp[z].arrays = Cardinality(With(Q, z))
    BY DEF Kept
  <2> QED  BY <1>3, <2>1, <2>2
<1> HIDE DEF new
<1>5. IsFiniteSet(P \cup {p})
  BY <1>1, FS_AddElement
<1> QED  BY <1>1, <1>2, <1>4, <1>5 DEF Kept, new

LEMMA KeptDecrement ==
  ASSUME NEW sp, NEW P, NEW Q, Kept(sp, P, Q), NEW p \in P, NEW s, p[3] = s,
         \A q \in Q : \E o \in P \ {p} : o[3] = q[3]
  PROVE  Kept(Decrement(sp, s), P \ {p}, Q)
<1> DEFINE new == Decrement(sp, s)
<1>1. /\ sp \in [Spaces -> [count : Nat, arrays : Nat]] /\ IsFiniteSet(P) /\ IsFiniteSet(Q)
      /\ s \in Spaces
  BY DEF Kept
<1>0. Exists(sp, s)
  BY <1>1, PointedTo
<1> DEFINE v == IF sp[s].count = 1 THEN Unused
                ELSE [count |-> sp[s].count - 1, arrays |-> sp[s].arrays]
<1>6. v \in [count : Nat, arrays : Nat] /\ (sp[s].count # 1 => v = [count |-> sp[s].count - 1, arrays |-> sp[s].arrays])
  <2>1. sp[s] = [count |-> sp[s].count, arrays |-> sp[s].arrays] /\ sp[s].count \in Nat /\ sp[s].arrays \in Nat
    BY <1>1, PointedTo
  <2>2. sp[s].count - 1 \in Nat
    BY <1>0, <2>1 DEF Exists
  <2> QED  BY <2>1, <2>2 DEF Unused
<1>7. new = [sp EXCEPT ![s] = v]
  BY DEF Decrement
<1>8. (sp[s].count = 1 => v = Unused)
  OBVIOUS
<1> HIDE DEF v, new
<1>2. new \in [Spaces -> [count : Nat, arrays : Nat]]
  BY <1>1, <1>6, <1>7
<1>5. IsFiniteSet(P \ {p})
  BY <1>1, FS_RemoveElement
<1>3. ASSUME NEW z \in Spaces
      PROVE  /\ new[z].count = Cardinality(With(P \ {p}, z))
             /\ new[z].arrays = Cardinality(With(Q, z))
  <2>1. /\ sp[z].count = Cardinality(With(P, z)) /\ sp[z].arrays = Cardinality(With(Q, z))
        /\ sp[z].count \in Nat /\ sp[z].arrays \in Nat
    BY <1>1 DEF Kept
  <2>2. Cardinality(With(P \ {p}, z)) = IF z = s THEN sp[z].count - 1 ELSE sp[z].count
    <3>1. Cardinality(With(P \ {p}, z)) =
            IF p[3] = z THEN Cardinality(With(P, z)) - 1 ELSE Cardinality(With(P, z))
      BY <1>1, WithRemoved
    <3> QED  BY <2>1, <3>1
  <2>3. CASE z # s
    BY <1>1, <1>7, <2>1, <2>2, <2>3
  <2>4. CASE z = s /\ sp[s].count # 1
    <3>1. new[z].count = sp[s].count - 1 /\ new[z].arrays = sp[s].arrays
      BY <1>1, <1>6, <1>7, <2>4
    <3> QED  BY <2>1, <2>2, <2>4, <3>1
  <2>5. CASE z = s /\ sp[s].count = 1
    <3>1. new[z] = Unused
      BY <1>1, <1>7, <1>8, <2>5
    <3>2. IsFiniteSet(With(P \ {p}, s)) /\ Cardinality(With(P \ {p}, s)) = 0
      BY <1>5, <2>2, <2>5, WithFinite
    <3>3. With(P \ {p}, s) = {}
      BY <3>2, FS_EmptySet
    <3>4. With(Q, s) = {}
      BY <3>3 DEF With
    <3> QED  BY <2>2, <2>5, <3>1, <3>4, FS_EmptySet DEF Unused
  <2> QED  BY <2>3, <2>4, <2>5
<1> QED  BY <1>1, <1>2, <1>3, <1>5 DEF Kept, new

LEMMA KeptCreated ==
  ASSUME NEW sp, NEW P, NEW Q, Kept(sp, P, Q), NEW p, p \notin P, NEW s \in Spaces, p[3] = s,
         ~ Exists(sp, s)
  PROVE  Kept(Created(sp, s), P \cup {p}, Q)
<1>1. sp[s] = Unused
  <2>1. ~ Exists(sp, s) => sp[s] = Unused
    BY PointedTo
  <2> QED  BY <2>1
<1>2. sp \in [Spaces -> [count : Nat, arrays : Nat]]
  BY DEF Kept
<1>3. Created(sp, s) = Increment(sp, s)
  <2>1. [Unused EXCEPT !.count = @ + 1] = [count |-> 1, arrays |-> 0]
    BY DEF Unused
  <2>2. Increment(sp, s) = [sp EXCEPT ![s] = [sp[s] EXCEPT !.count = @ + 1]]
    BY <1>2 DEF Increment
  <2> QED  BY <1>1, <2>1, <2>2 DEF Created
<1> QED  BY <1>3, KeptIncrement

(* The arrays A, all from space s, are replaced by B.                      *)
LEMMA KeptAllocated ==
  ASSUME NEW sp, NEW P, NEW Q, Kept(sp, P, Q), NEW s, NEW p \in P, p[3] = s,
         NEW A \in SUBSET Q, NEW B, IsFiniteSet(B), B \cap (Q \ A) = {},
         \A x \in A \cup B : x[3] = s
  PROVE  Kept(Allocated(sp, s, Cardinality(B) - Cardinality(A)), P, (Q \ A) \cup B)
<1> DEFINE n == Cardinality(B) - Cardinality(A)
           new == Allocated(sp, s, n)
           R == (Q \ A) \cup B
<1>1. /\ sp \in [Spaces -> [count : Nat, arrays : Nat]] /\ IsFiniteSet(P) /\ IsFiniteSet(Q)
      /\ s \in Spaces
  BY DEF Kept
<1>2. IsFiniteSet(A) /\ IsFiniteSet(Q \ A) /\ IsFiniteSet(R)
  BY <1>1, FS_Subset, FS_Difference, FS_Union
<1>3. Cardinality(A) \in Nat /\ Cardinality(B) \in Nat
  BY <1>2, FS_CardinalityType
<1>4. Cardinality(With(R, s)) = Cardinality(With(Q, s)) + n
  <2>1. With(R, s) = (With(Q, s) \ A) \cup B
    BY DEF With
  <2>2. IsFiniteSet(With(Q, s)) /\ IsFiniteSet(With(Q, s) \ A) /\ IsFiniteSet(B)
    BY <1>1, WithFinite, FS_Difference
  <2>3. With(Q, s) \cap A = A
    BY DEF With
  <2>4. (With(Q, s) \ A) \cap B = {}
    BY DEF With
  <2>5. Cardinality(With(Q, s) \ A) = Cardinality(With(Q, s)) - Cardinality(A)
    <3>1. Cardinality(With(Q, s) \ A) = Cardinality(With(Q, s)) - Cardinality(With(Q, s) \cap A)
      BY <2>2, FS_Difference
    <3> QED  BY <2>3, <3>1
  <2>6. Cardinality((With(Q, s) \ A) \cup B) =
          Cardinality(With(Q, s) \ A) + Cardinality(B) - Cardinality((With(Q, s) \ A) \cap B)
    BY <2>2, FS_Union
  <2>7. Cardinality((With(Q, s) \ A) \cap B) = 0
    BY <2>4, FS_EmptySet
  <2>8. Cardinality(With(Q, s)) \in Nat
    BY <2>2, FS_CardinalityType
  <2>9. Cardinality(With(R, s)) = Cardinality((With(Q, s) \ A) \cup B)
    BY <2>1
  <2> HIDE DEF R
  <2> QED  BY <1>3, <2>5, <2>6, <2>7, <2>8, <2>9
<1>5. ASSUME NEW z, z # s
      PROVE  With(R, z) = With(Q, z)
  BY <1>5 DEF With
<1>6. Cardinality(With(R, s)) \in Nat
  BY <1>2, WithFinite
<1> HIDE DEF n, R
<1>7. ASSUME NEW z \in Spaces
      PROVE  new[z].count = sp[z].count /\ new[z].arrays = Cardinality(With(R, z))
  <2>1. sp[z].arrays = Cardinality(With(Q, z))
    BY DEF Kept
  <2> QED  BY <1>1, <1>4, <1>5, <2>1 DEF Allocated
<1>8. new \in [Spaces -> [count : Nat, arrays : Nat]]
  <2>1. n \in Int
    BY <1>3 DEF n
  <2>2. sp[s].arrays = Cardinality(With(Q, s))
    BY <1>1 DEF Kept
  <2>3. sp[s].arrays + n \in Nat
    BY <1>4, <1>6, <2>2
  <2> QED  BY <1>1, <2>3 DEF Allocated
<1> HIDE DEF new
<1>9. \A q \in R : q[3] \in Spaces /\ \E o \in P : o[3] = q[3]
  BY <1>1 DEF R, Kept
<1> QED  BY <1>1, <1>2, <1>7, <1>8, <1>9 DEF Kept, new, n, R

-----------------------------------------------------------------------------
(* The books of some of the tables: T is a function from tables to what is *)
(* in them.                                                                *)

Books(sp, T) ==
  /\ \A t \in DOMAIN T : T[t].groups \in Seq(GroupType)
  /\ Kept(sp, PointersOf(T), HoldingsOf(T))

(* What the books see of a table.                                          *)
Like(h, k) == h.groups = k.groups /\ h.alloc = k.alloc /\ h.galloc = k.galloc

LEMMA FilledFinite ==
  ASSUME NEW g \in Seq(GroupType)
  PROVE  /\ IsFiniteSet(Filled(g)) /\ Filled(g) \subseteq 1 .. Len(g) /\ Filled(g) \subseteq Nat \ {0}
         /\ Cardinality(Filled(g)) \in Nat
<1>1. Len(g) \in Nat /\ DOMAIN g = 1 .. Len(g)
  OBVIOUS
<1>2. Filled(g) \in SUBSET (1 .. Len(g))
  BY <1>1 DEF Filled
<1>3. IsFiniteSet(1 .. Len(g))
  BY <1>1, FS_Interval
<1>4. IsFiniteSet(Filled(g)) /\ Cardinality(Filled(g)) \in Nat
  BY <1>2, <1>3, FS_Subset, FS_CardinalityType
<1> QED  BY <1>1, <1>2, <1>4

LEMMA ValuesCount ==
  ASSUME NEW t, NEW g \in Seq(GroupType), NEW a
  PROVE  IsFiniteSet(ValuesOf(t, g, a)) /\ Cardinality(ValuesOf(t, g, a)) = ValueArrays(g)
<1> DEFINE f == [r \in Filled(g) |-> <<t, r, a>>]
<1>1. f \in Bijection(Filled(g), ValuesOf(t, g, a))
  <2>1. f \in [Filled(g) -> ValuesOf(t, g, a)]
    BY DEF ValuesOf
  <2>2. \A r, s \in Filled(g) : f[r] = f[s] => r = s
    OBVIOUS
  <2>3. \A x \in ValuesOf(t, g, a) : \E r \in Filled(g) : f[r] = x
    BY DEF ValuesOf
  <2> HIDE DEF f
  <2>4. f \in Injection(Filled(g), ValuesOf(t, g, a)) /\ f \in Surjection(Filled(g), ValuesOf(t, g, a))
    BY <2>1, <2>2, <2>3 DEF Injection, IsInjective, Surjection
  <2> QED  BY <2>4 DEF Bijection
<1>2. ExistsBijection(Filled(g), ValuesOf(t, g, a))
  BY <1>1 DEF ExistsBijection
<1> QED  BY <1>2, FilledFinite, FS_Bijection DEF ValueArrays

LEMMA GroupsCount ==
  ASSUME NEW t, NEW g \in Seq(GroupType), NEW a
  PROVE  /\ IsFiniteSet(GroupsOf(t, g, a)) /\ Cardinality(GroupsOf(t, g, a)) = GroupArrays(g)
         /\ GroupsOf(t, g, a) = IF g = <<>> THEN {} ELSE {<<t, 0, a>>}
<1>1. Len(g) \in Nat /\ DOMAIN g = 1 .. Len(g) /\ (g = <<>> <=> Len(g) = 0)
  OBVIOUS
<1>2. GroupsOf(t, g, a) = IF g = <<>> THEN {} ELSE {<<t, 0, a>>}
  <2>1. CASE g = <<>>
    BY <1>1, <2>1 DEF GroupsOf
  <2>2. CASE g # <<>>
    <3>1. 1 \in DOMAIN g
      BY <1>1, <2>2
    <3>2. GroupsOf(t, g, a) = {<<t, 0, a>>}
      BY <3>1 DEF GroupsOf
    <3> QED  BY <2>2, <3>2
  <2> QED  BY <2>1, <2>2
<1> QED  BY <1>2, FS_EmptySet, FS_Singleton DEF GroupArrays

LEMMA PointerOf ==
  ASSUME NEW T, NEW x
  PROVE  x \in PointersOf(T) <=>
           \E t \in DOMAIN T : x = <<t, "values", T[t].alloc>> \/ x = <<t, "groups", T[t].galloc>>
BY DEF PointersOf

LEMMA HoldingOf ==
  ASSUME NEW T, NEW x
  PROVE  x \in HoldingsOf(T) <=>
           \E t \in DOMAIN T : \/ x \in ValuesOf(t, T[t].groups, T[t].alloc)
                               \/ x \in GroupsOf(t, T[t].groups, T[t].galloc)
BY DEF HoldingsOf

(* Each array is from a space that its table points to.                    *)
LEMMA HoldingPointed ==
  ASSUME NEW T, NEW x \in HoldingsOf(T)
  PROVE  \E p \in PointersOf(T) : p[3] = x[3]
<1>1. PICK t \in DOMAIN T : \/ x \in ValuesOf(t, T[t].groups, T[t].alloc)
                            \/ x \in GroupsOf(t, T[t].groups, T[t].galloc)
  BY HoldingOf
<1>2. /\ <<t, "values", T[t].alloc>> \in PointersOf(T)
      /\ <<t, "groups", T[t].galloc>> \in PointersOf(T)
  BY PointerOf
<1>3. x[3] = T[t].alloc \/ x[3] = T[t].galloc
  BY <1>1 DEF ValuesOf, GroupsOf
<1>4. /\ <<t, "values", T[t].alloc>>[3] = T[t].alloc
      /\ <<t, "groups", T[t].galloc>>[3] = T[t].galloc
  OBVIOUS
<1> QED  BY <1>2, <1>3, <1>4

LEMMA SameBooks ==
  ASSUME NEW sp, NEW T, NEW U, Books(sp, T), DOMAIN U = DOMAIN T,
         \A x \in DOMAIN T : Like(U[x], T[x])
  PROVE  Books(sp, U)
<1>1. PointersOf(U) = PointersOf(T)
  <2>1. \A x : x \in PointersOf(U) <=> x \in PointersOf(T)
    BY PointerOf DEF Like
  <2> QED  BY <2>1
<1>2. HoldingsOf(U) = HoldingsOf(T)
  <2>1. \A x : x \in HoldingsOf(U) <=> x \in HoldingsOf(T)
    BY HoldingOf DEF Like
  <2> QED  BY <2>1
<1> QED  BY <1>1, <1>2 DEF Books, Like

(* The groups of one table change, and the arrays with them.               *)
LEMMA Rearranging ==
  ASSUME NEW sp, NEW T, NEW U, Books(sp, T), DOMAIN U = DOMAIN T, NEW t \in DOMAIN T,
         \A x \in DOMAIN T \ {t} : Like(U[x], T[x]),
         U[t].groups \in Seq(GroupType), U[t].alloc = T[t].alloc, U[t].galloc = T[t].galloc
  PROVE  Books(Rearranged(sp, T[t], T[t].groups, U[t].groups), U)
<1> DEFINE old == T[t].groups
           new == U[t].groups
           a == T[t].alloc
           g == T[t].galloc
           P == PointersOf(T)
           Q == HoldingsOf(T)
           A == ValuesOf(t, old, a)
           B == ValuesOf(t, new, a)
           C == GroupsOf(t, old, g)
           D == GroupsOf(t, new, g)
           Q1 == (Q \ A) \cup B
           Q2 == (Q1 \ C) \cup D
           sp1 == Allocated(sp, a, ValueArrays(new) - ValueArrays(old))
           sp2 == Allocated(sp1, g, GroupArrays(new) - GroupArrays(old))
<1>1. old \in Seq(GroupType) /\ new \in Seq(GroupType) /\ Kept(sp, P, Q)
  BY DEF Books
<1>2. /\ IsFiniteSet(A) /\ Cardinality(A) = ValueArrays(old)
      /\ IsFiniteSet(B) /\ Cardinality(B) = ValueArrays(new)
      /\ IsFiniteSet(C) /\ Cardinality(C) = GroupArrays(old)
      /\ IsFiniteSet(D) /\ Cardinality(D) = GroupArrays(new)
  <2>1. IsFiniteSet(A) /\ Cardinality(A) = ValueArrays(old)
    BY <1>1, ValuesCount
  <2>2. IsFiniteSet(B) /\ Cardinality(B) = ValueArrays(new)
    BY <1>1, ValuesCount
  <2>3. IsFiniteSet(C) /\ Cardinality(C) = GroupArrays(old)
    BY <1>1, GroupsCount, ZenonT(40)
  <2>4. IsFiniteSet(D) /\ Cardinality(D) = GroupArrays(new)
    BY <1>1, GroupsCount, ZenonT(40)
  <2> QED  BY <2>1, <2>2, <2>3, <2>4
<1>3. <<t, "values", a>> \in P /\ <<t, "groups", g>> \in P
  BY PointerOf
<1>4. A \in SUBSET Q /\ C \in SUBSET Q
  BY HoldingOf
<1>5. /\ \A x \in A \cup B : x[1] = t /\ x[3] = a /\ x[2] \in Nat \ {0}
      /\ \A x \in C \cup D : x[1] = t /\ x[3] = g /\ x[2] = 0
  <2>1. Filled(old) \subseteq Nat \ {0} /\ Filled(new) \subseteq Nat \ {0}
    BY <1>1, FilledFinite
  <2>2. ASSUME NEW x \in A \cup B PROVE x[1] = t /\ x[3] = a /\ x[2] \in Nat \ {0}
    <3>1. PICK r \in Filled(old) \cup Filled(new) : x = <<t, r, a>>
      BY DEF ValuesOf
    <3> QED  BY <2>1, <3>1
  <2>3. ASSUME NEW x \in C \cup D PROVE x[1] = t /\ x[3] = g /\ x[2] = 0
    BY DEF GroupsOf
  <2> QED  BY <2>2, <2>3
<1>6. \A x \in Q : x[1] = t => x \in A \/ x \in C
  <2> SUFFICES ASSUME NEW x \in Q, x[1] = t PROVE x \in A \/ x \in C
    OBVIOUS
  <2>1. PICK u \in DOMAIN T : \/ x \in ValuesOf(u, T[u].groups, T[u].alloc)
                              \/ x \in GroupsOf(u, T[u].groups, T[u].galloc)
    BY HoldingOf
  <2>2. x[1] = u
    BY <2>1 DEF ValuesOf, GroupsOf
  <2> QED  BY <2>1, <2>2
<1>7. PointersOf(U) = P
  <2>1. \A x : x \in PointersOf(U) <=> x \in P
    BY PointerOf DEF Like
  <2> QED  BY <2>1
<1>8. HoldingsOf(U) = Q2
  <2>1. \A x : x \in Q <=> \/ x \in A \cup C
                           \/ \E u \in DOMAIN T \ {t} : \/ x \in ValuesOf(u, T[u].groups, T[u].alloc)
                                                        \/ x \in GroupsOf(u, T[u].groups, T[u].galloc)
    BY HoldingOf
  <2>2. \A x : x \in HoldingsOf(U) <=>
                 \/ x \in B \cup D
                 \/ \E u \in DOMAIN T \ {t} : \/ x \in ValuesOf(u, T[u].groups, T[u].alloc)
                                              \/ x \in GroupsOf(u, T[u].groups, T[u].galloc)
    BY HoldingOf DEF Like
  <2>3. ASSUME NEW u \in DOMAIN T \ {t}, NEW x,
               \/ x \in ValuesOf(u, T[u].groups, T[u].alloc)
               \/ x \in GroupsOf(u, T[u].groups, T[u].galloc)
        PROVE  x[1] = u
    BY <2>3 DEF ValuesOf, GroupsOf
  <2>4. ASSUME NEW u \in DOMAIN T \ {t}, NEW x,
               \/ x \in ValuesOf(u, T[u].groups, T[u].alloc)
               \/ x \in GroupsOf(u, T[u].groups, T[u].galloc)
        PROVE  x \notin A /\ x \notin C
    BY <1>5, <2>3, <2>4
  <2> HIDE DEF A, B, C, D, Q
  <2>5. \A x : x \in HoldingsOf(U) <=> x \in (Q \ (A \cup C)) \cup (B \cup D)
    BY <2>1, <2>2, <2>4
  <2>6. B \cap C = {}
    BY <1>5
  <2> QED  BY <2>5, <2>6
<1> HIDE DEF P, Q, A, B, C, D
<1>9. Kept(sp1, P, Q1)
  <2>1. <<t, "values", a>>[3] = a
    OBVIOUS
  <2>2. B \cap (Q \ A) = {}
    BY <1>5, <1>6
  <2>3. Kept(Allocated(sp, a, Cardinality(B) - Cardinality(A)), P, (Q \ A) \cup B)
    BY <1>1, <1>2, <1>3, <1>4, <1>5, <2>1, <2>2, KeptAllocated
  <2> QED  BY <1>2, <2>3
<1> HIDE DEF Q1, sp1
<1>10. Kept(sp2, P, Q2)
  <2>1. <<t, "groups", g>>[3] = g
    OBVIOUS
  <2>2. C \in SUBSET Q1
    BY <1>4, <1>5 DEF Q1
  <2>3. D \cap (Q1 \ C) = {}
    BY <1>5, <1>6 DEF Q1
  <2>4. Kept(Allocated(sp1, g, Cardinality(D) - Cardinality(C)), P, (Q1 \ C) \cup D)
    BY <1>2, <1>3, <1>5, <1>9, <2>1, <2>2, <2>3, KeptAllocated
  <2> QED  BY <1>2, <2>4
<1>11. Rearranged(sp, T[t], old, new) = sp2
  BY DEF Rearranged, sp1
<1>12. \A x \in DOMAIN U : U[x].groups \in Seq(GroupType)
  BY <1>1 DEF Books, Like
<1> QED  BY <1>7, <1>8, <1>10, <1>11, <1>12 DEF Books

(* A table without groups is destroyed with its two allocators.            *)
LEMMA Detaching ==
  ASSUME NEW sp, NEW T, NEW U, Books(sp, T), NEW t \in DOMAIN T, T[t].groups = <<>>,
         DOMAIN U = DOMAIN T \ {t}, \A x \in DOMAIN U : Like(U[x], T[x])
  PROVE  Books(Decrement(Decrement(sp, T[t].alloc), T[t].galloc), U)
<1> DEFINE p == <<t, "values", T[t].alloc>>
           o == <<t, "groups", T[t].galloc>>
           P == PointersOf(T)
           Q == HoldingsOf(T)
           P1 == P \ {p}
           P2 == P1 \ {o}
           sp1 == Decrement(sp, T[t].alloc)
<1>1. Kept(sp, P, Q)
  BY DEF Books
<1>2. p \in P /\ o \in P1 /\ p[3] = T[t].alloc /\ o[3] = T[t].galloc
  BY PointerOf
<1>3. PointersOf(U) = P2
  <2>1. \A x : x \in PointersOf(U) <=> x \in P2
    BY PointerOf DEF Like
  <2> QED  BY <2>1
<1>4. HoldingsOf(U) = Q
  <2>1. ValuesOf(t, T[t].groups, T[t].alloc) = {} /\ GroupsOf(t, T[t].groups, T[t].galloc) = {}
    BY DEF ValuesOf, GroupsOf, Filled
  <2>2. \A x : x \in HoldingsOf(U) <=> x \in Q
    BY <2>1, HoldingOf DEF Like
  <2> QED  BY <2>2
<1>5. \A q \in Q : \E x \in P2 : x[3] = q[3]
  <2>1. \A q \in HoldingsOf(U) : \E x \in PointersOf(U) : x[3] = q[3]
    BY HoldingPointed
  <2> QED  BY <1>3, <1>4, <2>1
<1> HIDE DEF p, o, P, Q, P1
<1>6. Kept(sp1, P1, Q)
  <2>1. \A q \in Q : \E x \in P \ {p} : x[3] = q[3]
    BY <1>5 DEF P1
  <2> QED  BY <1>1, <1>2, <2>1, KeptDecrement DEF P1
<1> HIDE DEF sp1
<1>7. Kept(Decrement(sp1, T[t].galloc), P2, Q)
  BY <1>2, <1>5, <1>6, KeptDecrement
<1>8. \A x \in DOMAIN U : U[x].groups \in Seq(GroupType)
  BY DEF Books, Like
<1> QED  BY <1>3, <1>4, <1>7, <1>8 DEF Books, sp1

LEMMA Destroying ==
  ASSUME NEW sp, NEW T, NEW U, Books(sp, T), NEW t \in DOMAIN T,
         DOMAIN U = DOMAIN T \ {t}, \A x \in DOMAIN U : Like(U[x], T[x])
  PROVE  Books(DestroyedTable(sp, T[t]), U)
<1> DEFINE h == [groups |-> <<>>, alloc |-> T[t].alloc, galloc |-> T[t].galloc]
           V == [x \in DOMAIN T |-> IF x = t THEN h ELSE T[x]]
<1>1. Books(FreedGroups(sp, T[t]), V)
  <2>1. <<>> \in Seq(GroupType)
    OBVIOUS
  <2>2. DOMAIN V = DOMAIN T /\ V[t] = h /\ \A x \in DOMAIN T \ {t} : Like(V[x], T[x])
    BY DEF Like
  <2> HIDE DEF V
  <2>3. V[t].groups = <<>> /\ V[t].alloc = T[t].alloc /\ V[t].galloc = T[t].galloc
    BY <2>2
  <2>4. V[t].groups \in Seq(GroupType)
    BY <2>1, <2>3
  <2>5. Books(Rearranged(sp, T[t], T[t].groups, V[t].groups), V)
    BY <2>2, <2>3, <2>4, Rearranging
  <2> QED  BY <2>3, <2>5 DEF FreedGroups
<1>2. /\ DOMAIN V = DOMAIN T /\ V[t] = h /\ \A x \in DOMAIN U : Like(U[x], V[x])
      /\ V[t].groups = <<>> /\ V[t].alloc = T[t].alloc /\ V[t].galloc = T[t].galloc
  BY DEF Like
<1> HIDE DEF V
<1>3. Books(Decrement(Decrement(FreedGroups(sp, T[t]), V[t].alloc), V[t].galloc), U)
  BY <1>1, <1>2, Detaching
<1> QED  BY <1>2, <1>3 DEF DestroyedTable

(* A new table without groups, with allocators that share spaces a and g   *)
(* or come with new ones.                                                  *)
LEMMA Attaching ==
  ASSUME NEW sp, NEW T, NEW U, Books(sp, T), NEW t, t \notin DOMAIN T,
         NEW a \in Spaces, NEW g \in Spaces,
         DOMAIN U = DOMAIN T \cup {t}, \A x \in DOMAIN T : Like(U[x], T[x]),
         U[t].groups = <<>>, U[t].alloc = a, U[t].galloc = g
  PROVE  /\ Books(Increment(Increment(sp, a), g), U)
         /\ ~ Exists(sp, a) => Books(Increment(Created(sp, a), g), U)
         /\ ~ Exists(sp, a) /\ ~ Exists(Created(sp, a), g) => Books(Created(Created(sp, a), g), U)
<1> DEFINE p == <<t, "values", a>>
           o == <<t, "groups", g>>
           P == PointersOf(T)
           Q == HoldingsOf(T)
           P1 == P \cup {p}
           P2 == P1 \cup {o}
<1>1. Kept(sp, P, Q)
  BY DEF Books
<1>2. p \notin P /\ o \notin P1 /\ p[3] = a /\ o[3] = g
  BY PointerOf
<1>3. PointersOf(U) = P2
  <2>1. \A x : x \in PointersOf(U) <=> x \in P2
    BY PointerOf DEF Like
  <2> QED  BY <2>1
<1>4. HoldingsOf(U) = Q
  <2>1. ValuesOf(t, U[t].groups, U[t].alloc) = {} /\ GroupsOf(t, U[t].groups, U[t].galloc) = {}
    BY DEF ValuesOf, GroupsOf, Filled
  <2>2. \A x : x \in HoldingsOf(U) <=> x \in Q
    BY <2>1, HoldingOf DEF Like
  <2> QED  BY <2>2
<1>5. \A x \in DOMAIN U : U[x].groups \in Seq(GroupType)
  <2>1. U[t].groups \in Seq(GroupType)
    OBVIOUS
  <2>2. \A x \in DOMAIN T : U[x].groups \in Seq(GroupType)
    BY DEF Books, Like
  <2> QED  BY <2>1, <2>2
<1> HIDE DEF p, o, P, Q
<1>6. Kept(Increment(sp, a), P1, Q)
  BY <1>1, <1>2, KeptIncrement
<1>7. ~ Exists(sp, a) => Kept(Created(sp, a), P1, Q)
  BY <1>1, <1>2, KeptCreated
<1> HIDE DEF P1
<1>8. Kept(Increment(Increment(sp, a), g), P2, Q)
  BY <1>2, <1>6, KeptIncrement
<1>9. ~ Exists(sp, a) => Kept(Increment(Created(sp, a), g), P2, Q)
  BY <1>2, <1>7, KeptIncrement
<1>10. ~ Exists(sp, a) /\ ~ Exists(Created(sp, a), g) => Kept(Created(Created(sp, a), g), P2, Q)
  BY <1>2, <1>7, KeptCreated
<1> QED  BY <1>3, <1>4, <1>5, <1>8, <1>9, <1>10 DEF Books

LEMMA KeptReset ==
  ASSUME NEW sp, NEW P, NEW Q, Kept(sp, P, Q), NEW p \in P, NEW from, p[3] = from,
         NEW o, o \notin P \ {p}, NEW to \in Spaces, o[3] = to, from = to => o = p,
         \A q \in Q : \E x \in P \ {p} : x[3] = q[3]
  PROVE  Kept(Reset(sp, from, to), (P \ {p}) \cup {o}, Q)
<1>1. CASE from = to
  <2>1. (P \ {p}) \cup {o} = P
    BY <1>1
  <2> QED  BY <1>1, <2>1 DEF Reset
<1>2. CASE from # to
  <2>1. Kept(Decrement(sp, from), P \ {p}, Q)
    BY KeptDecrement
  <2>2. Kept(Increment(Decrement(sp, from), to), (P \ {p}) \cup {o}, Q)
    BY <2>1, KeptIncrement
  <2> QED  BY <1>2, <2>2 DEF Reset
<1> QED  BY <1>1, <1>2

(* The allocators of a table without groups become others.                 *)
LEMMA Resetting ==
  ASSUME NEW sp, NEW T, NEW U, Books(sp, T), NEW t \in DOMAIN T, T[t].groups = <<>>,
         NEW a \in Spaces, NEW g \in Spaces,
         DOMAIN U = DOMAIN T, \A x \in DOMAIN T \ {t} : Like(U[x], T[x]),
         U[t].groups = <<>>, U[t].alloc = a, U[t].galloc = g
  PROVE  Books(Reset(Reset(sp, T[t].alloc, a), T[t].galloc, g), U)
<1> DEFINE p  == <<t, "values", T[t].alloc>>
           o  == <<t, "groups", T[t].galloc>>
           pp == <<t, "values", a>>
           oo == <<t, "groups", g>>
           P  == PointersOf(T)
           Q  == HoldingsOf(T)
           P1 == (P \ {p}) \cup {pp}
           P2 == (P1 \ {o}) \cup {oo}
           sp1 == Reset(sp, T[t].alloc, a)
<1>1. Kept(sp, P, Q)
  BY DEF Books
<1>2. /\ p \in P /\ o \in P /\ o # p /\ o # pp /\ oo # pp
      /\ p[3] = T[t].alloc /\ o[3] = T[t].galloc /\ pp[3] = a /\ oo[3] = g
      /\ (T[t].alloc = a => pp = p) /\ (T[t].galloc = g => oo = o)
  BY PointerOf
<1>3. pp \notin P \ {p} /\ oo \notin P \ {o}
  BY PointerOf
<1>4. PointersOf(U) = P2
  <2>1. \A x : x \in PointersOf(U) <=> x \in P2
    BY PointerOf DEF Like
  <2> QED  BY <2>1
<1>5. HoldingsOf(U) = Q
  <2>1. /\ ValuesOf(t, T[t].groups, T[t].alloc) = {} /\ GroupsOf(t, T[t].groups, T[t].galloc) = {}
        /\ ValuesOf(t, U[t].groups, U[t].alloc) = {} /\ GroupsOf(t, U[t].groups, U[t].galloc) = {}
    BY DEF ValuesOf, GroupsOf, Filled
  <2>2. \A x : x \in HoldingsOf(U) <=> x \in Q
    BY <2>1, HoldingOf DEF Like
  <2> QED  BY <2>2
<1>6. \A q \in Q : \E x \in (P \ {p}) \ {o} : x[3] = q[3]
  <2> DEFINE V == [x \in DOMAIN T \ {t} |-> T[x]]
  <2>1. \A x : x \in PointersOf(V) => x \in (P \ {p}) \ {o}
    BY PointerOf
  <2>2. ValuesOf(t, T[t].groups, T[t].alloc) = {} /\ GroupsOf(t, T[t].groups, T[t].galloc) = {}
    BY DEF ValuesOf, GroupsOf, Filled
  <2>3. \A x : x \in Q => x \in HoldingsOf(V)
    BY <2>2, HoldingOf
  <2> HIDE DEF V, P, Q, p, o
  <2>4. \A q \in HoldingsOf(V) : \E x \in PointersOf(V) : x[3] = q[3]
    BY HoldingPointed
  <2> QED  BY <2>1, <2>3, <2>4
<1>7. \A x \in DOMAIN U : U[x].groups \in Seq(GroupType)
  <2>1. U[t].groups \in Seq(GroupType)
    OBVIOUS
  <2>2. \A x \in DOMAIN T \ {t} : U[x].groups \in Seq(GroupType)
    BY DEF Books, Like
  <2> QED  BY <2>1, <2>2
<1> HIDE DEF p, o, pp, oo, P, Q
<1>8. Kept(sp1, P1, Q)
  <2>1. \A q \in Q : \E x \in P \ {p} : x[3] = q[3]
    BY <1>6
  <2> QED  BY <1>1, <1>2, <1>3, <2>1, KeptReset
<1>9. o \in P1 /\ oo \notin P1 \ {o} /\ \A q \in Q : \E x \in P1 \ {o} : x[3] = q[3]
  BY <1>2, <1>3, <1>6
<1> HIDE DEF P1, sp1
<1>10. Kept(Reset(sp1, T[t].galloc, g), P2, Q)
  BY <1>2, <1>8, <1>9, KeptReset
<1> QED  BY <1>4, <1>5, <1>7, <1>10 DEF Books, sp1

(* Two tables change places.                                               *)
Other(t, u, x) == IF x = t THEN u ELSE IF x = u THEN t ELSE x

LEMMA WithRenamed ==
  ASSUME NEW X, NEW Y, IsFiniteSet(X), NEW t, NEW u,
         \A x \in X : x = <<x[1], x[2], x[3]>> /\ <<Other(t, u, x[1]), x[2], x[3]>> \in Y,
         \A y \in Y : y = <<y[1], y[2], y[3]>> /\ <<Other(t, u, y[1]), y[2], y[3]>> \in X,
         NEW s
  PROVE  IsFiniteSet(Y) /\ Cardinality(With(X, s)) = Cardinality(With(Y, s))
<1> DEFINE F(x) == <<Other(t, u, x[1]), x[2], x[3]>>
<1>1. \A x \in X : F(x) \in Y /\ F(F(x)) = x
  BY DEF Other
<1>2. \A y \in Y : F(y) \in X /\ F(F(y)) = y
  BY DEF Other
<1>3. \A x \in X \cup Y : F(x)[3] = x[3]
  OBVIOUS
<1> HIDE DEF F
<1>4. ASSUME NEW A, NEW B, \A x \in A : F(x) \in B /\ F(F(x)) = x,
             \A y \in B : F(y) \in A /\ F(F(y)) = y
      PROVE  ExistsBijection(A, B)
  <2> DEFINE f == [x \in A |-> F(x)]
  <2>1. f \in [A -> B]
    BY <1>4
  <2>2. \A x, y \in A : f[x] = f[y] => x = y
    BY <1>4
  <2>3. \A y \in B : \E x \in A : f[x] = y
    BY <1>4
  <2> HIDE DEF f
  <2>4. f \in Injection(A, B) /\ f \in Surjection(A, B)
    BY <2>1, <2>2, <2>3 DEF Injection, IsInjective, Surjection
  <2>5. f \in Bijection(A, B)
    BY <2>4 DEF Bijection
  <2> QED  BY <2>5 DEF ExistsBijection
<1>5. ExistsBijection(X, Y)
  BY <1>1, <1>2, <1>4
<1>6. ExistsBijection(With(X, s), With(Y, s))
  <2>1. \A x \in With(X, s) : F(x) \in With(Y, s) /\ F(F(x)) = x
    BY <1>1, <1>3 DEF With
  <2>2. \A y \in With(Y, s) : F(y) \in With(X, s) /\ F(F(y)) = y
    BY <1>2, <1>3 DEF With
  <2> QED  BY <1>4, <2>1, <2>2
<1> QED  BY <1>5, <1>6, WithFinite, FS_Bijection

LEMMA Swapping ==
  ASSUME NEW sp, NEW T, NEW U, Books(sp, T), NEW t, NEW u,
         \A x \in DOMAIN T : Other(t, u, x) \in DOMAIN U /\ Like(U[Other(t, u, x)], T[x]),
         \A x \in DOMAIN U : Other(t, u, x) \in DOMAIN T
  PROVE  Books(sp, U)
<1>0. \A x : Other(t, u, Other(t, u, x)) = x
  BY DEF Other
<1>1. \A x \in DOMAIN U : Like(T[Other(t, u, x)], U[x])
  BY <1>0 DEF Like
<1>2. ASSUME NEW A, NEW B, \A x \in DOMAIN A : Other(t, u, x) \in DOMAIN B /\ Like(B[Other(t, u, x)], A[x])
      PROVE  /\ \A x \in PointersOf(A) : x = <<x[1], x[2], x[3]>>
                                         /\ <<Other(t, u, x[1]), x[2], x[3]>> \in PointersOf(B)
             /\ \A x \in HoldingsOf(A) : x = <<x[1], x[2], x[3]>>
                                         /\ <<Other(t, u, x[1]), x[2], x[3]>> \in HoldingsOf(B)
  <2>1. ASSUME NEW x \in PointersOf(A)
        PROVE  x = <<x[1], x[2], x[3]>> /\ <<Other(t, u, x[1]), x[2], x[3]>> \in PointersOf(B)
    <3>1. PICK y \in DOMAIN A : x = <<y, "values", A[y].alloc>> \/ x = <<y, "groups", A[y].galloc>>
      BY PointerOf
    <3>2. Other(t, u, y) \in DOMAIN B /\ Like(B[Other(t, u, y)], A[y])
      BY <1>2
    <3>3. /\ <<Other(t, u, y), "values", A[y].alloc>> \in PointersOf(B)
          /\ <<Other(t, u, y), "groups", A[y].galloc>> \in PointersOf(B)
      BY <3>2, PointerOf DEF Like
    <3> QED  BY <3>1, <3>3
  <2>2. ASSUME NEW x \in HoldingsOf(A)
        PROVE  x = <<x[1], x[2], x[3]>> /\ <<Other(t, u, x[1]), x[2], x[3]>> \in HoldingsOf(B)
    <3>1. PICK y \in DOMAIN A : \/ x \in ValuesOf(y, A[y].groups, A[y].alloc)
                                \/ x \in GroupsOf(y, A[y].groups, A[y].galloc)
      BY HoldingOf
    <3> DEFINE z == Other(t, u, y)
    <3>2. z \in DOMAIN B /\ B[z].groups = A[y].groups /\ B[z].alloc = A[y].alloc /\ B[z].galloc = A[y].galloc
      BY <1>2 DEF Like
    <3> HIDE DEF z
    <3>3. CASE x \in ValuesOf(y, A[y].groups, A[y].alloc)
      <4>1. PICK r \in Filled(A[y].groups) : x = <<y, r, A[y].alloc>>
        BY <3>3 DEF ValuesOf
      <4>2. <<z, r, A[y].alloc>> \in ValuesOf(z, B[z].groups, B[z].alloc)
        BY <3>2 DEF ValuesOf
      <4>3. <<z, r, A[y].alloc>> \in HoldingsOf(B)
        BY <3>2, <4>2, HoldingOf
      <4> QED  BY <4>1, <4>3 DEF z
    <3>4. CASE x \in GroupsOf(y, A[y].groups, A[y].galloc)
      <4>1. PICK r \in DOMAIN A[y].groups : x = <<y, 0, A[y].galloc>>
        BY <3>4 DEF GroupsOf
      <4>2. <<z, 0, A[y].galloc>> \in GroupsOf(z, B[z].groups, B[z].galloc)
        BY <3>2 DEF GroupsOf
      <4>3. <<z, 0, A[y].galloc>> \in HoldingsOf(B)
        BY <3>2, <4>2, HoldingOf
      <4> QED  BY <4>1, <4>3 DEF z
    <3> QED  BY <3>1, <3>3, <3>4
  <2> QED  BY <2>1, <2>2
<1> DEFINE P == PointersOf(T)
           Q == HoldingsOf(T)
           R == PointersOf(U)
           S == HoldingsOf(U)
<1>3. /\ \A x \in P : x = <<x[1], x[2], x[3]>> /\ <<Other(t, u, x[1]), x[2], x[3]>> \in R
      /\ \A x \in Q : x = <<x[1], x[2], x[3]>> /\ <<Other(t, u, x[1]), x[2], x[3]>> \in S
  BY <1>2
<1>4. /\ \A x \in R : x = <<x[1], x[2], x[3]>> /\ <<Other(t, u, x[1]), x[2], x[3]>> \in P
      /\ \A x \in S : x = <<x[1], x[2], x[3]>> /\ <<Other(t, u, x[1]), x[2], x[3]>> \in Q
  BY <1>1, <1>2
<1>5. Kept(sp, P, Q)
  BY DEF Books
<1>6. \A q \in S : \E p \in R : p[3] = q[3]
  BY HoldingPointed
<1>7. \A x \in DOMAIN U : U[x].groups \in Seq(GroupType)
  BY <1>1 DEF Books, Like
<1> HIDE DEF P, Q, R, S
<1>8. IsFiniteSet(P) /\ IsFiniteSet(Q)
  BY <1>5 DEF Kept
<1>9. ASSUME NEW s
      PROVE  /\ IsFiniteSet(R) /\ Cardinality(With(P, s)) = Cardinality(With(R, s))
             /\ IsFiniteSet(S) /\ Cardinality(With(Q, s)) = Cardinality(With(S, s))
  <2>1. IsFiniteSet(R) /\ Cardinality(With(P, s)) = Cardinality(With(R, s))
    <3>1. \A x \in P : x = <<x[1], x[2], x[3]>> /\ <<Other(t, u, x[1]), x[2], x[3]>> \in R
      BY <1>3
    <3>2. \A x \in R : x = <<x[1], x[2], x[3]>> /\ <<Other(t, u, x[1]), x[2], x[3]>> \in P
      BY <1>4
    <3> QED  BY <1>8, <3>1, <3>2, WithRenamed, Zenon
  <2>2. IsFiniteSet(S) /\ Cardinality(With(Q, s)) = Cardinality(With(S, s))
    <3>1. \A x \in Q : x = <<x[1], x[2], x[3]>> /\ <<Other(t, u, x[1]), x[2], x[3]>> \in S
      BY <1>3
    <3>2. \A x \in S : x = <<x[1], x[2], x[3]>> /\ <<Other(t, u, x[1]), x[2], x[3]>> \in Q
      BY <1>4
    <3> QED  BY <1>8, <3>1, <3>2, WithRenamed, Zenon
  <2> QED  BY <2>1, <2>2
<1>10. \A x \in R \cup S : x[3] \in Spaces
  <2>1. \A x \in P \cup Q : x[3] \in Spaces
    BY <1>5 DEF Kept
  <2>2. ASSUME NEW x \in R \cup S PROVE x[3] \in Spaces
    <3> DEFINE y == <<Other(t, u, x[1]), x[2], x[3]>>
    <3>1. y \in P \cup Q /\ y[3] = x[3]
      BY <1>4
    <3> QED  BY <2>1, <3>1
  <2> QED  BY <2>2
<1>11. Kept(sp, R, S)
  BY <1>5, <1>6, <1>9, <1>10 DEF Kept
<1> QED  BY <1>7, <1>11 DEF Books, R, S

-----------------------------------------------------------------------------
(* Groups as sequences.                                                    *)

LEMMA CellIs == Cell = CellType
BY DEF Cell, CellType

LEMMA TableFields ==
  ASSUME NEW h
  PROVE  h \in TableType <=>
           /\ h = [groups |-> h.groups, size |-> h.size, num |-> h.num,
                   alloc |-> h.alloc, galloc |-> h.galloc, intact |-> h.intact]
           /\ h.groups \in Seq(GroupType) /\ h.size \in Sizes \cup {0} /\ h.num \in Nat
           /\ h.alloc \in Spaces /\ h.galloc \in Spaces /\ h.intact \in BOOLEAN
BY CellIs DEF TableType, GroupType

LEMMA SizesAre == Sizes \cup {0} \subseteq Nat
BY TableAssumption DEF TableAssumption

LEMMA BooksOf ==
  ASSUME TypeOK, SpacesOwned
  PROVE  Books(spaces, tab)
<1> DEFINE P == PointersOf(tab)
           Q == HoldingsOf(tab)
           F(t) == {<<t, "values", tab[t].alloc>>, <<t, "groups", tab[t].galloc>>}
           G(t) == ValuesOf(t, tab[t].groups, tab[t].alloc) \cup GroupsOf(t, tab[t].groups, tab[t].galloc)
<1>1. /\ DOMAIN tab = Tables
      /\ \A t \in Tables : /\ tab[t].groups \in Seq(GroupType)
                           /\ tab[t].alloc \in Spaces /\ tab[t].galloc \in Spaces
  BY TableFields DEF TypeOK
<1>2. IsFiniteSet(P)
  <2> DEFINE S == {F(t) : t \in Tables}
             f == [t \in Tables |-> F(t)]
  <2>1. f \in Surjection(Tables, S)
    BY DEF Surjection
  <2>2. IsFiniteSet(S)
    BY <2>1, FS_Surjection, TableAssumption DEF TableAssumption
  <2>3. ASSUME NEW x \in S PROVE IsFiniteSet(x)
    <3>1. PICK t \in Tables : x = F(t)
      OBVIOUS
    <3>2. IsFiniteSet({<<t, "values", tab[t].alloc>>} \cup {<<t, "groups", tab[t].galloc>>})
      BY FS_Singleton, FS_Union
    <3>3. x = {<<t, "values", tab[t].alloc>>} \cup {<<t, "groups", tab[t].galloc>>}
      BY <3>1
    <3> QED  BY <3>2, <3>3
  <2>4. IsFiniteSet(UNION S)
    BY <2>2, <2>3, FS_UNION
  <2> QED  BY <1>1, <2>4 DEF PointersOf
<1>3. IsFiniteSet(Q)
  <2> DEFINE S == {G(t) : t \in Tables}
             f == [t \in Tables |-> G(t)]
  <2>1. f \in Surjection(Tables, S)
    BY DEF Surjection
  <2>2. IsFiniteSet(S)
    BY <2>1, FS_Surjection, TableAssumption DEF TableAssumption
  <2>3. ASSUME NEW x \in S PROVE IsFiniteSet(x)
    <3>1. PICK t \in Tables : x = G(t)
      OBVIOUS
    <3>2. tab[t].groups \in Seq(GroupType)
      BY <1>1
    <3>3. IsFiniteSet(ValuesOf(t, tab[t].groups, tab[t].alloc))
      BY <3>2, ValuesCount
    <3>4. IsFiniteSet(GroupsOf(t, tab[t].groups, tab[t].galloc))
      BY <3>2, GroupsCount
    <3> QED  BY <3>1, <3>3, <3>4, FS_Union
  <2>4. IsFiniteSet(UNION S)
    BY <2>2, <2>3, FS_UNION
  <2> QED  BY <1>1, <2>4 DEF HoldingsOf
<1>4. \A x \in P : x[3] \in Spaces
  BY <1>1, PointerOf
<1>5. \A x \in Q : \E p \in P : p[3] = x[3]
  BY HoldingPointed
<1>6. \A s \in Spaces : /\ spaces[s].count = Cardinality(With(P, s))
                        /\ spaces[s].arrays = Cardinality(With(Q, s))
  BY DEF SpacesOwned, With
<1>7. spaces \in [Spaces -> [count : Nat, arrays : Nat]]
  BY DEF TypeOK
<1> HIDE DEF P, Q
<1>8. Kept(spaces, P, Q)
  BY <1>2, <1>3, <1>4, <1>5, <1>6, <1>7 DEF Kept
<1> QED  BY <1>1, <1>8 DEF Books, P, Q

LEMMA OwnedOf ==
  ASSUME NEW sp, NEW T, Books(sp, T)
  PROVE  /\ sp \in [Spaces -> [count : Nat, arrays : Nat]]
         /\ \A s \in Spaces :
              /\ sp[s].count  = Cardinality({p \in PointersOf(T) : p[3] = s})
              /\ sp[s].arrays = Cardinality({a \in HoldingsOf(T) : a[3] = s})
BY DEF Books, Kept, With

(* A bucket that groups have a cell for.                                   *)
Within(groups, b) == b \in Nat /\ GroupNum(b) \in 1 .. Len(groups)

LEMMA CellType1 ==
  ASSUME NEW groups \in Seq(GroupType), NEW b, Within(groups, b)
  PROVE  CellAt(groups, b) \in CellType
<1>1. PosInGroup(b) \in Positions /\ groups[GroupNum(b)] \in [Positions -> CellType]
  <2>1. b \in Nat /\ GroupNum(b) \in 1 .. Len(groups)
    BY DEF Within
  <2>2. PosInGroup(b) \in Positions
    BY <2>1, BucketParts
  <2>3. groups[GroupNum(b)] \in GroupType
    BY <2>1
  <2> QED  BY <2>2, <2>3 DEF GroupType
<1> QED  BY <1>1 DEF CellAt

LEMMA FullWithin ==
  ASSUME NEW groups \in Seq(GroupType), NEW b
  PROVE  b \in FullBuckets(groups) <=> Within(groups, b) /\ CellAt(groups, b) \in Values \cup {Raw}
BY FullCell DEF Within

(* Groups of which the cells of the full buckets agree.                    *)
LEMMA FullAgree ==
  ASSUME NEW groups \in Seq(GroupType), NEW new \in Seq(GroupType), NEW S,
         \A b : b \in S <=> Within(new, b) /\ CellAt(new, b) \in Values \cup {Raw}
  PROVE  FullBuckets(new) = S
BY FullWithin

LEMMA VacantFacts ==
  /\ VacantGroup \in GroupType /\ Occupied(VacantGroup) = {}
  /\ \A p \in Positions : VacantGroup[p] = Empty
<1>1. VacantGroup \in GroupType /\ \A p \in Positions : VacantGroup[p] = Empty
  BY DEF VacantGroup, GroupType, CellType
<1>2. Empty \notin Values \cup {Raw}
  BY GroupAssumption DEF GroupAssumption
<1> QED  BY <1>1, <1>2 DEF Occupied

LEMMA NumGroupsIs ==
  ASSUME NEW n \in Nat
  PROVE  /\ NumGroups(n) \in Nat
         /\ \A b \in Nat : b < n => GroupNum(b) \in 1 .. NumGroups(n)
         /\ \A m \in Nat : m <= n => NumGroups(m) <= NumGroups(n)
<1>1. CASE n = 0
  <2>1. NumGroups(n) = 0
    BY <1>1 DEF NumGroups
  <2>2. \A m \in Nat : m <= n => m = 0
    BY <1>1
  <2>3. \A b \in Nat : ~ (b < n)
    BY <1>1
  <2> QED  BY <2>1, <2>2, <2>3 DEF NumGroups
<1>2. CASE n > 0
  <2>1. n - 1 \in Nat
    BY <1>2
  <2>2. NumGroups(n) = GroupNum(n - 1) /\ GroupNum(n - 1) \in Nat \ {0}
    BY <1>2, <2>1, BucketParts DEF NumGroups, GroupNum
  <2>3. ASSUME NEW b \in Nat, b < n
        PROVE  GroupNum(b) \in Nat \ {0} /\ GroupNum(b) <= GroupNum(n - 1)
    <3>1. GroupNum(b) \in Nat \ {0}
      BY BucketParts
    <3>2. n - 1 < b <=> \/ GroupNum(n - 1) < GroupNum(b)
                        \/ GroupNum(n - 1) = GroupNum(b) /\ PosInGroup(n - 1) < PosInGroup(b)
      BY <2>1, BucketOrder
    <3>3. ~ (n - 1 < b)
      BY <2>3
    <3> QED  BY <2>2, <3>1, <3>2, <3>3
  <2>4. ASSUME NEW m \in Nat, m <= n
        PROVE  NumGroups(m) <= NumGroups(n)
    <3>1. CASE m = 0
      BY <2>2, <3>1 DEF NumGroups
    <3>2. CASE m > 0
      <4>1. m - 1 \in Nat /\ m - 1 < n /\ NumGroups(m) = GroupNum(m - 1)
        BY <2>4, <3>2 DEF NumGroups, GroupNum
      <4> QED  BY <2>2, <2>3, <4>1
    <3> QED  BY <3>1, <3>2
  <2> QED  BY <2>2, <2>3, <2>4
<1> QED  BY <1>1, <1>2

LEMMA VacantGroupsFacts ==
  ASSUME NEW m \in Nat
  PROVE  /\ VacantGroups(m) \in Seq(GroupType) /\ Len(VacantGroups(m)) = m
         /\ \A b : Within(VacantGroups(m), b) => CellAt(VacantGroups(m), b) = Empty
<1> DEFINE new == VacantGroups(m)
<1>1. new = [r \in 1 .. m |-> VacantGroup]
  BY DEF VacantGroups
<1>2. new \in Seq(GroupType) /\ Len(new) = m /\ \A r \in 1 .. m : new[r] = VacantGroup
  BY <1>1, VacantFacts
<1> HIDE DEF new
<1>3. ASSUME NEW b, Within(new, b) PROVE CellAt(new, b) = Empty
  BY <1>2, <1>3, VacantFacts, BucketParts DEF Within, CellAt
<1> QED  BY <1>2, <1>3 DEF new

LEMMA NoGroups ==
  /\ <<>> \in Seq(GroupType) /\ Len(<<>>) = 0 /\ NumGroups(0) = 0
  /\ FullBuckets(<<>>) = {} /\ \A b : ~ Within(<<>>, b)
<1>1. <<>> \in Seq(GroupType) /\ Len(<<>>) = 0 /\ NumGroups(0) = 0
  BY DEF NumGroups
<1>2. ASSUME NEW b, Within(<<>>, b) PROVE FALSE
  BY <1>1, <1>2 DEF Within
<1>3. FullBuckets(<<>>) = {}
  BY <1>1, <1>2, FullWithin
<1> QED  BY <1>1, <1>2, <1>3

LEMMA ResizedFacts ==
  ASSUME NEW groups \in Seq(GroupType), NEW n \in Nat
  PROVE  LET new == ResizedGroups(groups, n)
         IN  /\ new \in Seq(GroupType) /\ Len(new) = NumGroups(n)
             /\ \A b : Within(new, b) =>
                  CellAt(new, b) = IF Within(groups, b) THEN CellAt(groups, b) ELSE Empty
<1> DEFINE new == ResizedGroups(groups, n)
           m == NumGroups(n)
<1>1. m \in Nat /\ Len(groups) \in Nat
  BY NumGroupsIs
<1>2. new = [r \in 1 .. m |-> IF r <= Len(groups) THEN groups[r] ELSE VacantGroup]
  BY DEF ResizedGroups
<1>3. \A r \in 1 .. m : (IF r <= Len(groups) THEN groups[r] ELSE VacantGroup) \in GroupType
  BY <1>1, VacantFacts
<1> HIDE DEF m, new
<1>4. new \in Seq(GroupType) /\ Len(new) = m
  BY <1>1, <1>2, <1>3
<1>5. ASSUME NEW b, Within(new, b)
      PROVE  CellAt(new, b) = IF Within(groups, b) THEN CellAt(groups, b) ELSE Empty
  <2>1. b \in Nat /\ GroupNum(b) \in 1 .. m /\ PosInGroup(b) \in Positions
    BY <1>4, <1>5, BucketParts DEF Within
  <2>2. CASE GroupNum(b) <= Len(groups)
    <3>1. Within(groups, b) /\ new[GroupNum(b)] = groups[GroupNum(b)]
      BY <1>1, <1>2, <2>1, <2>2 DEF Within
    <3> QED  BY <3>1 DEF CellAt
  <2>3. CASE ~ (GroupNum(b) <= Len(groups))
    <3>1. ~ Within(groups, b) /\ new[GroupNum(b)] = VacantGroup
      BY <1>1, <1>2, <2>1, <2>3 DEF Within
    <3> QED  BY <2>1, <3>1, VacantFacts DEF CellAt
  <2> QED  BY <2>2, <2>3
<1> QED  BY <1>4, <1>5 DEF new, m

-----------------------------------------------------------------------------
(* Tables one at a time.                                                   *)

(* What NumExact says of a table, and that no cell behind its last bucket  *)
(* was ever touched.                                                       *)
Exact(h) ==
  /\ Len(h.groups) = NumGroups(h.size)
  /\ h.num = Cardinality(FullBuckets(h.groups))
  /\ \A b : Within(h.groups, b) => /\ CellAt(h.groups, b) # Raw
                                   /\ h.size <= b => CellAt(h.groups, b) = Empty

Sound(h) == h \in TableType /\ (h.intact => Exact(h))

LEMMA SoundFields ==
  ASSUME NEW h, Sound(h)
  PROVE  /\ h.groups \in Seq(GroupType) /\ h.size \in Sizes \cup {0} /\ h.size \in Nat /\ h.num \in Nat
         /\ h.alloc \in Spaces /\ h.galloc \in Spaces /\ h.intact \in BOOLEAN
         /\ h = [groups |-> h.groups, size |-> h.size, num |-> h.num,
                 alloc |-> h.alloc, galloc |-> h.galloc, intact |-> h.intact]
BY TableFields, SizesAre DEF Sound

LEMMA ExactFull ==
  ASSUME NEW h, Sound(h), h.intact
  PROVE  /\ \A b \in FullBuckets(h.groups) :
              /\ b \in Nat /\ b < h.size /\ Within(h.groups, b) /\ CellAt(h.groups, b) \in Values
         /\ \A b \in Nat : b < h.size => Within(h.groups, b)
         /\ h.size <= Len(h.groups) * GroupSize
<1>1. h.groups \in Seq(GroupType) /\ h.size \in Nat /\ Exact(h)
  BY SoundFields DEF Sound
<1>2. ASSUME NEW b \in FullBuckets(h.groups)
      PROVE  b \in Nat /\ b < h.size /\ Within(h.groups, b) /\ CellAt(h.groups, b) \in Values
  <2>1. b \in Nat /\ Within(h.groups, b) /\ CellAt(h.groups, b) \in Values \cup {Raw}
    BY <1>1, FullWithin DEF Within
  <2>2. CellAt(h.groups, b) # Raw /\ (h.size <= b => CellAt(h.groups, b) = Empty)
    BY <1>1, <2>1 DEF Exact
  <2>3. Empty \notin Values \cup {Raw}
    BY GroupAssumption DEF GroupAssumption
  <2> QED  BY <1>1, <2>1, <2>2, <2>3
<1>3. ASSUME NEW b \in Nat, b < h.size PROVE Within(h.groups, b)
  BY <1>1, <1>3, NumGroupsIs DEF Exact, Within
<1>4. h.size <= Len(h.groups) * GroupSize
  <2>1. Len(h.groups) \in Nat /\ Len(h.groups) * GroupSize \in Nat
    BY <1>1, SizeType
  <2>2. CASE h.size > 0
    <3> DEFINE b == h.size - 1
    <3>1. b \in Nat /\ b < h.size
      BY <1>1, <2>2
    <3>2. GroupNum(b) <= Len(h.groups)
      BY <1>3, <2>1, <3>1 DEF Within
    <3>3. b < Len(h.groups) * GroupSize
      BY <2>1, <3>1, <3>2, BucketRange
    <3> QED  BY <1>1, <2>1, <3>3
  <2> QED  BY <1>1, <2>1, <2>2
<1> QED  BY <1>2, <1>3, <1>4

LEMMA BlankSound ==
  ASSUME NEW n \in Sizes \cup {0}, NEW a \in Spaces, NEW g \in Spaces
  PROVE  /\ Sound(Blank(n, a, g)) /\ Blank(n, a, g).groups \in Seq(GroupType)
         /\ Blank(n, a, g).alloc = a /\ Blank(n, a, g).galloc = g /\ Blank(n, a, g).intact
         /\ Blank(n, a, g).size = n
         /\ \A b : Within(Blank(n, a, g).groups, b) => CellAt(Blank(n, a, g).groups, b) = Empty
<1> DEFINE new == VacantGroups(NumGroups(n))
           h == Blank(n, a, g)
<1>0. n \in Nat /\ NumGroups(n) \in Nat
  BY SizesAre, NumGroupsIs
<1>1. /\ new \in Seq(GroupType) /\ Len(new) = NumGroups(n)
      /\ \A b : Within(new, b) => CellAt(new, b) = Empty
  BY <1>0, VacantGroupsFacts
<1>2. Empty \notin Values \cup {Raw}
  BY GroupAssumption DEF GroupAssumption
<1>3. FullBuckets(new) = {}
  BY <1>1, <1>2, FullWithin
<1> HIDE DEF new
<1>4. h = [groups |-> new, size |-> n, num |-> 0, alloc |-> a, galloc |-> g, intact |-> TRUE]
  BY DEF Blank, new
<1> HIDE DEF h
<1>5. /\ h.groups = new /\ h.size = n /\ h.num = 0 /\ h.alloc = a /\ h.galloc = g /\ h.intact
      /\ h.intact \in BOOLEAN
  BY <1>4
<1>6. h \in TableType
  BY <1>0, <1>1, <1>4, <1>5, TableFields
<1>7. Exact(h)
  <2>1. h.num = Cardinality(FullBuckets(h.groups))
    BY <1>3, <1>5, FS_EmptySet
  <2> QED  BY <1>1, <1>2, <1>5, <2>1 DEF Exact
<1> QED  BY <1>1, <1>5, <1>6, <1>7 DEF Sound, h

LEMMA ClearedSound ==
  ASSUME NEW h, Sound(h)
  PROVE  /\ Sound(Cleared(h)) /\ Cleared(h).groups = <<>> /\ Cleared(h).intact /\ Cleared(h).size = 0
         /\ Cleared(h).alloc = h.alloc /\ Cleared(h).galloc = h.galloc
<1> DEFINE k == Cleared(h)
<1>1. h \in TableType /\ <<>> \in Seq([Positions -> Cell])
  BY DEF Sound
<1>2. /\ k.groups = <<>> /\ k.size = 0 /\ k.num = 0 /\ k.intact /\ k.intact \in BOOLEAN
      /\ k.alloc = h.alloc /\ k.galloc = h.galloc
  BY <1>1 DEF TableType, Cleared
<1>3. k \in TableType
  BY <1>1 DEF TableType, Cleared
<1> HIDE DEF k
<1>4. Exact(k)
  BY <1>2, NoGroups, FS_EmptySet DEF Exact
<1> QED  BY <1>2, <1>3, <1>4 DEF Sound, k

LEMMA ResizedSound ==
  ASSUME NEW h, Sound(h), h.intact, NEW n \in Sizes, h.size <= n
  PROVE  LET k == [Regrouped(h, ResizedGroups(h.groups, n)) EXCEPT !.size = n]
         IN  /\ Sound(k) /\ k.groups = ResizedGroups(h.groups, n) /\ k.size = n /\ k.intact
             /\ k.alloc = h.alloc /\ k.galloc = h.galloc
             /\ \A b \in Nat : b < n =>
                  CellAt(k.groups, b) = IF b < h.size THEN CellAt(h.groups, b) ELSE Empty
<1> DEFINE g == ResizedGroups(h.groups, n)
           k == [Regrouped(h, g) EXCEPT !.size = n]
           old == h.groups
<1>0. n \in Nat /\ n \in Sizes \cup {0} /\ h.size \in Nat /\ Exact(h) /\ old \in Seq(GroupType)
  BY SoundFields, SizesAre DEF Sound
<1>1. /\ g \in Seq(GroupType) /\ Len(g) = NumGroups(n)
      /\ \A b : Within(g, b) => CellAt(g, b) = IF Within(old, b) THEN CellAt(old, b) ELSE Empty
  BY <1>0, ResizedFacts
<1>2. NumGroups(h.size) <= NumGroups(n) /\ NumGroups(h.size) \in Nat /\ NumGroups(n) \in Nat
  BY <1>0, NumGroupsIs
<1> HIDE DEF g
<1>3. h \in TableType /\ g \in Seq([Positions -> Cell])
  BY <1>1, CellIs DEF Sound, GroupType
<1>4. k \in TableType
  BY <1>0, <1>3 DEF TableType, Regrouped
<1>5. /\ k.groups = g /\ k.size = n /\ k.intact = h.intact /\ k.num = h.num
      /\ k.alloc = h.alloc /\ k.galloc = h.galloc
  BY <1>3 DEF TableType, Regrouped
<1> HIDE DEF k
<1>6. \A b : Within(old, b) => Within(g, b)
  BY <1>0, <1>1, <1>2 DEF Within, Exact
<1>7. Empty \notin Values \cup {Raw}
  BY GroupAssumption DEF GroupAssumption
<1>8. FullBuckets(g) = FullBuckets(old)
  <2>1. \A b : b \in FullBuckets(g) <=> b \in FullBuckets(old)
    BY <1>0, <1>1, <1>6, <1>7, FullWithin
  <2> QED  BY <2>1
<1>9. ASSUME NEW b, Within(g, b)
      PROVE  CellAt(g, b) # Raw /\ (n <= b => CellAt(g, b) = Empty)
  <2>1. CellAt(g, b) = IF Within(old, b) THEN CellAt(old, b) ELSE Empty
    BY <1>1, <1>9
  <2>2. b \in Nat
    BY <1>9 DEF Within
  <2>3. Within(old, b) => CellAt(old, b) # Raw /\ (h.size <= b => CellAt(old, b) = Empty)
    BY <1>0 DEF Exact
  <2>4. n <= b => h.size <= b
    BY <1>0, <2>2
  <2> QED  BY <1>7, <2>1, <2>3, <2>4
<1>10. Exact(k)
  <2>1. Len(k.groups) = NumGroups(k.size)
    BY <1>1, <1>5
  <2>2. k.num = Cardinality(FullBuckets(k.groups))
    BY <1>0, <1>5, <1>8 DEF Exact
  <2> QED  BY <1>5, <1>9, <2>1, <2>2 DEF Exact
<1>11. ASSUME NEW b \in Nat, b < n
       PROVE  CellAt(g, b) = IF b < h.size THEN CellAt(old, b) ELSE Empty
  <2>1. Within(g, b)
    BY <1>0, <1>1, <1>11, NumGroupsIs DEF Within
  <2>2. CellAt(g, b) = IF Within(old, b) THEN CellAt(old, b) ELSE Empty
    BY <1>1, <2>1
  <2>3. b < h.size => Within(old, b)
    BY ExactFull
  <2>4. ~ (b < h.size) => h.size <= b
    BY <1>0
  <2>5. h.size <= b /\ Within(old, b) => CellAt(old, b) = Empty
    BY <1>0 DEF Exact
  <2> QED  BY <2>2, <2>3, <2>4, <2>5
<1>12. Sound(k) /\ k.intact
  BY <1>4, <1>5, <1>10 DEF Sound
<1> QED  BY <1>5, <1>11, <1>12 DEF k, g

(* What Change makes of a table.                                           *)
Changed(h, g, d) == [h EXCEPT !.groups = g, !.num = @ + d]

LEMMA ChangedFields ==
  ASSUME NEW h, Sound(h), NEW g, NEW d
  PROVE  /\ Changed(h, g, d).groups = g /\ Changed(h, g, d).num = h.num + d
         /\ Changed(h, g, d).size = h.size /\ Changed(h, g, d).intact = h.intact
         /\ Changed(h, g, d).alloc = h.alloc /\ Changed(h, g, d).galloc = h.galloc
         /\ g \in Seq(GroupType) /\ h.num + d \in Nat => Changed(h, g, d) \in TableType
<1>1. h \in TableType
  BY DEF Sound
<1>2. g \in Seq(GroupType) => g \in Seq([Positions -> Cell])
  BY CellIs DEF GroupType
<1>3. g \in Seq(GroupType) /\ h.num + d \in Nat => Changed(h, g, d) \in TableType
  BY <1>1, <1>2 DEF TableType, Changed
<1> QED  BY <1>1, <1>3 DEF TableType, Changed

LEMMA ChangedSound ==
  ASSUME NEW h, Sound(h), h.intact, NEW g \in Seq(GroupType), NEW d \in Int,
         Len(g) = Len(h.groups), Cardinality(FullBuckets(g)) = h.num + d,
         \A b : Within(g, b) => CellAt(g, b) # Raw /\ (h.size <= b => CellAt(g, b) = Empty)
  PROVE  Sound(Changed(h, g, d))
<1> DEFINE k == Changed(h, g, d)
<1>1. h.num + d \in Nat
  <2>1. Cardinality(FullBuckets(g)) \in Nat
    BY FullFinite
  <2>2. h.num \in Nat
    BY SoundFields
  <2> QED  BY <2>1, <2>2
<1>2. /\ k.groups = g /\ k.num = h.num + d /\ k.size = h.size /\ k \in TableType
  BY <1>1, ChangedFields
<1> HIDE DEF k
<1>3. Len(h.groups) = NumGroups(h.size)
  BY DEF Sound, Exact
<1>4. Exact(k)
  BY <1>2, <1>3 DEF Exact
<1> QED  BY <1>2, <1>4 DEF Sound, k

LEMMA UnchangedSound ==
  ASSUME NEW h, Sound(h), ~ h.intact, NEW g \in Seq(GroupType)
  PROVE  Sound(Changed(h, g, 0))
<1>1. h.num + 0 \in Nat
  BY SoundFields
<1> QED  BY <1>1, ChangedFields DEF Sound

(* set, and a failed set.                                                  *)
LEMMA CellSound ==
  ASSUME NEW h, Sound(h), h.intact, NEW b \in Nat, b < h.size, NEW c \in Values \cup {Empty, Erased},
         NEW d \in Int, \/ c \in Values /\ Test(h, b) /\ d = 0
                        \/ c \in Values /\ ~ Test(h, b) /\ d = 1
                        \/ c \notin Values /\ Test(h, b) /\ d = -1
                        \/ c \notin Values /\ ~ Test(h, b) /\ d = 0
  PROVE  LET g == WithCell(h.groups, b, c)
         IN  /\ Sound(Changed(h, g, d)) /\ g \in Seq(GroupType)
             /\ \A x \in Nat : x < h.size => CellAt(g, x) = IF x = b THEN c ELSE CellAt(h.groups, x)
<1> DEFINE old == h.groups
           g == WithCell(old, b, c)
<1>1. /\ old \in Seq(GroupType) /\ h.size \in Nat /\ h.num \in Nat /\ Exact(h) /\ Within(old, b)
      /\ \A x \in Nat : x < h.size => Within(old, x)
  BY SoundFields, ExactFull DEF Sound
<1>2. c \in CellType /\ c # Raw /\ (c \in Values \cup {Raw} <=> c \in Values)
  BY GroupAssumption DEF GroupAssumption, CellType
<1>3. g = Altered(old, b, c)
  BY DEF WithCell, Altered
<1> HIDE DEF g
<1>4. g \in Seq(GroupType) /\ Len(g) = Len(old)
  <2>1. b \in Nat /\ GroupNum(b) \in 1 .. Len(old)
    BY <1>1 DEF Within
  <2>2. old \in Seq(GroupType) /\ c \in CellType
    BY <1>1, <1>2
  <2> HIDE DEF old
  <2>3. Altered(old, b, c) \in Seq(GroupType) /\ Len(Altered(old, b, c)) = Len(old)
    BY <2>1, <2>2, AlteredCells
  <2> QED  BY <1>3, <2>3
<1>5. ASSUME NEW x, Within(old, x)
      PROVE  CellAt(g, x) = IF x = b THEN c ELSE CellAt(old, x)
  BY <1>1, <1>2, <1>3, <1>5, AlteredCell DEF Within
<1>6. FullBuckets(g) = IF c \in Values THEN FullBuckets(old) \cup {b} ELSE FullBuckets(old) \ {b}
  BY <1>1, <1>2, <1>3, AlteredFull DEF Within
<1>7. Test(h, b) <=> b \in FullBuckets(old)
  BY <1>1, FullWithin DEF Test
<1>8. Cardinality(FullBuckets(g)) = h.num + d
  <2>1. IsFiniteSet(FullBuckets(old)) /\ h.num = Cardinality(FullBuckets(old))
    BY <1>1, FullFinite DEF Exact
  <2>2. CASE c \in Values
    <3>1. Cardinality(FullBuckets(g)) = IF b \in FullBuckets(old) THEN h.num ELSE h.num + 1
      BY <1>6, <2>1, <2>2, FS_AddElement
    <3> QED  BY <1>1, <1>7, <2>2, <3>1
  <2>3. CASE c \notin Values
    <3>1. Cardinality(FullBuckets(g)) = IF b \in FullBuckets(old) THEN h.num - 1 ELSE h.num
      <4>1. FullBuckets(g) = FullBuckets(old) \ {b}
        BY <1>6, <2>3
      <4>2. Cardinality(FullBuckets(old) \ {b}) =
              IF b \in FullBuckets(old) THEN Cardinality(FullBuckets(old)) - 1
              ELSE Cardinality(FullBuckets(old))
        BY <2>1, FS_RemoveElement
      <4> QED  BY <2>1, <4>1, <4>2
    <3> QED  BY <1>1, <1>7, <2>3, <3>1
  <2> QED  BY <2>2, <2>3
<1>9. ASSUME NEW x, Within(g, x)
      PROVE  CellAt(g, x) # Raw /\ (h.size <= x => CellAt(g, x) = Empty)
  <2>1. Within(old, x) /\ x \in Nat
    BY <1>4, <1>9 DEF Within
  <2>2. h.size <= x => x # b
    BY <1>1, <2>1
  <2> QED  BY <1>1, <1>2, <1>5, <2>1, <2>2 DEF Exact
<1>10. Sound(Changed(h, g, d))
  <2>1. d \in Int
    OBVIOUS
  <2> QED  BY <1>4, <1>8, <1>9, <2>1, ChangedSound
<1> QED  BY <1>1, <1>4, <1>5, <1>10 DEF g

(* The groups of h with marks in the buckets of S.                         *)
Marked(h, S) ==
  [r \in DOMAIN h.groups |-> [p \in Positions |->
     IF (r - 1) * GroupSize + p \in S THEN Erased ELSE h.groups[r][p]]]

(* erase of a range of bucket numbers.                                     *)
LEMMA SpanSound ==
  ASSUME NEW h, Sound(h), h.intact, NEW S \in SUBSET FullBuckets(h.groups)
  PROVE  LET g == Marked(h, S)
         IN  /\ Sound(Changed(h, g, - Cardinality(S))) /\ g \in Seq(GroupType)
             /\ \A x \in Nat : x < h.size => CellAt(g, x) = IF x \in S THEN Erased ELSE CellAt(h.groups, x)
<1> DEFINE old == h.groups
           row(r) == [p \in Positions |->
                        IF (r - 1) * GroupSize + p \in S THEN Erased ELSE h.groups[r][p]]
           g == [r \in DOMAIN h.groups |-> row(r)]
           n == Len(old)
<1>1. /\ old \in Seq(GroupType) /\ h.size \in Nat /\ h.num \in Nat /\ Exact(h)
      /\ \A x \in Nat : x < h.size => Within(old, x)
  BY SoundFields, ExactFull DEF Sound
<1>2. n \in Nat /\ DOMAIN old = 1 .. n /\ \A r \in 1 .. n : old[r] \in [Positions -> CellType]
  BY <1>1 DEF GroupType
<1>3. Erased \in CellType /\ Erased \notin Values \cup {Raw} /\ Erased # Empty
  BY GroupAssumption DEF GroupAssumption, CellType
<1>4. \A r \in 1 .. n : row(r) \in GroupType
  BY <1>2, <1>3 DEF GroupType
<1>5. \A r \in 1 .. n : \A p \in Positions :
        row(r)[p] = IF (r - 1) * GroupSize + p \in S THEN Erased ELSE old[r][p]
  OBVIOUS
<1> HIDE DEF row
<1>6. g \in Seq(GroupType) /\ Len(g) = n /\ \A r \in 1 .. n : g[r] = row(r)
  <2>1. g = [r \in 1 .. n |-> row(r)]
    BY <1>2
  <2> QED  BY <1>2, <1>4, <2>1
<1> HIDE DEF g
<1>7. ASSUME NEW x, Within(old, x)
      PROVE  CellAt(g, x) = IF x \in S THEN Erased ELSE CellAt(old, x)
  <2>1. /\ x \in Nat /\ GroupNum(x) \in 1 .. n /\ PosInGroup(x) \in Positions
        /\ x = (GroupNum(x) - 1) * GroupSize + PosInGroup(x)
    BY <1>7, BucketParts DEF Within
  <2>2. g[GroupNum(x)] = row(GroupNum(x))
    BY <1>6, <2>1
  <2>3. row(GroupNum(x))[PosInGroup(x)] =
          IF (GroupNum(x) - 1) * GroupSize + PosInGroup(x) \in S THEN Erased
          ELSE old[GroupNum(x)][PosInGroup(x)]
    BY <1>5, <2>1
  <2> QED  BY <2>1, <2>2, <2>3, Zenon DEF CellAt
<1>8. \A x : Within(g, x) <=> Within(old, x)
  BY <1>6 DEF Within
<1>9. FullBuckets(g) = FullBuckets(old) \ S
  <2>1. \A x : x \in FullBuckets(g) <=> x \in FullBuckets(old) /\ x \notin S
    BY <1>1, <1>3, <1>6, <1>7, <1>8, FullWithin
  <2> QED  BY <2>1
<1>10. /\ Cardinality(FullBuckets(g)) = h.num + (- Cardinality(S)) /\ - Cardinality(S) \in Int
  <2>1. IsFiniteSet(FullBuckets(old)) /\ h.num = Cardinality(FullBuckets(old))
    BY <1>1, FullFinite DEF Exact
  <2>2. Cardinality(FullBuckets(old) \ S) = Cardinality(FullBuckets(old)) - Cardinality(FullBuckets(old) \cap S)
    BY <2>1, FS_Difference
  <2>3. FullBuckets(old) \cap S = S
    OBVIOUS
  <2>4. Cardinality(S) \in Nat
    BY <2>1, FS_Subset, FS_CardinalityType
  <2>5. Cardinality(FullBuckets(g)) = h.num - Cardinality(S)
    BY <1>9, <2>1, <2>2, <2>3
  <2> QED  BY <1>1, <2>4, <2>5
<1>11. ASSUME NEW x, Within(g, x)
       PROVE  CellAt(g, x) # Raw /\ (h.size <= x => CellAt(g, x) = Empty)
  <2>1. Within(old, x) /\ x \in Nat
    BY <1>8, <1>11 DEF Within
  <2>2. h.size <= x => x \notin S
    <3>1. \A y \in S : y \in Nat /\ y < h.size
      BY ExactFull
    <3> QED  BY <1>1, <2>1, <3>1
  <2>3. CellAt(old, x) # Raw /\ (h.size <= x => CellAt(old, x) = Empty)
    BY <1>1, <2>1 DEF Exact
  <2> QED  BY <1>3, <1>7, <2>1, <2>2, <2>3
<1>12. Sound(Changed(h, g, - Cardinality(S)))
  BY <1>6, <1>10, <1>11, ChangedSound
<1>13. Marked(h, S) = g
  BY DEF Marked, g, row
<1> QED  BY <1>1, <1>6, <1>7, <1>12, <1>13

(* erase(it).                                                              *)
LEMMA HereSound ==
  ASSUME NEW h, Sound(h), h.intact, NEW i, Points(h.groups, i)
  PROVE  LET b == GetPos(h.groups, i)
         IN  /\ b \in FullBuckets(h.groups) /\ b \in Nat /\ b < h.size
             /\ ErasedAt(h.groups, i) = WithCell(h.groups, b, Erased)
             /\ Sound(Changed(h, ErasedAt(h.groups, i), -1))
<1> DEFINE b == GetPos(h.groups, i)
<1>1. h.groups \in Seq(GroupType)
  BY SoundFields
<1>2. b \in FullBuckets(h.groups)
  BY <1>1, PosOfIterator
<1>3. b \in Nat /\ b < h.size /\ CellAt(h.groups, b) \in Values
  BY <1>2, ExactFull
<1>4. ErasedAt(h.groups, i) = WithCell(h.groups, b, Erased)
  BY <1>1, ErasedIsAltered DEF WithCell, Altered
<1> HIDE DEF b
<1>5. Erased \notin Values /\ Test(h, b)
  BY <1>3, GroupAssumption DEF GroupAssumption, Test
<1>6. Sound(Changed(h, WithCell(h.groups, b, Erased), -1))
  BY <1>3, <1>5, CellSound
<1> QED  BY <1>2, <1>3, <1>4, <1>6 DEF b

(* erase(f, l).                                                            *)
LEMMA RangeSound ==
  ASSUME NEW h, Sound(h), h.intact, NEW f, NEW l, Points(h.groups, f), Valid(h.groups, l),
         Before(h.groups, f) \subseteq Before(h.groups, l),
         NEW new, new = ErasedRange(h.groups, f, l).groups,
         NEW d, d = - Distance(h.groups, l, f),
         NEW G, G = Before(h.groups, l) \ Before(h.groups, f)
  PROVE  /\ Sound(Changed(h, new, d))
         /\ \A x \in Nat : x < h.size =>
              CellAt(new, x) = IF x \in G THEN Erased ELSE CellAt(h.groups, x)
<1> DEFINE old == h.groups
           n == Distance(old, l, f)
<1>1. /\ old \in Seq(GroupType) /\ h.size \in Nat /\ h.num \in Nat /\ Exact(h)
      /\ \A x \in Nat : x < h.size => Within(old, x)
  BY SoundFields, ExactFull DEF Sound
<1>2. /\ new \in Seq(GroupType) /\ Len(new) = Len(old)
      /\ FullBuckets(new) = FullBuckets(old) \ G
      /\ Cardinality(FullBuckets(new)) = Cardinality(FullBuckets(old)) - n
      /\ \A b \in Nat : GroupNum(b) \in 1 .. Len(old) =>
           CellAt(new, b) = IF b \in G THEN Erased ELSE CellAt(old, b)
  BY <1>1, RangeErased
<1>3. n \in Nat
  <2>1. Len(old) \in Nat
    BY <1>1
  <2> QED  BY <1>1, DistanceCounts, WalkMeets
<1>4. h.num = Cardinality(FullBuckets(old))
  BY <1>1 DEF Exact
<1>5. Erased # Raw /\ Erased # Empty
  BY GroupAssumption DEF GroupAssumption
<1>6. G \subseteq FullBuckets(old)
  BY <1>1, BeforeFinite
<1>0. d = - n
  OBVIOUS
<1> HIDE DEF n
<1>7. \A x : Within(old, x) => CellAt(new, x) = IF x \in G THEN Erased ELSE CellAt(old, x)
  BY <1>2 DEF Within
<1>8. \A x : Within(new, x) <=> Within(old, x)
  BY <1>2 DEF Within
<1>9. ASSUME NEW x, Within(new, x)
      PROVE  CellAt(new, x) # Raw /\ (h.size <= x => CellAt(new, x) = Empty)
  <2>1. Within(old, x) /\ x \in Nat
    BY <1>8, <1>9 DEF Within
  <2>2. h.size <= x => x \notin G
    <3>1. \A y \in G : y \in Nat /\ y < h.size
      BY <1>6, ExactFull
    <3> QED  BY <1>1, <2>1, <3>1
  <2>3. CellAt(old, x) # Raw /\ (h.size <= x => CellAt(old, x) = Empty)
    BY <1>1, <2>1 DEF Exact
  <2> QED  BY <1>5, <1>7, <2>1, <2>2, <2>3
<1>10. Sound(Changed(h, new, d))
  <2>1. d \in Int /\ Cardinality(FullBuckets(new)) = h.num + d
    BY <1>0, <1>1, <1>2, <1>3, <1>4
  <2> QED  BY <1>2, <1>9, <2>1, ChangedSound
<1> QED  BY <1>1, <1>2, <1>7, <1>10

-----------------------------------------------------------------------------
(* Files.                                                                  *)

LEMMA AllottedFacts ==
  ASSUME NEW g
  PROVE  /\ Allotted(g) \in GroupType /\ Occupied(Allotted(g)) = Occupied(g)
         /\ \A p \in Positions : Allotted(g)[p] = IF p \in Occupied(g) THEN Raw ELSE Empty
<1>1. \A p \in Positions : Allotted(g)[p] = IF p \in Occupied(g) THEN Raw ELSE Empty
  BY DEF Allotted
<1>2. Allotted(g) \in GroupType
  BY DEF Allotted, GroupType, CellType
<1>3. Empty \notin Values \cup {Raw}
  BY GroupAssumption DEF GroupAssumption
<1>4. Occupied(Allotted(g)) = {p \in Positions : Allotted(g)[p] \in Values \cup {Raw}}
  BY DEF Occupied
<1>5. Occupied(Allotted(g)) = Occupied(g)
  BY <1>1, <1>3, <1>4, OccupiedFinite
<1> QED  BY <1>1, <1>2, <1>5

LEMMA BitmapsFacts ==
  ASSUME NEW old \in Seq(GroupType), NEW u, Sound(u), u.intact, NEW n \in Nat
  PROVE  LET new == WithBitmaps(old, u, n)
         IN  /\ new \in Seq(GroupType) /\ Len(new) = Len(u.groups)
             /\ Len(u.groups) <= n =>
                  \A r \in 1 .. Len(u.groups) : new[r] = Allotted(u.groups[r])
<1> DEFINE had == ResizedGroups(old, u.size)
           cell(r) == IF r <= n THEN Allotted(u.groups[r])
                      ELSE IF r = n + 1 THEN VacantGroup ELSE had[r]
           new == WithBitmaps(old, u, n)
           m == Len(u.groups)
<1>1. u.groups \in Seq(GroupType) /\ u.size \in Nat /\ m = NumGroups(u.size) /\ m \in Nat
  BY SoundFields DEF Sound, Exact
<1>2. had \in Seq(GroupType) /\ Len(had) = m
  BY <1>1, ResizedFacts
<1>3. new = [r \in 1 .. Len(had) |-> cell(r)]
  BY DEF WithBitmaps
<1> HIDE DEF had, new, m
<1>4. \A r \in 1 .. m : cell(r) \in GroupType
  BY <1>1, <1>2, AllottedFacts, VacantFacts
<1>5. Len(u.groups) <= n => \A r \in 1 .. m : cell(r) = Allotted(u.groups[r])
  BY <1>1 DEF m
<1> HIDE DEF cell
<1>6. new \in Seq(GroupType) /\ Len(new) = m /\ \A r \in 1 .. m : new[r] = cell(r)
  BY <1>1, <1>2, <1>3, <1>4
<1> QED  BY <1>5, <1>6 DEF new, m

(* The number of full buckets below one of them is its own.                *)
LEMMA BelowIs ==
  ASSUME NEW groups \in Seq(GroupType), NEW b \in FullBuckets(groups)
  PROVE  /\ NumBelow(groups, b) \in Nat /\ NumBelow(groups, b) < Cardinality(FullBuckets(groups))
         /\ \A c \in FullBuckets(groups) : NumBelow(groups, c) = NumBelow(groups, b) => c = b
<1> DEFINE F == FullBuckets(groups)
           B(x) == {c \in F : c < x}
<1>1. IsFiniteSet(F) /\ F \subseteq Nat
  BY FullFinite
<1>2. \A x : B(x) \in SUBSET F
  OBVIOUS
<1>3. \A x : IsFiniteSet(B(x)) /\ NumBelow(groups, x) = Cardinality(B(x)) /\ Cardinality(B(x)) \in Nat
  <2> SUFFICES ASSUME NEW x
               PROVE  IsFiniteSet(B(x)) /\ NumBelow(groups, x) = Cardinality(B(x)) /\ Cardinality(B(x)) \in Nat
    OBVIOUS
  <2>1. IsFiniteSet(B(x))
    BY <1>1, <1>2, FS_Subset
  <2>2. NumBelow(groups, x) = Cardinality(B(x))
    BY DEF NumBelow
  <2> QED  BY <2>1, <2>2, FS_CardinalityType
<1>4. b \in F /\ b \notin B(b) /\ b \in Nat
  BY <1>1
<1>5. Cardinality(B(b)) < Cardinality(F)
  <2>1. Cardinality(B(b)) <= Cardinality(F) /\ (Cardinality(F) = Cardinality(B(b)) => F = B(b))
    BY <1>1, <1>2, FS_Subset
  <2>2. Cardinality(F) \in Nat /\ Cardinality(B(b)) \in Nat
    BY <1>1, <1>3, FS_CardinalityType
  <2>3. F # B(b)
    BY <1>4
  <2> HIDE DEF B, F
  <2> QED  BY <2>1, <2>2, <2>3
<1>6. ASSUME NEW x \in F, NEW y \in F, x < y
      PROVE  Cardinality(B(x)) # Cardinality(B(y))
  <2>1. B(x) \in SUBSET B(y)
    BY <1>1, <1>6
  <2>2. x \in B(y) /\ x \notin B(x)
    BY <1>1, <1>6
  <2>3. IsFiniteSet(B(y))
    BY <1>3
  <2> HIDE DEF B, F
  <2>4. Cardinality(B(y)) = Cardinality(B(x)) => B(y) = B(x)
    BY <2>1, <2>3, FS_Subset
  <2> QED  BY <2>2, <2>4
<1>7. ASSUME NEW c \in F, NumBelow(groups, c) = NumBelow(groups, b)
      PROVE  c = b
  <2>1. Cardinality(B(c)) = Cardinality(B(b))
    BY <1>3, <1>7
  <2>2. c \in Nat /\ b \in Nat /\ c \in F /\ b \in F
    BY <1>1
  <2> HIDE DEF B, F
  <2>3. ~ (c < b) /\ ~ (b < c)
    BY <1>6, <2>1, <2>2
  <2> QED  BY <2>2, <2>3
<1> QED  BY <1>3, <1>5, <1>7

(* The values are read into the buckets they were written from.            *)
LEMMA FileValueIs ==
  ASSUME NEW u, u.groups \in Seq(GroupType), NEW b \in FullBuckets(u.groups)
  PROVE  FileValue(u, NumBelow(u.groups, b)) = CellAt(u.groups, b)
<1> DEFINE k == NumBelow(u.groups, b)
           c == CHOOSE x \in FullBuckets(u.groups) : NumBelow(u.groups, x) = k
<1>1. c \in FullBuckets(u.groups) /\ NumBelow(u.groups, c) = k
  OBVIOUS
<1>2. c = b
  BY <1>1, BelowIs
<1> QED  BY <1>2 DEF FileValue

LEMMA ValuesFacts ==
  ASSUME NEW u, u.groups \in Seq(GroupType), NEW md \in Seq(GroupType), Len(md) = Len(u.groups),
         \A r \in 1 .. Len(md) : md[r] = Allotted(u.groups[r]), NEW n \in Nat
  PROVE  LET new == WithValues(md, u, n)
         IN  /\ new \in Seq(GroupType) /\ Len(new) = Len(u.groups)
             /\ \A b : Within(u.groups, b) =>
                  CellAt(new, b) = IF b \in FullBuckets(u.groups)
                                   THEN IF NumBelow(u.groups, b) < n THEN CellAt(u.groups, b) ELSE Raw
                                   ELSE Empty
<1> DEFINE old == u.groups
           m == Len(old)
           cell(r, p) == LET k == NumBelow(md, (r - 1) * GroupSize + p)
                         IN  IF p \in Occupied(md[r]) /\ k < n THEN FileValue(u, k) ELSE md[r][p]
           row(r) == [p \in Positions |-> cell(r, p)]
           new == WithValues(md, u, n)
<1>1. m \in Nat /\ DOMAIN md = 1 .. m
  OBVIOUS
<1>2. \A r \in 1 .. m : Occupied(md[r]) = Occupied(old[r])
  BY AllottedFacts
<1>3. \A b : Within(md, b) <=> Within(old, b)
  BY DEF Within
<1>4. ASSUME NEW b, Within(old, b)
      PROVE  /\ GroupNum(b) \in 1 .. m /\ PosInGroup(b) \in Positions /\ b \in Nat
             /\ (GroupNum(b) - 1) * GroupSize + PosInGroup(b) = b
             /\ b \in FullBuckets(old) <=> PosInGroup(b) \in Occupied(md[GroupNum(b)])
             /\ CellAt(md, b) = IF b \in FullBuckets(old) THEN Raw ELSE Empty
  <2>1. GroupNum(b) \in 1 .. m /\ b \in Nat
    BY <1>4 DEF Within
  <2>2. PosInGroup(b) \in Positions /\ (GroupNum(b) - 1) * GroupSize + PosInGroup(b) = b
    BY <2>1, BucketParts
  <2>3. b \in FullBuckets(old) <=> PosInGroup(b) \in Occupied(old[GroupNum(b)])
    BY <2>1, FullBucket
  <2>4. CellAt(md, b) = Allotted(old[GroupNum(b)])[PosInGroup(b)]
    BY <2>1 DEF CellAt
  <2>5. CellAt(md, b) = IF PosInGroup(b) \in Occupied(old[GroupNum(b)]) THEN Raw ELSE Empty
    BY <2>2, <2>4, AllottedFacts
  <2> QED  BY <1>2, <2>1, <2>2, <2>3, <2>5
<1>5. FullBuckets(md) = FullBuckets(old)
  <2>1. Empty \notin Values \cup {Raw}
    BY GroupAssumption DEF GroupAssumption
  <2>2. \A b : b \in FullBuckets(old) => Within(old, b)
    BY FullWithin
  <2>3. \A b : b \in FullBuckets(md) <=> Within(md, b) /\ CellAt(md, b) \in Values \cup {Raw}
    BY FullWithin
  <2>4. \A b : b \in FullBuckets(md) <=> b \in FullBuckets(old)
    BY <1>3, <1>4, <2>1, <2>2, <2>3
  <2> QED  BY <2>4
<1>6. \A b : NumBelow(md, b) = NumBelow(old, b)
  BY <1>5 DEF NumBelow
<1>7. ASSUME NEW b, Within(old, b)
      PROVE  cell(GroupNum(b), PosInGroup(b)) =
               IF b \in FullBuckets(old)
               THEN IF NumBelow(old, b) < n THEN CellAt(old, b) ELSE Raw
               ELSE Empty
  <2> DEFINE r == GroupNum(b)
             p == PosInGroup(b)
             k == NumBelow(md, (r - 1) * GroupSize + p)
  <2>1. k = NumBelow(old, b) /\ md[r][p] = CellAt(md, b)
    BY <1>4, <1>6, <1>7 DEF CellAt
  <2>2. p \in Occupied(md[r]) <=> b \in FullBuckets(old)
    BY <1>4, <1>7
  <2>3. cell(r, p) = IF p \in Occupied(md[r]) /\ k < n THEN FileValue(u, k) ELSE md[r][p]
    OBVIOUS
  <2>4. CellAt(md, b) = IF b \in FullBuckets(old) THEN Raw ELSE Empty
    BY <1>4, <1>7
  <2>5. b \in FullBuckets(old) => FileValue(u, NumBelow(old, b)) = CellAt(old, b)
    BY FileValueIs
  <2> HIDE DEF r, p, k, cell
  <2>6. cell(r, p) = IF b \in FullBuckets(old)
                     THEN IF NumBelow(old, b) < n THEN CellAt(old, b) ELSE Raw
                     ELSE Empty
    BY <2>1, <2>2, <2>3, <2>4, <2>5
  <2> QED  BY <2>6 DEF r, p
<1>8. ASSUME NEW r \in 1 .. m, NEW p \in Positions
      PROVE  cell(r, p) \in CellType
  <2> DEFINE b == (r - 1) * GroupSize + p
  <2>1. b \in Nat /\ GroupNum(b) = r /\ PosInGroup(b) = p
    <3>1. r \in Nat \ {0}
      OBVIOUS
    <3> QED  BY <3>1, BucketOf
  <2> HIDE DEF b
  <2>2. Within(old, b)
    BY <2>1 DEF Within
  <2>3. cell(r, p) = IF b \in FullBuckets(old)
                     THEN IF NumBelow(old, b) < n THEN CellAt(old, b) ELSE Raw
                     ELSE Empty
    BY <1>7, <2>1, <2>2
  <2>4. CellAt(old, b) \in CellType
    BY <2>2, CellType1
  <2> HIDE DEF cell
  <2> QED  BY <2>3, <2>4 DEF CellType
<1>9. \A r \in 1 .. m : row(r) \in GroupType
  BY <1>8 DEF GroupType
<1>10. \A r \in 1 .. m : \A p \in Positions : row(r)[p] = cell(r, p)
  OBVIOUS
<1>11. new = [r \in 1 .. m |-> row(r)]
  BY <1>1 DEF WithValues
<1> HIDE DEF new, row, cell
<1>12. new \in Seq(GroupType) /\ Len(new) = m /\ \A r \in 1 .. m : new[r] = row(r)
  BY <1>1, <1>9, <1>11
<1>13. \A b : Within(old, b) => CellAt(new, b) = cell(GroupNum(b), PosInGroup(b))
  BY <1>4, <1>10, <1>12 DEF CellAt
<1> QED  BY <1>7, <1>12, <1>13 DEF new

(* A read leaves a table that may be discarded, or the values and the size *)
(* of the one that was written.                                            *)
LEMMA LoadedSound ==
  ASSUME NEW h, Sound(h), NEW u, Sound(u), u.intact, NEW n \in 0 .. FileLength(u)
  PROVE  LET k == Loaded(h, u, n)
         IN  /\ Sound(k) /\ k.alloc = h.alloc /\ k.galloc = h.galloc
             /\ k.intact =>
                  /\ k.size = u.size
                  /\ \A b \in Nat : b < u.size =>
                       CellAt(k.groups, b) = IF CellAt(u.groups, b) = Erased THEN Empty
                                             ELSE CellAt(u.groups, b)
<1> DEFINE k == Loaded(h, u, n)
           old == u.groups
           m == Len(old)
           c == Cardinality(FullBuckets(old))
           md == WithBitmaps(h.groups, u, n - 3)
           wv == WithValues(md, u, n - 3 - m)
<1>1. /\ old \in Seq(GroupType) /\ u.size \in Sizes \cup {0} /\ u.size \in Nat /\ u.num \in Nat
      /\ h.groups \in Seq(GroupType) /\ h \in TableType
      /\ m = NumGroups(u.size) /\ u.num = c /\ m \in Nat
  BY SoundFields DEF Sound, Exact
<1>2. c \in Nat /\ FileLength(u) = 3 + m + c /\ n \in Nat
  BY <1>1, FullFinite DEF FileLength
<1>3. CASE n <= 1
  <2>1. k = [h EXCEPT !.intact = FALSE]
    BY <1>3 DEF Loaded
  <2>2. k \in TableType /\ ~ k.intact /\ k.alloc = h.alloc /\ k.galloc = h.galloc
    BY <1>1, <2>1 DEF TableType
  <2> QED  BY <2>2 DEF Sound
<1>4. CASE n = 2
  <2>1. k = [h EXCEPT !.size = u.size, !.intact = FALSE]
    BY <1>2, <1>4 DEF Loaded
  <2>2. k \in TableType /\ ~ k.intact /\ k.alloc = h.alloc /\ k.galloc = h.galloc
    BY <1>1, <2>1 DEF TableType
  <2> QED  BY <2>2 DEF Sound
<1>5. CASE n >= 3
  <2> DEFINE whole == n = FileLength(u)
             g == IF n < 3 + m THEN md ELSE wv
  <2>1. n - 3 \in Nat
    BY <1>2, <1>5
  <2>2. /\ md \in Seq(GroupType) /\ Len(md) = m
        /\ m <= n - 3 => \A r \in 1 .. m : md[r] = Allotted(old[r])
    BY <1>1, <2>1, BitmapsFacts
  <2>3. k = [h EXCEPT !.groups = g, !.size = u.size, !.num = u.num, !.intact = whole]
    <3>1. ~ (n <= 1) /\ ~ (n = 2)
      BY <1>2, <1>5
    <3> QED  BY <3>1, Zenon DEF Loaded
  <2> HIDE DEF md
  <2>4. ~ (n < 3 + m) =>
          /\ wv \in Seq(GroupType) /\ Len(wv) = m
          /\ \A b : Within(old, b) =>
               CellAt(wv, b) = IF b \in FullBuckets(old)
                               THEN IF NumBelow(old, b) < n - 3 - m THEN CellAt(old, b) ELSE Raw
                               ELSE Empty
    <3> SUFFICES ASSUME ~ (n < 3 + m)
                 PROVE  /\ wv \in Seq(GroupType) /\ Len(wv) = m
                        /\ \A b : Within(old, b) =>
                             CellAt(wv, b) = IF b \in FullBuckets(old)
                                             THEN IF NumBelow(old, b) < n - 3 - m THEN CellAt(old, b) ELSE Raw
                                             ELSE Empty
      OBVIOUS
    <3>1. m <= n - 3 /\ n - 3 - m \in Nat
      BY <1>1, <1>2
    <3> DEFINE j == n - 3 - m
    <3>2. j \in Nat /\ \A r \in 1 .. Len(md) : md[r] = Allotted(u.groups[r])
      BY <2>2, <3>1
    <3>3. wv = WithValues(md, u, j)
      OBVIOUS
    <3> HIDE DEF j, wv
    <3>4. /\ WithValues(md, u, j) \in Seq(GroupType) /\ Len(WithValues(md, u, j)) = m
          /\ \A b : Within(old, b) =>
               CellAt(WithValues(md, u, j), b) = IF b \in FullBuckets(old)
                               THEN IF NumBelow(old, b) < j THEN CellAt(old, b) ELSE Raw
                               ELSE Empty
      BY <1>1, <2>2, <3>2, ValuesFacts
    <3> QED  BY <3>3, <3>4 DEF j
  <2> HIDE DEF wv
  <2>5. g \in Seq(GroupType) /\ Len(g) = m /\ g \in Seq([Positions -> Cell])
    <3>1. g \in Seq(GroupType) /\ Len(g) = m
      BY <2>2, <2>4
    <3> QED  BY <3>1, CellIs DEF GroupType
  <2>6. whole \in BOOLEAN
    OBVIOUS
  <2> HIDE DEF g, whole, k
  <2>7. k \in TableType
    BY <1>1, <2>3, <2>5, <2>6 DEF TableType
  <2>8. /\ k.groups = g /\ k.size = u.size /\ k.num = u.num /\ k.intact = whole
        /\ k.alloc = h.alloc /\ k.galloc = h.galloc
    BY <1>1, <2>3 DEF TableType
  <2>9. ASSUME whole
        PROVE  /\ Exact(k)
               /\ \A b \in Nat : b < u.size =>
                    CellAt(g, b) = IF CellAt(old, b) = Erased THEN Empty ELSE CellAt(old, b)
    <3>1. ~ (n < 3 + m) /\ n - 3 - m = c
      BY <1>1, <1>2, <2>9 DEF whole
    <3>2. g = wv
      BY <3>1 DEF g
    <3>3. \A b \in FullBuckets(old) : NumBelow(old, b) < n - 3 - m
      BY <1>1, <3>1, BelowIs
    <3>4. \A b : Within(old, b) =>
            CellAt(g, b) = IF b \in FullBuckets(old) THEN CellAt(old, b) ELSE Empty
      BY <2>4, <3>1, <3>2, <3>3
    <3>5. \A b : Within(g, b) <=> Within(old, b)
      BY <2>5 DEF Within
    <3>6. \A b : b \in FullBuckets(old) => Within(old, b) /\ CellAt(old, b) \in Values /\ b \in Nat /\ b < u.size
      BY ExactFull
    <3>7. Empty \notin Values \cup {Raw} /\ Raw \notin Values /\ Erased \notin Values \cup {Raw} /\ Empty # Raw
      BY GroupAssumption DEF GroupAssumption
    <3>8. FullBuckets(g) = FullBuckets(old)
      <4>1. \A b : b \in FullBuckets(g) <=> Within(g, b) /\ CellAt(g, b) \in Values \cup {Raw}
        BY <2>5, FullWithin
      <4>2. \A b : b \in FullBuckets(g) <=> b \in FullBuckets(old)
        BY <3>4, <3>5, <3>6, <3>7, <4>1
      <4> QED  BY <4>2
    <3>9. ASSUME NEW b, Within(g, b)
          PROVE  CellAt(g, b) # Raw /\ (u.size <= b => CellAt(g, b) = Empty)
      <4>1. CellAt(g, b) = IF b \in FullBuckets(old) THEN CellAt(old, b) ELSE Empty
        BY <3>4, <3>5, <3>9
      <4>2. b \in FullBuckets(old) => CellAt(old, b) \in Values /\ b \in Nat /\ b < u.size
        BY <3>6
      <4> QED  BY <1>1, <3>7, <4>1, <4>2
    <3>10. Exact(k)
      <4>1. Len(k.groups) = NumGroups(k.size) /\ k.num = Cardinality(FullBuckets(k.groups))
        BY <1>1, <2>5, <2>8, <3>8
      <4> QED  BY <2>8, <3>9, <4>1 DEF Exact
    <3>11. ASSUME NEW b \in Nat, b < u.size
           PROVE  CellAt(g, b) = IF CellAt(old, b) = Erased THEN Empty ELSE CellAt(old, b)
      <4>1. Within(old, b)
        BY <3>11, ExactFull
      <4>2. CellAt(old, b) \in CellType
        BY <1>1, <4>1, CellType1
      <4>3. b \in FullBuckets(old) <=> CellAt(old, b) \in Values \cup {Raw}
        BY <1>1, <4>1, FullWithin
      <4>4. CellAt(g, b) = IF b \in FullBuckets(old) THEN CellAt(old, b) ELSE Empty
        BY <3>4, <4>1
      <4> QED  BY <3>7, <4>2, <4>3, <4>4 DEF CellType
    <3> QED  BY <3>10, <3>11
  <2>10. Sound(k)
    BY <2>7, <2>8, <2>9 DEF Sound
  <2> QED  BY <2>8, <2>9, <2>10 DEF k
<1> QED  BY <1>2, <1>3, <1>4, <1>5

-----------------------------------------------------------------------------
(* The tables of the program with the books of their spaces.               *)

Stocks(sp, T) ==
  /\ T \in [Tables -> TableType]
  /\ \A t \in Tables : Sound(T[t])
  /\ Books(sp, T)

LEMMA StocksFields ==
  ASSUME NEW sp, NEW T, Stocks(sp, T)
  PROVE  /\ DOMAIN T = Tables /\ Books(sp, T)
         /\ \A t \in Tables :
              /\ Sound(T[t]) /\ T[t] \in TableType /\ T[t].groups \in Seq(GroupType)
              /\ T[t].alloc \in Spaces /\ T[t].galloc \in Spaces
BY SoundFields DEF Stocks

(* A table becomes k, which has its allocators.                            *)
LEMMA Altering ==
  ASSUME NEW sp, NEW T, Stocks(sp, T), NEW t \in Tables, NEW k, Sound(k),
         k.alloc = T[t].alloc, k.galloc = T[t].galloc
  PROVE  Stocks(Rearranged(sp, T[t], T[t].groups, k.groups), [T EXCEPT ![t] = k])
<1> DEFINE U == [T EXCEPT ![t] = k]
<1>1. DOMAIN T = Tables /\ T \in [Tables -> TableType] /\ k \in TableType /\ Books(sp, T)
  BY DEF Stocks, Books, Sound
<1>2. DOMAIN U = DOMAIN T /\ U[t] = k /\ \A x \in DOMAIN T \ {t} : U[x] = T[x]
  BY <1>1
<1>3. U \in [Tables -> TableType]
  BY <1>1
<1> HIDE DEF U
<1>4. \A x \in Tables : Sound(U[x])
  BY <1>1, <1>2 DEF Stocks
<1>5. \A x \in DOMAIN T \ {t} : Like(U[x], T[x])
  BY <1>2 DEF Like
<1>6. U[t].groups \in Seq(GroupType) /\ U[t].alloc = T[t].alloc /\ U[t].galloc = T[t].galloc
  BY <1>2, SoundFields
<1>7. Books(Rearranged(sp, T[t], T[t].groups, U[t].groups), U)
  BY <1>1, <1>2, <1>5, <1>6, Rearranging
<1> QED  BY <1>2, <1>3, <1>4, <1>7 DEF Stocks, U

(* The groups of a table whose allocators are those of k are copied to it. *)
LEMMA Copying ==
  ASSUME NEW sp, NEW T, NEW U, Books(sp, T), DOMAIN U = DOMAIN T, NEW t \in DOMAIN T,
         \A x \in DOMAIN T \ {t} : Like(U[x], T[x]), T[t].groups = <<>>,
         U[t].groups \in Seq(GroupType), U[t].alloc = T[t].alloc, U[t].galloc = T[t].galloc
  PROVE  Books(CopiedGroups(sp, U[t]), U)
<1>1. Books(Rearranged(sp, T[t], T[t].groups, U[t].groups), U)
  BY Rearranging
<1>2. Rearranged(sp, T[t], T[t].groups, U[t].groups) = Rearranged(sp, U[t], <<>>, U[t].groups)
  BY DEF Rearranged
<1> QED  BY <1>1, <1>2 DEF CopiedGroups

(* A table is destroyed and another one constructed in its place.          *)
LEMMA Rebuilding ==
  ASSUME NEW sp, NEW T, NEW U, Books(sp, T), DOMAIN U = DOMAIN T, NEW t \in DOMAIN T,
         \A x \in DOMAIN T \ {t} : Like(U[x], T[x]), U[t].groups \in Seq(GroupType),
         NEW a \in Spaces, NEW g \in Spaces, U[t].alloc = a, U[t].galloc = g
  PROVE  LET gone == DestroyedTable(sp, T[t])
         IN  /\ Books(CopiedGroups(Increment(Increment(gone, a), g), U[t]), U)
             /\ ~ Exists(gone, a) => Books(CopiedGroups(Increment(Created(gone, a), g), U[t]), U)
             /\ ~ Exists(gone, a) /\ ~ Exists(Created(gone, a), g) /\ U[t].groups = <<>> =>
                  Books(Created(Created(gone, a), g), U)
<1> DEFINE gone == DestroyedTable(sp, T[t])
           V == [x \in DOMAIN T \ {t} |-> T[x]]
           k == [groups |-> <<>>, alloc |-> a, galloc |-> g]
           W == [x \in DOMAIN T |-> IF x = t THEN k ELSE T[x]]
<1>1. DOMAIN V = DOMAIN T \ {t} /\ t \notin DOMAIN V /\ \A x \in DOMAIN V : Like(V[x], T[x])
  BY DEF Like
<1>2. /\ DOMAIN W = DOMAIN T /\ DOMAIN W = DOMAIN V \cup {t} /\ \A x \in DOMAIN V : Like(W[x], V[x])
      /\ W[t].groups = <<>> /\ W[t].alloc = a /\ W[t].galloc = g
      /\ \A x \in DOMAIN T \ {t} : W[x] = T[x]
  BY DEF Like
<1> HIDE DEF V, W
<1>3. Books(gone, V)
  BY <1>1, Destroying
<1> HIDE DEF gone
<1>4. /\ Books(Increment(Increment(gone, a), g), W)
      /\ ~ Exists(gone, a) => Books(Increment(Created(gone, a), g), W)
      /\ ~ Exists(gone, a) /\ ~ Exists(Created(gone, a), g) => Books(Created(Created(gone, a), g), W)
  BY <1>1, <1>2, <1>3, Attaching
<1>5. DOMAIN U = DOMAIN W /\ t \in DOMAIN W /\ \A x \in DOMAIN W \ {t} : Like(U[x], W[x])
  BY <1>2
<1>6. \A s : Books(s, W) => Books(CopiedGroups(s, U[t]), U)
  BY <1>2, <1>5, Copying
<1>7. U[t].groups = <<>> => \A x \in DOMAIN W : Like(U[x], W[x])
  BY <1>2, <1>5 DEF Like
<1>8. U[t].groups = <<>> => \A s : Books(s, W) => Books(s, U)
  BY <1>5, <1>7, SameBooks
<1> QED  BY <1>4, <1>6, <1>8 DEF gone

(* A table is freed, gets other allocators and then copies of groups.      *)
LEMMA Reassigning ==
  ASSUME NEW sp, NEW T, NEW U, Books(sp, T), DOMAIN U = DOMAIN T, NEW t \in DOMAIN T,
         \A x \in DOMAIN T \ {t} : Like(U[x], T[x]), U[t].groups \in Seq(GroupType),
         NEW a \in Spaces, NEW g \in Spaces, U[t].alloc = a, U[t].galloc = g
  PROVE  Books(CopiedGroups(Reset(Reset(FreedGroups(sp, T[t]), T[t].alloc, a), T[t].galloc, g), U[t]), U)
<1> DEFINE h == [groups |-> <<>>, alloc |-> T[t].alloc, galloc |-> T[t].galloc]
           k == [groups |-> <<>>, alloc |-> a, galloc |-> g]
           V == [x \in DOMAIN T |-> IF x = t THEN h ELSE T[x]]
           W == [x \in DOMAIN T |-> IF x = t THEN k ELSE T[x]]
           mine == FreedGroups(sp, T[t])
<1>1. /\ DOMAIN V = DOMAIN T /\ \A x \in DOMAIN T \ {t} : Like(V[x], T[x])
      /\ V[t].groups = <<>> /\ V[t].alloc = T[t].alloc /\ V[t].galloc = T[t].galloc
  BY DEF Like
<1>2. /\ DOMAIN W = DOMAIN V /\ \A x \in DOMAIN V \ {t} : Like(W[x], V[x])
      /\ W[t].groups = <<>> /\ W[t].alloc = a /\ W[t].galloc = g
  BY DEF Like
<1>3. DOMAIN U = DOMAIN W /\ t \in DOMAIN W /\ \A x \in DOMAIN W \ {t} : Like(U[x], W[x])
  BY DEF Like
<1> HIDE DEF V, W
<1>4. Books(mine, V)
  <2>1. V[t].groups \in Seq(GroupType)
    BY <1>1, NoGroups
  <2>2. Books(Rearranged(sp, T[t], T[t].groups, V[t].groups), V)
    BY <1>1, <2>1, Rearranging
  <2> QED  BY <1>1, <2>2 DEF FreedGroups
<1> HIDE DEF mine
<1>5. Books(Reset(Reset(mine, V[t].alloc, a), V[t].galloc, g), W)
  BY <1>1, <1>2, <1>4, Resetting
<1>6. Books(Reset(Reset(mine, T[t].alloc, a), T[t].galloc, g), W)
  BY <1>1, <1>5
<1> DEFINE s == Reset(Reset(mine, T[t].alloc, a), T[t].galloc, g)
<1> HIDE DEF s
<1>7. Books(CopiedGroups(s, U[t]), U)
  <2>1. Books(s, W)
    BY <1>6 DEF s
  <2> QED  BY <1>2, <1>3, <2>1, Copying
<1> QED  BY <1>7 DEF s, mine

-----------------------------------------------------------------------------
(* The inductive invariant: beside what the properties say of the tables,  *)
(* the iterator points to a value or is at the end, a destructive one in   *)
(* the one kind of table that a read or a rehash has spoilt.               *)

IteratorInv ==
  \/ it = NoIterator
  \/ /\ it \in [tab : Tables, kind : {"full", "destructive"}, row : Nat, col : Nat]
     /\ it.kind = "full" <=> tab[it.tab].intact
     /\ Valid(Walked, Here)

TableInv == Stocks(spaces, tab) /\ IteratorInv

LEMMA InitInv == Init => TableInv
<1> SUFFICES ASSUME Init PROVE TableInv
  OBVIOUS
<1>1. PICK home \in [Tables -> Spaces] :
        /\ \A t, u \in Tables : home[t] = home[u] => t = u
        /\ tab = [t \in Tables |-> Blank(0, home[t], home[t])]
        /\ spaces = [s \in Spaces |->
                       IF \E t \in Tables : home[t] = s THEN [count |-> 2, arrays |-> 0] ELSE Unused]
        /\ it = NoIterator
  BY DEF Init
<1>2. 0 \in Sizes \cup {0} /\ \A t \in Tables : home[t] \in Spaces /\ tab[t] = Blank(0, home[t], home[t])
  BY <1>1
<1>3. \A t \in Tables : Sound(tab[t])
  BY <1>2, BlankSound
<1>4. tab \in [Tables -> TableType]
  BY <1>1, <1>3 DEF Sound
<1>5. spaces \in [Spaces -> [count : Nat, arrays : Nat]]
  BY <1>1 DEF Unused
<1>6. \A t \in Tables : tab[t].groups = <<>> /\ tab[t].alloc = home[t] /\ tab[t].galloc = home[t]
  <2>1. VacantGroups(NumGroups(0)) = <<>>
    BY DEF VacantGroups, NumGroups
  <2>2. ASSUME NEW s PROVE Blank(0, s, s).groups = <<>> /\ Blank(0, s, s).alloc = s /\ Blank(0, s, s).galloc = s
    BY <2>1 DEF Blank
  <2> QED  BY <1>2, <2>2
<1>7. DOMAIN tab = Tables
  BY <1>1
<1>8. HoldingsOf(tab) = {}
  <2>1. \A t \in Tables : \A a : ValuesOf(t, tab[t].groups, a) = {} /\ GroupsOf(t, tab[t].groups, a) = {}
    BY <1>6 DEF ValuesOf, GroupsOf, Filled
  <2>2. \A x : x \notin HoldingsOf(tab)
    BY <1>7, <2>1, HoldingOf
  <2> QED  BY <2>2
<1>9. ASSUME NEW s \in Spaces
      PROVE  /\ spaces[s].count = Cardinality({p \in PointersOf(tab) : p[3] = s})
             /\ spaces[s].arrays = Cardinality({a \in HoldingsOf(tab) : a[3] = s})
  <2> DEFINE P == {p \in PointersOf(tab) : p[3] = s}
  <2>1. spaces[s].arrays = 0 /\ Cardinality({a \in HoldingsOf(tab) : a[3] = s}) = 0
    <3>1. {a \in HoldingsOf(tab) : a[3] = s} = {}
      BY <1>8
    <3> QED  BY <1>1, <3>1, FS_EmptySet DEF Unused
  <2>2. ASSUME NEW t \in Tables, home[t] = s
        PROVE  spaces[s].count = Cardinality(P)
    <3> DEFINE x == <<t, "values", s>>
               y == <<t, "groups", s>>
    <3>1. \A p : p \in P <=> p = x \/ p = y
      <4>1. \A p : p \in P <=> p \in PointersOf(tab) /\ p[3] = s
        OBVIOUS
      <4>2. \A p : p \in PointersOf(tab) <=>
                     \E z \in Tables : p = <<z, "values", home[z]>> \/ p = <<z, "groups", home[z]>>
        BY <1>6, <1>7, PointerOf
      <4>3. ASSUME NEW z \in Tables, NEW p, p = <<z, "values", home[z]>> \/ p = <<z, "groups", home[z]>>
            PROVE  p[3] = home[z]
        BY <4>3
      <4>4. \A z \in Tables : home[z] = s => z = t
        BY <1>1, <2>2
      <4>5. x \in P /\ y \in P
        BY <2>2, <4>2
      <4>6. ASSUME NEW p \in P PROVE p = x \/ p = y
        <5>1. PICK z \in Tables : p = <<z, "values", home[z]>> \/ p = <<z, "groups", home[z]>>
          BY <4>2
        <5>2. z = t
          BY <4>3, <4>4, <5>1
        <5> QED  BY <2>2, <5>1, <5>2
      <4> QED  BY <4>5, <4>6
    <3>2. x # y
      OBVIOUS
    <3> HIDE DEF x, y, P
    <3>3. P = {x, y}
      BY <3>1
    <3>4. Cardinality({x, y}) = 2
      <4>1. IsFiniteSet({x}) /\ Cardinality({x}) = 1
        BY FS_Singleton
      <4>2. Cardinality({x} \cup {y}) = 2
        <5>1. y \notin {x}
          BY <3>2
        <5>2. Cardinality({x} \cup {y}) = IF y \in {x} THEN 1 ELSE 1 + 1
          BY <4>1, FS_AddElement
        <5> QED  BY <5>1, <5>2
      <4>3. {x} \cup {y} = {x, y}
        OBVIOUS
      <4> QED  BY <4>2, <4>3
    <3>5. spaces[s].count = 2
      BY <1>1, <2>2
    <3> QED  BY <3>3, <3>4, <3>5
  <2>3. ASSUME \A t \in Tables : home[t] # s
        PROVE  spaces[s].count = Cardinality(P)
    <3>1. spaces[s].count = 0
      BY <1>1, <2>3 DEF Unused
    <3>2. ASSUME NEW p \in P PROVE FALSE
      <4>1. PICK t \in Tables : p = <<t, "values", home[t]>> \/ p = <<t, "groups", home[t]>>
        BY <1>6, <1>7, PointerOf
      <4>2. p[3] = home[t] /\ p[3] = s
        BY <4>1
      <4> QED  BY <2>3, <4>2
    <3>3. P = {}
      BY <3>2
    <3> QED  BY <3>1, <3>3, FS_EmptySet
  <2> HIDE DEF P
  <2>4. spaces[s].count = Cardinality(P)
    BY <2>2, <2>3
  <2> QED  BY <2>1, <2>4 DEF P
<1>10. Books(spaces, tab)
  BY <1>4, <1>5, <1>9, BooksOf DEF TypeOK, SpacesOwned
<1> QED  BY <1>1, <1>3, <1>4, <1>10 DEF TableInv, Stocks, IteratorInv

LEMMA InvImplies ==
  ASSUME TableInv
  PROVE  TypeOK /\ NumExact /\ SpacesOwned /\ IteratorValid
<1>1. TypeOK
  BY OwnedOf DEF TableInv, Stocks, TypeOK
<1>2. NumExact
  <2> SUFFICES ASSUME NEW t \in Tables, tab[t].intact
               PROVE  /\ Len(tab[t].groups) = NumGroups(tab[t].size)
                      /\ tab[t].num = Cardinality(FullBuckets(tab[t].groups))
                      /\ \A b \in FullBuckets(tab[t].groups) :
                           b < tab[t].size /\ CellAt(tab[t].groups, b) # Raw
    BY DEF NumExact, Intact
  <2>1. Sound(tab[t])
    BY DEF TableInv, Stocks
  <2>2. Len(tab[t].groups) = NumGroups(tab[t].size) /\ tab[t].num = Cardinality(FullBuckets(tab[t].groups))
    BY <2>1 DEF Sound, Exact
  <2>3. \A b \in FullBuckets(tab[t].groups) : b < tab[t].size /\ CellAt(tab[t].groups, b) \in Values
    BY <2>1, ExactFull
  <2>4. Raw \notin Values
    BY GroupAssumption DEF GroupAssumption
  <2> QED  BY <2>2, <2>3, <2>4
<1>3. SpacesOwned
  BY OwnedOf DEF TableInv, Stocks, SpacesOwned
<1>4. IteratorValid
  <2> SUFFICES ASSUME Live, ~ AtEnd
               PROVE  LET b == GetPos(Walked, Here)
                      IN  b \in FullBuckets(Walked) /\ GetIter(Walked, b) = Here
    BY DEF IteratorValid
  <2>1. it # NoIterator
    BY DEF Live, NoIterator
  <2>2. it.tab \in Tables /\ Valid(Walked, Here)
    BY <2>1 DEF TableInv, IteratorInv
  <2>3. Walked \in Seq(GroupType)
    BY <2>2, StocksFields DEF TableInv, Walked
  <2>4. Points(Walked, Here)
    BY <2>2, <2>3, EndIsMarked DEF Valid, AtEnd
  <2> QED  BY <2>3, <2>4, PosOfIterator
<1> QED  BY <1>1, <1>2, <1>3, <1>4

-----------------------------------------------------------------------------
(* The calls on one table, none of which keeps the iterator.               *)

LEMMA Dropping ==
  ASSUME Stocks(spaces', tab'), DropIterator
  PROVE  TableInv'
BY DEF TableInv, IteratorInv, DropIterator, NoIterator

LEMMA Replacing ==
  ASSUME TableInv, NEW t \in Tables, NEW k, Sound(k), k.alloc = tab[t].alloc, k.galloc = tab[t].galloc,
         tab' = [tab EXCEPT ![t] = k], spaces' = Rearranged(spaces, tab[t], tab[t].groups, k.groups)
  PROVE  Stocks(spaces', tab')
<1>1. Stocks(spaces, tab)
  BY DEF TableInv
<1>2. Stocks(Rearranged(spaces, tab[t], tab[t].groups, k.groups), [tab EXCEPT ![t] = k])
  BY <1>1, Altering
<1> QED  BY <1>2

LEMMA TableIs ==
  ASSUME TableInv, NEW t \in Tables
  PROVE  Sound(tab[t]) /\ tab[t].groups \in Seq(GroupType) /\ tab \in [Tables -> TableType]
BY SoundFields DEF TableInv, Stocks

(* Change makes Changed of the table.                                      *)
LEMMA Changing ==
  ASSUME TableInv, NEW t \in Tables, NEW g \in Seq(GroupType), NEW d, Change(t, g, d),
         Sound(Changed(tab[t], g, d))
  PROVE  Stocks(spaces', tab') /\ tab' = [tab EXCEPT ![t] = Changed(tab[t], g, d)]
<1> DEFINE k == Changed(tab[t], g, d)
<1>1. /\ k.groups = g /\ k.alloc = tab[t].alloc /\ k.galloc = tab[t].galloc
  BY TableIs, ChangedFields
<1>2. tab' = [tab EXCEPT ![t] = k]
  <2>1. tab \in [Tables -> TableType] /\ tab[t] \in TableType
    BY TableIs
  <2>2. tab' = [tab EXCEPT ![t].groups = g, ![t].num = @ + d]
    BY DEF Change
  <2> QED  BY <2>1, <2>2 DEF TableType, Changed
<1>3. spaces' = Rearranged(spaces, tab[t], tab[t].groups, k.groups)
  BY <1>1 DEF Change
<1> HIDE DEF k
<1>4. Stocks(spaces', tab')
  BY <1>1, <1>2, <1>3, Replacing DEF k
<1> QED  BY <1>2, <1>4 DEF k

LEMMA ClearInv ==
  ASSUME TableInv, NEW t \in Tables, Clear(t)
  PROVE  TableInv' /\ tab' = [tab EXCEPT ![t] = Cleared(tab[t])]
<1> DEFINE k == Cleared(tab[t])
<1>1. Sound(k) /\ k.groups = <<>> /\ k.alloc = tab[t].alloc /\ k.galloc = tab[t].galloc
  BY TableIs, ClearedSound
<1>2. tab' = [tab EXCEPT ![t] = k]
  BY TableIs DEF Clear
<1> HIDE DEF k
<1>3. spaces' = Rearranged(spaces, tab[t], tab[t].groups, k.groups)
  BY <1>1 DEF Clear, FreedGroups
<1>4. Stocks(spaces', tab')
  BY <1>1, <1>2, <1>3, Replacing
<1> QED  BY <1>2, <1>4, Dropping DEF Clear, k

LEMMA ResizeInv ==
  ASSUME TableInv, NEW t \in Tables, NEW n \in Sizes, Resize(t, n)
  PROVE  /\ TableInv'
         /\ tab' = [tab EXCEPT ![t] = [Regrouped(tab[t], ResizedGroups(tab[t].groups, n)) EXCEPT !.size = n]]
<1> DEFINE h == tab[t]
           k == [Regrouped(h, ResizedGroups(h.groups, n)) EXCEPT !.size = n]
<1>1. Sound(h) /\ h.intact /\ h.size <= n
  <2>1. h.intact /\ n >= h.size
    BY DEF Resize
  <2>2. Sound(h) /\ h.size \in Nat /\ n \in Nat
    BY TableIs, SoundFields, SizesAre
  <2> QED  BY <2>1, <2>2
<1>2. Sound(k) /\ k.groups = ResizedGroups(h.groups, n) /\ k.alloc = h.alloc /\ k.galloc = h.galloc
  BY <1>1, ResizedSound
<1>3. tab' = [tab EXCEPT ![t] = k]
  BY DEF Resize
<1>4. spaces' = Rearranged(spaces, h, h.groups, k.groups)
  BY <1>2 DEF Resize
<1> HIDE DEF k
<1>5. Stocks(spaces', tab')
  BY <1>2, <1>3, <1>4, Replacing
<1> QED  BY <1>3, <1>5, Dropping DEF Resize, k

LEMMA SetInv ==
  ASSUME TableInv, NEW t \in Tables, NEW b \in 0 .. tab[t].size - 1, NEW v \in Storable[b], Set(t, b, v)
  PROVE  LET g == WithCell(tab[t].groups, b, v)
             d == IF Test(tab[t], b) THEN 0 ELSE 1
         IN  /\ TableInv' /\ v \in Values /\ tab' = [tab EXCEPT ![t] = Changed(tab[t], g, d)]
<1> DEFINE h == tab[t]
           g == WithCell(h.groups, b, v)
           d == IF Test(h, b) THEN 0 ELSE 1
<1>1. Sound(h) /\ h.intact /\ h.size \in Nat /\ h.size \in Sizes \cup {0}
  BY TableIs, SoundFields DEF Set
<1>2. b \in Nat /\ b < h.size /\ v \in Values
  <2>1. b \in Nat /\ b < h.size /\ h.size \in Sizes
    BY <1>1
  <2> QED  BY <2>1, TableAssumption DEF TableAssumption
<1>3. d \in Int /\ ((Test(h, b) /\ d = 0) \/ (~ Test(h, b) /\ d = 1))
  OBVIOUS
<1>4. Change(t, g, d) /\ DropIterator
  BY DEF Set
<1> HIDE DEF d
<1>5. Sound(Changed(h, g, d)) /\ g \in Seq(GroupType)
  BY <1>1, <1>2, <1>3, CellSound
<1> HIDE DEF g
<1>6. Stocks(spaces', tab') /\ tab' = [tab EXCEPT ![t] = Changed(h, g, d)]
  BY <1>4, <1>5, Changing
<1> QED  BY <1>2, <1>4, <1>6, Dropping DEF g, d

LEMMA SetFailsInv ==
  ASSUME TableInv, NEW t \in Tables, NEW b \in 0 .. tab[t].size - 1, SetFails(t, b)
  PROVE  TableInv' /\ tab' = [tab EXCEPT ![t] = Changed(tab[t], WithCell(tab[t].groups, b, Empty), 0)]
<1> DEFINE h == tab[t]
           g == WithCell(h.groups, b, Empty)
<1>1. Sound(h) /\ h.intact /\ h.size \in Nat /\ ~ Test(h, b)
  BY TableIs, SoundFields DEF SetFails
<1>2. b \in Nat /\ b < h.size /\ Empty \notin Values
  BY <1>1, GroupAssumption DEF GroupAssumption
<1>3. Change(t, g, 0) /\ DropIterator
  BY DEF SetFails
<1>4. Sound(Changed(h, g, 0)) /\ g \in Seq(GroupType)
  BY <1>1, <1>2, CellSound
<1> HIDE DEF g
<1>5. Stocks(spaces', tab') /\ tab' = [tab EXCEPT ![t] = Changed(h, g, 0)]
  BY <1>3, <1>4, Changing
<1> QED  BY <1>3, <1>5, Dropping DEF g


LEMMA EraseInv ==
  ASSUME TableInv, NEW t \in Tables, NEW i, NEW j, Erase(t, i, j)
  PROVE  LET S == Span(i, j) \cap FullBuckets(tab[t].groups)
         IN  TableInv' /\ tab' = [tab EXCEPT ![t] = Changed(tab[t], Marked(tab[t], S), - Cardinality(S))]
<1> DEFINE h == tab[t]
           S == Span(i, j) \cap FullBuckets(h.groups)
           g == Marked(h, S)
           d == - Cardinality(S)
<1>1. Sound(h) /\ h.intact
  BY TableIs DEF Erase
<1>2. Change(t, g, d) /\ DropIterator
  BY DEF Erase, Marked
<1>3. S \in SUBSET FullBuckets(h.groups)
  OBVIOUS
<1> HIDE DEF S
<1>4. Sound(Changed(h, g, d)) /\ g \in Seq(GroupType)
  BY <1>1, <1>3, SpanSound
<1> HIDE DEF g, d
<1>5. Stocks(spaces', tab') /\ tab' = [tab EXCEPT ![t] = Changed(h, g, d)]
  BY <1>2, <1>4, Changing
<1> QED  BY <1>2, <1>5, Dropping DEF g, d, S

LEMMA ReadInv ==
  ASSUME TableInv, NEW t \in Tables, NEW u \in Tables, NEW clearing \in BOOLEAN,
         NEW n \in 0 .. FileLength(tab[u]), Read(t, u, n, clearing)
  PROVE  LET k == Loaded(IF clearing THEN Cleared(tab[t]) ELSE tab[t], tab[u], n)
         IN  TableInv' /\ Sound(IF clearing THEN Cleared(tab[t]) ELSE tab[t])
             /\ tab' = [tab EXCEPT ![t] = k]
<1> DEFINE h == tab[t]
           c == IF clearing THEN Cleared(h) ELSE h
           k == Loaded(c, tab[u], n)
<1>1. Sound(h) /\ Sound(tab[u]) /\ tab[u].intact
  BY TableIs DEF Read
<1>2. Sound(c) /\ c.alloc = h.alloc /\ c.galloc = h.galloc
  BY <1>1, ClearedSound
<1>3. /\ tab' = [tab EXCEPT ![t] = k] /\ DropIterator
      /\ spaces' = Rearranged(spaces, h, h.groups, k.groups)
  BY DEF Read
<1> HIDE DEF c
<1>4. Sound(k) /\ k.alloc = h.alloc /\ k.galloc = h.galloc
  BY <1>1, <1>2, LoadedSound
<1> HIDE DEF k
<1>5. Stocks(spaces', tab')
  BY <1>3, <1>4, Replacing
<1> QED  BY <1>2, <1>3, <1>5, Dropping DEF k, c

-----------------------------------------------------------------------------
(* Construction and assignment.                                            *)

(* One table becomes k, whatever its allocators.                           *)
LEMMA Placed ==
  ASSUME TableInv, NEW t \in Tables, NEW k, Sound(k), tab' = [tab EXCEPT ![t] = k],
         Books(spaces', tab')
  PROVE  Stocks(spaces', tab')
<1>1. tab \in [Tables -> TableType] /\ \A x \in Tables : Sound(tab[x])
  BY TableIs
<1>2. k \in TableType
  BY DEF Sound
<1>3. tab' \in [Tables -> TableType] /\ \A x \in Tables : tab'[x] = IF x = t THEN k ELSE tab[x]
  BY <1>1, <1>2
<1> QED  BY <1>1, <1>3 DEF Stocks

(* Two tables become k and l.                                              *)
LEMMA PlacedTwo ==
  ASSUME TableInv, NEW t \in Tables, NEW u \in Tables, t # u, NEW k, NEW l, Sound(k), Sound(l),
         tab' = [tab EXCEPT ![t] = k, ![u] = l], Books(spaces', tab')
  PROVE  Stocks(spaces', tab')
<1>1. tab \in [Tables -> TableType] /\ \A x \in Tables : Sound(tab[x])
  BY TableIs
<1>2. k \in TableType /\ l \in TableType
  BY DEF Sound
<1>3. /\ tab' \in [Tables -> TableType]
      /\ \A x \in Tables : tab'[x] = IF x = t THEN k ELSE IF x = u THEN l ELSE tab[x]
  BY <1>1, <1>2
<1> QED  BY <1>1, <1>3 DEF Stocks

LEMMA OthersLike ==
  ASSUME TableInv, NEW t \in Tables, NEW k
  PROVE  LET U == [tab EXCEPT ![t] = k]
         IN  /\ DOMAIN U = DOMAIN tab /\ DOMAIN tab = Tables /\ U[t] = k
             /\ \A x \in DOMAIN tab \ {t} : Like(U[x], tab[x])
BY TableIs DEF Like

LEMMA ConstructInv ==
  ASSUME TableInv, NEW t \in Tables, NEW n \in Sizes, Construct(t, n)
  PROVE  TableInv' /\ \E s \in Spaces : tab' = [tab EXCEPT ![t] = Blank(n, s, s)]
<1> DEFINE gone == DestroyedTable(spaces, tab[t])
<1>1. PICK s \in Spaces : /\ IsFresh(gone, s)
                          /\ tab' = [tab EXCEPT ![t] = Blank(n, s, s)]
                          /\ spaces' = CopiedGroups(Increment(Created(gone, s), s), Blank(n, s, s))
  BY DEF Construct
<1> DEFINE k == Blank(n, s, s)
           U == [tab EXCEPT ![t] = k]
<1>2. Sound(k) /\ k.groups \in Seq(GroupType) /\ k.alloc = s /\ k.galloc = s
  BY BlankSound
<1>3. ~ Exists(gone, s)
  BY <1>1 DEF IsFresh
<1>4. /\ DOMAIN U = DOMAIN tab /\ t \in DOMAIN tab /\ U[t] = k
      /\ \A x \in DOMAIN tab \ {t} : Like(U[x], tab[x])
  BY OthersLike
<1>5. tab' = U /\ spaces' = CopiedGroups(Increment(Created(gone, s), s), k)
  BY <1>1
<1> HIDE DEF U, k
<1>6. Books(spaces, tab)
  BY DEF TableInv, Stocks
<1>7. U[t].groups \in Seq(GroupType) /\ U[t].alloc = s /\ U[t].galloc = s
  BY <1>2, <1>4
<1>8. ~ Exists(gone, s) => Books(CopiedGroups(Increment(Created(gone, s), s), U[t]), U)
  BY <1>4, <1>6, <1>7, Rebuilding
<1>9. Books(spaces', tab')
  BY <1>3, <1>4, <1>5, <1>8
<1>10. Stocks(spaces', tab')
  BY <1>2, <1>5, <1>9, Placed DEF U
<1> QED  BY <1>5, <1>10, Dropping DEF Construct, U, k

LEMMA CopyConstructInv ==
  ASSUME TableInv, NEW t \in Tables, NEW u \in Tables, CopyConstruct(t, u)
  PROVE  TableInv' /\ tab' = [tab EXCEPT ![t] = tab[u]]
<1> DEFINE gone == DestroyedTable(spaces, tab[t])
           k == tab[u]
           U == [tab EXCEPT ![t] = k]
<1>1. tab' = U /\ spaces' = CopiedGroups(Increment(Increment(gone, k.alloc), k.galloc), k) /\ DropIterator
  BY DEF CopyConstruct
<1>2. Sound(k) /\ k.groups \in Seq(GroupType) /\ k.alloc \in Spaces /\ k.galloc \in Spaces
  BY TableIs, SoundFields
<1>3. /\ DOMAIN U = DOMAIN tab /\ t \in DOMAIN tab /\ U[t] = k
      /\ \A x \in DOMAIN tab \ {t} : Like(U[x], tab[x])
  BY OthersLike
<1>4. Books(spaces, tab)
  BY DEF TableInv, Stocks
<1> HIDE DEF U, k
<1>5. U[t].groups \in Seq(GroupType) /\ U[t].alloc = k.alloc /\ U[t].galloc = k.galloc
  BY <1>2, <1>3
<1>6. Books(CopiedGroups(Increment(Increment(gone, k.alloc), k.galloc), U[t]), U)
  BY <1>2, <1>3, <1>4, <1>5, Rebuilding
<1>7. Books(spaces', tab')
  BY <1>1, <1>3, <1>6
<1>8. Stocks(spaces', tab')
  BY <1>1, <1>2, <1>7, Placed DEF U
<1> QED  BY <1>1, <1>8, Dropping DEF U, k

LEMMA CopyAssignInv ==
  ASSUME TableInv, NEW t \in Tables, NEW u \in Tables, CopyAssign(t, u)
  PROVE  TableInv' /\ tab' = [tab EXCEPT ![t] = tab[u]]
<1> DEFINE k == tab[u]
           U == [tab EXCEPT ![t] = k]
           held == Reset(Reset(FreedGroups(spaces, tab[t]), tab[t].alloc, k.alloc), tab[t].galloc, k.galloc)
<1>1. tab' = U /\ spaces' = CopiedGroups(held, k) /\ DropIterator
  BY DEF CopyAssign
<1>2. Sound(k) /\ k.groups \in Seq(GroupType) /\ k.alloc \in Spaces /\ k.galloc \in Spaces
  BY TableIs, SoundFields
<1>3. /\ DOMAIN U = DOMAIN tab /\ t \in DOMAIN tab /\ U[t] = k
      /\ \A x \in DOMAIN tab \ {t} : Like(U[x], tab[x])
  BY OthersLike
<1>4. Books(spaces, tab)
  BY DEF TableInv, Stocks
<1> HIDE DEF U, k
<1>5. U[t].groups \in Seq(GroupType) /\ U[t].alloc = k.alloc /\ U[t].galloc = k.galloc
  BY <1>2, <1>3
<1>6. Books(CopiedGroups(held, U[t]), U)
  BY <1>2, <1>3, <1>4, <1>5, Reassigning
<1>7. Books(spaces', tab')
  BY <1>1, <1>3, <1>6
<1>8. Stocks(spaces', tab')
  BY <1>1, <1>2, <1>7, Placed DEF U
<1> QED  BY <1>1, <1>8, Dropping DEF U, k

LEMMA RenewInv ==
  ASSUME TableInv, NEW t \in Tables, NEW n \in Sizes, Renew(t, n)
  PROVE  /\ TableInv'
         /\ \/ tab' = [tab EXCEPT ![t] = Blank(n, tab[t].alloc, tab[t].alloc)]
            \/ tab' = [tab EXCEPT ![t] = Cleared(tab[t])]
<1> DEFINE h == tab[t]
           a == h.alloc
           mine == FreedGroups(spaces, h)
           k == Blank(n, a, a)
           U == [tab EXCEPT ![t] = k]
<1>0. /\ DropIterator
      /\ \/ tab' = U /\ spaces' = CopiedGroups(Reset(mine, h.galloc, a), k)
         \/ tab' = [tab EXCEPT ![t] = Cleared(h)] /\ spaces' = mine
  BY TableIs DEF Renew
<1>1. CASE tab' = U /\ spaces' = CopiedGroups(Reset(mine, h.galloc, a), k)
  <2>1. a \in Spaces
    BY TableIs, SoundFields
  <2>2. Sound(k) /\ k.groups \in Seq(GroupType) /\ k.alloc = a /\ k.galloc = a
    BY <2>1, BlankSound
  <2>3. /\ DOMAIN U = DOMAIN tab /\ t \in DOMAIN tab /\ U[t] = k
        /\ \A x \in DOMAIN tab \ {t} : Like(U[x], tab[x])
    BY OthersLike
  <2>4. Books(spaces, tab)
    BY DEF TableInv, Stocks
  <2> HIDE DEF U, k
  <2>5. U[t].groups \in Seq(GroupType) /\ U[t].alloc = a /\ U[t].galloc = a
    BY <2>2, <2>3
  <2>6. Books(CopiedGroups(Reset(Reset(mine, tab[t].alloc, a), tab[t].galloc, a), U[t]), U)
    BY <2>1, <2>3, <2>4, <2>5, Reassigning
  <2>7. Reset(mine, tab[t].alloc, a) = mine
    BY DEF Reset
  <2>8. Books(spaces', tab')
    BY <1>1, <2>3, <2>6, <2>7
  <2>9. Stocks(spaces', tab')
    BY <1>1, <2>2, <2>8, Placed DEF U
  <2> QED  BY <1>0, <1>1, <2>9, Dropping DEF U, k
<1>2. CASE tab' = [tab EXCEPT ![t] = Cleared(h)] /\ spaces' = mine
  <2>1. Clear(t)
    BY <1>0, <1>2, TableIs DEF Clear
  <2> QED  BY <1>2, <2>1, ClearInv
<1> QED  BY <1>0, <1>1, <1>2

(* W is the tables before t and u change places.                           *)
LEMMA Exchanging ==
  ASSUME TableInv, NEW t \in Tables, NEW u \in Tables, t # u, NEW k, NEW sp,
         Books(sp, [tab EXCEPT ![t] = k])
  PROVE  Books(sp, [tab EXCEPT ![t] = tab[u], ![u] = k])
<1> DEFINE W == [tab EXCEPT ![t] = k]
           U == [tab EXCEPT ![t] = tab[u], ![u] = k]
<1>1. tab \in [Tables -> TableType]
  BY TableIs
<1>2. /\ DOMAIN W = Tables /\ DOMAIN U = Tables
      /\ U[t] = W[u] /\ U[u] = W[t] /\ \A x \in Tables : x # t /\ x # u => U[x] = W[x]
  BY <1>1
<1> HIDE DEF W, U
<1>3. \A x \in Tables : Other(t, u, x) \in Tables /\ Like(U[Other(t, u, x)], W[x])
  BY <1>2 DEF Other, Like
<1> QED  BY <1>2, <1>3, Swapping DEF W, U

LEMMA MoveConstructInv ==
  ASSUME TableInv, NEW t \in Tables, NEW u \in Tables, MoveConstruct(t, u)
  PROVE  /\ TableInv' /\ t # u
         /\ \E s, g \in Spaces : tab' = [tab EXCEPT ![t] = tab[u], ![u] = Blank(0, s, g)]
<1> DEFINE gone == DestroyedTable(spaces, tab[t])
<1>1. PICK s \in Spaces, g \in Spaces :
        /\ IsFresh(gone, s) /\ IsFresh(Created(gone, s), g)
        /\ tab' = [tab EXCEPT ![t] = tab[u], ![u] = Blank(0, s, g)]
        /\ spaces' = Created(Created(gone, s), g)
  BY DEF MoveConstruct
<1> DEFINE k == Blank(0, s, g)
           W == [tab EXCEPT ![t] = k]
<1>2. t # u /\ DropIterator
  BY DEF MoveConstruct
<1>3. Sound(k) /\ k.groups \in Seq(GroupType) /\ k.alloc = s /\ k.galloc = g /\ k.groups = <<>>
  <2>2. VacantGroups(NumGroups(0)) = <<>>
    BY DEF VacantGroups, NumGroups
  <2>3. k.groups = <<>>
    <3>1. k = [groups |-> VacantGroups(NumGroups(0)), size |-> 0, num |-> 0,
               alloc |-> s, galloc |-> g, intact |-> TRUE]
      BY DEF Blank
    <3> HIDE DEF k
    <3>2. k.groups = VacantGroups(NumGroups(0))
      BY <3>1
    <3> QED  BY <2>2, <3>2
  <2>4. Sound(k) /\ k.groups \in Seq(GroupType) /\ k.alloc = s /\ k.galloc = g
    <3> DEFINE z == 0
    <3>1. z \in Sizes \cup {0}
      OBVIOUS
    <3> HIDE DEF z, k
    <3>2. /\ Sound(Blank(z, s, g)) /\ Blank(z, s, g).groups \in Seq(GroupType)
          /\ Blank(z, s, g).alloc = s /\ Blank(z, s, g).galloc = g
      BY <3>1, BlankSound
    <3>3. k = Blank(z, s, g)
      BY DEF k, z
    <3> QED  BY <3>2, <3>3
  <2> QED  BY <2>3, <2>4
<1>4. /\ DOMAIN W = DOMAIN tab /\ t \in DOMAIN tab /\ W[t] = k
      /\ \A x \in DOMAIN tab \ {t} : Like(W[x], tab[x])
  BY OthersLike
<1>5. Books(spaces, tab)
  BY DEF TableInv, Stocks
<1>6. ~ Exists(gone, s) /\ ~ Exists(Created(gone, s), g)
  BY <1>1 DEF IsFresh
<1>7. tab' = [tab EXCEPT ![t] = tab[u], ![u] = k]
  BY <1>1
<1> HIDE DEF W, k
<1>8. W[t].groups \in Seq(GroupType) /\ W[t].groups = <<>> /\ W[t].alloc = s /\ W[t].galloc = g
  BY <1>3, <1>4
<1>9. ~ Exists(gone, s) /\ ~ Exists(Created(gone, s), g) /\ W[t].groups = <<>> =>
        Books(Created(Created(gone, s), g), W)
  BY <1>4, <1>5, <1>8, Rebuilding
<1>10. Books(spaces', W)
  BY <1>1, <1>6, <1>8, <1>9
<1>11. Books(spaces', tab')
  BY <1>2, <1>7, <1>10, Exchanging DEF W
<1>12. Sound(tab[u])
  BY TableIs
<1>13. Stocks(spaces', tab')
  BY <1>2, <1>3, <1>7, <1>11, <1>12, PlacedTwo
<1> QED  BY <1>2, <1>7, <1>13, Dropping DEF k

LEMMA MoveAssignInv ==
  ASSUME TableInv, NEW t \in Tables, NEW u \in Tables, MoveAssign(t, u)
  PROVE  TableInv' /\ t # u /\ tab' = [tab EXCEPT ![t] = tab[u], ![u] = Cleared(tab[t])]
<1> DEFINE k == Cleared(tab[t])
           W == [tab EXCEPT ![t] = k]
<1>1. /\ t # u /\ DropIterator /\ tab' = [tab EXCEPT ![t] = tab[u], ![u] = k]
      /\ spaces' = FreedGroups(spaces, tab[t])
  BY DEF MoveAssign
<1>2. Sound(k) /\ k.groups = <<>> /\ k.alloc = tab[t].alloc /\ k.galloc = tab[t].galloc
  BY TableIs, ClearedSound
<1> HIDE DEF k
<1>3. Stocks(spaces, tab)
  BY DEF TableInv
<1>4. Stocks(Rearranged(spaces, tab[t], tab[t].groups, k.groups), W)
  BY <1>2, <1>3, Altering
<1>5. Books(spaces', W)
  BY <1>1, <1>2, <1>4 DEF Stocks, FreedGroups
<1>6. Books(spaces', tab')
  BY <1>1, <1>5, Exchanging
<1>7. Sound(tab[u])
  BY TableIs
<1>8. Stocks(spaces', tab')
  BY <1>1, <1>2, <1>6, <1>7, PlacedTwo
<1> QED  BY <1>1, <1>8, Dropping DEF k

LEMMA SwapInv ==
  ASSUME TableInv, NEW t \in Tables, NEW u \in Tables, Swap(t, u)
  PROVE  TableInv' /\ t # u /\ tab' = [tab EXCEPT ![t] = tab[u], ![u] = tab[t]]
<1>1. /\ t # u /\ DropIterator /\ tab' = [tab EXCEPT ![t] = tab[u], ![u] = tab[t]]
      /\ spaces' = spaces
  BY DEF Swap
<1>2. Sound(tab[t]) /\ Sound(tab[u]) /\ tab \in [Tables -> TableType]
  BY TableIs
<1>3. [tab EXCEPT ![t] = tab[t]] = tab
  BY <1>2
<1>4. Books(spaces', [tab EXCEPT ![t] = tab[t]])
  BY <1>1, <1>3 DEF TableInv, Stocks
<1>5. Books(spaces', tab')
  BY <1>1, <1>4, Exchanging
<1>6. Stocks(spaces', tab')
  BY <1>1, <1>2, <1>5, PlacedTwo
<1> QED  BY <1>1, <1>6, Dropping

-----------------------------------------------------------------------------
(* The iterator.                                                           *)

(* Of the table the iterator is in.                                        *)
LEMMA IteratorIs ==
  ASSUME TableInv, it.kind # "none"
  PROVE  /\ it.tab \in Tables /\ Walked \in Seq(GroupType) /\ Walked = tab[it.tab].groups
         /\ Sound(tab[it.tab]) /\ Valid(Walked, Here) /\ it.kind \in {"full", "destructive"}
         /\ Live <=> tab[it.tab].intact
         /\ ~ AtEnd => Points(Walked, Here)
<1>1. it # NoIterator
  BY DEF NoIterator
<1>2. /\ it.tab \in Tables /\ it.kind \in {"full", "destructive"} /\ Valid(Walked, Here)
      /\ it.kind = "full" <=> tab[it.tab].intact
  BY <1>1 DEF TableInv, IteratorInv
<1>3. Sound(tab[it.tab]) /\ Walked \in Seq(GroupType) /\ Walked = tab[it.tab].groups
  BY <1>2, TableIs DEF Walked
<1>4. ~ AtEnd => Points(Walked, Here)
  BY <1>2, <1>3, EndIsMarked DEF Valid, AtEnd
<1> QED  BY <1>2, <1>3, <1>4 DEF Live

(* The iterator after a step, with the invariant.                          *)
LEMMA Moved ==
  ASSUME NEW t \in Tables, NEW kind \in {"full", "destructive"}, NEW i, Moves(t, kind, i),
         Stocks(spaces', tab'), kind = "full" <=> tab'[t].intact, Valid(tab'[t].groups, i)
  PROVE  /\ TableInv'
         /\ Walked' = tab'[t].groups /\ Here' = i /\ it'.kind = kind
<1>1. tab'[t].groups \in Seq(GroupType)
  BY StocksFields
<1>2. i \in Iterator /\ i = [row |-> i.row, col |-> i.col]
  <2>1. i \in Iterator
    BY <1>1, EndIsMarked DEF Valid, Points, Ready
  <2> QED  BY <2>1 DEF Iterator
<1>3. /\ it' = [tab |-> t, kind |-> kind, row |-> i.row, col |-> i.col]
      /\ it'.tab = t /\ it'.kind = kind /\ it'.row = i.row /\ it'.col = i.col
  BY DEF Moves
<1>4. Walked' = tab'[t].groups
  BY <1>3 DEF Walked
<1>5. Here' = i
  BY <1>2, <1>3 DEF Here
<1>6. it' \in [tab : Tables, kind : {"full", "destructive"}, row : Nat, col : Nat]
  BY <1>2, <1>3 DEF Iterator
<1>7. (it'.kind = "full" <=> tab'[it'.tab].intact) /\ Valid(Walked', Here')
  BY <1>3, <1>4, <1>5
<1>8. IteratorInv'
  BY <1>6, <1>7 DEF IteratorInv
<1> QED  BY <1>3, <1>4, <1>5, <1>8 DEF TableInv

LEMMA BeginInv ==
  ASSUME TableInv, NEW t \in Tables, Begin(t)
  PROVE  TableInv' /\ UNCHANGED tab
<1>1. tab[t].intact /\ UNCHANGED <<tab, spaces>> /\ Moves(t, "full", BeginOf(tab[t].groups))
  BY DEF Begin
<1>2. Stocks(spaces', tab')
  BY <1>1 DEF TableInv
<1>3. Valid(tab[t].groups, BeginOf(tab[t].groups))
  BY TableIs, BeginMeetsNone
<1>4. TableInv'
  BY <1>1, <1>2, <1>3, Moved
<1> QED  BY <1>1, <1>4

LEMMA FindInv ==
  ASSUME TableInv, NEW t \in Tables, NEW b \in 0 .. tab[t].size - 1, Find(t, b)
  PROVE  TableInv' /\ UNCHANGED tab
<1>1. /\ tab[t].intact /\ UNCHANGED <<tab, spaces>> /\ Moves(t, "full", GetIter(tab[t].groups, b))
      /\ Test(tab[t], b) /\ b < tab[t].size
  BY DEF Find
<1>2. Stocks(spaces', tab')
  BY <1>1 DEF TableInv
<1>3. Sound(tab[t]) /\ tab[t].groups \in Seq(GroupType) /\ tab[t].size \in Nat
  BY TableIs, SoundFields
<1>4. Within(tab[t].groups, b)
  <2>1. b \in Nat
    BY <1>3
  <2> QED  BY <1>1, <1>3, <2>1, ExactFull
<1>5. b \in FullBuckets(tab[t].groups)
  BY <1>1, <1>3, <1>4, FullWithin DEF Test
<1>6. Valid(tab[t].groups, GetIter(tab[t].groups, b))
  BY <1>3, <1>5, IteratorOfPos DEF Valid
<1>7. TableInv'
  BY <1>1, <1>2, <1>6, Moved
<1> QED  BY <1>1, <1>7

(* From one bucket to the next one, over buckets that are not full.        *)
Successive(groups, from, to) == from < to /\ \A b \in FullBuckets(groups) : ~ (from < b /\ b < to)

LEMMA StepForwardInv ==
  ASSUME TableInv, StepForward
  PROVE  TableInv' /\ UNCHANGED tab /\ Successive(Walked, Place(Walked, Here), Place(Walked', Here'))
<1> DEFINE i == Incremented(Walked, Here)
<1>1. Live /\ ~ AtEnd /\ Moves(it.tab, "full", i) /\ UNCHANGED <<tab, spaces>>
  BY DEF StepForward
<1>2. /\ it.tab \in Tables /\ Walked \in Seq(GroupType) /\ Walked = tab[it.tab].groups
      /\ tab[it.tab].intact /\ Points(Walked, Here)
  BY <1>1, IteratorIs DEF Live
<1>3. Valid(Walked, i) /\ Before(Walked, i) = Before(Walked, Here) \cup {GetPos(Walked, Here)}
  BY <1>2, IncrementMeets
<1>4. Successive(Walked, Place(Walked, Here), Place(Walked, i))
  BY <1>2, <1>3, NextBucket DEF Successive
<1>5. Stocks(spaces', tab')
  BY <1>1 DEF TableInv
<1> HIDE DEF i
<1>6. TableInv' /\ Walked' = Walked /\ Here' = i
  BY <1>1, <1>2, <1>3, <1>5, Moved
<1> QED  BY <1>1, <1>4, <1>6

LEMMA StepBackInv ==
  ASSUME TableInv, StepBack
  PROVE  TableInv' /\ UNCHANGED tab /\ Successive(Walked, Place(Walked', Here'), Place(Walked, Here))
<1> DEFINE i == Decremented(Walked, Here)
<1>1. Live /\ Here # BeginOf(Walked) /\ Moves(it.tab, "full", i) /\ UNCHANGED <<tab, spaces>>
  BY DEF StepBack
<1>2. /\ it.tab \in Tables /\ Walked \in Seq(GroupType) /\ Walked = tab[it.tab].groups
      /\ tab[it.tab].intact /\ Valid(Walked, Here)
  BY <1>1, IteratorIs DEF Live
<1>3. Points(Walked, i) /\ Incremented(Walked, i) = Here
  BY <1>1, <1>2, DecrementReturns
<1>4. Before(Walked, Here) = Before(Walked, i) \cup {GetPos(Walked, i)}
  BY <1>2, <1>3, IncrementMeets
<1>5. Successive(Walked, Place(Walked, i), Place(Walked, Here))
  BY <1>2, <1>3, <1>4, NextBucket DEF Successive
<1>6. Stocks(spaces', tab')
  BY <1>1 DEF TableInv
<1> HIDE DEF i
<1>7. TableInv' /\ Walked' = Walked /\ Here' = i
  BY <1>1, <1>2, <1>3, <1>6, Moved DEF Valid
<1> QED  BY <1>1, <1>5, <1>7

LEMMA EraseHereInv ==
  ASSUME TableInv, EraseHere
  PROVE  LET h == tab[it.tab]
             b == GetPos(Walked, Here)
         IN  /\ TableInv' /\ Successive(Walked, Place(Walked, Here), Place(Walked', Here'))
             /\ it.tab \in Tables /\ Sound(h) /\ h.intact /\ b \in FullBuckets(h.groups)
             /\ tab' = [tab EXCEPT ![it.tab] = Changed(h, WithCell(h.groups, b, Erased), -1)]
<1> DEFINE t == it.tab
           h == tab[t]
           b == GetPos(Walked, Here)
           rest == ErasedAt(Walked, Here)
           i == AdvancePastEnd(rest, Here)
<1>1. Live /\ ~ AtEnd /\ Change(t, rest, -1) /\ Moves(t, "full", i)
  BY DEF EraseHere
<1>2. /\ t \in Tables /\ Walked \in Seq(GroupType) /\ Walked = h.groups
      /\ Sound(h) /\ h.intact /\ Points(Walked, Here)
  BY <1>1, IteratorIs DEF Live
<1>3. /\ b \in FullBuckets(h.groups) /\ rest = WithCell(h.groups, b, Erased)
      /\ Sound(Changed(h, rest, -1))
  BY <1>2, HereSound
<1>4. rest \in Seq(GroupType)
  BY <1>2, ErasedKeeps
<1>5. Valid(rest, i) /\ Successive(Walked, Place(Walked, Here), Place(rest, i))
  BY <1>2, NextAfterErase DEF Successive
<1> HIDE DEF rest, i, t, h, b
<1>6. Stocks(spaces', tab') /\ tab' = [tab EXCEPT ![t] = Changed(h, rest, -1)]
  BY <1>1, <1>2, <1>3, <1>4, Changing DEF h
<1>7. tab'[t].groups = rest /\ tab'[t].intact
  <2>1. tab'[t] = Changed(h, rest, -1)
    BY <1>2, <1>6, TableIs
  <2> QED  BY <1>2, <2>1, ChangedFields
<1>8. TableInv' /\ Walked' = rest /\ Here' = i
  BY <1>1, <1>2, <1>5, <1>6, <1>7, Moved
<1> QED  BY <1>2, <1>3, <1>5, <1>6, <1>8 DEF t, h, b

(* What BeginDestructive makes of a table.                                 *)
Spoilt(h, g) == [Regrouped(h, g) EXCEPT !.intact = FALSE]

LEMMA BeginDestructiveInv ==
  ASSUME TableInv, NEW t \in Tables, BeginDestructive(t)
  PROVE  /\ TableInv'
         /\ \E g : tab' = [tab EXCEPT ![t] = Spoilt(tab[t], g)] /\ ~ Spoilt(tab[t], g).intact
<1> DEFINE h == tab[t]
           i == BeginOf(h.groups)
           g == LeftBehind(h.groups, i)
           k == Spoilt(h, g)
<1>1. /\ Moves(t, "destructive", i) /\ tab' = [tab EXCEPT ![t] = k]
      /\ spaces' = Rearranged(spaces, h, h.groups, g)
  BY DEF BeginDestructive, Spoilt
<1>2. Sound(h) /\ h.groups \in Seq(GroupType) /\ tab \in [Tables -> TableType] /\ h \in TableType
  BY TableIs
<1>3. Valid(h.groups, i)
  BY <1>2, BeginMeetsNone
<1>4. g \in Seq(GroupType) /\ Valid(g, i)
  BY <1>2, <1>3, LeftBehindKeeps
<1> HIDE DEF i, g
<1>5. k \in TableType /\ k.groups = g /\ ~ k.intact /\ k.alloc = h.alloc /\ k.galloc = h.galloc
  <2>1. g \in Seq([Positions -> Cell])
    BY <1>4, CellIs DEF GroupType
  <2> QED  BY <1>2, <2>1 DEF TableType, Spoilt, Regrouped
<1> HIDE DEF k
<1>6. Sound(k)
  BY <1>5 DEF Sound
<1>7. spaces' = Rearranged(spaces, h, h.groups, k.groups)
  BY <1>1, <1>5
<1>8. Stocks(spaces', tab')
  BY <1>1, <1>5, <1>6, <1>7, Replacing
<1>9. tab'[t] = k
  BY <1>1, <1>2
<1>10. TableInv'
  BY <1>1, <1>4, <1>5, <1>8, <1>9, Moved
<1> QED  BY <1>1, <1>5, <1>10 DEF k

LEMMA StepDestructiveInv ==
  ASSUME TableInv, StepDestructive
  PROVE  /\ TableInv' /\ Successive(Walked, Place(Walked, Here), Place(Walked', Here'))
         /\ it.tab \in Tables /\ ~ tab[it.tab].intact
         /\ \E k : tab' = [tab EXCEPT ![it.tab] = k] /\ ~ k.intact
<1> DEFINE t == it.tab
           h == tab[t]
           i == Incremented(Walked, Here)
           g == LeftBehind(Walked, i)
<1>1. it.kind = "destructive" /\ ~ AtEnd /\ Change(t, g, 0) /\ Moves(t, "destructive", i)
  BY DEF StepDestructive
<1>2. /\ t \in Tables /\ Walked \in Seq(GroupType) /\ Walked = h.groups
      /\ Sound(h) /\ ~ h.intact /\ Points(Walked, Here)
  BY <1>1, IteratorIs DEF Live
<1>3. Valid(Walked, i) /\ Before(Walked, i) = Before(Walked, Here) \cup {GetPos(Walked, Here)}
  BY <1>2, IncrementMeets
<1>4. Successive(Walked, Place(Walked, Here), Place(Walked, i))
  BY <1>2, <1>3, NextBucket DEF Successive
<1> HIDE DEF i, t, h
<1>5. g \in Seq(GroupType) /\ Valid(g, i) /\ Place(g, i) = Place(Walked, i)
  BY <1>2, <1>3, LeftBehindKeeps
<1> HIDE DEF g
<1>6. Sound(Changed(h, g, 0))
  BY <1>2, <1>5, UnchangedSound
<1>7. Stocks(spaces', tab') /\ tab' = [tab EXCEPT ![t] = Changed(h, g, 0)]
  BY <1>1, <1>2, <1>5, <1>6, Changing DEF h
<1>8. tab'[t].groups = g /\ ~ tab'[t].intact /\ ~ Changed(h, g, 0).intact
  <2>1. tab'[t] = Changed(h, g, 0)
    BY <1>2, <1>7, TableIs
  <2> QED  BY <1>2, <2>1, ChangedFields
<1>9. TableInv' /\ Walked' = g /\ Here' = i
  BY <1>1, <1>2, <1>5, <1>7, <1>8, Moved
<1> QED  BY <1>2, <1>4, <1>5, <1>7, <1>8, <1>9 DEF t, h

(* erase(it, l) erases the full buckets from the one of it up to b.        *)
LEMMA EraseUpToInv ==
  ASSUME TableInv, Live, NEW b \in 0 .. tab[it.tab].size, EraseUpTo(b)
  PROVE  LET h    == tab[it.tab]
             from == Place(Walked, Here)
             to   == Place(Walked', Here')
         IN  /\ TableInv' /\ it.tab \in Tables /\ Sound(h) /\ h.intact
             /\ from \in FullBuckets(h.groups) /\ from <= b
             /\ to = IF b = h.size THEN Len(Walked) * GroupSize ELSE b
             /\ FullBuckets(Walked') = {c \in FullBuckets(Walked) : c < from \/ to <= c}
             /\ \E g, d : /\ tab' = [tab EXCEPT ![it.tab] = Changed(h, g, d)]
                          /\ \A x \in Nat : x < h.size =>
                               CellAt(g, x) = IF x \in FullBuckets(h.groups) /\ from <= x /\ x < b
                                              THEN Erased ELSE CellAt(h.groups, x)
<1> DEFINE t == it.tab
           h == tab[t]
           l == IF b = h.size THEN EndOf(Walked) ELSE GetIter(Walked, b)
           done == ErasedRange(Walked, Here, l)
           g == done.groups
           d == - Distance(Walked, l, Here)
           from == Place(Walked, Here)
           G == Before(Walked, l) \ Before(Walked, Here)
           last == Len(Walked) * GroupSize
<1>1. /\ ~ AtEnd /\ Change(t, g, d) /\ Moves(t, "full", done.it)
      /\ \/ b < h.size /\ Test(h, b) /\ GetPos(Walked, Here) <= b
         \/ b = h.size
  BY DEF EraseUpTo
<1>2. /\ t \in Tables /\ Walked \in Seq(GroupType) /\ Walked = h.groups
      /\ Sound(h) /\ h.intact /\ Points(Walked, Here)
  BY <1>1, IteratorIs DEF Live
<1>3. /\ h.size \in Nat /\ b \in Nat /\ b <= h.size /\ h.size <= last /\ last \in Nat
      /\ \A c \in FullBuckets(Walked) : c \in Nat /\ c < h.size
  <2>1. h.size \in Nat
    BY <1>2, SoundFields
  <2>2. h.size <= last /\ \A c \in FullBuckets(Walked) : c \in Nat /\ c < h.size
    BY <1>2, ExactFull
  <2>3. last \in Nat
    <3>1. Len(Walked) \in Nat
      BY <1>2
    <3> QED  BY <3>1, SizeType
  <2> QED  BY <2>1, <2>2, <2>3
<1>4. from = GetPos(Walked, Here) /\ from \in FullBuckets(Walked) /\ from \in Nat
  BY <1>2, <1>3, PlaceOfPoint
<1>5. Before(Walked, Here) = {c \in FullBuckets(Walked) : c < from}
  BY <1>2, BeforeIsBelow DEF Valid
<1>6. /\ Valid(Walked, l) /\ from <= b
      /\ Place(Walked, l) = IF b = h.size THEN last ELSE b
  <2>1. CASE b = h.size
    <3>1. l = EndOf(Walked) /\ IsMarked(Walked, EndOf(Walked))
      BY <1>2, <2>1, EndIsMarked
    <3>2. Place(Walked, l) = last
      BY <3>1 DEF Place
    <3> QED  BY <1>3, <1>4, <2>1, <3>1, <3>2 DEF Valid
  <2>2. CASE b # h.size
    <3>1. b < h.size /\ Test(h, b) /\ GetPos(Walked, Here) <= b /\ l = GetIter(Walked, b)
      BY <1>1, <2>2
    <3>2. b \in FullBuckets(Walked)
      <4>1. Within(h.groups, b)
        BY <1>2, <1>3, <3>1, ExactFull
      <4> QED  BY <1>2, <3>1, <4>1, FullWithin DEF Test
    <3>3. Points(Walked, l) /\ GetPos(Walked, l) = b
      BY <1>2, <3>1, <3>2, IteratorOfPos
    <3>4. Place(Walked, l) = b
      BY <1>2, <3>3, PlaceOfPoint
    <3> QED  BY <1>4, <2>2, <3>1, <3>3, <3>4 DEF Valid
  <2> QED  BY <2>1, <2>2
<1> HIDE DEF l, from, last, t, h
<1>7. Before(Walked, l) = {c \in FullBuckets(Walked) : c < Place(Walked, l)}
  BY <1>2, <1>6, BeforeIsBelow
<1> DEFINE to == Place(Walked, l)
<1>8. to = (IF b = h.size THEN last ELSE b) /\ to \in Nat
  BY <1>3, <1>6
<1> HIDE DEF to
<1>9. Before(Walked, Here) \subseteq Before(Walked, l)
  BY <1>3, <1>4, <1>5, <1>6, <1>7, <1>8 DEF to
<1>10. /\ g \in Seq(GroupType) /\ Len(g) = Len(Walked)
       /\ Valid(g, done.it) /\ Place(g, done.it) = to
       /\ FullBuckets(g) = FullBuckets(Walked) \ G
  BY <1>2, <1>6, <1>9, RangeErased DEF to
<1>11. /\ Sound(Changed(h, g, d))
       /\ \A x \in Nat : x < h.size => CellAt(g, x) = IF x \in G THEN Erased ELSE CellAt(Walked, x)
  <2>1. Points(h.groups, Here) /\ Valid(h.groups, l) /\ Before(h.groups, Here) \subseteq Before(h.groups, l)
    BY <1>2, <1>6, <1>9
  <2>2. /\ g = ErasedRange(h.groups, Here, l).groups
        /\ d = - Distance(h.groups, l, Here)
        /\ G = Before(h.groups, l) \ Before(h.groups, Here)
    BY <1>2
  <2> HIDE DEF g, d, G, done
  <2>3. /\ Sound(Changed(h, g, d))
        /\ \A x \in Nat : x < h.size => CellAt(g, x) = IF x \in G THEN Erased ELSE CellAt(h.groups, x)
    <3>1. Sound(h) /\ h.intact
      BY <1>2
    <3>2. \A f, ll, new, dd, GG :
            /\ Points(h.groups, f) /\ Valid(h.groups, ll)
            /\ Before(h.groups, f) \subseteq Before(h.groups, ll)
            /\ new = ErasedRange(h.groups, f, ll).groups
            /\ dd = - Distance(h.groups, ll, f)
            /\ GG = Before(h.groups, ll) \ Before(h.groups, f)
            => /\ Sound(Changed(h, new, dd))
               /\ \A x \in Nat : x < h.size => CellAt(new, x) = IF x \in GG THEN Erased ELSE CellAt(h.groups, x)
      BY <3>1, RangeSound
    <3> QED  BY <2>1, <2>2, <3>2
  <2> QED  BY <1>2, <2>3
<1>12. \A c : c \in G <=> c \in FullBuckets(Walked) /\ from <= c /\ c < to
  BY <1>3, <1>4, <1>5, <1>7, <1>8 DEF to
<1>13. \A c : c \in G <=> c \in FullBuckets(Walked) /\ from <= c /\ c < b
  BY <1>3, <1>8, <1>12
<1> HIDE DEF G, g, d, done
<1>14. Stocks(spaces', tab') /\ tab' = [tab EXCEPT ![t] = Changed(h, g, d)]
  BY <1>1, <1>2, <1>10, <1>11, Changing DEF h
<1>15. tab'[t].groups = g /\ tab'[t].intact
  <2>1. tab'[t] = Changed(h, g, d)
    BY <1>2, <1>14, TableIs
  <2> QED  BY <1>2, <2>1, ChangedFields
<1>16. TableInv' /\ Walked' = g /\ Here' = done.it
  BY <1>1, <1>2, <1>10, <1>14, <1>15, Moved
<1>17. FullBuckets(g) = {c \in FullBuckets(Walked) : c < from \/ to <= c}
  BY <1>3, <1>4, <1>8, <1>10, <1>12
<1>18. Place(Walked', Here') = to
  BY <1>10, <1>16
<1>19. \A x \in Nat : x < h.size =>
         CellAt(g, x) = IF x \in FullBuckets(h.groups) /\ from <= x /\ x < b
                        THEN Erased ELSE CellAt(h.groups, x)
  BY <1>2, <1>11, <1>13
<1>20. \E gg, dd : /\ tab' = [tab EXCEPT ![t] = Changed(h, gg, dd)]
                   /\ \A x \in Nat : x < h.size =>
                        CellAt(gg, x) = IF x \in FullBuckets(h.groups) /\ from <= x /\ x < b
                                        THEN Erased ELSE CellAt(h.groups, x)
  BY <1>14, <1>19
<1> QED  BY <1>2, <1>4, <1>6, <1>8, <1>16, <1>17, <1>18, <1>20 DEF t, h, from, last

-----------------------------------------------------------------------------
(* The invariant of the specification, and what it implies.                *)

(* A step is one of the calls or of the iterator.                          *)
LEMMA CallsAndSteps ==
  ASSUME Next
  PROVE  \/ \E t \in Tables, n \in Sizes : Construct(t, n) \/ Renew(t, n) \/ Resize(t, n)
         \/ \E t, u \in Tables : \/ CopyConstruct(t, u) \/ CopyAssign(t, u) \/ MoveConstruct(t, u)
                                 \/ MoveAssign(t, u) \/ Swap(t, u)
         \/ \E t \in Tables : Clear(t) \/ Begin(t) \/ BeginDestructive(t)
         \/ \E t \in Tables : \E b \in 0 .. tab[t].size - 1 :
              \/ \E v \in Storable[b] : Set(t, b, v)
              \/ \E j \in b + 1 .. tab[t].size : Erase(t, b, j)
              \/ SetFails(t, b) \/ Find(t, b)
         \/ \E t, u \in Tables, clearing \in BOOLEAN :
              \E n \in 0 .. FileLength(tab[u]) : Read(t, u, n, clearing)
         \/ StepForward \/ StepBack \/ EraseHere \/ StepDestructive
         \/ Live /\ \E b \in 0 .. tab[it.tab].size : EraseUpTo(b)
<1>1. Usable \subseteq Tables
  BY DEF Usable
<1>2. \A t : ReadForeign(t) <=> Clear(t)
  BY DEF ReadForeign
<1> QED  BY <1>1, <1>2, Zenon DEF Next

LEMMA NextInv ==
  ASSUME TableInv, [Next]_vars
  PROVE  TableInv'
<1>1. CASE UNCHANGED vars
  BY <1>1 DEF vars, TableInv, IteratorInv, Walked, Here
<1>2. ASSUME NEW t \in Tables, NEW n \in Sizes, Construct(t, n) \/ Renew(t, n) \/ Resize(t, n)
      PROVE  TableInv'
  BY <1>2, ConstructInv, RenewInv, ResizeInv
<1>3. ASSUME NEW t \in Tables, NEW u \in Tables,
             \/ CopyConstruct(t, u) \/ CopyAssign(t, u) \/ MoveConstruct(t, u)
             \/ MoveAssign(t, u) \/ Swap(t, u)
      PROVE  TableInv'
  BY <1>3, CopyConstructInv, CopyAssignInv, MoveConstructInv, MoveAssignInv, SwapInv
<1>4. ASSUME NEW t \in Tables, Clear(t) \/ Begin(t) \/ BeginDestructive(t)
      PROVE  TableInv'
  BY <1>4, ClearInv, BeginInv, BeginDestructiveInv
<1>5. ASSUME NEW t \in Tables, NEW b \in 0 .. tab[t].size - 1,
             \/ \E v \in Storable[b] : Set(t, b, v)
             \/ \E j \in b + 1 .. tab[t].size : Erase(t, b, j)
             \/ SetFails(t, b) \/ Find(t, b)
      PROVE  TableInv'
  <2>1. ASSUME NEW v \in Storable[b], Set(t, b, v) PROVE TableInv'
    BY <2>1, SetInv
  <2>2. ASSUME NEW j, Erase(t, b, j) PROVE TableInv'
    BY <2>2, EraseInv
  <2>3. SetFails(t, b) => TableInv'
    BY SetFailsInv
  <2>4. Find(t, b) => TableInv'
    BY FindInv
  <2> QED  BY <1>5, <2>1, <2>2, <2>3, <2>4
<1>6. ASSUME NEW t \in Tables, NEW u \in Tables, NEW clearing \in BOOLEAN,
             NEW n \in 0 .. FileLength(tab[u]), Read(t, u, n, clearing)
      PROVE  TableInv'
  BY <1>6, ReadInv
<1>7. CASE StepForward \/ StepBack \/ EraseHere \/ StepDestructive
  BY <1>7, StepForwardInv, StepBackInv, EraseHereInv, StepDestructiveInv
<1>8. ASSUME Live, NEW b \in 0 .. tab[it.tab].size, EraseUpTo(b)
      PROVE  TableInv'
  BY <1>8, EraseUpToInv
<1>9. CASE Next
  BY <1>2, <1>3, <1>4, <1>5, <1>6, <1>7, <1>8, <1>9, CallsAndSteps, Zenon
<1> QED  BY <1>1, <1>9

LEMMA SpecInv == Spec => []TableInv
<1>1. TableInv /\ [Next]_vars => TableInv'
  BY NextInv
<1> QED  BY <1>1, InitInv, PTL DEF Spec

(* Every table has the fields of a sparsetable, whatever was done to it,   *)
(* and the counters of the spaces never drop below zero.                   *)
THEOREM TableTypesCorrect == Spec => []TypeOK
<1>1. TableInv => TypeOK
  BY InvImplies
<1> QED  BY <1>1, SpecInv, PTL

(* num_nonempty() of an intact table is the number of its full buckets, it *)
(* has as many groups as its size needs, and no bucket behind the last one *)
(* is full: after any set, erase, resize, copy, move, swap or read.        *)
THEOREM TablesExact == Spec => []NumExact
<1>1. TableInv => NumExact
  BY InvImplies
<1> QED  BY <1>1, SpecInv, PTL

(* The reference count of a memory space is the number of allocators that  *)
(* point to it, and the arrays allocated from it are those of the tables:  *)
(* no array leaks, is given back twice or to another space, or outlives    *)
(* its space, whichever tables share one and in which order they go.       *)
THEOREM SpacesAreOwned == Spec => []SpacesOwned
<1>1. TableInv => SpacesOwned
  BY InvImplies
<1> QED  BY <1>1, SpecInv, PTL

(* An iterator that is not at the end points to a full bucket, and get_pos *)
(* and get_iter lead from one to the other and back.                       *)
THEOREM IteratorsValid == Spec => []IteratorValid
<1>1. TableInv => IteratorValid
  BY InvImplies
<1> QED  BY <1>1, SpecInv, PTL

(* No step of an iterator misses a full bucket or meets one twice: neither *)
(* operator++ nor operator--, nor what erase returns for one iterator or   *)
(* for two, nor the destructive iterator that frees the groups it leaves.  *)
THEOREM SweepsOrdered == Spec => SweepsInOrder
<1>1. ASSUME TableInv, it.kind # "none"
      PROVE  MissesNone
  <2> DEFINE from == Place(Walked, Here)
             to   == Place(Walked', Here')
             Between(f, l) == {b \in FullBuckets(Walked) : f < b /\ b < l}
  <2>1. StepForward \/ EraseHere \/ StepDestructive => Successive(Walked, from, to)
    BY <1>1, StepForwardInv, EraseHereInv, StepDestructiveInv
  <2>2. StepBack => Successive(Walked, to, from)
    BY <1>1, StepBackInv
  <2>3. ASSUME NEW b \in 0 .. tab[it.tab].size, EraseUpTo(b)
        PROVE  /\ to = IF b = tab[it.tab].size THEN Len(Walked) * GroupSize ELSE b
               /\ FullBuckets(Walked') = {c \in FullBuckets(Walked) : c < from \/ to <= c}
    <3>1. Live
      BY <2>3 DEF EraseUpTo
    <3> QED  BY <1>1, <2>3, <3>1, EraseUpToInv
  <2>4. \A f, l : Successive(Walked, f, l) => f < l /\ Between(f, l) = {}
    BY DEF Successive
  <2> HIDE DEF from, to, Between
  <2>5. StepForward \/ EraseHere \/ StepDestructive => from < to /\ Between(from, to) = {}
    BY <2>1, <2>4
  <2>6. StepBack => to < from /\ Between(to, from) = {}
    BY <2>2, <2>4
  <2>7. \A b \in 0 .. tab[it.tab].size :
           EraseUpTo(b) =>
             /\ to = IF b = tab[it.tab].size THEN Len(Walked) * GroupSize ELSE b
             /\ FullBuckets(Walked') = {c \in FullBuckets(Walked) : c < from \/ to <= c}
    BY <2>3
  <2> QED  BY <2>5, <2>6, <2>7, Zenon DEF MissesNone, from, to, Between
<1>2. TableInv => [it.kind # "none" /\ it'.kind # "none" => MissesNone]_vars
  BY <1>1
<1> QED  BY <1>2, SpecInv, PTL DEF SweepsInOrder

-----------------------------------------------------------------------------
(* The arrays that BucketArrays promises.                                  *)

ArrayOf(h) == IF h.intact THEN [b \in 0 .. h.size - 1 |-> CellAt(h.groups, b)] ELSE Lost

LEMMA ArraysAre == Arrays = [t \in Tables |-> ArrayOf(tab[t])]
BY DEF Arrays, ArrayOf

LEMMA ArrayFacts ==
  ASSUME NEW h, Sound(h), h.intact
  PROVE  LET a == ArrayOf(h)
         IN  /\ a = [b \in 0 .. h.size - 1 |-> CellAt(h.groups, b)]
             /\ a # Lost /\ DOMAIN a = 0 .. h.size - 1
             /\ h.size \in Nat
             /\ \A b \in DOMAIN a :
                  /\ b \in Nat /\ b < h.size /\ a[b] = CellAt(h.groups, b)
                  /\ a[b] \in Values \cup {Empty, Erased}
                  /\ a[b] \in Values <=> b \in FullBuckets(h.groups)
                  /\ a[b] \in Values <=> Test(h, b)
<1> DEFINE a == ArrayOf(h)
<1>1. a = [b \in 0 .. h.size - 1 |-> CellAt(h.groups, b)]
  BY DEF ArrayOf
<1>2. h.size \in Nat /\ h.groups \in Seq(GroupType) /\ h.size \in Sizes \cup {0} /\ Exact(h)
  BY SoundFields DEF Sound
<1> HIDE DEF a
<1>3. DOMAIN a = 0 .. h.size - 1
  BY <1>1
<1>4. ASSUME NEW b \in 0 .. h.size - 1
      PROVE  /\ b \in Nat /\ b < h.size /\ a[b] = CellAt(h.groups, b)
             /\ a[b] \in Values \cup {Empty, Erased}
             /\ a[b] \in Values <=> b \in FullBuckets(h.groups)
             /\ a[b] \in Values <=> Test(h, b)
  <2>1. b \in Nat /\ b < h.size /\ a[b] = CellAt(h.groups, b)
    BY <1>1, <1>2
  <2>2. Within(h.groups, b)
    BY <2>1, ExactFull
  <2>3. CellAt(h.groups, b) \in CellType
    BY <1>2, <2>2, CellType1
  <2>4. CellAt(h.groups, b) # Raw
    BY <1>2, <2>2 DEF Exact
  <2>5. b \in FullBuckets(h.groups) <=> CellAt(h.groups, b) \in Values \cup {Raw}
    BY <1>2, <2>2, FullWithin
  <2> QED  BY <2>1, <2>3, <2>4, <2>5 DEF CellType, Test
<1>5. a \in [0 .. h.size - 1 -> Values \cup {Empty, Erased}]
  <2>1. \A b \in 0 .. h.size - 1 : CellAt(h.groups, b) \in Values \cup {Empty, Erased}
    BY <1>4
  <2> QED  BY <1>1, <2>1
<1>6. a # Lost
  BY <1>2, <1>5, TableAssumption DEF TableAssumption
<1> QED  BY <1>1, <1>2, <1>3, <1>4, <1>6 DEF a

LEMMA ArraysBecome ==
  ASSUME TableInv, NEW t \in Tables, NEW k, tab' = [tab EXCEPT ![t] = k]
  PROVE  Arrays' = [Arrays EXCEPT ![t] = ArrayOf(k)]
<1>1. DOMAIN tab = Tables
  BY TableIs
<1>2. Arrays' = [x \in Tables |-> ArrayOf(tab'[x])]
  BY DEF Arrays, ArrayOf
<1>3. \A x \in Tables : tab'[x] = IF x = t THEN k ELSE tab[x]
  BY <1>1
<1>4. Arrays' = [x \in Tables |-> IF x = t THEN ArrayOf(k) ELSE ArrayOf(tab[x])]
  BY <1>2, <1>3
<1> QED  BY <1>4, ArraysAre

LEMMA ArraysBecomeTwo ==
  ASSUME TableInv, NEW t \in Tables, NEW u \in Tables, t # u, NEW k, NEW l,
         tab' = [tab EXCEPT ![t] = k, ![u] = l]
  PROVE  /\ Arrays' = [x \in Tables |-> Arrays'[x]]
         /\ Arrays'[t] = ArrayOf(k) /\ Arrays'[u] = ArrayOf(l)
         /\ \A x \in Tables : x # t /\ x # u => Arrays'[x] = Arrays[x]
<1>1. DOMAIN tab = Tables
  BY TableIs
<1>2. Arrays' = [x \in Tables |-> ArrayOf(tab'[x])]
  BY DEF Arrays, ArrayOf
<1>3. tab'[t] = k /\ tab'[u] = l /\ \A x \in Tables : x # t /\ x # u => tab'[x] = tab[x]
  BY <1>1
<1>4. Arrays'[t] = ArrayOf(k) /\ Arrays'[u] = ArrayOf(l)
  BY <1>2, <1>3, Zenon
<1>5. \A x \in Tables : x # t /\ x # u => ArrayOf(tab'[x]) = ArrayOf(tab[x])
  BY <1>3, Zenon
<1> QED  BY <1>2, <1>4, <1>5, ArraysAre

LEMMA ArraysStay ==
  ASSUME UNCHANGED tab
  PROVE  UNCHANGED Arrays
BY DEF Arrays

(* A table of n empty buckets.                                             *)
LEMMA BlankArray ==
  ASSUME NEW h, Sound(h), h.intact, \A b : Within(h.groups, b) => CellAt(h.groups, b) = Empty
  PROVE  ArrayOf(h) = Abstract!Vacant(h.size) /\ h.size \in Sizes \cup {0}
<1>1. h.size \in Nat /\ h.size \in Sizes \cup {0}
  BY SoundFields
<1>2. \A b \in 0 .. h.size - 1 : CellAt(h.groups, b) = Empty
  <2> TAKE b \in 0 .. h.size - 1
  <2>1. b \in Nat /\ b < h.size
    BY <1>1
  <2> QED  BY <2>1, ExactFull
<1>3. ArrayOf(h) = [b \in 0 .. h.size - 1 |-> Empty]
  BY <1>2, ArrayFacts
<1> QED  BY <1>1, <1>3 DEF Abstract!Vacant

LEMMA ClearedArray ==
  ASSUME NEW h, Sound(h)
  PROVE  ArrayOf(Cleared(h)) = Abstract!Vacant(0)
<1>1. Sound(Cleared(h)) /\ Cleared(h).groups = <<>> /\ Cleared(h).intact /\ Cleared(h).size = 0
  BY ClearedSound
<1>2. \A b : Within(Cleared(h).groups, b) => CellAt(Cleared(h).groups, b) = Empty
  BY <1>1, NoGroups
<1> QED  BY <1>1, <1>2, BlankArray

LEMMA ChangedArray ==
  ASSUME NEW h, Sound(h), h.intact, NEW g, NEW d
  PROVE  ArrayOf(Changed(h, g, d)) = [b \in 0 .. h.size - 1 |-> CellAt(g, b)]
<1> DEFINE k == Changed(h, g, d)
<1>1. k.intact /\ k.size = h.size /\ k.groups = g
  BY ChangedFields
<1> HIDE DEF k
<1>2. ArrayOf(k) = [b \in 0 .. h.size - 1 |-> CellAt(g, b)]
  BY <1>1 DEF ArrayOf
<1> QED  BY <1>2 DEF k

(* The steps of BucketArrays.                                              *)
LEMMA NewStep ==
  ASSUME NEW t \in Tables, NEW n \in Sizes \cup {0}, Arrays' = [Arrays EXCEPT ![t] = Abstract!Vacant(n)]
  PROVE  Abstract!Next
BY DEF Abstract!Next, Abstract!New, Abstract!Becomes

LEMMA LoseStep ==
  ASSUME NEW t \in Tables, Arrays' = [Arrays EXCEPT ![t] = Lost]
  PROVE  Abstract!Next
BY DEF Abstract!Next, Abstract!Lose, Abstract!Becomes

LEMMA KnownIs ==
  ASSUME TableInv, NEW t \in Tables, tab[t].intact
  PROVE  t \in Abstract!Known /\ Arrays[t] = ArrayOf(tab[t]) /\ DOMAIN Arrays = Tables
<1>1. Sound(tab[t])
  BY TableIs
<1>2. Arrays[t] = ArrayOf(tab[t]) /\ DOMAIN Arrays = Tables
  BY ArraysAre
<1>3. ArrayOf(tab[t]) # Lost
  BY <1>1, ArrayFacts
<1> QED  BY <1>2, <1>3 DEF Abstract!Known

LEMMA CopyStep ==
  ASSUME TableInv, NEW t \in Tables, NEW u \in Tables, tab[u].intact, tab' = [tab EXCEPT ![t] = tab[u]]
  PROVE  Abstract!Next
<1> DEFINE k == tab[u]
<1>1. u \in Abstract!Known /\ Arrays[u] = ArrayOf(k)
  BY KnownIs
<1>2. tab' = [tab EXCEPT ![t] = k]
  OBVIOUS
<1> HIDE DEF k
<1>3. Arrays' = [Arrays EXCEPT ![t] = ArrayOf(k)]
  BY <1>2, ArraysBecome
<1>4. Arrays' = [Arrays EXCEPT ![t] = Arrays[u]]
  BY <1>1, <1>3
<1> QED  BY <1>1, <1>4 DEF Abstract!Next, Abstract!Copy, Abstract!Becomes

LEMMA TakeStep ==
  ASSUME NEW t \in Tables, NEW u \in Abstract!Known, t # u,
         Arrays' = [x \in Tables |-> Arrays'[x]],
         Arrays'[t] = Arrays[u], Arrays'[u] = Abstract!Vacant(0),
         \A x \in Tables : x # t /\ x # u => Arrays'[x] = Arrays[x]
  PROVE  Abstract!Next
<1>1. Arrays' = [Arrays EXCEPT ![t] = Arrays[u], ![u] = Abstract!Vacant(0)]
  <2> DEFINE v == Abstract!Vacant(0)
  <2>1. Arrays'[u] = v
    OBVIOUS
  <2> HIDE DEF v
  <2>2. Arrays' = [Arrays EXCEPT ![t] = Arrays[u], ![u] = v]
    BY <2>1, ArraysAre DEF Abstract!Known
  <2> QED  BY <2>2 DEF v
<1> QED  BY <1>1 DEF Abstract!Next, Abstract!Take

LEMMA SwapStep ==
  ASSUME TableInv, NEW t \in Tables, NEW u \in Tables, Swap(t, u)
  PROVE  Abstract!Next
<1> DEFINE k == tab[u]
           l == tab[t]
<1>1. t # u /\ tab[t].intact /\ tab[u].intact /\ tab' = [tab EXCEPT ![t] = k, ![u] = l]
  BY DEF Swap
<1>3. u \in Abstract!Known /\ Arrays[u] = ArrayOf(k)
  BY <1>1, KnownIs
<1>4. Arrays[t] = ArrayOf(l)
  BY <1>1, KnownIs
<1> HIDE DEF k, l
<1>2. /\ Arrays' = [x \in Tables |-> Arrays'[x]]
      /\ Arrays'[t] = ArrayOf(k) /\ Arrays'[u] = ArrayOf(l)
      /\ \A x \in Tables : x # t /\ x # u => Arrays'[x] = Arrays[x]
  BY <1>1, ArraysBecomeTwo
<1>5. Arrays' = [Arrays EXCEPT ![t] = Arrays[u], ![u] = Arrays[t]]
  BY <1>1, <1>2, <1>3, <1>4, ArraysAre
<1> QED  BY <1>3, <1>5 DEF Abstract!Next, Abstract!Swap

(* A table becomes one of n empty buckets.                                 *)
LEMMA VacantStep ==
  ASSUME TableInv, NEW t \in Tables, NEW k, NEW n \in Sizes \cup {0},
         ArrayOf(k) = Abstract!Vacant(n), tab' = [tab EXCEPT ![t] = k]
  PROVE  Abstract!Next
<1>1. Arrays' = [Arrays EXCEPT ![t] = ArrayOf(k)]
  BY ArraysBecome
<1>2. Arrays' = [Arrays EXCEPT ![t] = Abstract!Vacant(n)]
  BY <1>1
<1> QED  BY <1>2, NewStep

LEMMA BlankIs ==
  ASSUME NEW n \in Sizes \cup {0}, NEW a \in Spaces, NEW g \in Spaces
  PROVE  ArrayOf(Blank(n, a, g)) = Abstract!Vacant(n)
<1> DEFINE k == Blank(n, a, g)
<1>1. Sound(k)
  BY BlankSound
<1>2. k.intact
  BY BlankSound
<1>3. k.size = n
  BY BlankSound
<1>4. \A b : Within(k.groups, b) => CellAt(k.groups, b) = Empty
  BY BlankSound, ZenonT(40)
<1> HIDE DEF k
<1>5. ArrayOf(k) = Abstract!Vacant(n)
  BY <1>1, <1>2, <1>3, <1>4, BlankArray
<1> QED  BY <1>5 DEF k

LEMMA ConstructStep ==
  ASSUME TableInv, NEW t \in Tables, NEW n \in Sizes, Construct(t, n)
  PROVE  Abstract!Next
<1>1. PICK s \in Spaces : tab' = [tab EXCEPT ![t] = Blank(n, s, s)]
  BY ConstructInv
<1>2. n \in Sizes \cup {0}
  OBVIOUS
<1>3. ArrayOf(Blank(n, s, s)) = Abstract!Vacant(n)
  BY <1>2, BlankIs
<1> QED  BY <1>1, <1>2, <1>3, VacantStep

LEMMA ClearStep ==
  ASSUME TableInv, NEW t \in Tables, tab' = [tab EXCEPT ![t] = Cleared(tab[t])]
  PROVE  Abstract!Next
<1> DEFINE z == 0
<1>1. ArrayOf(Cleared(tab[t])) = Abstract!Vacant(0)
  BY TableIs, ClearedArray
<1>2. z \in Sizes \cup {0} /\ ArrayOf(Cleared(tab[t])) = Abstract!Vacant(z)
  BY <1>1
<1> HIDE DEF z
<1> QED  BY <1>2, VacantStep

LEMMA RenewStep ==
  ASSUME TableInv, NEW t \in Tables, NEW n \in Sizes, Renew(t, n)
  PROVE  Abstract!Next
<1>1. n \in Sizes \cup {0} /\ tab[t].alloc \in Spaces
  BY TableIs, SoundFields
<1>2. CASE tab' = [tab EXCEPT ![t] = Blank(n, tab[t].alloc, tab[t].alloc)]
  <2>1. ArrayOf(Blank(n, tab[t].alloc, tab[t].alloc)) = Abstract!Vacant(n)
    BY <1>1, BlankIs
  <2> QED  BY <1>1, <1>2, <2>1, VacantStep
<1>3. CASE tab' = [tab EXCEPT ![t] = Cleared(tab[t])]
  BY <1>3, ClearStep
<1> QED  BY <1>2, <1>3, RenewInv

LEMMA MoveConstructStep ==
  ASSUME TableInv, NEW t \in Tables, NEW u \in Tables, MoveConstruct(t, u)
  PROVE  Abstract!Next
<1> DEFINE z == 0
<1>1. t # u /\ tab[u].intact
  BY DEF MoveConstruct
<1>2. PICK s, g \in Spaces : tab' = [tab EXCEPT ![t] = tab[u], ![u] = Blank(0, s, g)]
  BY MoveConstructInv
<1>3. z \in Sizes \cup {0}
  OBVIOUS
<1> HIDE DEF z
<1>4. ArrayOf(Blank(z, s, g)) = Abstract!Vacant(z)
  BY <1>3, BlankIs
<1>5. ArrayOf(Blank(0, s, g)) = Abstract!Vacant(0)
  BY <1>4 DEF z
<1> DEFINE h == tab[u]
           k == Blank(0, s, g)
<1>6. tab' = [tab EXCEPT ![t] = h, ![u] = k]
  BY <1>1, <1>2
<1>7. ArrayOf(k) = Abstract!Vacant(0)
  BY <1>5
<1>8. u \in Abstract!Known /\ Arrays[u] = ArrayOf(h)
  BY <1>1, KnownIs
<1> HIDE DEF h, k
<1>9. /\ Arrays' = [x \in Tables |-> Arrays'[x]]
      /\ Arrays'[t] = ArrayOf(h) /\ Arrays'[u] = ArrayOf(k)
      /\ \A x \in Tables : x # t /\ x # u => Arrays'[x] = Arrays[x]
  BY <1>1, <1>6, ArraysBecomeTwo
<1>10. Arrays'[t] = Arrays[u] /\ Arrays'[u] = Abstract!Vacant(0)
  BY <1>7, <1>8, <1>9
<1> QED  BY <1>1, <1>8, <1>9, <1>10, TakeStep

LEMMA MoveAssignStep ==
  ASSUME TableInv, NEW t \in Tables, NEW u \in Tables, MoveAssign(t, u)
  PROVE  Abstract!Next
<1>1. t # u /\ tab[u].intact
  BY DEF MoveAssign
<1>2. tab' = [tab EXCEPT ![t] = tab[u], ![u] = Cleared(tab[t])]
  BY MoveAssignInv
<1>3. ArrayOf(Cleared(tab[t])) = Abstract!Vacant(0)
  BY TableIs, ClearedArray
<1> DEFINE h == tab[u]
           k == Cleared(tab[t])
<1>6. tab' = [tab EXCEPT ![t] = h, ![u] = k]
  BY <1>1, <1>2
<1>7. ArrayOf(k) = Abstract!Vacant(0)
  BY <1>3
<1>8. u \in Abstract!Known /\ Arrays[u] = ArrayOf(h)
  BY <1>1, KnownIs
<1> HIDE DEF h, k
<1>9. /\ Arrays' = [x \in Tables |-> Arrays'[x]]
      /\ Arrays'[t] = ArrayOf(h) /\ Arrays'[u] = ArrayOf(k)
      /\ \A x \in Tables : x # t /\ x # u => Arrays'[x] = Arrays[x]
  BY <1>1, <1>6, ArraysBecomeTwo
<1>10. Arrays'[t] = Arrays[u] /\ Arrays'[u] = Abstract!Vacant(0)
  BY <1>7, <1>8, <1>9
<1> QED  BY <1>1, <1>8, <1>9, <1>10, TakeStep

(* A table whose cells become those of g.                                  *)
LEMMA CellsStep ==
  ASSUME TableInv, NEW t \in Tables, tab[t].intact, NEW g, NEW d,
         tab' = [tab EXCEPT ![t] = Changed(tab[t], g, d)]
  PROVE  /\ Arrays' = [Arrays EXCEPT ![t] = [x \in DOMAIN Arrays[t] |-> CellAt(g, x)]]
         /\ t \in Abstract!Known /\ DOMAIN Arrays[t] = 0 .. tab[t].size - 1 /\ tab[t].size \in Nat
         /\ Arrays[t] = [x \in DOMAIN Arrays[t] |-> CellAt(tab[t].groups, x)]
         /\ \A x \in DOMAIN Arrays[t] :
              /\ x \in Nat /\ x < tab[t].size /\ Arrays[t][x] = CellAt(tab[t].groups, x)
              /\ Arrays[t][x] \in Values <=> x \in FullBuckets(tab[t].groups)
<1> DEFINE h == tab[t]
           k == Changed(h, g, d)
           a == ArrayOf(h)
<1>1. Sound(h) /\ h.intact
  BY TableIs
<1>2. t \in Abstract!Known /\ Arrays[t] = a
  BY KnownIs
<1>4. tab' = [tab EXCEPT ![t] = k]
  OBVIOUS
<1> HIDE DEF h, a
<1>3. ArrayOf(Changed(h, g, d)) = [x \in 0 .. h.size - 1 |-> CellAt(g, x)]
  BY <1>1, ChangedArray
<1> HIDE DEF k
<1>5. Arrays' = [Arrays EXCEPT ![t] = ArrayOf(k)]
  BY <1>4, ArraysBecome
<1>6. /\ ArrayOf(h) = [x \in 0 .. h.size - 1 |-> CellAt(h.groups, x)]
      /\ DOMAIN ArrayOf(h) = 0 .. h.size - 1
      /\ h.size \in Nat
      /\ \A x \in DOMAIN ArrayOf(h) :
           /\ x \in Nat /\ x < h.size /\ ArrayOf(h)[x] = CellAt(h.groups, x)
           /\ ArrayOf(h)[x] \in Values <=> x \in FullBuckets(h.groups)
  BY <1>1, ArrayFacts
<1>7. Arrays' = [Arrays EXCEPT ![t] = [x \in DOMAIN Arrays[t] |-> CellAt(g, x)]]
  <2>1. DOMAIN Arrays[t] = 0 .. h.size - 1
    BY <1>2, <1>6 DEF a
  <2>2. ArrayOf(k) = [x \in DOMAIN Arrays[t] |-> CellAt(g, x)]
    BY <1>3, <2>1 DEF k
  <2> QED  BY <1>5, <2>2
<1>8. /\ DOMAIN Arrays[t] = 0 .. h.size - 1
      /\ Arrays[t] = [x \in DOMAIN Arrays[t] |-> CellAt(h.groups, x)]
      /\ \A x \in DOMAIN Arrays[t] :
           /\ x \in Nat /\ x < h.size /\ Arrays[t][x] = CellAt(h.groups, x)
           /\ Arrays[t][x] \in Values <=> x \in FullBuckets(h.groups)
  BY <1>2, <1>6 DEF a
<1> QED  BY <1>2, <1>6, <1>7, <1>8 DEF h

LEMMA SetStep ==
  ASSUME TableInv, NEW t \in Tables, NEW b \in 0 .. tab[t].size - 1, NEW v \in Storable[b], Set(t, b, v)
  PROVE  Abstract!Next
<1> DEFINE h == tab[t]
           g == WithCell(h.groups, b, v)
           d == IF Test(h, b) THEN 0 ELSE 1
<1>1. v \in Values /\ tab' = [tab EXCEPT ![t] = Changed(h, g, d)]
  BY SetInv
<1>2. h.intact /\ Sound(h) /\ b \in Nat /\ b < h.size /\ h.size \in Nat
  BY TableIs, SoundFields DEF Set
<1>3. v \in Values \cup {Empty, Erased} /\ d \in Int /\ \/ Test(h, b) /\ d = 0
                                                        \/ ~ Test(h, b) /\ d = 1
  BY <1>1
<1>4. \A x \in Nat : x < h.size => CellAt(g, x) = IF x = b THEN v ELSE CellAt(h.groups, x)
  BY <1>1, <1>2, <1>3, CellSound
<1> HIDE DEF g, d
<1>5. /\ Arrays' = [Arrays EXCEPT ![t] = [x \in DOMAIN Arrays[t] |-> CellAt(g, x)]]
      /\ t \in Abstract!Known /\ DOMAIN Arrays[t] = 0 .. h.size - 1
      /\ Arrays[t] = [x \in DOMAIN Arrays[t] |-> CellAt(h.groups, x)]
      /\ \A x \in DOMAIN Arrays[t] : x \in Nat /\ x < h.size /\ Arrays[t][x] = CellAt(h.groups, x)
  <2>1. tab' = [tab EXCEPT ![t] = Changed(tab[t], g, d)] /\ tab[t].intact
    BY <1>1, <1>2
  <2> QED  BY <2>1, CellsStep
<1> HIDE DEF h
<1>6. b \in DOMAIN Arrays[t]
  BY <1>2, <1>5
<1>7. [x \in DOMAIN Arrays[t] |-> CellAt(g, x)] = [Arrays[t] EXCEPT ![b] = v]
  BY <1>4, <1>5, <1>6
<1>8. Abstract!Set(t, b, v)
  BY <1>5, <1>7 DEF Abstract!Set, Abstract!Becomes
<1> QED  BY <1>1, <1>5, <1>6, <1>8 DEF Abstract!Next

LEMMA SetFailsStep ==
  ASSUME TableInv, NEW t \in Tables, NEW b \in 0 .. tab[t].size - 1, SetFails(t, b)
  PROVE  Abstract!Next \/ UNCHANGED Arrays
<1> DEFINE h == tab[t]
           g == WithCell(h.groups, b, Empty)
           d == 0
<1>1. StorageFails /\ h.intact /\ ~ Test(h, b) /\ tab' = [tab EXCEPT ![t] = Changed(h, g, d)]
  BY SetFailsInv DEF SetFails
<1>2. Sound(h) /\ b \in Nat /\ b < h.size /\ h.size \in Nat
  BY TableIs, SoundFields
<1>3. Empty \notin Values /\ Empty \in Values \cup {Empty, Erased} /\ d \in Int /\ d = 0
  BY GroupAssumption DEF GroupAssumption
<1>4. \A x \in Nat : x < h.size => CellAt(g, x) = IF x = b THEN Empty ELSE CellAt(h.groups, x)
  BY <1>1, <1>2, <1>3, CellSound
<1> HIDE DEF g, d
<1>5. /\ Arrays' = [Arrays EXCEPT ![t] = [x \in DOMAIN Arrays[t] |-> CellAt(g, x)]]
      /\ t \in Abstract!Known /\ DOMAIN Arrays[t] = 0 .. h.size - 1
      /\ Arrays[t] = [x \in DOMAIN Arrays[t] |-> CellAt(h.groups, x)]
      /\ \A x \in DOMAIN Arrays[t] : x \in Nat /\ x < h.size /\ Arrays[t][x] = CellAt(h.groups, x)
  <2>1. tab' = [tab EXCEPT ![t] = Changed(tab[t], g, d)] /\ tab[t].intact
    BY <1>1, <1>2
  <2> QED  BY <2>1, CellsStep
<1>6. CellAt(h.groups, b) \in {Empty, Erased}
  <2>1. DOMAIN ArrayOf(h) = 0 .. h.size - 1
    BY <1>1, <1>2, ArrayFacts
  <2>2. b \in DOMAIN ArrayOf(h)
    BY <1>2, <2>1
  <2>3. /\ ArrayOf(h)[b] = CellAt(h.groups, b) /\ ArrayOf(h)[b] \in Values \cup {Empty, Erased}
        /\ ArrayOf(h)[b] \in Values <=> Test(h, b)
    BY <1>1, <1>2, <2>2, ArrayFacts
  <2> QED  BY <1>1, <2>3
<1> HIDE DEF h
<1>7. b \in DOMAIN Arrays[t]
  BY <1>2, <1>5
<1>8. [x \in DOMAIN Arrays[t] |-> CellAt(g, x)] = [Arrays[t] EXCEPT ![b] = Empty]
  BY <1>4, <1>5, <1>7
<1>9. CASE CellAt(h.groups, b) = Erased
  <2>1. Arrays[t][b] = Erased
    BY <1>5, <1>7, <1>9
  <2>2. Abstract!Forget(t, b)
    BY <1>1, <1>5, <1>8, <2>1 DEF Abstract!Forget, Abstract!Becomes
  <2> QED  BY <1>5, <1>7, <2>2 DEF Abstract!Next
<1>10. CASE CellAt(h.groups, b) = Empty
  <2>1. [Arrays[t] EXCEPT ![b] = Empty] = Arrays[t]
    BY <1>5, <1>7, <1>10
  <2>2. [Arrays EXCEPT ![t] = Arrays[t]] = Arrays
    BY ArraysAre
  <2> QED  BY <1>5, <1>8, <2>1, <2>2
<1> QED  BY <1>6, <1>9, <1>10

(* The values in buckets b up to l are erased.                             *)
LEMMA EraseStep ==
  ASSUME TableInv, NEW t \in Tables, tab[t].intact, NEW b \in 0 .. tab[t].size - 1,
         NEW l \in b + 1 .. tab[t].size, NEW g, NEW d,
         tab' = [tab EXCEPT ![t] = Changed(tab[t], g, d)],
         \A x \in Nat : x < tab[t].size =>
           CellAt(g, x) = IF x \in FullBuckets(tab[t].groups) /\ b <= x /\ x < l THEN Erased
                          ELSE CellAt(tab[t].groups, x)
  PROVE  Abstract!Next
<1> DEFINE h == tab[t]
           old == Arrays[t]
<1>1. /\ Arrays' = [Arrays EXCEPT ![t] = [x \in DOMAIN old |-> CellAt(g, x)]]
      /\ t \in Abstract!Known /\ DOMAIN old = 0 .. h.size - 1 /\ h.size \in Nat
      /\ \A x \in DOMAIN old :
           /\ x \in Nat /\ x < h.size /\ old[x] = CellAt(h.groups, x)
           /\ old[x] \in Values <=> x \in FullBuckets(h.groups)
  BY CellsStep
<1>2. \A x \in Nat : x < h.size =>
        CellAt(g, x) = IF x \in FullBuckets(h.groups) /\ b <= x /\ x < l THEN Erased ELSE CellAt(h.groups, x)
  OBVIOUS
<1>3. b \in 0 .. h.size - 1 /\ l \in b + 1 .. h.size
  OBVIOUS
<1> HIDE DEF h, old
<1>4. b \in DOMAIN old /\ l - 1 \in DOMAIN old /\ (l - 1) + 1 = l
  BY <1>1, <1>3
<1>5. \A x \in DOMAIN old : CellAt(g, x) = IF old[x] \in Values /\ b <= x /\ x < l THEN Erased ELSE old[x]
  BY <1>1, <1>2
<1>6. [x \in DOMAIN old |-> CellAt(g, x)]
        = [x \in DOMAIN old |-> IF old[x] \in Values /\ b <= x /\ x < l THEN Erased ELSE old[x]]
  BY <1>5
<1>7. Abstract!Erase(t, b, l)
  <2>1. Arrays' = [Arrays EXCEPT ![t] =
                     [x \in DOMAIN old |-> IF old[x] \in Values /\ b <= x /\ x < l THEN Erased ELSE old[x]]]
    BY <1>1, <1>6
  <2> QED  BY <2>1 DEF Abstract!Erase, Abstract!Becomes, old
<1>8. \E x, y \in DOMAIN Arrays[t] : Abstract!Erase(t, x, y + 1)
  BY <1>4, <1>7 DEF old
<1> QED  BY <1>1, <1>8 DEF Abstract!Next

LEMMA EraseSpanStep ==
  ASSUME TableInv, NEW t \in Tables, NEW i \in 0 .. tab[t].size - 1, NEW j \in i + 1 .. tab[t].size,
         Erase(t, i, j)
  PROVE  Abstract!Next
<1> DEFINE h == tab[t]
           S == Span(i, j) \cap FullBuckets(h.groups)
           g == Marked(h, S)
           d == - Cardinality(S)
<1>1. h.intact /\ Sound(h) /\ h.size \in Nat /\ S \in SUBSET FullBuckets(h.groups)
  BY TableIs, SoundFields DEF Erase
<1>2. tab' = [tab EXCEPT ![t] = Changed(h, g, d)]
  BY EraseInv
<1>3. \A x \in Nat : x < h.size => CellAt(g, x) = IF x \in S THEN Erased ELSE CellAt(h.groups, x)
  BY <1>1, SpanSound
<1>4. \A x \in Nat : x \in S <=> x \in FullBuckets(h.groups) /\ i <= x /\ x < j
  <2>1. i \in Nat /\ j \in Nat
    BY <1>1
  <2> QED  BY <2>1 DEF Span
<1> HIDE DEF S
<1>5. \A x \in Nat : x < h.size =>
        CellAt(g, x) = IF x \in FullBuckets(h.groups) /\ i <= x /\ x < j THEN Erased
                       ELSE CellAt(h.groups, x)
  BY <1>3, <1>4
<1> HIDE DEF g, d
<1>6. tab' = [tab EXCEPT ![t] = Changed(tab[t], g, d)] /\ tab[t].intact
      /\ \A x \in Nat : x < tab[t].size =>
           CellAt(g, x) = IF x \in FullBuckets(tab[t].groups) /\ i <= x /\ x < j THEN Erased
                          ELSE CellAt(tab[t].groups, x)
  BY <1>1, <1>2, <1>5
<1> HIDE DEF h
<1> QED  BY <1>6, EraseStep

LEMMA EraseHereStep ==
  ASSUME TableInv, EraseHere
  PROVE  Abstract!Next
<1> DEFINE t == it.tab
           h == tab[t]
           b == GetPos(Walked, Here)
           g == WithCell(h.groups, b, Erased)
           d == -1
           l == b + 1
<1>1. /\ t \in Tables /\ Sound(h) /\ h.intact /\ b \in FullBuckets(h.groups)
      /\ tab' = [tab EXCEPT ![t] = Changed(h, g, d)]
  BY EraseHereInv
<1> HIDE DEF t, b
<1>2. b \in Nat /\ b < h.size /\ h.size \in Nat /\ Test(h, b)
  <2>1. h.groups \in Seq(GroupType) /\ h.size \in Nat
    BY <1>1, SoundFields
  <2>2. b \in Nat /\ b < h.size /\ CellAt(h.groups, b) \in Values
    BY <1>1, ExactFull
  <2> QED  BY <2>1, <2>2 DEF Test
<1>3. Erased \notin Values /\ Erased \in Values \cup {Empty, Erased} /\ d \in Int /\ d = -1
  BY GroupAssumption DEF GroupAssumption
<1> HIDE DEF d
<1>4. \A x \in Nat : x < h.size => CellAt(g, x) = IF x = b THEN Erased ELSE CellAt(h.groups, x)
  BY <1>1, <1>2, <1>3, CellSound
<1> HIDE DEF g, h
<1>5. b \in 0 .. h.size - 1 /\ l \in b + 1 .. h.size /\ \A x \in Nat : b <= x /\ x < l <=> x = b
  BY <1>2
<1> HIDE DEF l
<1>6. \A x \in Nat : x < h.size =>
        CellAt(g, x) = IF x \in FullBuckets(h.groups) /\ b <= x /\ x < l THEN Erased
                       ELSE CellAt(h.groups, x)
  BY <1>1, <1>4, <1>5
<1>7. /\ b \in 0 .. tab[t].size - 1 /\ l \in b + 1 .. tab[t].size /\ tab[t].intact
      /\ tab' = [tab EXCEPT ![t] = Changed(tab[t], g, d)]
      /\ \A x \in Nat : x < tab[t].size =>
           CellAt(g, x) = IF x \in FullBuckets(tab[t].groups) /\ b <= x /\ x < l THEN Erased
                          ELSE CellAt(tab[t].groups, x)
  BY <1>1, <1>5, <1>6 DEF h
<1>8. t \in Tables
  BY <1>1
<1> QED  BY <1>7, <1>8, EraseStep, ZenonT(40)

LEMMA EraseUpToStep ==
  ASSUME TableInv, Live, NEW b \in 0 .. tab[it.tab].size, EraseUpTo(b)
  PROVE  Abstract!Next \/ UNCHANGED Arrays
<1> DEFINE t == it.tab
           h == tab[t]
           from == Place(Walked, Here)
<1>1. /\ t \in Tables /\ Sound(h) /\ h.intact /\ from \in FullBuckets(h.groups) /\ from <= b
      /\ \E g, d : /\ tab' = [tab EXCEPT ![t] = Changed(h, g, d)]
                   /\ \A x \in Nat : x < h.size =>
                        CellAt(g, x) = IF x \in FullBuckets(h.groups) /\ from <= x /\ x < b
                                       THEN Erased ELSE CellAt(h.groups, x)
  BY EraseUpToInv
<1>2. PICK g, d : /\ tab' = [tab EXCEPT ![t] = Changed(h, g, d)]
                  /\ \A x \in Nat : x < h.size =>
                       CellAt(g, x) = IF x \in FullBuckets(h.groups) /\ from <= x /\ x < b
                                      THEN Erased ELSE CellAt(h.groups, x)
  BY <1>1
<1>3. b \in Nat /\ b <= h.size /\ h.size \in Nat
  BY <1>1, SoundFields
<1>4. from \in Nat /\ from < h.size
  BY <1>1, ExactFull
<1> HIDE DEF t, from
<1>5. CASE from < b
  <2>1. from \in 0 .. h.size - 1 /\ b \in from + 1 .. h.size
    BY <1>3, <1>4, <1>5
  <2> HIDE DEF h
  <2>2. /\ from \in 0 .. tab[t].size - 1 /\ b \in from + 1 .. tab[t].size /\ tab[t].intact
        /\ tab' = [tab EXCEPT ![t] = Changed(tab[t], g, d)]
        /\ \A x \in Nat : x < tab[t].size =>
             CellAt(g, x) = IF x \in FullBuckets(tab[t].groups) /\ from <= x /\ x < b THEN Erased
                            ELSE CellAt(tab[t].groups, x)
    BY <1>1, <1>2, <2>1 DEF h
  <2>3. t \in Tables
    BY <1>1
  <2>4. Abstract!Next
    BY <2>2, <2>3, EraseStep
  <2> QED  BY <2>4
<1>6. CASE from = b
  <2>1. tab' = [tab EXCEPT ![t] = Changed(tab[t], g, d)] /\ tab[t].intact
    BY <1>1, <1>2
  <2>0. t \in Tables
    BY <1>1
  <2>2. /\ Arrays' = [Arrays EXCEPT ![t] = [x \in DOMAIN Arrays[t] |-> CellAt(g, x)]]
        /\ Arrays[t] = [x \in DOMAIN Arrays[t] |-> CellAt(tab[t].groups, x)]
        /\ \A x \in DOMAIN Arrays[t] : x \in Nat /\ x < tab[t].size
    BY <2>0, <2>1, CellsStep
  <2>3. \A x \in Nat : x < tab[t].size => CellAt(g, x) = CellAt(tab[t].groups, x)
    BY <1>2, <1>3, <1>6
  <2>4. [x \in DOMAIN Arrays[t] |-> CellAt(g, x)] = [x \in DOMAIN Arrays[t] |-> CellAt(tab[t].groups, x)]
    BY <2>2, <2>3
  <2>5. [Arrays EXCEPT ![t] = Arrays[t]] = Arrays
    BY ArraysAre
  <2> QED  BY <2>2, <2>4, <2>5
<1> QED  BY <1>1, <1>3, <1>4, <1>5, <1>6

LEMMA ResizeStep ==
  ASSUME TableInv, NEW t \in Tables, NEW n \in Sizes, Resize(t, n)
  PROVE  Abstract!Next
<1> DEFINE h == tab[t]
           k == [Regrouped(h, ResizedGroups(h.groups, n)) EXCEPT !.size = n]
           old == Arrays[t]
<1>1. Sound(h) /\ h.intact /\ h.size \in Nat /\ n \in Nat /\ h.size <= n
  BY TableIs, SoundFields, SizesAre DEF Resize
<1>2. tab' = [tab EXCEPT ![t] = k]
  BY ResizeInv
<1>3. /\ k.size = n /\ k.intact
      /\ \A b \in Nat : b < n => CellAt(k.groups, b) = IF b < h.size THEN CellAt(h.groups, b) ELSE Empty
  BY <1>1, ResizedSound
<1>4. t \in Abstract!Known /\ old = ArrayOf(h)
  BY <1>1, KnownIs
<1> HIDE DEF k, h
<1>5. Arrays' = [Arrays EXCEPT ![t] = ArrayOf(k)]
  BY <1>2, ArraysBecome
<1>6. ArrayOf(k) = [b \in 0 .. n - 1 |-> CellAt(k.groups, b)]
  BY <1>3 DEF ArrayOf
<1>7. DOMAIN ArrayOf(h) = 0 .. h.size - 1
      /\ \A b \in DOMAIN ArrayOf(h) : b \in Nat /\ b < h.size /\ ArrayOf(h)[b] = CellAt(h.groups, b)
  BY <1>1, ArrayFacts
<1> HIDE DEF old
<1>8. DOMAIN old = 0 .. h.size - 1
      /\ \A b \in DOMAIN old : b \in Nat /\ b < h.size /\ old[b] = CellAt(h.groups, b)
  BY <1>4, <1>7
<1>9. DOMAIN old \subseteq 0 .. n - 1
  BY <1>1, <1>8
<1>10. \A b \in 0 .. n - 1 : CellAt(k.groups, b) = IF b \in DOMAIN old THEN old[b] ELSE Empty
  <2> TAKE b \in 0 .. n - 1
  <2>1. b \in Nat /\ b < n /\ (b \in DOMAIN old <=> b < h.size)
    BY <1>1, <1>8
  <2>2. CellAt(k.groups, b) = IF b < h.size THEN CellAt(h.groups, b) ELSE Empty
    BY <1>3, <2>1
  <2> QED  BY <1>8, <2>1, <2>2
<1>11. ArrayOf(k) = [b \in 0 .. n - 1 |-> IF b \in DOMAIN old THEN old[b] ELSE Empty]
  BY <1>6, <1>10
<1>12. Arrays' = [Arrays EXCEPT ![t] = [b \in 0 .. n - 1 |-> IF b \in DOMAIN old THEN old[b] ELSE Empty]]
  BY <1>5, <1>11
<1>13. Abstract!Resize(t)
  BY <1>9, <1>12 DEF Abstract!Resize, Abstract!Becomes, old
<1> QED  BY <1>4, <1>13 DEF Abstract!Next

(* A table is spoilt.                                                      *)
LEMMA SpoiltStep ==
  ASSUME TableInv, NEW t \in Tables, NEW k, ~ k.intact, tab' = [tab EXCEPT ![t] = k]
  PROVE  Abstract!Next
<1>1. Arrays' = [Arrays EXCEPT ![t] = ArrayOf(k)]
  BY ArraysBecome
<1>2. ArrayOf(k) = Lost
  BY DEF ArrayOf
<1>3. Arrays' = [Arrays EXCEPT ![t] = Lost]
  BY <1>1, <1>2
<1> QED  BY <1>3, LoseStep

LEMMA BeginDestructiveStep ==
  ASSUME TableInv, NEW t \in Tables, BeginDestructive(t)
  PROVE  Abstract!Next
<1>1. PICK g : tab' = [tab EXCEPT ![t] = Spoilt(tab[t], g)] /\ ~ Spoilt(tab[t], g).intact
  BY BeginDestructiveInv
<1> DEFINE k == Spoilt(tab[t], g)
<1>2. tab' = [tab EXCEPT ![t] = k] /\ ~ k.intact
  BY <1>1
<1> HIDE DEF k
<1> QED  BY <1>2, SpoiltStep

LEMMA ReadStep ==
  ASSUME TableInv, NEW t \in Tables, NEW u \in Tables, NEW clearing \in BOOLEAN,
         NEW n \in 0 .. FileLength(tab[u]), Read(t, u, n, clearing)
  PROVE  Abstract!Next
<1> DEFINE c == IF clearing THEN Cleared(tab[t]) ELSE tab[t]
           h == tab[u]
           k == Loaded(c, h, n)
           old == Arrays[u]
<1>1. Sound(c) /\ tab' = [tab EXCEPT ![t] = k]
  BY ReadInv
<1>2. Sound(h) /\ h.intact /\ n \in 0 .. FileLength(h)
  BY TableIs DEF Read
<1>3. u \in Abstract!Known /\ old = ArrayOf(h)
  BY <1>2, KnownIs
<1> HIDE DEF c, h
<1>4. k.intact =>
        /\ k.size = h.size
        /\ \A b \in Nat : b < h.size =>
             CellAt(k.groups, b) = IF CellAt(h.groups, b) = Erased THEN Empty ELSE CellAt(h.groups, b)
  BY <1>1, <1>2, LoadedSound
<1> HIDE DEF k
<1>5. CASE ~ k.intact
  BY <1>1, <1>5, SpoiltStep
<1>6. CASE k.intact
  <2>1. Arrays' = [Arrays EXCEPT ![t] = ArrayOf(k)]
    BY <1>1, ArraysBecome
  <2>2. ArrayOf(k) = [b \in 0 .. h.size - 1 |-> CellAt(k.groups, b)]
    BY <1>4, <1>6 DEF ArrayOf
  <2>3. DOMAIN ArrayOf(h) = 0 .. h.size - 1
        /\ \A b \in DOMAIN ArrayOf(h) : b \in Nat /\ b < h.size /\ ArrayOf(h)[b] = CellAt(h.groups, b)
    BY <1>2, ArrayFacts
  <2> HIDE DEF old
  <2>4. DOMAIN old = 0 .. h.size - 1
        /\ \A b \in DOMAIN old : b \in Nat /\ b < h.size /\ old[b] = CellAt(h.groups, b)
    BY <1>3, <2>3
  <2>5. \A b \in DOMAIN old : CellAt(k.groups, b) = IF old[b] = Erased THEN Empty ELSE old[b]
    BY <1>4, <1>6, <2>4
  <2>6. ArrayOf(k) = [b \in DOMAIN old |-> IF old[b] = Erased THEN Empty ELSE old[b]]
    BY <2>2, <2>4, <2>5
  <2>7. Arrays' = [Arrays EXCEPT ![t] = [b \in DOMAIN old |-> IF old[b] = Erased THEN Empty ELSE old[b]]]
    BY <2>1, <2>6
  <2>8. Abstract!Read(t, u)
    BY <2>7 DEF Abstract!Read, Abstract!Becomes, old
  <2> QED  BY <1>3, <2>8 DEF Abstract!Next
<1> QED  BY <1>5, <1>6

LEMMA StepDestructiveStep ==
  ASSUME TableInv, StepDestructive
  PROVE  UNCHANGED Arrays
<1> DEFINE t == it.tab
<1>1. t \in Tables /\ ~ tab[t].intact /\ \E k : tab' = [tab EXCEPT ![t] = k] /\ ~ k.intact
  BY StepDestructiveInv
<1>2. PICK k : tab' = [tab EXCEPT ![t] = k] /\ ~ k.intact
  BY <1>1
<1> HIDE DEF t
<1>3. Arrays' = [Arrays EXCEPT ![t] = ArrayOf(k)]
  BY <1>1, <1>2, ArraysBecome
<1>4. ArrayOf(k) = Lost /\ ArrayOf(tab[t]) = Lost
  BY <1>1, <1>2 DEF ArrayOf
<1>5. Arrays[t] = Lost
  BY <1>1, <1>4, ArraysAre
<1>6. [Arrays EXCEPT ![t] = Arrays[t]] = Arrays
  BY ArraysAre
<1> QED  BY <1>3, <1>4, <1>5, <1>6

LEMMA InitArrays == Init => Abstract!Init
<1> SUFFICES ASSUME Init
             PROVE  Abstract!Init
  OBVIOUS
<1>1. PICK home \in [Tables -> Spaces] : tab = [t \in Tables |-> Blank(0, home[t], home[t])]
  BY DEF Init
<1>2. \A t \in Tables : ArrayOf(tab[t]) = Abstract!Vacant(0)
  <2> TAKE t \in Tables
  <2> DEFINE z == 0
             s == home[t]
  <2>1. z \in Sizes \cup {0} /\ s \in Spaces
    OBVIOUS
  <2>2. tab[t] = Blank(z, s, s)
    BY <1>1
  <2> HIDE DEF z, s
  <2>3. ArrayOf(Blank(z, s, s)) = Abstract!Vacant(z)
    BY <2>1, BlankIs
  <2> QED  BY <2>2, <2>3 DEF z
<1>3. Arrays = [t \in Tables |-> Abstract!Vacant(0)]
  BY <1>2, ArraysAre
<1> QED  BY <1>3 DEF Abstract!Init

LEMMA NextArrays ==
  ASSUME TableInv, [Next]_vars
  PROVE  Abstract!Next \/ UNCHANGED Arrays
<1>1. CASE UNCHANGED vars
  BY <1>1, ArraysStay DEF vars
<1>2. ASSUME NEW t \in Tables, NEW n \in Sizes, Construct(t, n) \/ Renew(t, n) \/ Resize(t, n)
      PROVE  Abstract!Next
  BY <1>2, ConstructStep, RenewStep, ResizeStep
<1>3. ASSUME NEW t \in Tables, NEW u \in Tables,
             \/ CopyConstruct(t, u) \/ CopyAssign(t, u) \/ MoveConstruct(t, u)
             \/ MoveAssign(t, u) \/ Swap(t, u)
      PROVE  Abstract!Next
  <2>1. CASE CopyConstruct(t, u)
    <3>1. tab[u].intact /\ tab' = [tab EXCEPT ![t] = tab[u]]
      BY <2>1 DEF CopyConstruct
    <3> QED  BY <3>1, CopyStep
  <2>2. CASE CopyAssign(t, u)
    <3>1. tab[u].intact /\ tab' = [tab EXCEPT ![t] = tab[u]]
      BY <2>2 DEF CopyAssign
    <3> QED  BY <3>1, CopyStep
  <2>3. CASE MoveConstruct(t, u)
    BY <2>3, MoveConstructStep
  <2>4. CASE MoveAssign(t, u)
    BY <2>4, MoveAssignStep
  <2>5. CASE Swap(t, u)
    BY <2>5, SwapStep
  <2> QED  BY <1>3, <2>1, <2>2, <2>3, <2>4, <2>5
<1>4. ASSUME NEW t \in Tables, Clear(t) \/ Begin(t) \/ BeginDestructive(t)
      PROVE  Abstract!Next \/ UNCHANGED Arrays
  <2>1. CASE Clear(t)
    <3>1. tab' = [tab EXCEPT ![t] = Cleared(tab[t])]
      BY <2>1, ClearInv
    <3> QED  BY <3>1, ClearStep
  <2>2. CASE Begin(t)
    BY <2>2, ArraysStay DEF Begin
  <2>3. CASE BeginDestructive(t)
    BY <2>3, BeginDestructiveStep
  <2> QED  BY <1>4, <2>1, <2>2, <2>3
<1>5. ASSUME NEW t \in Tables, NEW b \in 0 .. tab[t].size - 1,
             \/ \E v \in Storable[b] : Set(t, b, v)
             \/ \E j \in b + 1 .. tab[t].size : Erase(t, b, j)
             \/ SetFails(t, b) \/ Find(t, b)
      PROVE  Abstract!Next \/ UNCHANGED Arrays
  <2>1. ASSUME NEW v \in Storable[b], Set(t, b, v)
        PROVE  Abstract!Next
    BY <2>1, SetStep
  <2>2. ASSUME NEW j \in b + 1 .. tab[t].size, Erase(t, b, j)
        PROVE  Abstract!Next
    BY <2>2, EraseSpanStep
  <2>3. CASE SetFails(t, b)
    BY <2>3, SetFailsStep
  <2>4. CASE Find(t, b)
    BY <2>4, ArraysStay DEF Find
  <2> QED  BY <1>5, <2>1, <2>2, <2>3, <2>4
<1>6. ASSUME NEW t \in Tables, NEW u \in Tables, NEW clearing \in BOOLEAN,
             NEW n \in 0 .. FileLength(tab[u]), Read(t, u, n, clearing)
      PROVE  Abstract!Next
  BY <1>6, ReadStep
<1>7. CASE StepForward \/ StepBack \/ EraseHere \/ StepDestructive
  <2>1. CASE StepForward
    BY <2>1, ArraysStay DEF StepForward
  <2>2. CASE StepBack
    BY <2>2, ArraysStay DEF StepBack
  <2> QED  BY <1>7, <2>1, <2>2, EraseHereStep, StepDestructiveStep
<1>8. ASSUME Live, NEW b \in 0 .. tab[it.tab].size, EraseUpTo(b)
      PROVE  Abstract!Next \/ UNCHANGED Arrays
  BY <1>8, EraseUpToStep
<1>9. CASE Next
  BY <1>2, <1>3, <1>4, <1>5, <1>6, <1>7, <1>8, <1>9, CallsAndSteps, Zenon
<1> QED  BY <1>1, <1>9

(* A table, as its callers see it, is an array of buckets: every operation *)
(* on the groups, whatever it moves, frees, reads from a file or leaves    *)
(* behind, changes the buckets as BucketArrays says, or not at all.        *)
THEOREM TableImplementsArrays == Spec => ImplementsArrays
<1>1. Init => Abstract!Init
  BY InitArrays
<1>2. TableInv /\ [Next]_vars => [Abstract!Next]_Arrays
  BY NextArrays
<1> QED  BY <1>1, <1>2, SpecInv, PTL DEF Spec, ImplementsArrays, Abstract!Spec
=============================================================================
