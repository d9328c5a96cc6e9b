----------------------- MODULE SparseHashtableProofs -----------------------
(***************************************************************************)
(* Theorems about SparseHashtable, for any tables, elements, hash function *)
(* and bucket counts that satisfy its assumptions.                         *)
(***************************************************************************)
EXTENDS SparseHashtable, FiniteSetTheorems, SequenceTheorems, TLAPS

-----------------------------------------------------------------------------
(* Tables.                                                                 *)

(* A well-formed table whose two counters are right.                       *)
Sound(h) == TableType(h) /\ Counted(h)

LEMMA ScaledType ==
  ASSUME NEW sz \in Nat, NEW pct \in Percent
  PROVE  Scaled(sz, pct) \in Nat
BY DEF Scaled, Percent

LEMMA BucketCountType == BucketCounts \subseteq Nat \ {0}
BY SizesAssumption DEF SizesAssumption

LEMMA TableFacts ==
  ASSUME NEW h, TableType(h)
  PROVE  /\ h.size \in BucketCounts /\ h.size \in Nat /\ h.size > 0
         /\ h.cells \in [Buckets(h) -> Cell]
         /\ h.items \in Nat /\ h.deleted \in Nat
         /\ h.shrink \in Percent /\ h.grow \in Percent
BY BucketCountType DEF TableType, Buckets

LEMMA RetypedTable ==
  ASSUME NEW h, TableType(h), NEW c \in [Buckets(h) -> Cell], NEW i \in Nat, NEW d \in Nat
  PROVE  TableType([h EXCEPT !.cells = c, !.items = i, !.deleted = d])
BY DEF TableType, Buckets

LEMMA BucketSetsFinite ==
  ASSUME NEW h, TableType(h)
  PROVE  /\ IsFiniteSet(Buckets(h)) /\ IsFiniteSet(Full(h)) /\ IsFiniteSet(Marks(h))
         /\ Cardinality(Full(h)) \in Nat /\ Cardinality(Marks(h)) \in Nat
<1>1. IsFiniteSet(Buckets(h))
  BY TableFacts, FS_Interval DEF Buckets
<1>2. IsFiniteSet(Full(h)) /\ IsFiniteSet(Marks(h))
  BY <1>1, FS_Subset DEF Full, Marks
<1> QED  BY <1>1, <1>2, FS_CardinalityType

LEMMA FreshSound ==
  ASSUME NEW sz \in BucketCounts, NEW s \in Percent, NEW g \in Percent
  PROVE  LET h == Fresh(sz, s, g)
         IN  Sound(h) /\ Full(h) = {} /\ Marks(h) = {}
<1> DEFINE h == Fresh(sz, s, g)
<1>1. sz \in Nat
  BY BucketCountType
<1>2. TableType(h)
  BY <1>1, ScaledType DEF Fresh, TableType, Cell
<1>3. Full(h) = {} /\ Marks(h) = {}
  BY MarkersAssumption DEF Fresh, Full, Marks, Buckets, MarkersAssumption
<1> QED  BY <1>2, <1>3, FS_EmptySet DEF Sound, Counted, Fresh

LEMMA ResetSound ==
  ASSUME NEW h, Sound(h)
  PROVE  /\ Sound(ResetThresholds(h))
         /\ Full(ResetThresholds(h)) = Full(h) /\ Marks(ResetThresholds(h)) = Marks(h)
<1>1. TableType(ResetThresholds(h))
  BY TableFacts, ScaledType DEF Sound, ResetThresholds, TableType
<1>2. /\ Full(ResetThresholds(h)) = Full(h) /\ Marks(ResetThresholds(h)) = Marks(h)
      /\ ResetThresholds(h).items = h.items /\ ResetThresholds(h).deleted = h.deleted
  BY DEF Sound, TableType, ResetThresholds, Full, Marks, Buckets
<1> QED  BY <1>1, <1>2 DEF Sound, Counted

(* What a write to one bucket does to the sets of full and erased buckets. *)
LEMMA WriteElement ==
  ASSUME NEW h, TableType(h), NEW g, TableType(g), NEW b \in Buckets(h), NEW e \in Elements,
         g.size = h.size, g.cells = [h.cells EXCEPT ![b] = e]
  PROVE  Full(g) = Full(h) \cup {b} /\ Marks(g) = Marks(h) \ {b}
BY TableFacts, MarkersAssumption DEF Full, Marks, Buckets, MarkersAssumption

LEMMA InsertSound ==
  ASSUME NEW h, Sound(h), NEW b \in Buckets(h), h.cells[b] \notin Elements,
         NEW e \in Elements
  PROVE  Sound(InsertAt(h, b, e))
<1> DEFINE g == InsertAt(h, b, e)
<1>1. /\ IsFiniteSet(Full(h)) /\ IsFiniteSet(Marks(h))
      /\ Cardinality(Full(h)) \in Nat /\ Cardinality(Marks(h)) \in Nat
  BY BucketSetsFinite DEF Sound
<1>2. b \notin Full(h) /\ (b \in Marks(h) <=> h.cells[b] = Erased)
  BY DEF Full, Marks
<1>3. Cardinality(Full(h) \cup {b}) = h.items + 1
  BY <1>1, <1>2, FS_AddElement, ZenonT(40) DEF Sound, Counted
<1>4. Cardinality(Marks(h) \ {b}) = IF h.cells[b] = Erased THEN h.deleted - 1 ELSE h.deleted
  BY <1>1, <1>2, FS_RemoveElement, ZenonT(40) DEF Sound, Counted
<1>5. Cardinality(Marks(h) \ {b}) \in Nat
  BY <1>1, FS_RemoveElement, FS_CardinalityType
<1>6. TableType(g)
  <2> DEFINE d == IF h.cells[b] = Erased THEN h.deleted - 1 ELSE h.deleted
             c == [h.cells EXCEPT ![b] = e]
  <2>1. d \in Nat
    BY <1>4, <1>5
  <2>2. c \in [Buckets(h) -> Cell]
    BY TableFacts DEF Sound, Cell
  <2>3. g = [h EXCEPT !.cells = c, !.items = h.items + 1, !.deleted = d]
    BY DEF InsertAt
  <2>4. TableType(h) /\ h.items + 1 \in Nat
    BY TableFacts DEF Sound
  <2> HIDE DEF c, d, g
  <2> QED  BY <2>1, <2>2, <2>3, <2>4, RetypedTable
<1>7. g.size = h.size /\ g.cells = [h.cells EXCEPT ![b] = e] /\ g.items = h.items + 1
      /\ g.deleted = IF h.cells[b] = Erased THEN h.deleted - 1 ELSE h.deleted
  BY DEF Sound, TableType, InsertAt
<1>8. Full(g) = Full(h) \cup {b} /\ Marks(g) = Marks(h) \ {b}
  BY <1>6, <1>7, WriteElement DEF Sound
<1> QED  BY <1>3, <1>4, <1>6, <1>7, <1>8 DEF Sound, Counted

LEMMA PutSound ==
  ASSUME NEW h, Sound(h), Marks(h) = {}, NEW b \in Buckets(h), h.cells[b] \notin Elements,
         NEW e \in Elements
  PROVE  Sound(PutAt(h, b, e)) /\ Marks(PutAt(h, b, e)) = {}
<1> DEFINE g == PutAt(h, b, e)
           c == [h.cells EXCEPT ![b] = e]
<1>1. TableType(h) /\ h.items + 1 \in Nat /\ h.deleted \in Nat
  BY TableFacts DEF Sound
<1>2. c \in [Buckets(h) -> Cell]
  BY TableFacts DEF Sound, Cell
<1>3. TableType(g)
  <2>1. g = [h EXCEPT !.cells = c, !.items = h.items + 1, !.deleted = h.deleted]
    BY DEF PutAt, Sound, TableType
  <2> HIDE DEF c, g
  <2> QED  BY <1>1, <1>2, <2>1, RetypedTable
<1>4. g.size = h.size /\ g.cells = c /\ g.items = h.items + 1 /\ g.deleted = h.deleted
  BY DEF Sound, TableType, PutAt
<1>5. Full(g) = Full(h) \cup {b} /\ Marks(g) = Marks(h) \ {b}
  BY <1>3, <1>4, WriteElement DEF Sound
<1>6. Cardinality(Full(h) \cup {b}) = h.items + 1
  BY BucketSetsFinite, FS_AddElement, ZenonT(40) DEF Sound, Counted, Full
<1> QED  BY <1>3, <1>4, <1>5, <1>6 DEF Sound, Counted

LEMMA EraseSound ==
  ASSUME NEW h, Sound(h), NEW S \in SUBSET Full(h)
  PROVE  Sound(EraseAll(h, S))
<1> DEFINE g == EraseAll(h, S)
           c == [b \in Buckets(h) |-> IF b \in S THEN Erased ELSE h.cells[b]]
           n == Cardinality(S)
<1>1. /\ TableType(h) /\ IsFiniteSet(Full(h)) /\ IsFiniteSet(Marks(h))
      /\ h.items = Cardinality(Full(h)) /\ h.deleted = Cardinality(Marks(h))
      /\ h.items \in Nat /\ h.deleted \in Nat
  BY BucketSetsFinite, TableFacts DEF Sound, Counted
<1>2. IsFiniteSet(S) /\ n \in Nat /\ n <= h.items
  BY <1>1, FS_Subset, FS_CardinalityType
<1>3. c \in [Buckets(h) -> Cell]
  BY TableFacts DEF Sound, Cell
<1>4. g = [[h EXCEPT !.cells = c, !.items = h.items - n, !.deleted = h.deleted + n]
             EXCEPT !.consider = TRUE]
  BY DEF EraseAll, Sound, TableType
<1>5. TableType(g)
  <2>1. h.items - n \in Nat /\ h.deleted + n \in Nat
    BY <1>1, <1>2
  <2>2. TableType([h EXCEPT !.cells = c, !.items = h.items - n, !.deleted = h.deleted + n])
    <3> HIDE DEF c, n
    <3> QED  BY <1>1, <1>3, <2>1, RetypedTable
  <2> QED  BY <1>4, <2>2 DEF TableType
<1>6. /\ g.size = h.size /\ g.cells = c
      /\ g.items = h.items - n /\ g.deleted = h.deleted + n
  BY DEF Sound, TableType, EraseAll
<1>7. Full(g) = Full(h) \ S /\ Marks(g) = Marks(h) \cup S /\ Marks(h) \cap S = {}
  BY <1>6, MarkersAssumption DEF Full, Marks, Buckets, MarkersAssumption
<1>8. Cardinality(Full(h) \ S) = h.items - n
  <2>1. Full(h) \cap S = S
    OBVIOUS
  <2>2. Cardinality(Full(h) \ S) = Cardinality(Full(h)) - Cardinality(Full(h) \cap S)
    BY <1>1, FS_Difference
  <2> QED  BY <1>1, <2>1, <2>2
<1>9. Cardinality(Marks(h) \cup S) = h.deleted + n
  BY <1>1, <1>2, <1>7, FS_Union, FS_EmptySet
<1> QED  BY <1>5, <1>6, <1>7, <1>8, <1>9 DEF Sound, Counted

(* What is read is sound: the marks of the source are gone, and so is the  *)
(* count of them.                                                          *)
LEMMA ReloadedSound ==
  ASSUME NEW h, Sound(h), NEW u, Sound(u)
  PROVE  Sound(Reloaded(h, u))
<1> DEFINE c == Written(u)
           g == [h EXCEPT !.size = u.size, !.cells = c, !.items = u.items, !.deleted = 0]
<1>1. TableType(h) /\ TableType(u) /\ u.items = Cardinality(Full(u)) /\ u.items \in Nat
  BY TableFacts DEF Sound, Counted
<1>2. c \in [0 .. u.size - 1 -> Cell] /\ u.size \in BucketCounts
  BY <1>1, TableFacts DEF Written, Cell, Buckets
<1>3. TableType(g)
  <2> HIDE DEF c
  <2> QED  BY <1>1, <1>2 DEF TableType
<1>4. g.size = u.size /\ g.cells = c /\ g.items = u.items /\ g.deleted = 0
  BY <1>1 DEF TableType
<1>5. Full(g) = Full(u) /\ Marks(g) = {}
  <2> HIDE DEF g
  <2> QED  BY <1>4, MarkersAssumption DEF Full, Marks, Buckets, Written, MarkersAssumption
<1>6. Sound(g)
  <2> HIDE DEF g
  <2> QED  BY <1>1, <1>3, <1>4, <1>5, FS_EmptySet DEF Sound, Counted
<1> QED  BY <1>6, ResetSound DEF Reloaded

LEMMA OverwriteSound ==
  ASSUME NEW h, Sound(h), NEW b \in Full(h), NEW e \in Elements
  PROVE  Sound([h EXCEPT !.cells = [@ EXCEPT ![b] = e]])
<1> DEFINE c == [h.cells EXCEPT ![b] = e]
           g == [h EXCEPT !.cells = c]
<1>1. TableType(h) /\ h.items \in Nat /\ h.deleted \in Nat /\ b \in Buckets(h)
  BY TableFacts DEF Sound, Full
<1>2. c \in [Buckets(h) -> Cell]
  BY TableFacts DEF Sound, Cell
<1>3. TableType(g)
  <2>1. g = [h EXCEPT !.cells = c, !.items = h.items, !.deleted = h.deleted]
    BY DEF Sound, TableType
  <2> HIDE DEF c, g
  <2> QED  BY <1>1, <1>2, <2>1, RetypedTable
<1>4. g.size = h.size /\ g.cells = c /\ g.items = h.items /\ g.deleted = h.deleted
  BY DEF Sound, TableType
<1>5. Full(g) = Full(h) /\ Marks(g) = Marks(h)
  <2>1. b \notin Marks(h)
    BY MarkersAssumption DEF Full, Marks, MarkersAssumption
  <2>2. Full(g) = Full(h) \cup {b} /\ Marks(g) = Marks(h) \ {b}
    <3>1. TableType(h) /\ b \in Buckets(h) /\ g.cells = [h.cells EXCEPT ![b] = e]
      BY <1>1, <1>4
    <3> HIDE DEF g, c
    <3> QED  BY <1>3, <1>4, <3>1, WriteElement
  <2> QED  BY <2>1, <2>2
<1> QED  BY <1>3, <1>4, <1>5 DEF Sound, Counted

LEMMA NothingThere ==
  ASSUME NEW h, Sound(h)
  PROVE  /\ h.items = 0 <=> Full(h) = {}
         /\ h.deleted = 0 <=> Marks(h) = {}
BY BucketSetsFinite, FS_EmptySet DEF Sound, Counted

LEMMA ClearedSound ==
  ASSUME NEW h, Sound(h)
  PROVE  Sound(Cleared(h)) /\ Full(Cleared(h)) = {} /\ Marks(Cleared(h)) = {}
<1>1. CASE h.items # 0 \/ h.deleted # 0
  <2>1. DefaultBuckets \in BucketCounts /\ h.shrink \in Percent /\ h.grow \in Percent
    BY TableFacts, SizesAssumption DEF Sound, SizesAssumption
  <2> QED  BY <1>1, <2>1, FreshSound DEF Cleared
<1>2. CASE h.items = 0 /\ h.deleted = 0
  BY <1>2, NothingThere, ResetSound DEF Cleared
<1> QED  BY <1>1, <1>2

(* The target of a copy assignment, as long as it is not one that was      *)
(* emptied by erase while the source has no marks.                         *)
LEMMA AssignBaseSound ==
  ASSUME NEW h, Sound(h), NEW u, Sound(u), Marks(h) = {} \/ h.items # 0 \/ u.deleted # 0
  PROVE  /\ Sound(AssignBase(h, u))
         /\ Full(AssignBase(h, u)) = {} /\ Marks(AssignBase(h, u)) = {}
<1> DEFINE g == [h EXCEPT !.shrink = u.shrink, !.grow = u.grow, !.deleted = u.deleted]
<1>1. /\ g.size = h.size /\ g.cells = h.cells /\ g.items = h.items
      /\ g.deleted = u.deleted /\ g.shrink = u.shrink /\ g.grow = u.grow
  BY DEF Sound, TableType
<1>2. TableType(g)
  BY TableFacts DEF Sound, TableType
<1>3. CASE h.items # 0 \/ u.deleted # 0
  <2>1. AssignBase(h, u) = Fresh(DefaultBuckets, u.shrink, u.grow)
    BY <1>1, <1>3 DEF AssignBase, Cleared
  <2> QED  BY <2>1, FreshSound, TableFacts, SizesAssumption DEF Sound, SizesAssumption
<1>4. CASE h.items = 0 /\ u.deleted = 0
  <2>1. Marks(h) = {} /\ h.deleted = 0
    BY <1>4, NothingThere
  <2>2. Sound(g) /\ Marks(g) = {}
    BY <1>1, <1>2, <1>4, <2>1 DEF Sound, Counted, Full, Marks, Buckets
  <2> QED  BY <2>2, ClearedSound DEF AssignBase
<1> QED  BY <1>3, <1>4

LEMMA ExtendedSound ==
  ASSUME NEW h, Sound(h), Marks(h) = {}, NEW sz \in BucketCounts
  PROVE  /\ Sound(Extended(h, sz))
         /\ Full(Extended(h, sz)) = Full(h) /\ Marks(Extended(h, sz)) = {}
<1>1. CASE sz <= h.size
  BY <1>1 DEF Extended
<1>2. CASE ~ (sz <= h.size)
  <2> DEFINE c == [b \in 0 .. sz - 1 |-> IF b < h.size THEN h.cells[b] ELSE Empty]
             g == [h EXCEPT !.size = sz, !.cells = c]
  <2>1. sz \in Nat /\ h.size \in Nat /\ sz > h.size
    BY <1>2, BucketCountType, TableFacts DEF Sound
  <2>2. c \in [0 .. sz - 1 -> Cell]
    BY <2>1, TableFacts DEF Sound, Cell, Buckets
  <2>3. TableType(g)
    BY <2>2 DEF Sound, TableType
  <2>4. g.size = sz /\ g.cells = c /\ g.items = h.items /\ g.deleted = h.deleted
    BY DEF Sound, TableType
  <2>5. Full(g) = Full(h) /\ Marks(g) = {}
    BY <2>1, <2>4, MarkersAssumption DEF Full, Marks, Buckets, MarkersAssumption
  <2>6. Sound(g)
    BY <2>3, <2>4, <2>5 DEF Sound, Counted
  <2>7. Extended(h, sz) = ResetThresholds(g)
    BY <1>2 DEF Extended
  <2> QED  BY <2>5, <2>6, <2>7, ResetSound
<1> QED  BY <1>1, <1>2

-----------------------------------------------------------------------------
(* The inductive invariant.  Beyond TypeOK and CountsExact it says that    *)
(* the temporary table is sound and free of marks, which is what lets a    *)
(* rehash ignore num_deleted, that a call places elements only if it has   *)
(* some, and that the bucket find_or_insert remembers holds no element.    *)

TabsSound ==
  /\ tab = [t \in Tables |-> tab[t]]
  /\ \A t \in Tables : Sound(tab[t])

TmpSound == Sound(tmp) /\ Marks(tmp) = {}

SpotFree ==
  call.spot # ILLEGAL_BUCKET =>
    /\ pc \in {"shrink", "delta", "place"}
    /\ call.spot \in Buckets(tab[call.tab])
    /\ tab[call.tab].cells[call.spot] \notin Elements

CallSound ==
  /\ call \in CallType
  /\ pc \in {"idle", "shrink", "delta", "rehash", "place"}
  /\ pc = "idle" => call = NoCall
  /\ pc = "place" \/ call.next = "place" => call.todo # <<>>
  /\ SpotFree

CountInv == TabsSound /\ TmpSound /\ CallSound

LEMMA CountInvImplies == CountInv => TypeOK /\ CountsExact /\ AssertionHolds
BY DEF AssertionHolds, CountInv, TabsSound, TmpSound, CallSound, TypeOK, CountsExact, Sound

LEMMA NoCallType == NoCall \in CallType /\ NoCall.spot = ILLEGAL_BUCKET /\ NoCall.next = "idle"
<1>1. AnyTable \in Tables
  BY TablesAssumption DEF TablesAssumption, AnyTable
<1> QED  BY <1>1 DEF NoCall, CallType, ILLEGAL_BUCKET

LEMMA NoTmpSound == Sound(NoTmp) /\ Marks(NoTmp) = {}
<1>1. 0 \in Percent /\ MinBuckets \in BucketCounts
  BY SizesAssumption DEF SizesAssumption, Percent
<1> QED  BY <1>1, FreshSound DEF NoTmp

(* A call that has returned leaves nothing behind but its table.           *)
LEMMA ReturnedSound == Returned => TmpSound' /\ CallSound'
BY NoCallType, NoTmpSound DEF Returned, TmpSound, CallSound, SpotFree, Marks, Buckets

(* Calls of one step leave the program idle.                               *)
LEMMA AtomicSound == CountInv /\ Atomic => TmpSound' /\ CallSound'
<1> SUFFICES ASSUME CountInv, Atomic PROVE TmpSound' /\ CallSound'
  OBVIOUS
<1>1. TmpSound' /\ call' = NoCall /\ pc' = "idle"
  BY DEF CountInv, Atomic, TmpSound, CallSound, Marks, Buckets
<1> QED  BY <1>1, NoCallType DEF CallSound, SpotFree

LEMMA TabUpdate ==
  ASSUME TabsSound, NEW t \in Tables, NEW g, Sound(g), tab' = [tab EXCEPT ![t] = g]
  PROVE  TabsSound' /\ tab'[t] = g
BY DEF TabsSound

LEMMA TabUnchanged == TabsSound /\ UNCHANGED tab => TabsSound'
BY DEF TabsSound

-----------------------------------------------------------------------------
(* Every step preserves the invariant.                                     *)

LEMMA InitSound == Init => CountInv
<1> SUFFICES ASSUME Init PROVE CountInv
  OBVIOUS
<1>1. InitialSizes \subseteq BucketCounts
  BY SizesAssumption DEF InitialSizes, SizesAssumption
<1>2. DefaultFactors.shrink \in Percent /\ DefaultFactors.grow \in Percent
  BY FactorsAssumption DEF FactorsAssumption
<1>3. TabsSound
  <2>1. \A sz \in InitialSizes : Sound(Fresh(sz, DefaultFactors.shrink, DefaultFactors.grow))
    BY <1>1, <1>2, FreshSound
  <2> QED  BY <2>1 DEF Init, TabsSound
<1>4. TmpSound /\ CallSound
  BY NoTmpSound, NoCallType DEF Init, TmpSound, CallSound, SpotFree
<1> QED  BY <1>3, <1>4 DEF CountInv

(* Steps that return, or that only move on to another pc.                  *)
LEMMA MovesOn ==
  ASSUME CountInv, UNCHANGED <<tab, tmp, call>>, pc # "rehash",
         \/ pc' = "delta" /\ pc = "shrink"
         \/ pc' = "place" /\ call.todo # <<>> /\ pc \in {"shrink", "delta"}
  PROVE  CountInv'
<1>1. TabsSound' /\ TmpSound'
  BY DEF CountInv, TabsSound, TmpSound
<1>2. CallSound'
  BY DEF CountInv, CallSound, SpotFree, Buckets
<1> QED  BY <1>1, <1>2 DEF CountInv

LEMMA BeginSound ==
  ASSUME CountInv, NEW t \in Tables, NEW todo \in Seq(Elements), NEW delta \in Nat,
         NEW spot \in Nat \cup {ILLEGAL_BUCKET}, NEW next \in {"idle", "delta"},
         Begin(t, todo, delta, spot, next),
         pc' \in {"shrink", "delta"},
         spot # ILLEGAL_BUCKET =>
           spot \in Buckets(tab[t]) /\ tab[t].cells[spot] \notin Elements
  PROVE  CountInv'
<1>1. TabsSound' /\ TmpSound'
  BY DEF CountInv, TabsSound, TmpSound, Begin, Marks, Buckets
<1>2. /\ call' \in CallType
      /\ call'.tab = t /\ call'.spot = spot /\ call'.next = next
  BY NoCallType DEF Begin, CallType
<1>3. CallSound'
  BY <1>2 DEF CallSound, SpotFree, Begin, Buckets
<1> QED  BY <1>1, <1>3 DEF CountInv

LEMMA InsertStep == ASSUME CountInv, NEW t \in Tables, NEW todo \in Inserts, Insert(t, todo)
                    PROVE  CountInv'
<1>1. todo \in Seq(Elements) /\ Len(todo) \in Nat
  BY ElementsAssumption DEF ElementsAssumption
<1> QED  BY <1>1, BeginSound DEF Insert

LEMMA FindOrInsertStep == ASSUME CountInv, NEW t \in Tables, NEW k \in Keys, FindOrInsert(t, k)
                          PROVE  CountInv'
<1>1. PICK b \in Buckets(tab[t]) :
        /\ VacantAt(tab[t], k, b)
        /\ Begin(t, <<DefaultOf[k]>>, 1, b, "delta")
        /\ pc' = IF tab[t].consider THEN "shrink" ELSE "delta"
  BY DEF FindOrInsert
<1>2. tab[t].cells[b] \notin Elements
  BY <1>1, MarkersAssumption DEF VacantAt, MarkersAssumption
<1>3. b \in Nat
  BY TableFacts DEF CountInv, TabsSound, Sound, Buckets
<1>4. <<DefaultOf[k]>> \in Seq(Elements)
  BY ElementsAssumption DEF ElementsAssumption
<1> QED  BY <1>1, <1>2, <1>3, <1>4, BeginSound

LEMMA ResizeStep == ASSUME CountInv, NEW t \in Tables, NEW n \in Requests, Resize(t, n)
                    PROVE  CountInv'
<1> DEFINE grows == n > tab[t].items
           delta == IF grows THEN n - tab[t].items ELSE 0
<1>1. delta \in Nat
  BY TableFacts, SizesAssumption DEF CountInv, TabsSound, Sound, SizesAssumption
<1>2. /\ Begin(t, <<>>, delta, ILLEGAL_BUCKET, IF grows THEN "delta" ELSE "idle")
      /\ pc' \in {"shrink", "delta"}
  BY DEF Resize
<1>3. <<>> \in Seq(Elements)
  OBVIOUS
<1> HIDE DEF grows, delta
<1> QED  BY <1>1, <1>2, <1>3, BeginSound

LEMMA StartRehashSound ==
  ASSUME CountInv, pc # "idle", NEW sz \in BucketCounts, NEW next \in {"idle", "delta", "place"},
         StartRehash(sz, next), next = "place" => call.todo # <<>>
  PROVE  CountInv'
<1> DEFINE h == tab[call.tab]
<1>1. call \in CallType /\ call.tab \in Tables /\ Sound(h)
  BY DEF CountInv, CallSound, TabsSound, CallType
<1>2. TabsSound'
  BY TabUnchanged DEF CountInv, StartRehash
<1>3. TmpSound'
  <2>1. Sound(Fresh(sz, h.shrink, h.grow)) /\ Marks(Fresh(sz, h.shrink, h.grow)) = {}
    BY <1>1, FreshSound, TableFacts DEF Sound
  <2> QED  BY <2>1 DEF StartRehash, TmpSound
<1>4. CallSound'
  <2>1. call' \in CallType /\ call'.spot = ILLEGAL_BUCKET /\ call'.next = next /\ call'.todo = call.todo
    BY <1>1 DEF StartRehash, CallType
  <2> QED  BY <2>1 DEF StartRehash, CallSound, SpotFree
<1> QED  BY <1>2, <1>3, <1>4 DEF CountInv

LEMMA ShrinkTableStep == CountInv /\ ShrinkTable => CountInv'
<1> SUFFICES ASSUME CountInv, ShrinkTable PROVE CountInv'
  OBVIOUS
<1>1. PICK to \in BucketCounts : StartRehash(to, call.next)
  BY DEF ShrinkTable
<1>2. /\ call.next \in {"idle", "delta", "place"} /\ pc # "idle"
      /\ call.next = "place" => call.todo # <<>>
  BY DEF CountInv, CallSound, CallType, ShrinkTable
<1> QED  BY <1>1, <1>2, StartRehashSound

LEMMA GrowTableStep == CountInv /\ GrowTable => CountInv'
<1> SUFFICES ASSUME CountInv, GrowTable PROVE CountInv'
  OBVIOUS
<1> DEFINE next == IF call.todo = <<>> THEN "idle" ELSE "place"
<1>1. PICK to \in BucketCounts : StartRehash(to, next)
  BY DEF GrowTable
<1>2. next \in {"idle", "place"} /\ pc # "idle" /\ (next = "place" => call.todo # <<>>)
  BY DEF GrowTable
<1> HIDE DEF next
<1> QED  BY <1>1, <1>2, StartRehashSound

LEMMA SkipShrinkStep == CountInv /\ SkipShrink => CountInv'
<1> SUFFICES ASSUME CountInv, SkipShrink PROVE CountInv'
  OBVIOUS
<1> DEFINE h == tab[call.tab]
           g == [h EXCEPT !.consider = FALSE]
<1>1. call \in CallType /\ call.tab \in Tables /\ Sound(h)
  BY DEF CountInv, CallSound, TabsSound, CallType
<1>2. /\ Sound(g) /\ Buckets(g) = Buckets(h) /\ g.cells = h.cells
  BY <1>1 DEF Sound, TableType, Counted, Full, Marks, Buckets
<1>3. tab' = [tab EXCEPT ![call.tab] = g]
  BY DEF SkipShrink
<1>4. TabsSound' /\ tab'[call.tab] = g
  <2> HIDE DEF g
  <2> QED  BY <1>1, <1>2, <1>3, TabUpdate DEF CountInv
<1>5. CASE call.next = "idle"
  BY <1>4, <1>5, ReturnedSound DEF SkipShrink, CountInv
<1>6. CASE call.next # "idle"
  <2>1. pc' = call.next /\ UNCHANGED <<tmp, call>>
    BY <1>6 DEF SkipShrink
  <2>2. TmpSound'
    BY <2>1 DEF CountInv, TmpSound, Marks, Buckets
  <2>3. pc' \in {"delta", "place"} /\ (pc' = "place" => call.todo # <<>>)
    BY <1>1, <1>6, <2>1 DEF CountInv, CallSound, CallType
  <2>4. CallSound'
    BY <1>2, <1>4, <2>1, <2>3 DEF CountInv, CallSound, SpotFree, SkipShrink
  <2> QED  BY <1>4, <2>2, <2>4 DEF CountInv
<1> QED  BY <1>5, <1>6

LEMMA SkipGrowStep == CountInv /\ SkipGrow => CountInv'
<1> SUFFICES ASSUME CountInv, SkipGrow PROVE CountInv'
  OBVIOUS
<1>1. CASE call.todo = <<>>
  BY <1>1, ReturnedSound, TabUnchanged DEF SkipGrow, AfterDelta, CountInv
<1>2. CASE call.todo # <<>>
  BY <1>2, MovesOn DEF SkipGrow, AfterDelta
<1> QED  BY <1>1, <1>2

LEMMA ResizeOverflowStep == CountInv /\ ResizeOverflow => CountInv'
BY ReturnedSound, TabUnchanged DEF ResizeOverflow, CountInv

LEMMA RehashOneStep == CountInv /\ RehashOne => CountInv'
<1> SUFFICES ASSUME CountInv, RehashOne PROVE CountInv'
  OBVIOUS
<1> DEFINE h == tab[call.src]
<1>1. call \in CallType /\ call.src \in Tables /\ Sound(h) /\ Sound(tmp) /\ Marks(tmp) = {}
  BY DEF CountInv, CallSound, TabsSound, TmpSound, CallType
<1>2. PICK b \in Buckets(h), d \in Buckets(tmp) :
        /\ IsNextFull(h, call.cursor, b)
        /\ FreeAt(tmp, KeyOf[h.cells[b]], d)
        /\ tmp' = PutAt(tmp, d, h.cells[b])
        /\ call' = [call EXCEPT !.cursor = b + 1]
  BY DEF RehashOne
<1>3. h.cells[b] \in Elements /\ tmp.cells[d] \notin Elements
  BY <1>2 DEF IsNextFull, Full, FreeAt
<1>4. TmpSound'
  BY <1>1, <1>2, <1>3, PutSound DEF TmpSound
<1>5. TabsSound'
  BY TabUnchanged DEF RehashOne, CountInv
<1>6. CallSound'
  <2>1. b \in Nat
    BY <1>1, TableFacts DEF Sound, Buckets
  <2>2. /\ call' \in CallType /\ call'.spot = call.spot /\ call'.todo = call.todo
        /\ call'.next = call.next
    BY <1>1, <1>2, <2>1 DEF CallType
  <2> QED  BY <2>2 DEF RehashOne, CountInv, CallSound, SpotFree
<1> QED  BY <1>4, <1>5, <1>6 DEF CountInv

LEMMA RehashDoneStep == CountInv /\ RehashDone => CountInv'
<1> SUFFICES ASSUME CountInv, RehashDone PROVE CountInv'
  OBVIOUS
<1>1. call \in CallType /\ call.tab \in Tables /\ Sound(ResetThresholds(tmp))
  BY ResetSound DEF CountInv, CallSound, TmpSound, CallType
<1>2. TabsSound'
  BY <1>1, TabUpdate DEF RehashDone, CountInv
<1>3. CASE call.next = "idle"
  BY <1>2, <1>3, ReturnedSound DEF RehashDone, CountInv
<1>4. CASE call.next # "idle"
  <2>1. pc' = call.next /\ tmp' = NoTmp /\ call' = call
    BY <1>4 DEF RehashDone
  <2>2. TmpSound'
    BY <2>1, NoTmpSound DEF TmpSound
  <2>3. CallSound'
    BY <1>1, <1>4, <2>1 DEF RehashDone, CountInv, CallSound, SpotFree, CallType
  <2> QED  BY <1>2, <2>2, <2>3 DEF CountInv
<1> QED  BY <1>3, <1>4

LEMMA PlacedSound ==
  ASSUME CountInv, pc = "place", Placed, NEW t \in Tables, TabsSound'
  PROVE  CountInv'
<1>1. call \in CallType /\ call.todo \in Seq(Elements) /\ call.todo # <<>>
  BY DEF CountInv, CallSound, CallType
<1>2. CASE Len(call.todo) = 1
  BY <1>2, ReturnedSound DEF Placed, CountInv
<1>3. CASE Len(call.todo) # 1
  <2>1. Tail(call.todo) \in Seq(Elements) /\ Tail(call.todo) # <<>>
    <3>1. Tail(call.todo) \in Seq(Elements) /\ Len(Tail(call.todo)) = Len(call.todo) - 1
      BY <1>1, HeadTailProperties
    <3>2. Len(call.todo) - 1 # 0
      BY <1>1, <1>3
    <3> QED  BY <3>1, <3>2, EmptySeq
  <2>2. /\ call' = [call EXCEPT !.todo = Tail(call.todo), !.spot = ILLEGAL_BUCKET]
        /\ UNCHANGED <<tmp, pc>>
    BY <1>3 DEF Placed
  <2>3. call' \in CallType /\ call'.spot = ILLEGAL_BUCKET /\ call'.todo = Tail(call.todo)
    BY <1>1, <2>1, <2>2 DEF CallType
  <2>4. CallSound'
    BY <2>1, <2>2, <2>3 DEF CallSound, SpotFree
  <2>5. TmpSound'
    BY <2>2 DEF CountInv, TmpSound, Marks, Buckets
  <2> QED  BY <2>4, <2>5 DEF CountInv
<1> QED  BY <1>2, <1>3

LEMMA PlaceNewStep == ASSUME ~ StorageFails PROVE CountInv /\ PlaceNew => CountInv'
<1> SUFFICES ASSUME CountInv, PlaceNew PROVE CountInv'
  OBVIOUS
<1> DEFINE h == tab[call.tab]
           e == Head(call.todo)
<1>1. /\ call \in CallType /\ call.tab \in Tables /\ Sound(h) /\ pc = "place"
      /\ call.todo \in Seq(Elements) /\ call.todo # <<>>
  BY DEF CountInv, CallSound, TabsSound, CallType, PlaceNew
<1>2. e \in Elements
  BY <1>1
<1>3. PICK b \in Buckets(h) :
        /\ IF call.spot = ILLEGAL_BUCKET THEN VacantAt(h, KeyOf[e], b) ELSE b = call.spot
        /\ tab' = [tab EXCEPT ![call.tab] = InsertAt(h, b, e)] /\ Placed
  BY DEF PlaceNew, PlaceAt
<1>4. h.cells[b] \notin Elements
  BY <1>3, MarkersAssumption DEF VacantAt, MarkersAssumption, CountInv, CallSound, SpotFree
<1>5. Sound(InsertAt(h, b, e))
  BY <1>1, <1>2, <1>4, InsertSound
<1>6. TabsSound'
  BY <1>1, <1>3, <1>5, TabUpdate DEF CountInv
<1> QED  BY <1>1, <1>3, <1>6, PlacedSound

(* num_deleted is exact, so it is not 0 when a mark is reused.             *)
LEMMA AssertionFailsNot == CountInv => ~ AssertionFails
<1> SUFFICES ASSUME CountInv, AssertionFails PROVE FALSE
  OBVIOUS
<1> DEFINE h == tab[call.tab]
<1>1. Sound(h)
  BY DEF CountInv, CallSound, TabsSound, CallType
<1>2. Marks(h) # {} /\ h.deleted = 0
  BY DEF AssertionFails, Marks
<1> QED  BY <1>1, <1>2, NothingThere

LEMMA PlaceOldStep == CountInv /\ PlaceOld => CountInv'
<1> SUFFICES ASSUME CountInv, PlaceOld PROVE CountInv'
  OBVIOUS
<1>1. call.tab \in Tables
  BY DEF CountInv, CallSound, CallType
<1> QED  BY <1>1, PlacedSound, TabUnchanged DEF PlaceOld, CountInv

(* A call of one step that leaves one table changed, but sound.            *)
LEMMA AtomicUpdate ==
  ASSUME CountInv, Atomic, NEW t \in Tables, NEW g, Sound(g), tab' = [tab EXCEPT ![t] = g]
  PROVE  CountInv'
BY AtomicSound, TabUpdate DEF CountInv

LEMMA FoundIsFull ==
  ASSUME NEW h, NEW k, NEW b \in Buckets(h), FoundAt(h, k, b)
  PROVE  b \in Full(h)
BY DEF FoundAt, LastProbe, Stops, Full

LEMMA EraseKeyStep == ASSUME CountInv, NEW t \in Tables, NEW k \in Keys, EraseKey(t, k)
                      PROVE  CountInv'
<1>1. PICK b \in Buckets(tab[t]) :
        FoundAt(tab[t], k, b) /\ tab' = [tab EXCEPT ![t] = EraseAll(tab[t], {b})]
  BY DEF EraseKey
<1>2. Sound(EraseAll(tab[t], {b}))
  BY <1>1, FoundIsFull, EraseSound DEF CountInv, TabsSound
<1> QED  BY <1>1, <1>2, AtomicUpdate DEF EraseKey

LEMMA EraseRangeStep ==
  ASSUME CountInv, NEW t \in Tables, NEW b, NEW l, EraseRange(t, b, l)
  PROVE  CountInv'
<1> DEFINE S == {c \in Full(tab[t]) : b <= c /\ c < l}
<1>1. Sound(EraseAll(tab[t], S))
  BY EraseSound DEF CountInv, TabsSound
<1> QED  BY <1>1, AtomicUpdate DEF EraseRange

LEMMA AssignMappedStep ==
  ASSUME CountInv, NEW t \in Tables, NEW e \in Elements, AssignMapped(t, e)
  PROVE  CountInv'
<1>1. PICK b \in Buckets(tab[t]) :
        /\ FoundAt(tab[t], KeyOf[e], b)
        /\ tab' = [tab EXCEPT ![t].cells = [@ EXCEPT ![b] = e]]
  BY DEF AssignMapped
<1>2. Sound([tab[t] EXCEPT !.cells = [@ EXCEPT ![b] = e]])
  BY <1>1, FoundIsFull, OverwriteSound DEF CountInv, TabsSound
<1>3. tab' = [tab EXCEPT ![t] = [tab[t] EXCEPT !.cells = [@ EXCEPT ![b] = e]]]
  BY <1>1
<1> QED  BY <1>2, <1>3, AtomicUpdate DEF AssignMapped

LEMMA ClearStep == ASSUME CountInv, NEW t \in Tables, Clear(t) PROVE CountInv'
<1>1. Sound(Cleared(tab[t]))
  BY ClearedSound DEF CountInv, TabsSound
<1> QED  BY <1>1, AtomicUpdate DEF Clear

LEMMA SetResizingParametersStep ==
  ASSUME CountInv, NEW t \in Tables, NEW f \in Factors, SetResizingParameters(t, f)
  PROVE  CountInv'
<1> DEFINE h == tab[t]
           g == [h EXCEPT !.shrink = Clipped(f), !.grow = f.grow]
<1>1. Sound(h)
  BY DEF CountInv, TabsSound
<1>2. Clipped(f) \in Percent /\ f.grow \in Percent
  <2>1. f.shrink \in Percent /\ f.grow \in Percent
    BY FactorsAssumption DEF FactorsAssumption
  <2> QED  BY <2>1 DEF Clipped, Percent
<1>3. Sound(g)
  BY <1>1, <1>2 DEF Sound, TableType, Counted, Full, Marks, Buckets
<1>4. Sound(ResetThresholds(g))
  BY <1>3, ResetSound
<1> QED  BY <1>4, AtomicUpdate DEF SetResizingParameters

LEMMA SwapStep == ASSUME CountInv, NEW t \in Tables, NEW u \in Tables, Swap(t, u) PROVE CountInv'
<1>1. Sound(ResetThresholds(tab[t])) /\ Sound(ResetThresholds(tab[u]))
  BY ResetSound DEF CountInv, TabsSound
<1>2. TabsSound'
  BY <1>1 DEF Swap, CountInv, TabsSound
<1> QED  BY <1>2, AtomicSound DEF Swap, CountInv

LEMMA MoveConstructStep ==
  ASSUME CountInv, NEW t \in Tables, NEW u \in Tables, MoveConstruct(t, u)
  PROVE  CountInv'
<1>1. Sound(ResetThresholds(tab[u]))
  BY ResetSound DEF CountInv, TabsSound
<1>2. Sound(Fresh(DefaultBuckets, tab[u].shrink, tab[u].grow))
  BY FreshSound, TableFacts, SizesAssumption DEF CountInv, TabsSound, Sound, SizesAssumption
<1>3. TabsSound'
  BY <1>1, <1>2 DEF MoveConstruct, CountInv, TabsSound
<1> QED  BY <1>3, AtomicSound DEF MoveConstruct, CountInv

LEMMA RereadStep ==
  ASSUME CountInv, NEW t \in Tables, NEW u \in Tables, Reread(t, u)
  PROVE  CountInv'
<1>1. Sound(Reloaded(tab[t], tab[u]))
  BY ReloadedSound DEF CountInv, TabsSound
<1> QED  BY <1>1, AtomicUpdate DEF Reread

LEMMA StartCopySound ==
  ASSUME CountInv, NEW t \in Tables, NEW u \in Tables, NEW kind \in {"construct", "assign"},
         NEW h, Sound(h), Marks(h) = {}, StartCopy(t, u, kind, h)
  PROVE  CountInv'
<1>1. TabsSound' /\ TmpSound'
  BY TabUnchanged DEF StartCopy, CountInv, TmpSound
<1>2. /\ call' \in CallType /\ call'.spot = ILLEGAL_BUCKET /\ call'.next = "idle"
  BY NoCallType DEF StartCopy, CallType
<1>3. CallSound'
  BY <1>2 DEF StartCopy, CallSound, SpotFree
<1> QED  BY <1>1, <1>3 DEF CountInv

LEMMA CopyConstructStep ==
  ASSUME CountInv, NEW t \in Tables, NEW u \in Tables, CopyConstruct(t, u)
  PROVE  CountInv'
<1>1. PICK sz \in BucketCounts :
        StartCopy(t, u, "construct", Fresh(sz, tab[u].shrink, tab[u].grow))
  BY DEF CopyConstruct
<1>2. /\ Sound(Fresh(sz, tab[u].shrink, tab[u].grow))
      /\ Marks(Fresh(sz, tab[u].shrink, tab[u].grow)) = {}
  BY FreshSound, TableFacts DEF CountInv, TabsSound, Sound
<1> QED  BY <1>1, <1>2, StartCopySound

LEMMA CopyAssignStep ==
  ASSUME ~ AssignOntoEmptied, CountInv, NEW t \in Tables, NEW u \in Tables, CopyAssign(t, u)
  PROVE  CountInv'
<1> DEFINE base == AssignBase(tab[t], tab[u])
<1>1. Sound(tab[t]) /\ Sound(tab[u])
  BY DEF CountInv, TabsSound
<1>2. Sound(base) /\ Marks(base) = {}
  <2>1. Marks(tab[t]) = {} \/ tab[t].items # 0 \/ tab[u].deleted # 0
    BY DEF CopyAssign
  <2> QED  BY <1>1, <2>1, AssignBaseSound
<1>3. CASE \E sz \in BucketCounts : StartCopy(t, u, "assign", Extended(base, sz))
  BY <1>2, <1>3, ExtendedSound, StartCopySound
<1>4. CASE Atomic /\ tab' = [tab EXCEPT ![t] = base]
  BY <1>2, <1>4, AtomicUpdate
<1> QED  BY <1>3, <1>4 DEF CopyAssign

LEMMA StutterStep == CountInv /\ UNCHANGED vars => CountInv'
BY DEF CountInv, TabsSound, TmpSound, CallSound, SpotFree, vars, Marks, Buckets

LEMMA NextSound ==
  ASSUME ~ StorageFails, ~ ShrinkFails, ~ AssignOntoEmptied, CountInv, [Next]_vars
  PROVE  CountInv'
<1>1. ASSUME NEW t \in Tables, NEW todo \in Inserts, Insert(t, todo) PROVE CountInv'
  BY <1>1, InsertStep
<1>2. ASSUME NEW t \in Tables, NEW k \in Keys, FindOrInsert(t, k) \/ EraseKey(t, k)
      PROVE  CountInv'
  BY <1>2, FindOrInsertStep, EraseKeyStep
<1>3. ASSUME NEW t \in Tables, NEW n \in Requests, Resize(t, n) PROVE CountInv'
  BY <1>3, ResizeStep
<1>4. ASSUME NEW t \in Tables, NEW b, NEW l, EraseRange(t, b, l) \/ EraseRangeFails(t, b, l)
      PROVE  CountInv'
  BY <1>4, EraseRangeStep DEF EraseRangeFails
<1>5. ASSUME NEW t \in Tables, NEW e \in Elements, AssignMapped(t, e) PROVE CountInv'
  BY <1>5, AssignMappedStep
<1>6. ASSUME NEW t \in Tables, Clear(t) PROVE CountInv'
  BY <1>6, ClearStep
<1>7. ASSUME NEW t \in Tables, NEW f \in Factors, SetResizingParameters(t, f) PROVE CountInv'
  BY <1>7, SetResizingParametersStep
<1>8. ASSUME NEW t \in Tables, NEW u \in Tables,
             Swap(t, u) \/ MoveConstruct(t, u) \/ Reread(t, u)
      PROVE  CountInv'
  BY <1>8, SwapStep, MoveConstructStep, RereadStep
<1>9. ASSUME NEW t \in Tables, NEW u \in Tables, CopyConstruct(t, u) \/ CopyAssign(t, u)
      PROVE  CountInv'
  BY <1>9, CopyConstructStep, CopyAssignStep
<1>10. CASE Step
  <2>1. CASE ShrinkTable \/ SkipShrink \/ GrowTable \/ SkipGrow \/ ResizeOverflow
    BY <2>1, ShrinkTableStep, SkipShrinkStep, GrowTableStep, SkipGrowStep, ResizeOverflowStep
  <2>2. CASE RehashOne \/ RehashDone
    BY <2>2, RehashOneStep, RehashDoneStep
  <2>3. CASE RehashFails
    BY <2>3 DEF RehashFails
  <2>4. CASE PlaceNew \/ PlaceOld \/ AssertionFails
    BY <2>4, PlaceNewStep, PlaceOldStep, AssertionFailsNot
  <2> QED  BY <1>10, <2>1, <2>2, <2>3, <2>4 DEF Step
<1>11. CASE UNCHANGED vars
  BY <1>11, StutterStep
<1> QED  BY <1>1, <1>2, <1>3, <1>4, <1>5, <1>6, <1>7, <1>8, <1>9, <1>10, <1>11 DEF Next, Call

(* size() is the number of full buckets and num_deleted the number of      *)
(* erased ones in every table, after any sequence of calls, as long as no  *)
(* allocation fails and no emptied table is the target of an assignment.   *)
THEOREM CountsAreExact ==
  ASSUME ~ StorageFails, ~ ShrinkFails, ~ AssignOntoEmptied
  PROVE  Spec => []CountsExact
<1>1. CountInv /\ [Next]_vars => CountInv'
  BY NextSound
<1> QED  BY <1>1, InitSound, CountInvImplies, PTL DEF Spec

-----------------------------------------------------------------------------
(* What is left of the counts when allocations fail.  Elements and marks   *)
(* get lost with the counters still including them; a failed range erasure *)
(* leaves marks that num_deleted does not include, and so does a copy      *)
(* assigned onto an emptied table; size() is too large only after a failed *)
(* allocation.                                                             *)

Covered(h) ==
  /\ TableType(h)
  /\ h.items >= Cardinality(Full(h))
  /\ ~ StorageFails => h.items = Cardinality(Full(h))
  /\ ~ ShrinkFails /\ ~ AssignOntoEmptied => h.deleted >= Cardinality(Marks(h))

LEMMA SoundCovers ==
  ASSUME NEW h, Sound(h)
  PROVE  Covered(h)
BY BucketSetsFinite DEF Sound, Counted, Covered

LEMMA CoveredFacts ==
  ASSUME NEW h, Covered(h)
  PROVE  /\ TableType(h) /\ h.items \in Nat /\ h.deleted \in Nat
         /\ IsFiniteSet(Full(h)) /\ IsFiniteSet(Marks(h))
         /\ Cardinality(Full(h)) \in Nat /\ Cardinality(Marks(h)) \in Nat
         /\ h.items >= Cardinality(Full(h))
BY TableFacts, BucketSetsFinite DEF Covered

LEMMA CoveredAlike ==
  ASSUME NEW h, Covered(h), NEW g, TableType(g), g.items = h.items, g.deleted = h.deleted,
         Full(g) = Full(h), Marks(g) = Marks(h)
  PROVE  Covered(g)
BY DEF Covered

LEMMA ResetCovered ==
  ASSUME NEW h, Covered(h)
  PROVE  Covered(ResetThresholds(h))
<1> DEFINE g == ResetThresholds(h)
<1>1. TableType(g)
  BY TableFacts, ScaledType DEF Covered, ResetThresholds, TableType
<1>2. g.items = h.items /\ g.deleted = h.deleted /\ Full(g) = Full(h) /\ Marks(g) = Marks(h)
  BY DEF Covered, TableType, ResetThresholds, Full, Marks, Buckets
<1> HIDE DEF g
<1>3. Covered(g)
  BY <1>1, <1>2, CoveredAlike
<1> QED  BY <1>3 DEF g

LEMMA InsertCovered ==
  ASSUME NEW h, Covered(h), NEW b \in Buckets(h), h.cells[b] \notin Elements,
         h.cells[b] = Erased => h.deleted > 0, NEW e \in Elements
  PROVE  Covered(InsertAt(h, b, e))
<1> DEFINE g == InsertAt(h, b, e)
           c == [h.cells EXCEPT ![b] = e]
           d == IF h.cells[b] = Erased THEN h.deleted - 1 ELSE h.deleted
<1>1. /\ TableType(h) /\ h.items \in Nat /\ h.deleted \in Nat
      /\ IsFiniteSet(Full(h)) /\ IsFiniteSet(Marks(h))
      /\ Cardinality(Full(h)) \in Nat /\ Cardinality(Marks(h)) \in Nat
  BY CoveredFacts
<1>2. b \notin Full(h) /\ (b \in Marks(h) <=> h.cells[b] = Erased)
  BY DEF Full, Marks
<1>3. Cardinality(Full(h) \cup {b}) = Cardinality(Full(h)) + 1
  BY <1>1, <1>2, FS_AddElement
<1>4. Cardinality(Marks(h) \ {b}) =
        IF h.cells[b] = Erased THEN Cardinality(Marks(h)) - 1 ELSE Cardinality(Marks(h))
  BY <1>1, <1>2, FS_RemoveElement
<1>5. TableType(g)
  <2>1. d \in Nat
    BY <1>1
  <2>2. c \in [Buckets(h) -> Cell]
    BY <1>1, TableFacts DEF Cell
  <2>3. g = [h EXCEPT !.cells = c, !.items = h.items + 1, !.deleted = d]
    BY DEF InsertAt
  <2>4. h.items + 1 \in Nat
    BY <1>1
  <2> HIDE DEF c, d, g
  <2> QED  BY <1>1, <2>1, <2>2, <2>3, <2>4, RetypedTable
<1>6. g.size = h.size /\ g.cells = c /\ g.items = h.items + 1 /\ g.deleted = d
  BY <1>1 DEF TableType, InsertAt
<1>7. Full(g) = Full(h) \cup {b} /\ Marks(g) = Marks(h) \ {b}
  BY <1>1, <1>5, <1>6, WriteElement
<1> HIDE DEF g
<1>8. Covered(g)
  BY <1>1, <1>3, <1>4, <1>5, <1>6, <1>7 DEF Covered
<1> QED  BY <1>8 DEF g

LEMMA PutCovered ==
  ASSUME NEW h, Covered(h), NEW b \in Buckets(h), h.cells[b] \notin Elements, NEW e \in Elements
  PROVE  Covered(PutAt(h, b, e))
<1> DEFINE g == PutAt(h, b, e)
           c == [h.cells EXCEPT ![b] = e]
<1>1. /\ TableType(h) /\ h.items \in Nat /\ h.deleted \in Nat
      /\ IsFiniteSet(Full(h)) /\ IsFiniteSet(Marks(h))
      /\ Cardinality(Full(h)) \in Nat /\ Cardinality(Marks(h)) \in Nat
  BY CoveredFacts
<1>2. Cardinality(Full(h) \cup {b}) = Cardinality(Full(h)) + 1
  BY <1>1, FS_AddElement DEF Full
<1>3. Cardinality(Marks(h) \ {b}) <= Cardinality(Marks(h)) /\ Cardinality(Marks(h) \ {b}) \in Nat
  <2>1. Marks(h) \ {b} \in SUBSET Marks(h)
    OBVIOUS
  <2> QED  BY <1>1, <2>1, FS_Subset, FS_CardinalityType
<1>4. TableType(g)
  <2>1. c \in [Buckets(h) -> Cell] /\ h.items + 1 \in Nat
    BY <1>1, TableFacts DEF Cell
  <2>2. g = [h EXCEPT !.cells = c, !.items = h.items + 1, !.deleted = h.deleted]
    BY <1>1 DEF PutAt, TableType
  <2> HIDE DEF c, g
  <2> QED  BY <1>1, <2>1, <2>2, RetypedTable
<1>5. g.size = h.size /\ g.cells = c /\ g.items = h.items + 1 /\ g.deleted = h.deleted
  BY <1>1 DEF TableType, PutAt
<1>6. Full(g) = Full(h) \cup {b} /\ Marks(g) = Marks(h) \ {b}
  BY <1>1, <1>4, <1>5, WriteElement
<1> HIDE DEF g
<1>7. Covered(g)
  BY <1>1, <1>2, <1>3, <1>4, <1>5, <1>6 DEF Covered
<1> QED  BY <1>7 DEF g

(* A failed insertion loses at most the mark of its bucket.                *)
LEMMA ForgetCovered ==
  ASSUME NEW h, Covered(h), NEW b \in Buckets(h), h.cells[b] = Erased => h.deleted > 0
  PROVE  Covered(ForgetMark(h, b))
<1> DEFINE g == ForgetMark(h, b)
           c == [h.cells EXCEPT ![b] = Empty]
<1>1. /\ TableType(h) /\ h.items \in Nat /\ h.deleted \in Nat
      /\ IsFiniteSet(Full(h)) /\ IsFiniteSet(Marks(h))
      /\ Cardinality(Full(h)) \in Nat /\ Cardinality(Marks(h)) \in Nat
  BY CoveredFacts
<1>2. CASE h.cells[b] = Erased
  <2>1. g = [h EXCEPT !.cells = c, !.items = h.items, !.deleted = h.deleted - 1]
    BY <1>1, <1>2 DEF ForgetMark, TableType
  <2>2. c \in [Buckets(h) -> Cell] /\ h.deleted - 1 \in Nat
    BY <1>1, <1>2, TableFacts DEF Cell
  <2>3. TableType(g)
    <3> HIDE DEF c, g
    <3> QED  BY <1>1, <2>1, <2>2, RetypedTable
  <2>4. g.size = h.size /\ g.cells = c /\ g.items = h.items /\ g.deleted = h.deleted - 1
    BY <1>1, <2>1 DEF TableType
  <2>5. b \in Marks(h) /\ h.cells \in [Buckets(h) -> Cell]
    BY <1>1, <1>2, TableFacts DEF Marks
  <2> HIDE DEF g
  <2>6. Full(g) = Full(h) /\ Marks(g) = Marks(h) \ {b}
    BY <1>2, <2>4, <2>5, MarkersAssumption DEF Full, Marks, Buckets, MarkersAssumption
  <2>7. Cardinality(Marks(h) \ {b}) = Cardinality(Marks(h)) - 1
    BY <1>1, <2>5, FS_RemoveElement
  <2>8. Covered(g)
    BY <1>1, <2>3, <2>4, <2>6, <2>7 DEF Covered
  <2> QED  BY <2>8 DEF g
<1>3. CASE h.cells[b] # Erased
  BY <1>3 DEF ForgetMark
<1> QED  BY <1>2, <1>3

(* A failed rehash loses the groups that were moved out.                   *)
LEMMA FreedCovered ==
  ASSUME StorageFails, NEW h, Covered(h), NEW b
  PROVE  Covered(FreedUpTo(h, b))
<1> DEFINE g == FreedUpTo(h, b)
           c == [x \in Buckets(h) |-> IF x \div GroupSize < b \div GroupSize THEN Empty ELSE h.cells[x]]
<1>1. /\ TableType(h) /\ h.items \in Nat /\ h.deleted \in Nat
      /\ IsFiniteSet(Full(h)) /\ IsFiniteSet(Marks(h))
      /\ Cardinality(Full(h)) \in Nat /\ Cardinality(Marks(h)) \in Nat
  BY CoveredFacts
<1>2. c \in [Buckets(h) -> Cell]
  BY <1>1, TableFacts DEF Cell
<1>3. g = [h EXCEPT !.cells = c, !.items = h.items, !.deleted = h.deleted]
  BY <1>1 DEF FreedUpTo, TableType
<1>4. g.size = h.size /\ g.cells = c /\ g.items = h.items /\ g.deleted = h.deleted
  BY <1>1, <1>3 DEF TableType
<1>5. TableType(g)
  <2> HIDE DEF c, g
  <2> QED  BY <1>1, <1>2, <1>3, RetypedTable
<1> HIDE DEF g
<1>6. \A x \in Buckets(h) : c[x] = h.cells[x] \/ c[x] = Empty
  OBVIOUS
<1>7. Full(g) \in SUBSET Full(h) /\ Marks(g) \in SUBSET Marks(h)
  <2> HIDE DEF c
  <2> QED  BY <1>4, <1>6, MarkersAssumption DEF Full, Marks, Buckets, MarkersAssumption
<1>8. Cardinality(Full(g)) <= Cardinality(Full(h)) /\ Cardinality(Full(g)) \in Nat
  BY <1>1, <1>7, FS_Subset, FS_CardinalityType
<1>9. Cardinality(Marks(g)) <= Cardinality(Marks(h)) /\ Cardinality(Marks(g)) \in Nat
  BY <1>1, <1>7, FS_Subset, FS_CardinalityType
<1>10. Covered(g)
  BY <1>1, <1>4, <1>5, <1>8, <1>9 DEF Covered
<1> QED  BY <1>10 DEF g

(* Erasing S, with marks that are counted or, if that fails, are not.      *)
LEMMA EraseCovered ==
  ASSUME NEW h, Covered(h), NEW S \in SUBSET Full(h)
  PROVE  /\ Covered(EraseAll(h, S))
         /\ ShrinkFails => Covered([EraseAll(h, S) EXCEPT !.deleted = h.deleted, !.consider = h.consider])
<1> DEFINE g == EraseAll(h, S)
           k == [g EXCEPT !.deleted = h.deleted, !.consider = h.consider]
           c == [b \in Buckets(h) |-> IF b \in S THEN Erased ELSE h.cells[b]]
           n == Cardinality(S)
<1>1. /\ TableType(h) /\ h.items \in Nat /\ h.deleted \in Nat
      /\ IsFiniteSet(Full(h)) /\ IsFiniteSet(Marks(h))
      /\ Cardinality(Full(h)) \in Nat /\ Cardinality(Marks(h)) \in Nat
      /\ h.items >= Cardinality(Full(h))
  BY CoveredFacts
<1>2. IsFiniteSet(S) /\ n \in Nat /\ n <= Cardinality(Full(h))
  BY <1>1, FS_Subset, FS_CardinalityType
<1>3. c \in [Buckets(h) -> Cell]
  BY <1>1, TableFacts DEF Cell
<1>4. g = [[h EXCEPT !.cells = c, !.items = h.items - n, !.deleted = h.deleted + n] EXCEPT !.consider = TRUE]
  BY <1>1 DEF EraseAll, TableType
<1>5. /\ g.size = h.size /\ g.cells = c /\ g.items = h.items - n /\ g.deleted = h.deleted + n
      /\ k.size = h.size /\ k.cells = c /\ k.items = h.items - n /\ k.deleted = h.deleted
  BY <1>1, <1>4 DEF TableType
<1>6. TableType(g)
  <2>1. h.items - n \in Nat /\ h.deleted + n \in Nat
    BY <1>1, <1>2
  <2>2. TableType([h EXCEPT !.cells = c, !.items = h.items - n, !.deleted = h.deleted + n])
    <3> HIDE DEF c, n
    <3> QED  BY <1>1, <1>3, <2>1, RetypedTable
  <2> QED  BY <1>4, <2>2 DEF TableType
<1>7. TableType(k)
  <2>1. h.consider \in BOOLEAN
    BY <1>1 DEF TableType
  <2> HIDE DEF g
  <2> QED  BY <1>1, <1>6, <2>1 DEF TableType
<1>8. /\ Full(g) = Full(h) \ S /\ Marks(g) = Marks(h) \cup S /\ Marks(h) \cap S = {}
      /\ Full(k) = Full(g) /\ Marks(k) = Marks(g)
  <2> HIDE DEF g, k
  <2> QED  BY <1>5, MarkersAssumption DEF Full, Marks, Buckets, MarkersAssumption
<1>9. Cardinality(Full(h) \ S) = Cardinality(Full(h)) - n
  <2>1. Full(h) \cap S = S
    OBVIOUS
  <2>2. Cardinality(Full(h) \ S) = Cardinality(Full(h)) - Cardinality(Full(h) \cap S)
    BY <1>1, FS_Difference
  <2> QED  BY <2>1, <2>2
<1>10. Cardinality(Marks(h) \cup S) = Cardinality(Marks(h)) + n
  <2>1. Marks(h) \cap S = {} /\ IsFiniteSet(S) /\ IsFiniteSet(Marks(h))
    BY <1>1, <1>2, <1>8
  <2>2. Cardinality(Marks(h) \cup S)
          = Cardinality(Marks(h)) + Cardinality(S) - Cardinality(Marks(h) \cap S)
    BY <2>1, FS_Union
  <2> QED  BY <1>1, <1>2, <2>1, <2>2, FS_EmptySet
<1> HIDE DEF g, k, n
<1>11. Covered(g)
  BY <1>1, <1>2, <1>5, <1>6, <1>8, <1>9, <1>10 DEF Covered
<1>12. ShrinkFails => Covered(k)
  BY <1>1, <1>2, <1>5, <1>7, <1>8, <1>9 DEF Covered
<1> QED  BY <1>11, <1>12 DEF g, k

LEMMA ReloadedCovered ==
  ASSUME NEW h, Covered(h), NEW u, Covered(u)
  PROVE  Covered(Reloaded(h, u))
<1> DEFINE c == Written(u)
           g == [h EXCEPT !.size = u.size, !.cells = c, !.items = u.items, !.deleted = 0]
<1>1. TableType(h) /\ TableType(u) /\ u.items \in Nat
  BY CoveredFacts
<1>2. c \in [0 .. u.size - 1 -> Cell] /\ u.size \in BucketCounts
  BY <1>1, TableFacts DEF Written, Cell, Buckets
<1>3. TableType(g)
  <2> HIDE DEF c
  <2> QED  BY <1>1, <1>2 DEF TableType
<1>4. g.size = u.size /\ g.cells = c /\ g.items = u.items /\ g.deleted = 0
  BY <1>1 DEF TableType
<1>5. Full(g) = Full(u) /\ Marks(g) = {}
  <2> HIDE DEF g
  <2> QED  BY <1>4, MarkersAssumption DEF Full, Marks, Buckets, Written, MarkersAssumption
<1>6. Covered(g)
  <2> HIDE DEF g
  <2> QED  BY <1>3, <1>4, <1>5, FS_EmptySet DEF Covered
<1> QED  BY <1>6, ResetCovered DEF Reloaded

LEMMA OverwriteCovered ==
  ASSUME NEW h, Covered(h), NEW b \in Full(h), NEW e \in Elements
  PROVE  Covered([h EXCEPT !.cells = [@ EXCEPT ![b] = e]])
<1> DEFINE c == [h.cells EXCEPT ![b] = e]
           g == [h EXCEPT !.cells = c]
<1>1. TableType(h) /\ h.items \in Nat /\ h.deleted \in Nat /\ b \in Buckets(h)
  BY CoveredFacts DEF Full
<1>2. c \in [Buckets(h) -> Cell]
  BY <1>1, TableFacts DEF Cell
<1>3. TableType(g)
  <2>1. g = [h EXCEPT !.cells = c, !.items = h.items, !.deleted = h.deleted]
    BY <1>1 DEF TableType
  <2> HIDE DEF c, g
  <2> QED  BY <1>1, <1>2, <2>1, RetypedTable
<1>4. g.size = h.size /\ g.cells = c /\ g.items = h.items /\ g.deleted = h.deleted
  BY <1>1 DEF TableType
<1>5. b \notin Marks(h)
  BY MarkersAssumption DEF Full, Marks, MarkersAssumption
<1>6. Full(g) = Full(h) \cup {b} /\ Marks(g) = Marks(h) \ {b}
  <2>1. g.cells = [h.cells EXCEPT ![b] = e]
    BY <1>4
  <2> HIDE DEF g, c
  <2> QED  BY <1>1, <1>3, <1>4, <2>1, WriteElement
<1> HIDE DEF g
<1>7. Covered(g)
  BY <1>3, <1>4, <1>5, <1>6, CoveredAlike
<1> QED  BY <1>7 DEF g

(* size() says that a table is empty only if it is.                        *)
LEMMA NothingCovered ==
  ASSUME NEW h, Covered(h), h.items = 0
  PROVE  Full(h) = {}
<1>1. IsFiniteSet(Full(h)) /\ Cardinality(Full(h)) = 0
  BY CoveredFacts
<1> QED  BY <1>1, FS_EmptySet

LEMMA ClearedCovered ==
  ASSUME NEW h, Covered(h)
  PROVE  Covered(Cleared(h)) /\ Full(Cleared(h)) = {}
<1>1. CASE h.items # 0 \/ h.deleted # 0
  <2>1. DefaultBuckets \in BucketCounts /\ h.shrink \in Percent /\ h.grow \in Percent
    BY TableFacts, SizesAssumption DEF Covered, SizesAssumption
  <2>2. /\ Sound(Fresh(DefaultBuckets, h.shrink, h.grow))
        /\ Full(Fresh(DefaultBuckets, h.shrink, h.grow)) = {}
    BY <2>1, FreshSound
  <2> QED  BY <1>1, <2>2, SoundCovers DEF Cleared
<1>2. CASE h.items = 0 /\ h.deleted = 0
  <2>1. Full(ResetThresholds(h)) = Full(h)
    BY DEF Covered, TableType, ResetThresholds, Full, Buckets
  <2> QED  BY <1>2, <2>1, ResetCovered, NothingCovered DEF Cleared
<1> QED  BY <1>1, <1>2

(* The target of a copy assignment forgets what it counted, and keeps the  *)
(* marks only if the program assigns onto emptied tables.                  *)
LEMMA AssignBaseCovered ==
  ASSUME NEW h, Covered(h), NEW u, TableType(u),
         AssignOntoEmptied \/ Marks(h) = {} \/ h.items # 0 \/ u.deleted # 0
  PROVE  Covered(AssignBase(h, u)) /\ Full(AssignBase(h, u)) = {} /\ AssignBase(h, u).deleted = 0
<1> DEFINE g == [h EXCEPT !.shrink = u.shrink, !.grow = u.grow, !.deleted = u.deleted]
<1>1. /\ g.size = h.size /\ g.cells = h.cells /\ g.items = h.items
      /\ g.deleted = u.deleted /\ g.shrink = u.shrink /\ g.grow = u.grow
  BY DEF Covered, TableType
<1>2. TableType(g)
  BY TableFacts DEF Covered, TableType
<1>3. CASE h.items # 0 \/ u.deleted # 0
  <2>1. AssignBase(h, u) = Fresh(DefaultBuckets, u.shrink, u.grow)
    BY <1>1, <1>3 DEF AssignBase, Cleared
  <2>2. /\ Sound(Fresh(DefaultBuckets, u.shrink, u.grow))
        /\ Full(Fresh(DefaultBuckets, u.shrink, u.grow)) = {}
        /\ Fresh(DefaultBuckets, u.shrink, u.grow).deleted = 0
    BY FreshSound, TableFacts, SizesAssumption DEF SizesAssumption, Fresh
  <2> QED  BY <2>1, <2>2, SoundCovers
<1>4. CASE h.items = 0 /\ u.deleted = 0
  <2>1. Full(g) = Full(h) /\ Marks(g) = Marks(h)
    BY <1>1 DEF Full, Marks, Buckets
  <2>2. AssignOntoEmptied \/ Marks(g) = {}
    BY <1>4, <2>1
  <2>3. Covered(g)
    <3> HIDE DEF g
    <3> QED  BY <1>1, <1>2, <1>4, <2>1, <2>2, FS_EmptySet DEF Covered
  <2>4. Cleared(g).deleted = 0
    BY <1>1, <1>2, <1>4 DEF Cleared, ResetThresholds, TableType
  <2> QED  BY <2>3, <2>4, ClearedCovered DEF AssignBase
<1> QED  BY <1>3, <1>4

LEMMA ExtendedCovered ==
  ASSUME NEW h, Covered(h), NEW sz \in BucketCounts
  PROVE  /\ Covered(Extended(h, sz))
         /\ Full(Extended(h, sz)) = Full(h) /\ Extended(h, sz).deleted = h.deleted
<1>1. CASE sz <= h.size
  BY <1>1 DEF Extended
<1>2. CASE ~ (sz <= h.size)
  <2> DEFINE c == [b \in 0 .. sz - 1 |-> IF b < h.size THEN h.cells[b] ELSE Empty]
             g == [h EXCEPT !.size = sz, !.cells = c]
  <2>1. sz \in Nat /\ h.size \in Nat /\ sz > h.size
    BY <1>2, BucketCountType, TableFacts DEF Covered
  <2>2. c \in [0 .. sz - 1 -> Cell]
    BY <2>1, TableFacts DEF Covered, Cell, Buckets
  <2>3. TableType(g)
    BY <2>2 DEF Covered, TableType
  <2>4. g.size = sz /\ g.cells = c /\ g.items = h.items /\ g.deleted = h.deleted
    BY DEF Covered, TableType
  <2>5. Full(g) = Full(h) /\ Marks(g) = Marks(h)
    BY <2>1, <2>4, MarkersAssumption DEF Full, Marks, Buckets, MarkersAssumption
  <2>6. Covered(g)
    <3> HIDE DEF g
    <3> QED  BY <2>3, <2>4, <2>5, CoveredAlike
  <2>7. Extended(h, sz) = ResetThresholds(g)
    BY <1>2 DEF Extended
  <2>8. Full(ResetThresholds(g)) = Full(g) /\ ResetThresholds(g).deleted = g.deleted
    BY <2>3 DEF TableType, ResetThresholds, Full, Buckets
  <2> QED  BY <2>4, <2>5, <2>6, <2>7, <2>8, ResetCovered
<1> QED  BY <1>1, <1>2

-----------------------------------------------------------------------------
(* The invariant for every value of the flags: the counters cover what is  *)
(* stored in every table and in the temporary one, and the call in         *)
(* progress is as CallSound says until an assertion ends the program.      *)

TabsCovered ==
  /\ tab = [t \in Tables |-> tab[t]]
  /\ \A t \in Tables : Covered(tab[t])

Stopped == pc = "aborted" /\ call \in CallType

CoverInv == TabsCovered /\ Covered(tmp) /\ (CallSound \/ Stopped)

LEMMA CoverInvImplies ==
  CoverInv => /\ TypeOK
              /\ ~ StorageFails => SizeExact
              /\ ~ ShrinkFails /\ ~ AssignOntoEmptied => CountersCover
BY DEF CoverInv, TabsCovered, Stopped, CallSound, Covered, TypeOK, SizeExact, CountersCover

LEMMA ReturnedCovered == Returned => Covered(tmp)' /\ CallSound'
<1> SUFFICES ASSUME Returned PROVE Covered(tmp)' /\ CallSound'
  OBVIOUS
<1>1. Covered(NoTmp)
  BY NoTmpSound, SoundCovers
<1>2. Covered(tmp')
  BY <1>1 DEF Returned
<1>3. Covered(tmp)'
  BY <1>2 DEF Covered, Full, Marks, Buckets
<1> QED  BY <1>3, ReturnedSound

LEMMA TmpStillCovered == Covered(tmp) /\ UNCHANGED tmp => Covered(tmp)'
BY DEF Covered, Full, Marks, Buckets

LEMMA AtomicCovered == CoverInv /\ Atomic => Covered(tmp)' /\ CallSound'
<1> SUFFICES ASSUME CoverInv, Atomic PROVE Covered(tmp)' /\ CallSound'
  OBVIOUS
<1>1. call' = NoCall /\ pc' = "idle"
  BY DEF CoverInv, Stopped, CallSound, Atomic
<1>2. CallSound'
  BY <1>1, NoCallType DEF CallSound, SpotFree
<1>3. Covered(tmp)'
  BY TmpStillCovered DEF CoverInv, Atomic
<1> QED  BY <1>2, <1>3

LEMMA CoveredUpdate ==
  ASSUME TabsCovered, NEW t \in Tables, NEW g, Covered(g), tab' = [tab EXCEPT ![t] = g]
  PROVE  TabsCovered' /\ tab'[t] = g
BY DEF TabsCovered

LEMMA CoveredUnchanged == TabsCovered /\ UNCHANGED tab => TabsCovered'
BY DEF TabsCovered

(* A call of one step that changes one table.                              *)
LEMMA AtomicCovers ==
  ASSUME CoverInv, Atomic, NEW t \in Tables, NEW g, Covered(g), tab' = [tab EXCEPT ![t] = g]
  PROVE  CoverInv'
BY AtomicCovered, CoveredUpdate DEF CoverInv

(* A step that returns after it has changed one table, or none.            *)
LEMMA ReturnCovers ==
  ASSUME CoverInv, Returned, NEW t \in Tables, NEW g, Covered(g),
         tab' = [tab EXCEPT ![t] = g] \/ UNCHANGED tab
  PROVE  CoverInv'
BY ReturnedCovered, CoveredUpdate, CoveredUnchanged DEF CoverInv

LEMMA InitCovers == Init => CoverInv
<1> SUFFICES ASSUME Init PROVE CoverInv
  OBVIOUS
<1>1. TabsSound /\ Sound(tmp) /\ CallSound
  BY InitSound DEF CountInv, TmpSound
<1> QED  BY <1>1, SoundCovers DEF CoverInv, TabsCovered, TabsSound

(* Where a call begins.                                                    *)
LEMMA BeginCovers ==
  ASSUME CoverInv, NEW t \in Tables, NEW todo \in Seq(Elements), NEW delta \in Nat,
         NEW spot \in Nat \cup {ILLEGAL_BUCKET}, NEW next \in {"idle", "delta"},
         Begin(t, todo, delta, spot, next),
         pc' \in {"shrink", "delta"},
         spot # ILLEGAL_BUCKET =>
           spot \in Buckets(tab[t]) /\ tab[t].cells[spot] \notin Elements
  PROVE  CoverInv'
<1>1. TabsCovered' /\ Covered(tmp)'
  BY TmpStillCovered, CoveredUnchanged DEF CoverInv, Begin
<1>2. /\ call' \in CallType
      /\ call'.tab = t /\ call'.spot = spot /\ call'.next = next
  BY NoCallType DEF Begin, CallType
<1>3. CallSound'
  BY <1>2 DEF CallSound, SpotFree, Begin, Buckets
<1> QED  BY <1>1, <1>3 DEF CoverInv

LEMMA InsertCovers ==
  ASSUME CoverInv, NEW t \in Tables, NEW todo \in Inserts, Insert(t, todo)
  PROVE  CoverInv'
<1>1. todo \in Seq(Elements) /\ Len(todo) \in Nat
  BY ElementsAssumption DEF ElementsAssumption
<1> QED  BY <1>1, BeginCovers DEF Insert

LEMMA FindOrInsertCovers ==
  ASSUME CoverInv, NEW t \in Tables, NEW k \in Keys, FindOrInsert(t, k)
  PROVE  CoverInv'
<1>1. PICK b \in Buckets(tab[t]) :
        /\ VacantAt(tab[t], k, b)
        /\ Begin(t, <<DefaultOf[k]>>, 1, b, "delta")
        /\ pc' = IF tab[t].consider THEN "shrink" ELSE "delta"
  BY DEF FindOrInsert
<1>2. tab[t].cells[b] \notin Elements
  BY <1>1, MarkersAssumption DEF VacantAt, MarkersAssumption
<1>3. b \in Nat
  BY TableFacts DEF CoverInv, TabsCovered, Covered, Buckets
<1>4. <<DefaultOf[k]>> \in Seq(Elements)
  BY ElementsAssumption DEF ElementsAssumption
<1> QED  BY <1>1, <1>2, <1>3, <1>4, BeginCovers

LEMMA ResizeCovers ==
  ASSUME CoverInv, NEW t \in Tables, NEW n \in Requests, Resize(t, n)
  PROVE  CoverInv'
<1> DEFINE grows == n > tab[t].items
           delta == IF grows THEN n - tab[t].items ELSE 0
<1>1. delta \in Nat
  BY TableFacts, SizesAssumption DEF CoverInv, TabsCovered, Covered, SizesAssumption
<1>2. /\ Begin(t, <<>>, delta, ILLEGAL_BUCKET, IF grows THEN "delta" ELSE "idle")
      /\ pc' \in {"shrink", "delta"}
  BY DEF Resize
<1>3. <<>> \in Seq(Elements)
  OBVIOUS
<1> HIDE DEF grows, delta
<1> QED  BY <1>1, <1>2, <1>3, BeginCovers

(* The steps of a rehash.                                                  *)
LEMMA StartRehashCovers ==
  ASSUME CoverInv, pc \notin {"idle", "aborted"}, NEW sz \in BucketCounts,
         NEW next \in {"idle", "delta", "place"},
         StartRehash(sz, next), next = "place" => call.todo # <<>>
  PROVE  CoverInv'
<1> DEFINE h == tab[call.tab]
<1>1. call \in CallType /\ call.tab \in Tables /\ Covered(h)
  BY DEF CoverInv, Stopped, CallSound, TabsCovered, CallType
<1>2. TabsCovered'
  BY CoveredUnchanged DEF CoverInv, StartRehash
<1>3. Covered(tmp)'
  <2>1. Covered(Fresh(sz, h.shrink, h.grow))
    BY <1>1, FreshSound, SoundCovers, TableFacts DEF Covered
  <2>2. Covered(tmp')
    BY <2>1 DEF StartRehash
  <2> QED  BY <2>2 DEF Covered, Full, Marks, Buckets
<1>4. CallSound'
  <2>1. /\ call' \in CallType /\ call'.spot = ILLEGAL_BUCKET /\ call'.next = next
        /\ call'.todo = call.todo
    BY <1>1 DEF StartRehash, CallType
  <2> QED  BY <2>1 DEF StartRehash, CallSound, SpotFree
<1> QED  BY <1>2, <1>3, <1>4 DEF CoverInv

LEMMA ShrinkTableCovers == CoverInv /\ ShrinkTable => CoverInv'
<1> SUFFICES ASSUME CoverInv, ShrinkTable PROVE CoverInv'
  OBVIOUS
<1>1. PICK to \in BucketCounts : StartRehash(to, call.next)
  BY DEF ShrinkTable
<1>2. /\ call.next \in {"idle", "delta", "place"} /\ pc = "shrink"
      /\ call.next = "place" => call.todo # <<>>
  BY DEF CoverInv, Stopped, CallSound, CallType, ShrinkTable
<1> QED  BY <1>1, <1>2, StartRehashCovers

LEMMA GrowTableCovers == CoverInv /\ GrowTable => CoverInv'
<1> SUFFICES ASSUME CoverInv, GrowTable PROVE CoverInv'
  OBVIOUS
<1> DEFINE next == IF call.todo = <<>> THEN "idle" ELSE "place"
<1>1. PICK to \in BucketCounts : StartRehash(to, next)
  BY DEF GrowTable
<1>2. next \in {"idle", "place"} /\ pc = "delta" /\ (next = "place" => call.todo # <<>>)
  BY DEF GrowTable
<1> HIDE DEF next
<1> QED  BY <1>1, <1>2, StartRehashCovers

LEMMA SkipShrinkCovers == CoverInv /\ SkipShrink => CoverInv'
<1> SUFFICES ASSUME CoverInv, SkipShrink PROVE CoverInv'
  OBVIOUS
<1> DEFINE h == tab[call.tab]
           g == [h EXCEPT !.consider = FALSE]
<1>1. call \in CallType /\ call.tab \in Tables /\ Covered(h) /\ CallSound
  BY DEF CoverInv, Stopped, CallSound, TabsCovered, CallType, SkipShrink
<1>2. Covered(g) /\ Buckets(g) = Buckets(h) /\ g.cells = h.cells
  BY <1>1 DEF Covered, TableType, Full, Marks, Buckets
<1>3. tab' = [tab EXCEPT ![call.tab] = g]
  BY DEF SkipShrink
<1>4. TabsCovered' /\ tab'[call.tab] = g
  <2> HIDE DEF g
  <2> QED  BY <1>1, <1>2, <1>3, CoveredUpdate DEF CoverInv
<1>5. CASE call.next = "idle"
  BY <1>4, <1>5, ReturnedCovered DEF SkipShrink, CoverInv
<1>6. CASE call.next # "idle"
  <2>1. pc' = call.next /\ UNCHANGED <<tmp, call>>
    BY <1>6 DEF SkipShrink
  <2>2. Covered(tmp)'
    BY <2>1, TmpStillCovered DEF CoverInv
  <2>3. pc' \in {"delta", "place"} /\ (pc' = "place" => call.todo # <<>>)
    BY <1>1, <1>6, <2>1 DEF CallSound, CallType
  <2>4. CallSound'
    BY <1>1, <1>2, <1>4, <2>1, <2>3 DEF CallSound, SpotFree, SkipShrink
  <2> QED  BY <1>4, <2>2, <2>4 DEF CoverInv
<1> QED  BY <1>5, <1>6

LEMMA SkipGrowCovers == CoverInv /\ SkipGrow => CoverInv'
<1> SUFFICES ASSUME CoverInv, SkipGrow PROVE CoverInv'
  OBVIOUS
<1>1. TabsCovered'
  BY CoveredUnchanged DEF CoverInv, SkipGrow
<1>2. CASE call.todo = <<>>
  BY <1>1, <1>2, ReturnedCovered DEF SkipGrow, AfterDelta, CoverInv
<1>3. CASE call.todo # <<>>
  <2>1. UNCHANGED <<tab, tmp, call>> /\ pc = "delta" /\ pc' = "place"
    BY <1>3 DEF SkipGrow, AfterDelta
  <2>2. CallSound'
    BY <1>3, <2>1 DEF CoverInv, Stopped, CallSound, SpotFree, Buckets
  <2> QED  BY <1>1, <2>1, <2>2, TmpStillCovered DEF CoverInv
<1> QED  BY <1>2, <1>3

LEMMA ResizeOverflowCovers == CoverInv /\ ResizeOverflow => CoverInv'
BY ReturnedCovered, CoveredUnchanged DEF ResizeOverflow, CoverInv

LEMMA RehashOneCovers == CoverInv /\ RehashOne => CoverInv'
<1> SUFFICES ASSUME CoverInv, RehashOne PROVE CoverInv'
  OBVIOUS
<1> DEFINE h == tab[call.src]
<1>1. call \in CallType /\ call.src \in Tables /\ Covered(h) /\ Covered(tmp) /\ CallSound
  BY DEF CoverInv, Stopped, CallSound, TabsCovered, CallType, RehashOne
<1>2. PICK b \in Buckets(h), d \in Buckets(tmp) :
        /\ IsNextFull(h, call.cursor, b)
        /\ FreeAt(tmp, KeyOf[h.cells[b]], d)
        /\ tmp' = PutAt(tmp, d, h.cells[b])
        /\ call' = [call EXCEPT !.cursor = b + 1]
  BY DEF RehashOne
<1>3. h.cells[b] \in Elements /\ tmp.cells[d] \notin Elements
  BY <1>2 DEF IsNextFull, Full, FreeAt
<1>4. Covered(tmp)'
  <2>1. Covered(tmp')
    BY <1>1, <1>2, <1>3, PutCovered
  <2> QED  BY <2>1 DEF Covered, Full, Marks, Buckets
<1>5. TabsCovered'
  BY CoveredUnchanged DEF RehashOne, CoverInv
<1>6. CallSound'
  <2>1. b \in Nat
    BY <1>1, TableFacts DEF Covered, Buckets
  <2>2. /\ call' \in CallType /\ call'.spot = call.spot /\ call'.todo = call.todo
        /\ call'.next = call.next
    BY <1>1, <1>2, <2>1 DEF CallType
  <2> QED  BY <1>1, <2>2 DEF RehashOne, CallSound, SpotFree
<1> QED  BY <1>4, <1>5, <1>6 DEF CoverInv

LEMMA RehashDoneCovers == CoverInv /\ RehashDone => CoverInv'
<1> SUFFICES ASSUME CoverInv, RehashDone PROVE CoverInv'
  OBVIOUS
<1>1. /\ call \in CallType /\ call.tab \in Tables /\ CallSound
      /\ Covered(ResetThresholds(tmp))
  BY ResetCovered DEF CoverInv, Stopped, CallSound, CallType, RehashDone
<1>2. TabsCovered'
  BY <1>1, CoveredUpdate DEF RehashDone, CoverInv
<1>3. CASE call.next = "idle"
  BY <1>2, <1>3, ReturnedCovered DEF RehashDone, CoverInv
<1>4. CASE call.next # "idle"
  <2>1. pc' = call.next /\ tmp' = NoTmp /\ call' = call
    BY <1>4 DEF RehashDone
  <2>2. Covered(tmp)'
    <3>1. Covered(tmp')
      BY <2>1, NoTmpSound, SoundCovers
    <3> QED  BY <3>1 DEF Covered, Full, Marks, Buckets
  <2>3. CallSound'
    BY <1>1, <1>4, <2>1 DEF RehashDone, CallSound, SpotFree, CallType
  <2> QED  BY <1>2, <2>2, <2>3 DEF CoverInv
<1> QED  BY <1>3, <1>4

LEMMA RehashFailsCovers == CoverInv /\ RehashFails => CoverInv'
<1> SUFFICES ASSUME CoverInv, RehashFails PROVE CoverInv'
  OBVIOUS
<1> DEFINE h == tab[call.src]
<1>1. /\ StorageFails /\ Returned /\ call.src \in Tables /\ call.tab \in Tables
      /\ Covered(h) /\ Covered(tmp)
  BY DEF CoverInv, Stopped, CallSound, TabsCovered, CallType, RehashFails
<1>2. PICK b \in Buckets(h) :
        tab' = CASE call.kind = "move" -> [tab EXCEPT ![call.tab] = FreedUpTo(h, b)]
                 [] call.kind = "assign" -> [tab EXCEPT ![call.tab] = tmp]
                 [] OTHER -> tab
  BY DEF RehashFails
<1>3. CASE call.kind = "move"
  <2>1. tab' = [tab EXCEPT ![call.tab] = FreedUpTo(h, b)]
    BY <1>2, <1>3
  <2>2. Covered(FreedUpTo(h, b))
    BY <1>1, FreedCovered
  <2> QED  BY <1>1, <2>1, <2>2, ReturnCovers
<1>4. CASE call.kind = "assign"
  <2>1. tab' = [tab EXCEPT ![call.tab] = tmp]
    BY <1>2, <1>4
  <2> QED  BY <1>1, <2>1, ReturnCovers
<1>5. CASE call.kind \notin {"move", "assign"}
  <2>1. UNCHANGED tab
    BY <1>2, <1>5
  <2> QED  BY <1>1, <2>1, ReturnCovers
<1> QED  BY <1>3, <1>4, <1>5

(* Placing the elements of the call.                                       *)
LEMMA PlacedCovers ==
  ASSUME CoverInv, pc = "place", Placed, TabsCovered'
  PROVE  CoverInv'
<1>1. call \in CallType /\ call.todo \in Seq(Elements) /\ call.todo # <<>>
  BY DEF CoverInv, Stopped, CallSound, CallType
<1>2. CASE Len(call.todo) = 1
  BY <1>2, ReturnedCovered DEF Placed, CoverInv
<1>3. CASE Len(call.todo) # 1
  <2>1. Tail(call.todo) \in Seq(Elements) /\ Tail(call.todo) # <<>>
    <3>1. Tail(call.todo) \in Seq(Elements) /\ Len(Tail(call.todo)) = Len(call.todo) - 1
      BY <1>1, HeadTailProperties
    <3>2. Len(call.todo) - 1 # 0
      BY <1>1, <1>3
    <3> QED  BY <3>1, <3>2, EmptySeq
  <2>2. /\ call' = [call EXCEPT !.todo = Tail(call.todo), !.spot = ILLEGAL_BUCKET]
        /\ UNCHANGED <<tmp, pc>>
    BY <1>3 DEF Placed
  <2>3. call' \in CallType /\ call'.spot = ILLEGAL_BUCKET /\ call'.todo = Tail(call.todo)
    BY <1>1, <2>1, <2>2 DEF CallType
  <2>4. CallSound'
    BY <2>1, <2>2, <2>3 DEF CallSound, SpotFree
  <2> QED  BY <2>2, <2>4, TmpStillCovered DEF CoverInv
<1> QED  BY <1>2, <1>3

LEMMA PlaceNewCovers == CoverInv /\ PlaceNew => CoverInv'
<1> SUFFICES ASSUME CoverInv, PlaceNew PROVE CoverInv'
  OBVIOUS
<1> DEFINE h == tab[call.tab]
           e == Head(call.todo)
<1>1. /\ call \in CallType /\ call.tab \in Tables /\ Covered(h) /\ pc = "place"
      /\ call.todo \in Seq(Elements) /\ call.todo # <<>> /\ CallSound
  BY DEF CoverInv, Stopped, CallSound, TabsCovered, CallType, PlaceNew
<1>2. e \in Elements
  BY <1>1
<1>3. PICK b \in Buckets(h) :
        /\ IF call.spot = ILLEGAL_BUCKET THEN VacantAt(h, KeyOf[e], b) ELSE b = call.spot
        /\ h.cells[b] = Erased => h.deleted > 0
        /\ \/ tab' = [tab EXCEPT ![call.tab] = InsertAt(h, b, e)] /\ Placed
           \/ /\ StorageFails
              /\ tab' = [tab EXCEPT ![call.tab] = ForgetMark(h, b)] /\ Returned
  BY DEF PlaceNew, PlaceAt
<1>4. h.cells[b] \notin Elements
  BY <1>1, <1>3, MarkersAssumption DEF VacantAt, MarkersAssumption, CallSound, SpotFree
<1>5. CASE tab' = [tab EXCEPT ![call.tab] = InsertAt(h, b, e)] /\ Placed
  <2>1. Covered(InsertAt(h, b, e))
    BY <1>1, <1>2, <1>3, <1>4, InsertCovered
  <2>2. TabsCovered'
    BY <1>1, <1>5, <2>1, CoveredUpdate DEF CoverInv
  <2> QED  BY <1>1, <1>5, <2>2, PlacedCovers
<1>6. CASE tab' = [tab EXCEPT ![call.tab] = ForgetMark(h, b)] /\ Returned
  <2>1. Covered(ForgetMark(h, b))
    BY <1>1, <1>3, ForgetCovered
  <2> QED  BY <1>1, <1>6, <2>1, ReturnCovers
<1> QED  BY <1>3, <1>5, <1>6

LEMMA PlaceOldCovers == CoverInv /\ PlaceOld => CoverInv'
BY PlacedCovers, CoveredUnchanged DEF PlaceOld, CoverInv

(* The assertion ends the program with everything as it was.               *)
LEMMA AssertionFailsCovers == CoverInv /\ AssertionFails => CoverInv'
<1> SUFFICES ASSUME CoverInv, AssertionFails PROVE CoverInv'
  OBVIOUS
<1>1. TabsCovered' /\ Covered(tmp)'
  BY TmpStillCovered, CoveredUnchanged DEF CoverInv, AssertionFails
<1>2. Stopped'
  BY DEF CoverInv, AssertionFails, Stopped, CallSound
<1> QED  BY <1>1, <1>2 DEF CoverInv

(* Calls of one step.                                                      *)
LEMMA EraseKeyCovers ==
  ASSUME CoverInv, NEW t \in Tables, NEW k \in Keys, EraseKey(t, k)
  PROVE  CoverInv'
<1>1. PICK b \in Buckets(tab[t]) :
        FoundAt(tab[t], k, b) /\ tab' = [tab EXCEPT ![t] = EraseAll(tab[t], {b})]
  BY DEF EraseKey
<1>2. Covered(tab[t]) /\ {b} \in SUBSET Full(tab[t])
  BY <1>1, FoundIsFull DEF CoverInv, TabsCovered
<1>3. Covered(EraseAll(tab[t], {b}))
  BY <1>2, EraseCovered
<1> QED  BY <1>1, <1>3, AtomicCovers DEF EraseKey

LEMMA EraseRangeCovers ==
  ASSUME CoverInv, NEW t \in Tables, NEW b, NEW l, EraseRange(t, b, l)
  PROVE  CoverInv'
<1> DEFINE S == {c \in Full(tab[t]) : b <= c /\ c < l}
<1>1. Covered(EraseAll(tab[t], S))
  BY EraseCovered DEF CoverInv, TabsCovered
<1> QED  BY <1>1, AtomicCovers DEF EraseRange

(* Erasures that are not counted leave only size() exact.                  *)
LEMMA EraseRangeFailsCovers ==
  ASSUME CoverInv, NEW t \in Tables, NEW b, NEW l, EraseRangeFails(t, b, l)
  PROVE  CoverInv'
<1> DEFINE h == tab[t]
           S == {c \in Full(h) : b <= c /\ c < l}
           T(m) == {c \in S : c < m}
           g(m) == [EraseAll(h, T(m)) EXCEPT !.deleted = h.deleted, !.consider = h.consider]
<1>1. PICK m \in S : tab' = [tab EXCEPT ![t] = g(m)]
  BY DEF EraseRangeFails
<1>2. Covered(h) /\ T(m) \in SUBSET Full(h) /\ ShrinkFails
  BY DEF CoverInv, TabsCovered, EraseRangeFails
<1>3. Covered(g(m))
  BY <1>2, EraseCovered
<1> HIDE DEF g
<1> QED  BY <1>1, <1>3, AtomicCovers, ZenonT(40) DEF EraseRangeFails

LEMMA AssignMappedCovers ==
  ASSUME CoverInv, NEW t \in Tables, NEW e \in Elements, AssignMapped(t, e)
  PROVE  CoverInv'
<1>1. PICK b \in Buckets(tab[t]) :
        /\ FoundAt(tab[t], KeyOf[e], b)
        /\ tab' = [tab EXCEPT ![t].cells = [@ EXCEPT ![b] = e]]
  BY DEF AssignMapped
<1>2. Covered([tab[t] EXCEPT !.cells = [@ EXCEPT ![b] = e]])
  BY <1>1, FoundIsFull, OverwriteCovered DEF CoverInv, TabsCovered
<1>3. tab' = [tab EXCEPT ![t] = [tab[t] EXCEPT !.cells = [@ EXCEPT ![b] = e]]]
  BY <1>1
<1> QED  BY <1>2, <1>3, AtomicCovers DEF AssignMapped

LEMMA ClearCovers == ASSUME CoverInv, NEW t \in Tables, Clear(t) PROVE CoverInv'
<1>1. Covered(Cleared(tab[t]))
  BY ClearedCovered DEF CoverInv, TabsCovered
<1> QED  BY <1>1, AtomicCovers DEF Clear

LEMMA SetResizingParametersCovers ==
  ASSUME CoverInv, NEW t \in Tables, NEW f \in Factors, SetResizingParameters(t, f)
  PROVE  CoverInv'
<1> DEFINE h == tab[t]
           g == [h EXCEPT !.shrink = Clipped(f), !.grow = f.grow]
<1>1. Covered(h)
  BY DEF CoverInv, TabsCovered
<1>2. Clipped(f) \in Percent /\ f.grow \in Percent
  <2>1. f.shrink \in Percent /\ f.grow \in Percent
    BY FactorsAssumption DEF FactorsAssumption
  <2> QED  BY <2>1 DEF Clipped, Percent
<1>3. Covered(g)
  BY <1>1, <1>2 DEF Covered, TableType, Full, Marks, Buckets
<1>4. Covered(ResetThresholds(g))
  BY <1>3, ResetCovered
<1> QED  BY <1>4, AtomicCovers DEF SetResizingParameters

LEMMA SwapCovers ==
  ASSUME CoverInv, NEW t \in Tables, NEW u \in Tables, Swap(t, u)
  PROVE  CoverInv'
<1>1. Covered(ResetThresholds(tab[t])) /\ Covered(ResetThresholds(tab[u]))
  BY ResetCovered DEF CoverInv, TabsCovered
<1>2. TabsCovered'
  BY <1>1 DEF Swap, CoverInv, TabsCovered
<1> QED  BY <1>2, AtomicCovered DEF Swap, CoverInv

LEMMA MoveConstructCovers ==
  ASSUME CoverInv, NEW t \in Tables, NEW u \in Tables, MoveConstruct(t, u)
  PROVE  CoverInv'
<1>1. Covered(tab[u]) /\ Covered(ResetThresholds(tab[u]))
  BY ResetCovered DEF CoverInv, TabsCovered
<1>2. Sound(Fresh(DefaultBuckets, tab[u].shrink, tab[u].grow))
  BY <1>1, FreshSound, TableFacts, SizesAssumption DEF Covered, SizesAssumption
<1>3. Covered(Fresh(DefaultBuckets, tab[u].shrink, tab[u].grow))
  BY <1>2, SoundCovers
<1>4. TabsCovered'
  BY <1>1, <1>3 DEF MoveConstruct, CoverInv, TabsCovered
<1> QED  BY <1>4, AtomicCovered DEF MoveConstruct, CoverInv

LEMMA RereadCovers ==
  ASSUME CoverInv, NEW t \in Tables, NEW u \in Tables, Reread(t, u)
  PROVE  CoverInv'
<1>1. Covered(Reloaded(tab[t], tab[u]))
  BY ReloadedCovered DEF CoverInv, TabsCovered
<1> QED  BY <1>1, AtomicCovers DEF Reread

LEMMA StartCopyCovers ==
  ASSUME CoverInv, NEW t \in Tables, NEW u \in Tables, NEW kind \in {"construct", "assign"},
         NEW h, Covered(h), StartCopy(t, u, kind, h)
  PROVE  CoverInv'
<1>1. TabsCovered'
  BY CoveredUnchanged DEF StartCopy, CoverInv
<1>2. Covered(tmp)'
  <2>1. Covered(tmp')
    BY DEF StartCopy
  <2> QED  BY <2>1 DEF Covered, Full, Marks, Buckets
<1>3. /\ call' \in CallType /\ call'.spot = ILLEGAL_BUCKET /\ call'.next = "idle"
  BY NoCallType DEF StartCopy, CallType
<1>4. CallSound'
  BY <1>3 DEF StartCopy, CallSound, SpotFree
<1> QED  BY <1>1, <1>2, <1>4 DEF CoverInv

LEMMA CopyConstructCovers ==
  ASSUME CoverInv, NEW t \in Tables, NEW u \in Tables, CopyConstruct(t, u)
  PROVE  CoverInv'
<1>1. PICK sz \in BucketCounts :
        StartCopy(t, u, "construct", Fresh(sz, tab[u].shrink, tab[u].grow))
  BY DEF CopyConstruct
<1>2. Covered(Fresh(sz, tab[u].shrink, tab[u].grow))
  BY FreshSound, SoundCovers, TableFacts DEF CoverInv, TabsCovered, Covered
<1> QED  BY <1>1, <1>2, StartCopyCovers

LEMMA CopyAssignCovers ==
  ASSUME CoverInv, NEW t \in Tables, NEW u \in Tables, CopyAssign(t, u)
  PROVE  CoverInv'
<1> DEFINE base == AssignBase(tab[t], tab[u])
<1>1. Covered(tab[t]) /\ TableType(tab[u])
  BY DEF CoverInv, TabsCovered, Covered
<1>2. AssignOntoEmptied \/ Marks(tab[t]) = {} \/ tab[t].items # 0 \/ tab[u].deleted # 0
  BY DEF CopyAssign
<1>3. Covered(base)
  BY <1>1, <1>2, AssignBaseCovered
<1>4. CASE \E sz \in BucketCounts : StartCopy(t, u, "assign", Extended(base, sz))
  BY <1>3, <1>4, ExtendedCovered, StartCopyCovers
<1>5. CASE Atomic /\ tab' = [tab EXCEPT ![t] = base]
  BY <1>3, <1>5, AtomicCovers
<1> QED  BY <1>4, <1>5 DEF CopyAssign

LEMMA NextCovers == CoverInv /\ [Next]_vars => CoverInv'
<1> SUFFICES ASSUME CoverInv, [Next]_vars PROVE CoverInv'
  OBVIOUS
<1>1. ASSUME NEW t \in Tables, NEW todo \in Inserts, Insert(t, todo) PROVE CoverInv'
  BY <1>1, InsertCovers
<1>2. ASSUME NEW t \in Tables, NEW k \in Keys, FindOrInsert(t, k) \/ EraseKey(t, k)
      PROVE  CoverInv'
  BY <1>2, FindOrInsertCovers, EraseKeyCovers
<1>3. ASSUME NEW t \in Tables, NEW n \in Requests, Resize(t, n) PROVE CoverInv'
  BY <1>3, ResizeCovers
<1>4. ASSUME NEW t \in Tables, NEW b, NEW l, EraseRange(t, b, l) \/ EraseRangeFails(t, b, l)
      PROVE  CoverInv'
  BY <1>4, EraseRangeCovers, EraseRangeFailsCovers
<1>5. ASSUME NEW t \in Tables, NEW e \in Elements, AssignMapped(t, e) PROVE CoverInv'
  BY <1>5, AssignMappedCovers
<1>6. ASSUME NEW t \in Tables, Clear(t) PROVE CoverInv'
  BY <1>6, ClearCovers
<1>7. ASSUME NEW t \in Tables, NEW f \in Factors, SetResizingParameters(t, f) PROVE CoverInv'
  BY <1>7, SetResizingParametersCovers
<1>8. ASSUME NEW t \in Tables, NEW u \in Tables,
             Swap(t, u) \/ MoveConstruct(t, u) \/ Reread(t, u)
      PROVE  CoverInv'
  BY <1>8, SwapCovers, MoveConstructCovers, RereadCovers
<1>9. ASSUME NEW t \in Tables, NEW u \in Tables, CopyConstruct(t, u) \/ CopyAssign(t, u)
      PROVE  CoverInv'
  BY <1>9, CopyConstructCovers, CopyAssignCovers
<1>10. CASE Step
  <2>1. CASE ShrinkTable \/ SkipShrink \/ GrowTable \/ SkipGrow \/ ResizeOverflow
    BY <2>1, ShrinkTableCovers, SkipShrinkCovers, GrowTableCovers, SkipGrowCovers,
       ResizeOverflowCovers
  <2>2. CASE RehashOne \/ RehashDone \/ RehashFails
    BY <2>2, RehashOneCovers, RehashDoneCovers, RehashFailsCovers
  <2>3. CASE PlaceNew \/ PlaceOld \/ AssertionFails
    BY <2>3, PlaceNewCovers, PlaceOldCovers, AssertionFailsCovers
  <2> QED  BY <1>10, <2>1, <2>2, <2>3 DEF Step
<1>11. CASE UNCHANGED vars
  <2>1. UNCHANGED tab /\ UNCHANGED tmp /\ UNCHANGED call /\ UNCHANGED pc
    BY <1>11 DEF vars
  <2>2. TabsCovered' /\ Covered(tmp)'
    BY <2>1, TmpStillCovered, CoveredUnchanged DEF CoverInv
  <2>3. CallSound' \/ Stopped'
    BY <2>1 DEF CoverInv, CallSound, Stopped, SpotFree, Buckets
  <2> QED  BY <2>2, <2>3 DEF CoverInv
<1> QED  BY <1>1, <1>2, <1>3, <1>4, <1>5, <1>6, <1>7, <1>8, <1>9, <1>10, <1>11 DEF Next, Call

(* Whatever fails and whatever the program does, every table is well       *)
(* formed: its counters stay at or above zero, although num_deleted is     *)
(* decremented where a mark is reused and a failed erase does not          *)
(* increment it.                                                           *)
THEOREM TypeCorrect == Spec => []TypeOK
BY InitCovers, NextCovers, CoverInvImplies, PTL DEF Spec

(* size() is the number of full buckets as long as storage does not run    *)
(* out, also after an erase(f, l) that failed half way and after an        *)
(* assignment onto an emptied table.                                       *)
THEOREM SizeIsExact ==
  ASSUME ~ StorageFails
  PROVE  Spec => []SizeExact
BY InitCovers, NextCovers, CoverInvImplies, PTL DEF Spec

(* When storage runs out the counters still include everything that is     *)
(* stored and every mark, as long as no erase(f, l) fails half way and no  *)
(* emptied table is the target of an assignment.                           *)
THEOREM CountersAlwaysCover ==
  ASSUME ~ ShrinkFails, ~ AssignOntoEmptied
  PROVE  Spec => []CountersCover
BY InitCovers, NextCovers, CoverInvImplies, PTL DEF Spec

(* A mark that is reused is a mark that is counted.                        *)
LEMMA MarksAreCounted ==
  ASSUME ~ ShrinkFails, ~ AssignOntoEmptied
  PROVE  CoverInv => ~ AssertionFails
<1> SUFFICES ASSUME CoverInv, AssertionFails PROVE FALSE
  OBVIOUS
<1> DEFINE h == tab[call.tab]
<1>1. Covered(h)
  BY DEF CoverInv, Stopped, CallSound, TabsCovered, CallType
<1>2. Marks(h) # {} /\ h.deleted = 0
  BY DEF AssertionFails, Marks
<1>3. IsFiniteSet(Marks(h)) /\ Cardinality(Marks(h)) \in Nat /\ Cardinality(Marks(h)) <= 0
  BY <1>1, <1>2, CoveredFacts DEF Covered
<1> QED  BY <1>2, <1>3, FS_EmptySet

(* Only the assertion aborts.                                              *)
LEMMA OthersGoOn ==
  ASSUME CoverInv, AssertionHolds, [Next]_vars, ~ AssertionFails
  PROVE  AssertionHolds'
<1> USE DEF AssertionHolds
<1>1. call.next \in {"idle", "delta", "place"}
  BY DEF CoverInv, Stopped, CallSound, CallType
<1>2. CASE ShrinkTable \/ GrowTable
  BY <1>2 DEF ShrinkTable, GrowTable, StartRehash
<1>3. CASE SkipShrink \/ RehashDone
  BY <1>1, <1>3 DEF SkipShrink, RehashDone, Returned
<1>4. CASE SkipGrow \/ ResizeOverflow \/ RehashOne \/ RehashFails
  BY <1>4 DEF SkipGrow, AfterDelta, ResizeOverflow, RehashOne, RehashFails, Returned
<1>5. CASE PlaceNew \/ PlaceOld
  BY <1>5 DEF PlaceNew, PlaceOld, Placed, Returned
<1>6. CASE Call
  <2>1. ASSUME Atomic PROVE AssertionHolds'
    BY <2>1 DEF Atomic
  <2>2. ASSUME NEW t \in Tables, NEW todo \in Inserts, Insert(t, todo) PROVE AssertionHolds'
    BY <2>2 DEF Insert
  <2>3. ASSUME NEW t \in Tables, NEW k \in Keys, FindOrInsert(t, k) \/ EraseKey(t, k)
        PROVE  AssertionHolds'
    BY <2>1, <2>3 DEF FindOrInsert, EraseKey
  <2>4. ASSUME NEW t \in Tables, NEW n \in Requests, Resize(t, n) PROVE AssertionHolds'
    BY <2>4 DEF Resize
  <2>5. ASSUME NEW t \in Tables, NEW b, NEW l, EraseRange(t, b, l) \/ EraseRangeFails(t, b, l)
        PROVE  AssertionHolds'
    BY <2>1, <2>5 DEF EraseRange, EraseRangeFails
  <2>6. ASSUME NEW t \in Tables, NEW e \in Elements, AssignMapped(t, e) PROVE AssertionHolds'
    BY <2>1, <2>6 DEF AssignMapped
  <2>7. ASSUME NEW t \in Tables, NEW f, Clear(t) \/ SetResizingParameters(t, f)
        PROVE  AssertionHolds'
    BY <2>1, <2>7 DEF Clear, SetResizingParameters
  <2>8. ASSUME NEW t \in Tables, NEW u \in Tables,
               Swap(t, u) \/ MoveConstruct(t, u) \/ Reread(t, u)
        PROVE  AssertionHolds'
    BY <2>1, <2>8 DEF Swap, MoveConstruct, Reread
  <2>9. ASSUME NEW t \in Tables, NEW u \in Tables, CopyConstruct(t, u) \/ CopyAssign(t, u)
        PROVE  AssertionHolds'
    BY <2>1, <2>9 DEF CopyConstruct, CopyAssign, StartCopy
  <2> QED  BY <1>6, <2>2, <2>3, <2>4, <2>5, <2>6, <2>7, <2>8, <2>9 DEF Call
<1>7. CASE UNCHANGED vars
  BY <1>7 DEF vars
<1> QED  BY <1>2, <1>3, <1>4, <1>5, <1>6, <1>7 DEF Next, Step

(* The assertion that num_deleted is not 0 when a mark is reused never     *)
(* fails, even if storage runs out in between, as long as no erase(f, l)   *)
(* fails half way and no emptied table is the target of an assignment.     *)
THEOREM NeverAborts ==
  ASSUME ~ ShrinkFails, ~ AssignOntoEmptied
  PROVE  Spec => []AssertionHolds
<1>1. Init => CoverInv /\ AssertionHolds
  BY InitCovers DEF Init, AssertionHolds
<1>2. CoverInv /\ AssertionHolds /\ [Next]_vars => (CoverInv /\ AssertionHolds)'
  BY NextCovers, MarksAreCounted, OthersGoOn
<1> QED  BY <1>1, <1>2, PTL DEF Spec
=============================================================================
