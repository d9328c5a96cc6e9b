----------------------- MODULE SparseHashtableLookup -----------------------
(***************************************************************************)
(* Theorems about looking up: whatever the calls so far, find reaches      *)
(* every element stored, and the bucket find_or_insert remembers stays     *)
(* the right one; and about the sizing that makes searches end.            *)
(***************************************************************************)
EXTENDS SparseHashtableProofs, WellFoundedInduction

-----------------------------------------------------------------------------
(* Probe chains of one table.                                              *)

(* Whether a probe for k ends at a bucket with contents c.                 *)
Ends(c, k) == c = Empty \/ (c \in Elements /\ KeyOf[c] = k)

LEMMA AtType ==
  ASSUME NEW h, TableType(h), NEW k \in Keys, NEW n \in Buckets(h)
  PROVE  At(h, k, n) \in Buckets(h)
<1>1. Hash[k] \in Nat /\ h.size \in Nat /\ h.size > 0 /\ n \in Nat
  BY ElementsAssumption, TableFacts DEF ElementsAssumption, Buckets
<1>2. (n * (n + 1)) \div 2 \in Int
  BY <1>1
<1>3. Hash[k] + (n * (n + 1)) \div 2 \in Int
  BY <1>1, <1>2
<1> QED  BY <1>1, <1>3 DEF At, Probe, Buckets

LEMMA KeyType == ASSUME NEW e \in Elements PROVE KeyOf[e] \in Keys
BY ElementsAssumption DEF ElementsAssumption

LEMMA LastProbeUnique ==
  ASSUME NEW h, TableType(h), NEW k, NEW n, NEW m, LastProbe(h, k, n), LastProbe(h, k, m)
  PROVE  n = m
<1>1. n \in Nat /\ m \in Nat
  BY TableFacts DEF LastProbe, Buckets
<1>2. ~ (n < m) /\ ~ (m < n)
  BY <1>1 DEF LastProbe
<1> QED  BY <1>1, <1>2

(* No key is stored in two buckets.                                        *)
LEMMA KeysUnique ==
  ASSUME NEW h, TableType(h), AllReachable(h), NEW b \in Full(h), NEW c \in Full(h),
         KeyOf[h.cells[b]] = KeyOf[h.cells[c]]
  PROVE  b = c
<1> DEFINE k == KeyOf[h.cells[b]]
<1>1. PICK n : LastProbe(h, k, n) /\ b = At(h, k, n)
  BY DEF AllReachable, FoundAt
<1>2. PICK m : LastProbe(h, k, m) /\ c = At(h, k, m)
  BY DEF AllReachable, FoundAt
<1> QED  BY <1>1, <1>2, LastProbeUnique

(* A chain is kept by a change that makes no bucket end it earlier.        *)
LEMMA ChainKept ==
  ASSUME NEW h, TableType(h), NEW g, g.size = h.size, NEW k \in Keys, NEW b, FoundAt(h, k, b),
         \A c \in Buckets(h) : Ends(g.cells[c], k) => Ends(h.cells[c], k),
         Ends(g.cells[b], k), g.cells[b] # Empty
  PROVE  FoundAt(g, k, b)
<1>1. PICK n \in Buckets(h) : LastProbe(h, k, n) /\ b = At(h, k, n)
  BY DEF FoundAt
<1>2. Buckets(g) = Buckets(h) /\ \A m : At(g, k, m) = At(h, k, m)
  BY DEF Buckets, At
<1>3. Stops(g, k, n)
  BY <1>1, <1>2 DEF Stops, Ends
<1>4. ASSUME NEW m \in 0 .. n - 1 PROVE ~ Stops(g, k, m)
  <2>1. m \in Buckets(h) /\ ~ Stops(h, k, m)
    BY <1>1, TableFacts DEF LastProbe, Buckets
  <2>2. At(h, k, m) \in Buckets(h)
    BY <2>1, AtType
  <2> QED  BY <1>2, <2>1, <2>2 DEF Stops, Ends
<1>5. LastProbe(g, k, n)
  BY <1>1, <1>2, <1>3, <1>4 DEF LastProbe
<1> QED  BY <1>1, <1>2, <1>5 DEF FoundAt

LEMMA SameCells ==
  ASSUME NEW h, NEW g, g.size = h.size, g.cells = h.cells
  PROVE  /\ AllReachable(h) => AllReachable(g)
         /\ \A k, b : VacantAt(h, k, b) => VacantAt(g, k, b)
BY DEF AllReachable, Full, Buckets, FoundAt, VacantAt, LastProbe, Stops, At

LEMMA NothingToReach == ASSUME NEW h, Full(h) = {} PROVE AllReachable(h)
BY DEF AllReachable

(* Writing e to bucket b, where its own chain ends, leaves the chains of   *)
(* elements with other keys as they were.                                  *)
LEMMA WriteReachable ==
  ASSUME NEW h, TableType(h), AllReachable(h), NEW b \in Buckets(h), NEW e \in Elements,
         NEW g, TableType(g), g.size = h.size, g.cells = [h.cells EXCEPT ![b] = e],
         \A c \in Full(h) \ {b} : KeyOf[h.cells[c]] # KeyOf[e],
         FoundAt(g, KeyOf[e], b)
  PROVE  AllReachable(g)
<1> SUFFICES ASSUME NEW c \in Full(g) PROVE FoundAt(g, KeyOf[g.cells[c]], c)
  BY DEF AllReachable
<1>1. CASE c = b
  BY <1>1, TableFacts
<1>2. CASE c # b
  <2>1. c \in Full(h) \ {b} /\ g.cells[c] = h.cells[c]
    BY <1>2, WriteElement, TableFacts DEF Full, Buckets
  <2> DEFINE k == KeyOf[h.cells[c]]
  <2>2. k \in Keys /\ k # KeyOf[e] /\ FoundAt(h, k, c)
    BY <2>1, KeyType DEF Full, AllReachable
  <2>3. \A d \in Buckets(h) : Ends(g.cells[d], k) => Ends(h.cells[d], k)
    BY <2>2, TableFacts, MarkersAssumption DEF Ends, MarkersAssumption
  <2>4. Ends(g.cells[c], k) /\ g.cells[c] # Empty
    BY <2>1, MarkersAssumption DEF Ends, Full, MarkersAssumption
  <2> QED  BY <2>1, <2>2, <2>3, <2>4, ChainKept
<1> QED  BY <1>1, <1>2

LEMMA VacantNotStored ==
  ASSUME NEW h, TableType(h), AllReachable(h), NEW k \in Keys, NEW b, VacantAt(h, k, b),
         NEW c \in Full(h)
  PROVE  KeyOf[h.cells[c]] # k
<1> SUFFICES ASSUME KeyOf[h.cells[c]] = k PROVE FALSE
  OBVIOUS
<1>1. PICK n : LastProbe(h, k, n) /\ h.cells[At(h, k, n)] = Empty
  BY DEF VacantAt
<1>2. PICK m : LastProbe(h, k, m) /\ c = At(h, k, m) /\ h.cells[c] # Empty
  BY DEF AllReachable, FoundAt
<1> QED  BY <1>1, <1>2, LastProbeUnique

(* Inserting at the bucket _find_position chose.                           *)
LEMMA InsertReachable ==
  ASSUME NEW h, TableType(h), AllReachable(h), NEW b \in Buckets(h), NEW e \in Elements,
         VacantAt(h, KeyOf[e], b),
         NEW g, TableType(g), g.size = h.size, g.cells = [h.cells EXCEPT ![b] = e]
  PROVE  AllReachable(g)
<1> DEFINE k == KeyOf[e]
<1>1. k \in Keys
  BY KeyType
<1>2. PICK m \in Buckets(h) :
        /\ b = At(h, k, m) /\ h.cells[b] \in {Empty, Erased}
        /\ \A i \in 0 .. m - 1 : h.cells[At(h, k, i)] # Erased
        /\ \E n \in m .. h.size - 1 : LastProbe(h, k, n)
  BY DEF VacantAt
<1>3. PICK n \in m .. h.size - 1 : LastProbe(h, k, n)
  BY <1>2
<1>4. Buckets(g) = Buckets(h) /\ \A i : At(g, k, i) = At(h, k, i)
  BY DEF Buckets, At
<1>5. g.cells[b] = e
  BY TableFacts
<1>6. Stops(g, k, m)
  BY <1>2, <1>4, <1>5 DEF Stops
<1>7. ASSUME NEW i \in 0 .. m - 1 PROVE ~ Stops(g, k, i)
  <2>1. i \in Buckets(h) /\ i \in 0 .. n - 1
    BY <1>3, TableFacts DEF Buckets
  <2>2. ~ Stops(h, k, i) /\ h.cells[At(h, k, i)] # Erased /\ At(h, k, i) \in Buckets(h)
    BY <1>1, <1>2, <1>3, <2>1, AtType DEF LastProbe
  <2>3. At(h, k, i) # b
    BY <1>2, <2>2 DEF Stops
  <2>4. g.cells[At(g, k, i)] = h.cells[At(h, k, i)]
    BY <1>4, <2>2, <2>3, TableFacts
  <2> QED  BY <1>4, <2>2, <2>4 DEF Stops
<1>8. FoundAt(g, k, b)
  <2>1. LastProbe(g, k, m)
    BY <1>2, <1>4, <1>6, <1>7 DEF LastProbe
  <2>2. b = At(g, k, m) /\ g.cells[b] # Empty
    BY <1>2, <1>4, <1>5, MarkersAssumption DEF MarkersAssumption
  <2> QED  BY <1>2, <1>4, <2>1, <2>2 DEF FoundAt
<1>9. \A c \in Full(h) \ {b} : KeyOf[h.cells[c]] # k
  BY <1>1, VacantNotStored
<1> QED  BY <1>8, <1>9, WriteReachable

(* Putting an element at the first bucket of its chain that is not full,   *)
(* as a rehash does, is right if its key is not there yet.                 *)
LEMMA PutReachable ==
  ASSUME NEW h, TableType(h), AllReachable(h), NEW b \in Buckets(h), NEW e \in Elements,
         FreeAt(h, KeyOf[e], b), \A c \in Full(h) : KeyOf[h.cells[c]] # KeyOf[e],
         NEW g, TableType(g), g.size = h.size, g.cells = [h.cells EXCEPT ![b] = e]
  PROVE  AllReachable(g)
<1> DEFINE k == KeyOf[e]
<1>1. k \in Keys
  BY KeyType
<1>2. PICK n \in Buckets(h) :
        /\ b = At(h, k, n) /\ h.cells[b] \notin Elements
        /\ \A m \in 0 .. n - 1 : h.cells[At(h, k, m)] \in Elements
  BY DEF FreeAt
<1>3. Buckets(g) = Buckets(h) /\ \A i : At(g, k, i) = At(h, k, i)
  BY DEF Buckets, At
<1>4. g.cells[b] = e
  BY TableFacts
<1>5. Stops(g, k, n)
  BY <1>2, <1>3, <1>4 DEF Stops
<1>6. ASSUME NEW m \in 0 .. n - 1 PROVE ~ Stops(g, k, m)
  <2>1. m \in Buckets(h)
    BY <1>2, TableFacts DEF Buckets
  <2>2. h.cells[At(h, k, m)] \in Elements /\ At(h, k, m) \in Buckets(h)
    BY <1>1, <1>2, <2>1, AtType
  <2>3. At(h, k, m) # b /\ KeyOf[h.cells[At(h, k, m)]] # k
    BY <1>2, <2>2 DEF Full
  <2>4. g.cells[At(g, k, m)] = h.cells[At(h, k, m)]
    BY <1>3, <2>2, <2>3, TableFacts
  <2> QED  BY <2>2, <2>3, <2>4, MarkersAssumption DEF Stops, MarkersAssumption
<1>7. FoundAt(g, k, b)
  <2>1. LastProbe(g, k, n)
    BY <1>2, <1>3, <1>5, <1>6 DEF LastProbe
  <2>2. b = At(g, k, n) /\ g.cells[b] # Empty
    BY <1>2, <1>3, <1>4, MarkersAssumption DEF MarkersAssumption
  <2> QED  BY <1>2, <1>3, <2>1, <2>2 DEF FoundAt
<1> QED  BY <1>7, WriteReachable

(* A mark ends no chain.                                                   *)
LEMMA EraseReachable ==
  ASSUME NEW h, TableType(h), AllReachable(h), NEW S \in SUBSET Full(h)
  PROVE  AllReachable(EraseAll(h, S))
<1> DEFINE g == EraseAll(h, S)
<1>1. /\ g.size = h.size
      /\ g.cells = [b \in Buckets(h) |-> IF b \in S THEN Erased ELSE h.cells[b]]
  BY DEF EraseAll, TableType
<1> SUFFICES ASSUME NEW c \in Full(g) PROVE FoundAt(g, KeyOf[g.cells[c]], c)
  BY DEF AllReachable
<1> HIDE DEF g
<1>2. c \in Full(h) \ S /\ g.cells[c] = h.cells[c]
  BY <1>1, MarkersAssumption DEF Full, Buckets, MarkersAssumption
<1> DEFINE k == KeyOf[h.cells[c]]
<1>3. k \in Keys /\ FoundAt(h, k, c) /\ h.cells[c] \in Elements
  BY <1>2, KeyType DEF Full, AllReachable
<1>4. \A d \in Buckets(h) : Ends(g.cells[d], k) => Ends(h.cells[d], k)
  BY <1>1, MarkersAssumption DEF Ends, MarkersAssumption
<1>5. Ends(g.cells[c], k) /\ g.cells[c] # Empty
  BY <1>2, <1>3, MarkersAssumption DEF Ends, MarkersAssumption
<1> QED  BY <1>1, <1>2, <1>3, <1>4, <1>5, ChainKept

(* Writing another element with the same key.                              *)
LEMMA OverwriteReachable ==
  ASSUME NEW h, TableType(h), AllReachable(h), NEW b \in Full(h), NEW e \in Elements,
         FoundAt(h, KeyOf[e], b),
         NEW g, TableType(g), g.size = h.size, g.cells = [h.cells EXCEPT ![b] = e]
  PROVE  AllReachable(g)
<1> DEFINE k == KeyOf[e]
<1>1. k \in Keys /\ b \in Buckets(h)
  BY KeyType DEF Full
<1>2. h.cells[b] \in Elements /\ KeyOf[h.cells[b]] = k
  BY MarkersAssumption DEF FoundAt, LastProbe, Stops, Full, MarkersAssumption
<1>3. \A c \in Full(h) \ {b} : KeyOf[h.cells[c]] # k
  BY <1>2, KeysUnique
<1>4. g.cells[b] = e
  BY <1>1, TableFacts
<1>5. \A c \in Buckets(h) : Ends(g.cells[c], k) => Ends(h.cells[c], k)
  BY <1>1, <1>2, TableFacts DEF Ends
<1>6. Ends(g.cells[b], k) /\ g.cells[b] # Empty
  BY <1>4, MarkersAssumption DEF Ends, MarkersAssumption
<1>7. FoundAt(g, k, b)
  BY <1>1, <1>5, <1>6, ChainKept
<1> QED  BY <1>1, <1>3, <1>7, WriteReachable

-----------------------------------------------------------------------------
(* The inductive invariant.  A rehash does not compare keys, so it needs   *)
(* that what is in the temporary table was taken from buckets of the       *)
(* source that the cursor has passed.                                      *)

TabsReachable == \A t \in Tables : AllReachable(tab[t])

Moved ==
  pc = "rehash" =>
    \A d \in Full(tmp) : \E b \in Full(tab[call.src]) :
       b < call.cursor /\ tab[call.src].cells[b] = tmp.cells[d]

TmpReachable == AllReachable(tmp) /\ Moved

SpotVacant ==
  call.spot # ILLEGAL_BUCKET =>
    /\ call.todo # <<>>
    /\ VacantAt(tab[call.tab], KeyOf[Head(call.todo)], call.spot)

ReachInv == CoverInv /\ TabsReachable /\ TmpReachable /\ SpotVacant

LEMMA ReachInvImplies == ReachInv => EveryElementFound /\ SpotStillVacant
BY DEF ReachInv, TabsReachable, SpotVacant, EveryElementFound, SpotStillVacant

LEMMA FreshReachable ==
  ASSUME NEW sz \in BucketCounts, NEW s \in Percent, NEW g \in Percent
  PROVE  Full(Fresh(sz, s, g)) = {} /\ AllReachable(Fresh(sz, s, g))
BY FreshSound, NothingToReach

LEMMA NoTmpReachable == Full(NoTmp) = {} /\ AllReachable(NoTmp)
<1>1. 0 \in Percent /\ MinBuckets \in BucketCounts
  BY SizesAssumption DEF SizesAssumption, Percent
<1> QED  BY <1>1, FreshReachable DEF NoTmp

LEMMA ResetReachable ==
  ASSUME NEW h, TableType(h), AllReachable(h)
  PROVE  AllReachable(ResetThresholds(h))
<1>1. ResetThresholds(h).size = h.size /\ ResetThresholds(h).cells = h.cells
  BY DEF ResetThresholds, TableType
<1> QED  BY <1>1, SameCells

LEMMA ClearedReachable == ASSUME NEW h, Covered(h) PROVE AllReachable(Cleared(h))
BY ClearedCovered, NothingToReach

LEMMA UpdateReachable ==
  ASSUME TabsCovered, TabsReachable, NEW t \in Tables, NEW g, AllReachable(g),
         tab' = [tab EXCEPT ![t] = g]
  PROVE  TabsReachable'
BY DEF TabsCovered, TabsReachable

LEMMA TabsKept == TabsReachable /\ UNCHANGED tab => TabsReachable'
BY DEF TabsReachable

LEMMA TmpKept == AllReachable(tmp) /\ UNCHANGED tmp => AllReachable(tmp)'
BY DEF AllReachable, FoundAt, LastProbe, Stops, At, Full, Buckets

LEMMA ReturnedReach == Returned => TmpReachable' /\ SpotVacant'
<1> SUFFICES ASSUME Returned PROVE TmpReachable' /\ SpotVacant'
  OBVIOUS
<1>1. tmp' = NoTmp /\ call' = NoCall /\ pc' = "idle"
  BY DEF Returned
<1> QED  BY <1>1, NoTmpReachable, NoCallType
         DEF TmpReachable, Moved, SpotVacant, AllReachable, FoundAt, LastProbe, Stops, At, Full, Buckets

LEMMA AtomicReach ==
  ASSUME ReachInv, Atomic
  PROVE  TmpReachable' /\ SpotVacant'
<1>1. tmp' = tmp /\ call' = NoCall /\ pc' = "idle"
  BY DEF ReachInv, CoverInv, CallSound, Stopped, Atomic
<1>2. AllReachable(tmp)'
  BY <1>1, TmpKept DEF ReachInv, TmpReachable
<1> QED  BY <1>1, <1>2, NoCallType DEF TmpReachable, Moved, SpotVacant

-----------------------------------------------------------------------------
(* Every step preserves reachability; that CoverInv is kept is NextCovers.  *)

Reached == TabsReachable /\ TmpReachable /\ SpotVacant

LEMMA InitReached == Init => Reached
<1> SUFFICES ASSUME Init PROVE Reached
  OBVIOUS
<1>1. InitialSizes \subseteq BucketCounts
  BY SizesAssumption DEF InitialSizes, SizesAssumption
<1>2. DefaultFactors.shrink \in Percent /\ DefaultFactors.grow \in Percent
  BY FactorsAssumption DEF FactorsAssumption
<1>3. TabsReachable
  BY <1>1, <1>2, FreshReachable DEF Init, TabsReachable
<1>4. TmpReachable /\ SpotVacant
  BY NoTmpReachable, NoCallType DEF Init, TmpReachable, Moved, SpotVacant
<1> QED  BY <1>3, <1>4 DEF Reached

LEMMA BeginReached ==
  ASSUME ReachInv, NEW t \in Tables, NEW todo, NEW delta,
         NEW spot \in Nat \cup {ILLEGAL_BUCKET}, NEW next,
         Begin(t, todo, delta, spot, next), pc' \in {"shrink", "delta"},
         spot # ILLEGAL_BUCKET =>
           todo # <<>> /\ VacantAt(tab[t], KeyOf[Head(todo)], spot)
  PROVE  Reached'
<1>1. /\ tab' = tab /\ tmp' = tmp /\ pc' # "rehash"
      /\ call'.tab = t /\ call'.spot = spot /\ call'.todo = todo
  BY DEF Begin, NoCall
<1>2. TabsReachable' /\ AllReachable(tmp)'
  BY <1>1, TabsKept, TmpKept DEF ReachInv, TmpReachable
<1>3. SpotVacant'
  BY <1>1, ZenonT(40) DEF SpotVacant, VacantAt, LastProbe, Stops, At, Buckets
<1> QED  BY <1>1, <1>2, <1>3 DEF Reached, TmpReachable, Moved

LEMMA InsertReached ==
  ASSUME ReachInv, NEW t \in Tables, NEW todo \in Inserts, Insert(t, todo)
  PROVE  Reached'
BY BeginReached DEF Insert

LEMMA FindOrInsertReached ==
  ASSUME ReachInv, NEW t \in Tables, NEW k \in Keys, FindOrInsert(t, k)
  PROVE  Reached'
<1>1. PICK b \in Buckets(tab[t]) :
        /\ VacantAt(tab[t], k, b)
        /\ Begin(t, <<DefaultOf[k]>>, 1, b, "delta")
        /\ pc' = IF tab[t].consider THEN "shrink" ELSE "delta"
  BY DEF FindOrInsert
<1>2. b \in Nat
  BY TableFacts DEF ReachInv, CoverInv, TabsCovered, Covered, Buckets
<1>3. <<DefaultOf[k]>> # <<>> /\ Head(<<DefaultOf[k]>>) = DefaultOf[k]
  OBVIOUS
<1>4. KeyOf[DefaultOf[k]] = k
  BY ElementsAssumption DEF ElementsAssumption
<1> QED  BY <1>1, <1>2, <1>3, <1>4, BeginReached

LEMMA ResizeReached ==
  ASSUME ReachInv, NEW t \in Tables, NEW n \in Requests, Resize(t, n)
  PROVE  Reached'
<1> DEFINE grows == n > tab[t].items
<1>1. /\ Begin(t, <<>>, IF grows THEN n - tab[t].items ELSE 0, ILLEGAL_BUCKET,
               IF grows THEN "delta" ELSE "idle")
      /\ pc' \in {"shrink", "delta"}
  BY DEF Resize
<1> HIDE DEF grows
<1> QED  BY <1>1, BeginReached

LEMMA StartRehashReached ==
  ASSUME ReachInv, NEW sz \in BucketCounts, NEW next, StartRehash(sz, next)
  PROVE  Reached'
<1> DEFINE h == tab[call.tab]
           g == Fresh(sz, h.shrink, h.grow)
<1>1. call \in CallType /\ TableType(h)
  BY DEF ReachInv, CoverInv, CallSound, Stopped, TabsCovered, Covered, CallType
<1>2. Full(g) = {} /\ AllReachable(g)
  BY <1>1, TableFacts, FreshReachable
<1>3. tab' = tab /\ tmp' = g /\ call'.spot = ILLEGAL_BUCKET
  BY <1>1 DEF StartRehash, CallType
<1> HIDE DEF g
<1>4. TmpReachable'
  BY <1>2, <1>3 DEF TmpReachable, Moved, AllReachable, FoundAt, LastProbe, Stops, At, Full, Buckets
<1>5. TabsReachable' /\ SpotVacant'
  BY <1>3 DEF ReachInv, TabsReachable, SpotVacant
<1> QED  BY <1>4, <1>5 DEF Reached

LEMMA ReturnedReached == ReachInv /\ Returned /\ UNCHANGED tab => Reached'
BY ReturnedReach DEF ReachInv, TabsReachable, Reached

LEMMA MovesOnReached ==
  ASSUME ReachInv, UNCHANGED <<tab, tmp, call>>, pc' # "rehash"
  PROVE  Reached'
<1>1. AllReachable(tmp)'
  BY TmpKept DEF ReachInv, TmpReachable
<1>2. TabsReachable' /\ SpotVacant'
  BY DEF ReachInv, TabsReachable, SpotVacant
<1> QED  BY <1>1, <1>2 DEF Reached, TmpReachable, Moved

LEMMA ShrinkGrowReached == ReachInv /\ (ShrinkTable \/ GrowTable) => Reached'
BY StartRehashReached DEF ShrinkTable, GrowTable

LEMMA SkipShrinkReached == ReachInv /\ SkipShrink => Reached'
<1> SUFFICES ASSUME ReachInv, SkipShrink PROVE Reached'
  OBVIOUS
<1> DEFINE h == tab[call.tab]
           g == [h EXCEPT !.consider = FALSE]
<1>1. call \in CallType /\ call.tab \in Tables /\ TableType(h)
  BY DEF ReachInv, CoverInv, CallSound, Stopped, TabsCovered, Covered, CallType
<1>2. g.size = h.size /\ g.cells = h.cells
  BY <1>1 DEF TableType
<1>3. tab' = [tab EXCEPT ![call.tab] = g]
  BY DEF SkipShrink
<1> HIDE DEF g
<1>4. AllReachable(g) /\ \A k, b : VacantAt(h, k, b) => VacantAt(g, k, b)
  BY <1>1, <1>2, SameCells DEF ReachInv, TabsReachable
<1>5. TabsReachable' /\ tab'[call.tab] = g
  BY <1>1, <1>3, <1>4, UpdateReachable, CoveredUpdate DEF ReachInv, CoverInv, TabsCovered
<1>6. CASE call.next = "idle"
  BY <1>5, <1>6, ReturnedReach DEF SkipShrink, Reached
<1>7. CASE call.next # "idle"
  <2>1. pc' = call.next /\ tmp' = tmp /\ call' = call /\ call.next \in {"delta", "place"}
    BY <1>1, <1>7 DEF SkipShrink, CallType
  <2>2. SpotVacant'
    BY <1>4, <1>5, <2>1 DEF ReachInv, SpotVacant
  <2>3. AllReachable(tmp)'
    BY <2>1, TmpKept DEF ReachInv, TmpReachable
  <2> QED  BY <1>5, <2>1, <2>2, <2>3 DEF Reached, TmpReachable, Moved
<1> QED  BY <1>6, <1>7

LEMMA SkipGrowReached == ReachInv /\ SkipGrow => Reached'
<1> SUFFICES ASSUME ReachInv, SkipGrow PROVE Reached'
  OBVIOUS
<1>1. CASE call.todo = <<>>
  BY <1>1, ReturnedReached DEF SkipGrow, AfterDelta
<1>2. CASE call.todo # <<>>
  BY <1>2, MovesOnReached DEF SkipGrow, AfterDelta
<1> QED  BY <1>1, <1>2

(* The element comes from a bucket the cursor has not passed, so its key   *)
(* is not in the temporary table yet.                                      *)
LEMMA RehashOneReached == ReachInv /\ RehashOne => Reached'
<1> SUFFICES ASSUME ReachInv, RehashOne PROVE Reached'
  OBVIOUS
<1> DEFINE h == tab[call.src]
<1>1. /\ call \in CallType /\ call.src \in Tables /\ pc = "rehash"
      /\ Covered(h) /\ AllReachable(h) /\ Covered(tmp) /\ AllReachable(tmp)
  BY DEF ReachInv, CoverInv, CallSound, Stopped, TabsCovered, CallType, TabsReachable,
         TmpReachable, RehashOne
<1>2. PICK b \in Buckets(h), d \in Buckets(tmp) :
        /\ IsNextFull(h, call.cursor, b)
        /\ FreeAt(tmp, KeyOf[h.cells[b]], d)
        /\ tmp' = PutAt(tmp, d, h.cells[b])
        /\ call' = [call EXCEPT !.cursor = b + 1]
  BY DEF RehashOne
<1> DEFINE e == h.cells[b]
           g == PutAt(tmp, d, e)
<1>3. b \in Full(h) /\ e \in Elements /\ tmp.cells[d] \notin Elements /\ call.cursor <= b
  BY <1>2, ZenonT(40) DEF IsNextFull, Full, FreeAt
<1>4. TableType(g) /\ g.size = tmp.size /\ g.cells = [tmp.cells EXCEPT ![d] = e]
  <2>1. TableType(g)
    BY <1>1, <1>3, PutCovered DEF Covered
  <2> QED  BY <1>1, <2>1 DEF Covered, TableType, PutAt
<1>5. ASSUME NEW c \in Full(tmp) PROVE KeyOf[tmp.cells[c]] # KeyOf[e]
  <2>1. PICK a \in Full(h) : a < call.cursor /\ h.cells[a] = tmp.cells[c]
    BY <1>1, <1>5 DEF ReachInv, TmpReachable, Moved
  <2>2. a # b
    BY <1>1, <1>3, <2>1, TableFacts DEF Covered, Full, Buckets, CallType
  <2> QED  BY <1>1, <1>3, <2>1, <2>2, KeysUnique DEF Covered
<1> HIDE DEF g
<1>6. AllReachable(g)
  BY <1>1, <1>2, <1>3, <1>4, <1>5, PutReachable DEF Covered
<1>7. Full(g) = Full(tmp) \cup {d}
  BY <1>1, <1>3, <1>4, WriteElement DEF Covered
<1>8. /\ tab' = tab /\ tmp' = g /\ pc' = "rehash" /\ call'.src = call.src
      /\ call'.cursor = b + 1 /\ call'.spot = call.spot
  BY <1>1, <1>2 DEF RehashOne, CallType, g
<1>9. AllReachable(tmp)'
  BY <1>6, <1>8 DEF AllReachable, FoundAt, LastProbe, Stops, At, Full, Buckets
<1>10. Moved'
  <2> SUFFICES ASSUME NEW c \in Full(g)
               PROVE  \E a \in Full(h) : a < b + 1 /\ h.cells[a] = g.cells[c]
    BY <1>8 DEF Moved, Full, Buckets
  <2>1. CASE c = d
    <3>1. g.cells[c] = h.cells[b] /\ b < b + 1
      BY <1>1, <1>2, <1>4, <2>1, TableFacts DEF Covered, Buckets
    <3> QED  BY <1>3, <3>1
  <2>2. CASE c # d
    <3>1. c \in Full(tmp) /\ g.cells[c] = tmp.cells[c]
      BY <1>1, <1>4, <1>7, <2>2, TableFacts DEF Covered, Full, Buckets
    <3>2. PICK a \in Full(h) : a < call.cursor /\ h.cells[a] = tmp.cells[c]
      BY <1>1, <3>1 DEF ReachInv, TmpReachable, Moved
    <3>3. a < b + 1
      BY <1>1, <1>3, <3>2, TableFacts DEF Covered, Full, Buckets, CallType
    <3> QED  BY <3>1, <3>2, <3>3
  <2> QED  BY <2>1, <2>2
<1>11. TabsReachable' /\ SpotVacant'
  <2>1. call.spot = ILLEGAL_BUCKET
    BY <1>1 DEF ReachInv, CoverInv, CallSound, Stopped, SpotFree
  <2> QED  BY <1>8, <2>1, TabsKept DEF ReachInv, SpotVacant
<1> QED  BY <1>9, <1>10, <1>11 DEF Reached, TmpReachable

LEMMA RehashDoneReached == ReachInv /\ RehashDone => Reached'
<1> SUFFICES ASSUME ReachInv, RehashDone PROVE Reached'
  OBVIOUS
<1>1. /\ call \in CallType /\ call.tab \in Tables /\ AllReachable(ResetThresholds(tmp))
      /\ call.spot = ILLEGAL_BUCKET
  BY ResetReachable DEF ReachInv, CoverInv, CallSound, Stopped, SpotFree, Covered, CallType,
                        TmpReachable, RehashDone
<1>2. TabsReachable'
  BY <1>1, UpdateReachable DEF RehashDone, ReachInv, CoverInv
<1>3. CASE call.next = "idle"
  BY <1>2, <1>3, ReturnedReach DEF RehashDone, Reached
<1>4. CASE call.next # "idle"
  <2>1. pc' = call.next /\ tmp' = NoTmp /\ call' = call /\ pc' # "rehash"
    BY <1>1, <1>4 DEF RehashDone, CallType
  <2>2. AllReachable(tmp)'
    BY <2>1, NoTmpReachable DEF AllReachable, FoundAt, LastProbe, Stops, At, Full, Buckets
  <2> QED  BY <1>1, <1>2, <2>1, <2>2 DEF Reached, TmpReachable, Moved, SpotVacant
<1> QED  BY <1>3, <1>4

LEMMA PlacedReached ==
  ASSUME ReachInv, pc = "place", Placed, TabsReachable'
  PROVE  Reached'
<1>1. CASE Len(call.todo) = 1
  BY <1>1, ReturnedReach DEF Placed, Reached
<1>2. CASE Len(call.todo) # 1
  <2>1. tmp' = tmp /\ pc' = "place" /\ call'.spot = ILLEGAL_BUCKET
    BY <1>2 DEF Placed, ReachInv, CoverInv, CallSound, Stopped, CallType
  <2>2. AllReachable(tmp)'
    BY <2>1, TmpKept DEF ReachInv, TmpReachable
  <2> QED  BY <2>1, <2>2 DEF Reached, TmpReachable, Moved, SpotVacant
<1> QED  BY <1>1, <1>2

LEMMA PlaceNewReached == ASSUME ~ StorageFails, ReachInv, PlaceNew PROVE Reached'
<1> DEFINE h == tab[call.tab]
           e == Head(call.todo)
<1>1. /\ call \in CallType /\ call.tab \in Tables /\ Covered(h) /\ AllReachable(h)
      /\ pc = "place" /\ e \in Elements
  BY DEF ReachInv, CoverInv, CallSound, Stopped, TabsCovered, TabsReachable, CallType, PlaceNew
<1>2. PICK b \in Buckets(h) :
        /\ IF call.spot = ILLEGAL_BUCKET THEN VacantAt(h, KeyOf[e], b) ELSE b = call.spot
        /\ h.cells[b] = Erased => h.deleted > 0
        /\ tab' = [tab EXCEPT ![call.tab] = InsertAt(h, b, e)] /\ Placed
  BY DEF PlaceNew, PlaceAt
<1> DEFINE g == InsertAt(h, b, e)
<1>3. VacantAt(h, KeyOf[e], b)
  BY <1>2 DEF ReachInv, SpotVacant
<1>4. TableType(g) /\ g.size = h.size /\ g.cells = [h.cells EXCEPT ![b] = e]
  <2>1. h.cells[b] \notin Elements
    BY <1>3, MarkersAssumption DEF VacantAt, MarkersAssumption
  <2>2. TableType(g)
    BY <1>1, <1>2, <2>1, InsertCovered DEF Covered
  <2> QED  BY <1>1, <2>2, ZenonT(40) DEF Covered, TableType, InsertAt
<1> HIDE DEF g
<1>5. AllReachable(g)
  BY <1>1, <1>3, <1>4, InsertReachable DEF Covered
<1>6. tab' = [tab EXCEPT ![call.tab] = g]
  BY <1>2 DEF g
<1>7. TabsReachable'
  BY <1>1, <1>5, <1>6, UpdateReachable DEF ReachInv, CoverInv
<1> QED  BY <1>1, <1>2, <1>7, PlacedReached

LEMMA PlaceOldReached == ReachInv /\ PlaceOld => Reached'
BY PlacedReached, TabsKept DEF PlaceOld, ReachInv

(* A call of one step that leaves one table changed, but well formed and   *)
(* with every element reachable.                                           *)
LEMMA AtomicReached ==
  ASSUME ReachInv, Atomic, NEW t \in Tables, NEW g, AllReachable(g),
         tab' = [tab EXCEPT ![t] = g]
  PROVE  Reached'
BY AtomicReach, UpdateReachable DEF ReachInv, CoverInv, Reached

LEMMA EraseKeyReached ==
  ASSUME ReachInv, NEW t \in Tables, NEW k \in Keys, EraseKey(t, k)
  PROVE  Reached'
<1>1. PICK b \in Buckets(tab[t]) :
        FoundAt(tab[t], k, b) /\ tab' = [tab EXCEPT ![t] = EraseAll(tab[t], {b})]
  BY DEF EraseKey
<1>2. AllReachable(EraseAll(tab[t], {b}))
  BY <1>1, FoundIsFull, EraseReachable DEF ReachInv, CoverInv, TabsCovered, TabsReachable, Covered
<1> QED  BY <1>1, <1>2, AtomicReached DEF EraseKey

(* A failed erase(f, l) has erased the buckets up to the one it failed at. *)
LEMMA FailedErasure ==
  ASSUME NEW t \in Tables, NEW b, NEW l, TableType(tab[t]), EraseRangeFails(t, b, l)
  PROVE  \E S \in SUBSET Full(tab[t]) : \E g :
           /\ tab' = [tab EXCEPT ![t] = g]
           /\ g.size = EraseAll(tab[t], S).size /\ g.cells = EraseAll(tab[t], S).cells
<1> DEFINE h == tab[t]
           S == {c \in Full(h) : b <= c /\ c < l}
           T(m) == {c \in S : c < m}
           g(m) == [EraseAll(h, T(m)) EXCEPT !.deleted = h.deleted, !.consider = h.consider]
<1>1. PICK m \in S : tab' = [tab EXCEPT ![t] = g(m)]
  BY DEF EraseRangeFails
<1>2. g(m).size = EraseAll(h, T(m)).size /\ g(m).cells = EraseAll(h, T(m)).cells
  BY DEF EraseAll, TableType
<1>3. T(m) \in SUBSET Full(h)
  OBVIOUS
<1> HIDE DEF g, T
<1> QED  BY <1>1, <1>2, <1>3

LEMMA EraseRangeReached ==
  ASSUME ReachInv, NEW t \in Tables, NEW b, NEW l, EraseRange(t, b, l)
  PROVE  Reached'
<1> DEFINE S == {c \in Full(tab[t]) : b <= c /\ c < l}
<1>1. AllReachable(EraseAll(tab[t], S))
  BY EraseReachable DEF ReachInv, CoverInv, TabsCovered, TabsReachable, Covered
<1> QED  BY <1>1, AtomicReached DEF EraseRange

(* So does an erasure of several that fails half way.                      *)
LEMMA EraseRangeFailsReached ==
  ASSUME ReachInv, NEW t \in Tables, NEW b, NEW l, EraseRangeFails(t, b, l)
  PROVE  Reached'
<1>s. PICK S \in SUBSET Full(tab[t]) :
        \E g : /\ tab' = [tab EXCEPT ![t] = g]
               /\ g.size = EraseAll(tab[t], S).size /\ g.cells = EraseAll(tab[t], S).cells
  BY FailedErasure DEF ReachInv, CoverInv, TabsCovered, Covered
<1>1. PICK g : /\ tab' = [tab EXCEPT ![t] = g]
               /\ g.size = EraseAll(tab[t], S).size /\ g.cells = EraseAll(tab[t], S).cells
  BY <1>s
<1>2. AllReachable(EraseAll(tab[t], S))
  BY EraseReachable DEF ReachInv, CoverInv, TabsCovered, TabsReachable, Covered
<1>3. AllReachable(g)
  BY <1>1, <1>2, SameCells
<1> QED  BY <1>1, <1>3, AtomicReached DEF EraseRangeFails

LEMMA AssignMappedReached ==
  ASSUME ReachInv, NEW t \in Tables, NEW e \in Elements, AssignMapped(t, e)
  PROVE  Reached'
<1> DEFINE h == tab[t]
<1>1. PICK b \in Buckets(h) :
        /\ FoundAt(h, KeyOf[e], b)
        /\ tab' = [tab EXCEPT ![t].cells = [@ EXCEPT ![b] = e]]
  BY DEF AssignMapped
<1> DEFINE g == [h EXCEPT !.cells = [@ EXCEPT ![b] = e]]
<1>2. Covered(h) /\ AllReachable(h) /\ b \in Full(h)
  BY <1>1, FoundIsFull DEF ReachInv, CoverInv, TabsCovered, TabsReachable
<1>3. TableType(g)
  BY <1>2, OverwriteCovered DEF Covered
<1>4. g.size = h.size /\ g.cells = [h.cells EXCEPT ![b] = e]
  BY <1>2 DEF Covered, TableType
<1>5. tab' = [tab EXCEPT ![t] = g]
  BY <1>1
<1> HIDE DEF g
<1>6. AllReachable(g)
  BY <1>1, <1>2, <1>3, <1>4, OverwriteReachable DEF Covered
<1> QED  BY <1>5, <1>6, AtomicReached DEF AssignMapped

LEMMA ClearReached ==
  ASSUME ReachInv, NEW t \in Tables, Clear(t)
  PROVE  Reached'
<1>1. AllReachable(Cleared(tab[t]))
  BY ClearedReachable DEF ReachInv, CoverInv, TabsCovered
<1> QED  BY <1>1, AtomicReached DEF Clear

LEMMA SetResizingParametersReached ==
  ASSUME ReachInv, NEW t \in Tables, NEW f \in Factors, SetResizingParameters(t, f)
  PROVE  Reached'
<1> DEFINE h == tab[t]
           g == ResetThresholds([h EXCEPT !.shrink = Clipped(f), !.grow = f.grow])
<1>1. AllReachable(h) /\ g.size = h.size /\ g.cells = h.cells
  BY DEF ReachInv, CoverInv, TabsCovered, TabsReachable, Covered, TableType, ResetThresholds
<1>2. tab' = [tab EXCEPT ![t] = g]
  BY DEF SetResizingParameters
<1> HIDE DEF g
<1>3. AllReachable(g)
  BY <1>1, SameCells
<1> QED  BY <1>2, <1>3, AtomicReached DEF SetResizingParameters

LEMMA ExchangeReached ==
  ASSUME ReachInv, NEW t \in Tables, NEW u \in Tables, Swap(t, u) \/ MoveConstruct(t, u)
  PROVE  Reached'
<1>1. \A v \in Tables : TableType(tab[v]) /\ AllReachable(tab[v])
  BY DEF ReachInv, CoverInv, TabsCovered, Covered, TabsReachable
<1>2. AllReachable(ResetThresholds(tab[t])) /\ AllReachable(ResetThresholds(tab[u]))
  BY <1>1, ResetReachable
<1>3. AllReachable(Fresh(DefaultBuckets, tab[u].shrink, tab[u].grow))
  BY <1>1, TableFacts, FreshReachable, SizesAssumption DEF SizesAssumption
<1>4. TabsReachable'
  BY <1>1, <1>2, <1>3 DEF Swap, MoveConstruct, ReachInv, CoverInv, TabsCovered, TabsReachable
<1> QED  BY <1>4, AtomicReach DEF Swap, MoveConstruct, Reached

(* Without marks the file holds the buckets as they are.                   *)
LEMMA RereadReached ==
  ASSUME ~ SerializeMarked, ReachInv, NEW t \in Tables, NEW u \in Tables, Reread(t, u)
  PROVE  Reached'
<1> DEFINE h == tab[u]
           g == Reloaded(tab[t], h)
<1>1. /\ TableType(tab[t]) /\ TableType(h) /\ AllReachable(h) /\ Marks(h) = {}
      /\ h.cells \in [Buckets(h) -> Cell]
  BY TableFacts DEF Reread, ReachInv, CoverInv, TabsCovered, Covered, TabsReachable
<1>2. Written(h) = h.cells
  BY <1>1 DEF Written, Marks, Cell
<1>3. g.size = h.size /\ g.cells = h.cells
  BY <1>1, <1>2 DEF Reloaded, ResetThresholds, TableType
<1>4. tab' = [tab EXCEPT ![t] = g]
  BY DEF Reread
<1> HIDE DEF g
<1>5. AllReachable(g)
  BY <1>1, <1>3, SameCells
<1> QED  BY <1>4, <1>5, AtomicReached DEF Reread

(* A copy starts from a temporary table that holds nothing.                *)
LEMMA StartCopyReached ==
  ASSUME ReachInv, NEW t \in Tables, NEW u \in Tables, NEW kind, NEW h, Full(h) = {},
         StartCopy(t, u, kind, h)
  PROVE  Reached'
<1>1. tab' = tab /\ tmp' = h /\ call'.spot = ILLEGAL_BUCKET
  BY DEF StartCopy, NoCall
<1>2. Full(tmp)' = {}
  BY <1>1 DEF Full, Buckets
<1>3. TmpReachable'
  BY <1>2 DEF TmpReachable, Moved, AllReachable
<1> QED  BY <1>1, <1>3, TabsKept DEF ReachInv, Reached, SpotVacant

LEMMA CopyReached ==
  ASSUME ReachInv, NEW t \in Tables, NEW u \in Tables,
         CopyConstruct(t, u) \/ CopyAssign(t, u)
  PROVE  Reached'
<1>1. Covered(tab[t]) /\ Covered(tab[u])
  BY DEF ReachInv, CoverInv, TabsCovered
<1>2. CASE CopyConstruct(t, u)
  <2>1. PICK sz \in BucketCounts :
          StartCopy(t, u, "construct", Fresh(sz, tab[u].shrink, tab[u].grow))
    BY <1>2 DEF CopyConstruct
  <2>2. Full(Fresh(sz, tab[u].shrink, tab[u].grow)) = {}
    BY <1>1, TableFacts, FreshReachable DEF Covered
  <2> QED  BY <2>1, <2>2, StartCopyReached
<1>3. CASE CopyAssign(t, u)
  <2> DEFINE base == AssignBase(tab[t], tab[u])
  <2>1. Covered(base) /\ Full(base) = {}
    <3>1. AssignOntoEmptied \/ Marks(tab[t]) = {} \/ tab[t].items # 0 \/ tab[u].deleted # 0
      BY <1>3 DEF CopyAssign
    <3>2. TableType(tab[u])
      BY <1>1 DEF Covered
    <3> QED  BY <1>1, <3>1, <3>2, AssignBaseCovered
  <2>2. CASE \E sz \in BucketCounts : StartCopy(t, u, "assign", Extended(base, sz))
    BY <2>1, <2>2, ExtendedCovered, StartCopyReached
  <2>3. CASE Atomic /\ tab' = [tab EXCEPT ![t] = base]
    BY <2>1, <2>3, NothingToReach, AtomicReached
  <2> QED  BY <1>3, <2>2, <2>3 DEF CopyAssign
<1> QED  BY <1>2, <1>3

LEMMA StutterReached == ReachInv /\ UNCHANGED vars => Reached'
<1> SUFFICES ASSUME ReachInv, UNCHANGED vars PROVE Reached'
  OBVIOUS
<1>1. tab' = tab /\ tmp' = tmp /\ call' = call /\ pc' = pc
  BY DEF vars
<1>2. TabsReachable' /\ AllReachable(tmp)' /\ SpotVacant'
  BY <1>1, TabsKept, TmpKept DEF ReachInv, TmpReachable, SpotVacant
<1>3. Moved'
  BY <1>1 DEF ReachInv, TmpReachable, Moved, Full, Buckets
<1> QED  BY <1>2, <1>3 DEF Reached, TmpReachable

LEMMA NextReached ==
  ASSUME ~ StorageFails, ~ SerializeMarked,
         ReachInv, [Next]_vars
  PROVE  Reached'
<1>1. ASSUME NEW t \in Tables, NEW todo \in Inserts, Insert(t, todo) PROVE Reached'
  BY <1>1, InsertReached
<1>2. ASSUME NEW t \in Tables, NEW k \in Keys, FindOrInsert(t, k) \/ EraseKey(t, k)
      PROVE  Reached'
  BY <1>2, FindOrInsertReached, EraseKeyReached
<1>3. ASSUME NEW t \in Tables, NEW n \in Requests, Resize(t, n) PROVE Reached'
  BY <1>3, ResizeReached
<1>4. ASSUME NEW t \in Tables, NEW b, NEW l, EraseRange(t, b, l) \/ EraseRangeFails(t, b, l)
      PROVE  Reached'
  BY <1>4, EraseRangeReached, EraseRangeFailsReached
<1>5. ASSUME NEW t \in Tables, NEW e \in Elements, AssignMapped(t, e) PROVE Reached'
  BY <1>5, AssignMappedReached
<1>6. ASSUME NEW t \in Tables, Clear(t) PROVE Reached'
  BY <1>6, ClearReached
<1>7. ASSUME NEW t \in Tables, NEW f \in Factors, SetResizingParameters(t, f) PROVE Reached'
  BY <1>7, SetResizingParametersReached
<1>8. ASSUME NEW t \in Tables, NEW u \in Tables,
             Swap(t, u) \/ MoveConstruct(t, u) \/ Reread(t, u)
      PROVE  Reached'
  BY <1>8, ExchangeReached, RereadReached
<1>9. ASSUME NEW t \in Tables, NEW u \in Tables, CopyConstruct(t, u) \/ CopyAssign(t, u)
      PROVE  Reached'
  BY <1>9, CopyReached
<1>10. CASE Step
  <2>1. CASE ShrinkTable \/ SkipShrink \/ GrowTable \/ SkipGrow
    BY <2>1, ShrinkGrowReached, SkipShrinkReached, SkipGrowReached
  <2>2. CASE ResizeOverflow
    BY <2>2, ReturnedReached DEF ResizeOverflow
  <2>3. CASE RehashOne \/ RehashDone
    BY <2>3, RehashOneReached, RehashDoneReached
  <2>4. CASE RehashFails
    BY <2>4 DEF RehashFails
  <2>5. CASE PlaceNew \/ PlaceOld \/ AssertionFails
    BY <2>5, PlaceNewReached, PlaceOldReached, MovesOnReached DEF AssertionFails
  <2> QED  BY <1>10, <2>1, <2>2, <2>3, <2>4, <2>5 DEF Step
<1>11. CASE UNCHANGED vars
  BY <1>11, StutterReached
<1> QED  BY <1>1, <1>2, <1>3, <1>4, <1>5, <1>6, <1>7, <1>8, <1>9, <1>10, <1>11 DEF Next, Call

LEMMA ReachInvKept ==
  ASSUME ~ StorageFails, ~ SerializeMarked
  PROVE  /\ Init => ReachInv
         /\ ReachInv /\ [Next]_vars => ReachInv'
<1>1. Init => ReachInv
  BY InitCovers, InitReached DEF ReachInv, Reached
<1>2. ASSUME ReachInv, [Next]_vars PROVE ReachInv'
  <2>1. CoverInv'
    BY <1>2, NextCovers DEF ReachInv
  <2>2. Reached'
    BY <1>2, NextReached
  <2> QED  BY <2>1, <2>2 DEF ReachInv, Reached
<1> QED  BY <1>1, <1>2

(* find(k) reaches every element that is stored, after any sequence of     *)
(* insertions, erasures, rehashes, copies, moves and serializations, as    *)
(* long as storage does not run out and no table with erased marks is      *)
(* written to a file.  An erase(f, l) that fails half way and an           *)
(* assignment onto an emptied table leave num_deleted wrong, not chains.   *)
THEOREM EveryElementIsFound ==
  ASSUME ~ StorageFails, ~ SerializeMarked
  PROVE  Spec => []EveryElementFound
<1>1. (Init => ReachInv) /\ (ReachInv /\ [Next]_vars => ReachInv')
  BY ReachInvKept
<1> QED  BY <1>1, ReachInvImplies, PTL DEF Spec

(* Under the same assumptions the bucket find_or_insert remembered across  *)
(* _resize_delta is where its key belongs when the element is placed.      *)
THEOREM SpotStaysVacant ==
  ASSUME ~ StorageFails, ~ SerializeMarked
  PROVE  Spec => []SpotStillVacant
<1>1. (Init => ReachInv) /\ (ReachInv /\ [Next]_vars => ReachInv')
  BY ReachInvKept
<1> QED  BY <1>1, ReachInvImplies, PTL DEF Spec

-----------------------------------------------------------------------------
(* SparseHashtable implements HashContainer: every step changes the sets   *)
(* of elements as the call it belongs to asks, and a rehash does not.      *)

-----------------------------------------------------------------------------
(* The invariant.  Moved says that the temporary table holds only elements *)
(* the rehash has passed; for the table it becomes to have lost none, it   *)
(* must hold all of them.                                                  *)

Carried ==
  pc = "rehash" =>
    \A b \in Full(tab[call.src]) :
       b < call.cursor => tab[call.src].cells[b] \in Stored(tmp)

(* A rehash of a table is a move out of that table, and a copy is done     *)
(* when its rehash is.                                                     *)
Purposeful ==
  /\ pc = "rehash" => \/ call.kind = "move" /\ call.src = call.tab
                      \/ call.kind \in {"construct", "assign"} /\ call.next = "idle"
  /\ pc # "rehash" => call.kind \in {"none", "move"}

StoredInv == ReachInv /\ Carried /\ Purposeful

-----------------------------------------------------------------------------
(* What a table stores.                                                    *)

LEMMA StoredKept ==
  ASSUME NEW h, NEW g, g.size = h.size, g.cells = h.cells
  PROVE  Stored(g) = Stored(h) /\ Full(g) = Full(h)
BY DEF Stored, Full, Buckets

LEMMA StoredNothing == ASSUME NEW h, Full(h) = {} PROVE Stored(h) = {}
BY DEF Stored

LEMMA StoredReset ==
  ASSUME NEW h, TableType(h)
  PROVE  Stored(ResetThresholds(h)) = Stored(h)
<1>1. ResetThresholds(h).size = h.size /\ ResetThresholds(h).cells = h.cells
  BY DEF ResetThresholds, TableType
<1> QED  BY <1>1, StoredKept

(* An element that goes to a bucket without one is added.                  *)
LEMMA StoredWrite ==
  ASSUME NEW h, TableType(h), NEW b \in Buckets(h), h.cells[b] \notin Elements, NEW e \in Elements,
         NEW g, TableType(g), g.size = h.size, g.cells = [h.cells EXCEPT ![b] = e]
  PROVE  Stored(g) = Stored(h) \cup {e}
<1>1. h.cells \in [Buckets(h) -> Cell] /\ Full(g) = Full(h) \cup {b} /\ b \notin Full(h)
  BY TableFacts, WriteElement DEF Full
<1>2. g.cells[b] = e /\ \A c \in Full(h) : g.cells[c] = h.cells[c]
  BY <1>1 DEF Full
<1> QED  BY <1>1, <1>2 DEF Stored

(* An element is in one bucket only, so erasing the bucket erases it.      *)
LEMMA StoredErase ==
  ASSUME NEW h, Covered(h), AllReachable(h), NEW S \in SUBSET Full(h)
  PROVE  Stored(EraseAll(h, S)) = Stored(h) \ {h.cells[b] : b \in S}
<1> DEFINE g == EraseAll(h, S)
<1>1. /\ g.size = h.size /\ TableType(h)
      /\ g.cells = [b \in Buckets(h) |-> IF b \in S THEN Erased ELSE h.cells[b]]
  BY DEF EraseAll, Covered, TableType
<1> HIDE DEF g
<1>2. Full(g) = Full(h) \ S /\ \A b \in Full(h) \ S : g.cells[b] = h.cells[b]
  BY <1>1, MarkersAssumption DEF Full, Buckets, MarkersAssumption
<1>3. \A b \in Full(h) \ S, c \in S : h.cells[b] # h.cells[c]
  BY <1>1, KeysUnique
<1>4. Stored(g) = Stored(h) \ {h.cells[b] : b \in S}
  BY <1>2, <1>3 DEF Stored
<1> QED  BY <1>4 DEF g

LEMMA StoredOverwrite ==
  ASSUME NEW h, Covered(h), AllReachable(h), NEW e \in Elements, NEW b \in Buckets(h),
         FoundAt(h, KeyOf[e], b),
         NEW g, g.size = h.size, g.cells = [h.cells EXCEPT ![b] = e]
  PROVE  /\ \E d \in Stored(h) : KeyOf[d] = KeyOf[e]
         /\ Stored(g) = {IF KeyOf[d] = KeyOf[e] THEN e ELSE d : d \in Stored(h)}
<1>1. TableType(h) /\ h.cells \in [Buckets(h) -> Cell]
  BY TableFacts DEF Covered
<1>2. b \in Full(h) /\ KeyOf[h.cells[b]] = KeyOf[e]
  BY MarkersAssumption DEF FoundAt, LastProbe, Stops, Full, MarkersAssumption
<1>3. Full(g) = Full(h) /\ g.cells[b] = e /\ \A c \in Full(h) \ {b} : g.cells[c] = h.cells[c]
  BY <1>1, <1>2 DEF Full, Buckets
<1>4. \A c \in Full(h) : KeyOf[h.cells[c]] = KeyOf[e] <=> c = b
  BY <1>1, <1>2, KeysUnique
<1>5. \A c \in Full(h) :
        g.cells[c] = IF KeyOf[h.cells[c]] = KeyOf[e] THEN e ELSE h.cells[c]
  BY <1>3, <1>4
<1> QED  BY <1>2, <1>3, <1>5 DEF Stored

LEMMA StoredWritten ==
  ASSUME NEW h, TableType(h), NEW u, TableType(u)
  PROVE  Stored(Reloaded(h, u)) = Stored(u)
<1> DEFINE c == Written(u)
           g == [h EXCEPT !.size = u.size, !.cells = c, !.items = u.items, !.deleted = 0]
           r == ResetThresholds(g)
<1>1. g.size = u.size /\ g.cells = c
  BY DEF TableType
<1>2. r.size = g.size /\ r.cells = g.cells
  BY DEF TableType, ResetThresholds
<1>3. Reloaded(h, u) = r
  BY DEF Reloaded
<1> HIDE DEF g, r
<1>4. r.size = u.size /\ r.cells = c
  BY <1>1, <1>2
<1>5. Full(r) = Full(u) /\ \A b \in Full(u) : r.cells[b] = u.cells[b]
  BY <1>4, MarkersAssumption DEF Full, Buckets, Written, MarkersAssumption
<1>6. Stored(r) = Stored(u)
  BY <1>5 DEF Stored
<1> QED  BY <1>3, <1>6

-----------------------------------------------------------------------------
(* What a change of tables does to the contents.                           *)

LEMMA ContentsFacts ==
  /\ Contents \in [Tables -> {Contents[t] : t \in Tables}]
  /\ \A t \in Tables : Contents[t] = Stored(tab[t])
  /\ Contents' = [t \in Tables |-> Stored(tab'[t])]
BY DEF Contents, Stored, Full, Buckets

LEMMA ContentsSame == UNCHANGED tab => Contents' = Contents
BY ContentsFacts DEF Contents

LEMMA ContentsChange ==
  ASSUME TabsCovered, NEW t \in Tables, NEW g, tab' = [tab EXCEPT ![t] = g]
  PROVE  Contents' = [Contents EXCEPT ![t] = Stored(g)]
<1>1. \A w \in Tables : Stored(tab'[w]) = IF w = t THEN Stored(g) ELSE Stored(tab[w])
  BY DEF TabsCovered
<1>2. Contents = [w \in Tables |-> Stored(tab[w])]
  BY DEF Contents
<1>3. Contents' = [w \in Tables |-> Stored(tab'[w])]
  BY ContentsFacts
<1> QED  BY <1>1, <1>2, <1>3

LEMMA ContentsExchange ==
  ASSUME TabsCovered, NEW t \in Tables, NEW u \in Tables, NEW g, NEW k,
         tab' = [tab EXCEPT ![t] = g, ![u] = k]
  PROVE  Contents' = [Contents EXCEPT ![t] = Stored(g), ![u] = Stored(k)]
<1>1. \A w \in Tables :
        Stored(tab'[w]) = IF w = u THEN Stored(k)
                          ELSE IF w = t THEN Stored(g) ELSE Stored(tab[w])
  BY DEF TabsCovered
<1>2. Contents = [w \in Tables |-> Stored(tab[w])]
  BY DEF Contents
<1>3. Contents' = [w \in Tables |-> Stored(tab'[w])]
  BY ContentsFacts
<1> QED  BY <1>1, <1>2, <1>3

-----------------------------------------------------------------------------
(* What a call has still to do.                                            *)

RequestRight ==
  /\ pc = "idle" => Request = Abstract!None
  /\ pc \in {"shrink", "delta"} \/ (pc = "rehash" /\ call.kind = "move") =>
       Request = Abstract!Prepare(call.tab, call.todo)
  /\ pc = "rehash" /\ call.kind # "move" => Request = Abstract!Copy(call.tab, call.src)
  /\ pc \in {"place", "aborted"} => Request = Abstract!Place(call.tab, call.todo)

LEMMA RequestIsRight == StoredInv => RequestRight
<1>1. Purposeful => RequestRight
  BY DEF Purposeful, RequestRight, Request, Abstract!None, Abstract!Prepare, Abstract!Copy,
         Abstract!Place
<1> QED  BY <1>1 DEF StoredInv

LEMMA RequestsAreRight == StoredInv /\ StoredInv' => RequestRight /\ RequestRight'
<1>1. StoredInv => RequestRight
  BY RequestIsRight
<1> QED  BY <1>1, PTL

LEMMA AtomicAtOnce == Atomic => Abstract!AtOnce
BY DEF Atomic, Abstract!AtOnce, Abstract!None, Request

LEMMA BeginBegins ==
  ASSUME NEW t, NEW todo, NEW delta, NEW spot, NEW next, Begin(t, todo, delta, spot, next),
         pc' \in {"shrink", "delta"}
  PROVE  Abstract!BeginInsert(t, todo)
<1>1. Contents' = Contents /\ Request = Abstract!None
  BY ContentsSame DEF Begin, Request, Abstract!None
<1>2. call'.tab = t /\ call'.todo = todo /\ call'.kind = "none"
  BY DEF Begin, NoCall
<1>3. Request' = Abstract!Prepare(t, todo)
  BY <1>2 DEF Request, Abstract!Prepare
<1> QED  BY <1>1, <1>3 DEF Abstract!BeginInsert

LEMMA StartCopyBegins ==
  ASSUME NEW t, NEW u, NEW kind \in {"construct", "assign"}, NEW h, StartCopy(t, u, kind, h)
  PROVE  Abstract!BeginCopy(t, u)
<1>1. Contents' = Contents /\ Request = Abstract!None
  BY ContentsSame DEF StartCopy, Request, Abstract!None
<1>2. call'.tab = t /\ call'.src = u /\ call'.kind = kind /\ pc' = "rehash"
  BY DEF StartCopy, NoCall
<1>3. Request' = Abstract!Copy(t, u)
  BY <1>2 DEF Request, Abstract!Copy
<1> QED  BY <1>1, <1>3 DEF Abstract!BeginCopy

(* A step before the first element is placed is one of three things.       *)
LEMMA PreparationGoesOn ==
  ASSUME RequestRight', Contents' = Contents, Request = Abstract!Prepare(call.tab, call.todo),
         \/ pc' = "idle"
         \/ /\ pc' = "delta" \/ (pc' = "rehash" /\ call'.kind = "move")
            /\ call'.tab = call.tab /\ call'.todo = call.todo
         \/ pc' = "place" /\ call' = call /\ call.todo # <<>>
  PROVE  [Abstract!Next]_<<Contents, Request>>
<1>1. /\ Request.op = "prepare" /\ Request.to = call.tab /\ Request.todo = call.todo
  BY DEF Abstract!Prepare
<1>2. CASE pc' = "idle"
  <2>1. Request' = Abstract!None
    BY <1>2 DEF RequestRight
  <2>2. Abstract!Leave
    BY <1>1, <2>1 DEF Abstract!Leave
  <2> QED  BY <2>2 DEF Abstract!Next
<1>3. CASE /\ pc' = "delta" \/ (pc' = "rehash" /\ call'.kind = "move")
           /\ call'.tab = call.tab /\ call'.todo = call.todo
  <2>1. Request' = Request
    BY <1>3 DEF RequestRight
  <2> QED  BY <2>1
<1>4. CASE pc' = "place" /\ call' = call /\ call.todo # <<>>
  <2>1. Request' = Abstract!Place(call.tab, call.todo)
    BY <1>4 DEF RequestRight
  <2>2. Abstract!Ready
    BY <1>1, <1>4, <2>1 DEF Abstract!Ready
  <2> QED  BY <2>2 DEF Abstract!Next
<1> QED  BY <1>2, <1>3, <1>4

LEMMA PlacedAnswers ==
  ASSUME RequestRight, RequestRight', call \in CallType, pc = "place", Placed,
         Contents' = [Contents EXCEPT ![call.tab] = Abstract!Added(@, Head(call.todo))]
  PROVE  Abstract!InsertNext
<1>1. Request = Abstract!Place(call.tab, call.todo)
  BY DEF RequestRight
<1>2. Request.op = "insert" /\ Request.to = call.tab /\ Request.todo = call.todo
  BY <1>1 DEF Abstract!Place
<1>3. CASE Len(call.todo) = 1
  <2>1. pc' = "idle"
    BY <1>3 DEF Placed, Returned
  <2>2. Request' = Abstract!None
    BY <2>1 DEF RequestRight
  <2> QED  BY <1>2, <1>3, <2>2 DEF Abstract!InsertNext
<1>4. CASE Len(call.todo) # 1
  <2>1. pc' = "place" /\ call' = [call EXCEPT !.todo = Tail(@), !.spot = ILLEGAL_BUCKET]
    BY <1>4 DEF Placed
  <2>2. call'.tab = call.tab /\ call'.todo = Tail(call.todo)
    BY <2>1 DEF CallType
  <2>3. Request' = Abstract!Place(call.tab, Tail(call.todo))
    BY <2>1, <2>2 DEF RequestRight
  <2> QED  BY <1>2, <1>4, <2>3 DEF Abstract!InsertNext
<1> QED  BY <1>3, <1>4

-----------------------------------------------------------------------------
(* Steps that change what is stored, or do not.                            *)

LEMMA InvFacts ==
  ASSUME StoredInv
  PROVE  /\ TabsCovered /\ call \in CallType /\ call.tab \in Tables /\ call.src \in Tables
         /\ \A t \in Tables : Covered(tab[t]) /\ TableType(tab[t]) /\ AllReachable(tab[t])
         /\ Covered(tmp) /\ TableType(tmp)
BY DEF StoredInv, ReachInv, CoverInv, TabsCovered, CallSound, Stopped, CallType, Covered, TabsReachable

LEMMA PlaceNewAdds ==
  ASSUME ~ StorageFails, StoredInv, PlaceNew
  PROVE  Contents' = [Contents EXCEPT ![call.tab] = Abstract!Added(@, Head(call.todo))]
<1> DEFINE t == call.tab
           h == tab[t]
           e == Head(call.todo)
<1>1. /\ TabsCovered /\ t \in Tables /\ Covered(h) /\ TableType(h) /\ AllReachable(h)
      /\ call.todo \in Seq(Elements) /\ call.todo # <<>>
  BY InvFacts DEF PlaceNew, StoredInv, ReachInv, CoverInv, CallSound, Stopped, CallType
<1>2. e \in Elements /\ KeyOf[e] \in Keys
  BY <1>1, KeyType
<1>3. PICK b \in Buckets(h) :
        /\ PlaceAt(h, b) /\ (h.cells[b] = Erased => h.deleted > 0)
        /\ tab' = [tab EXCEPT ![t] = InsertAt(h, b, e)]
  BY DEF PlaceNew
<1>4. VacantAt(h, KeyOf[e], b)
  BY <1>1, <1>3 DEF PlaceAt, StoredInv, ReachInv, SpotVacant
<1>5. h.cells[b] \notin Elements
  BY <1>4, MarkersAssumption DEF VacantAt, MarkersAssumption
<1> DEFINE g == InsertAt(h, b, e)
<1>6. TableType(g)
  BY <1>1, <1>2, <1>3, <1>5, InsertCovered DEF Covered
<1>7. g.size = h.size /\ g.cells = [h.cells EXCEPT ![b] = e]
  BY <1>1 DEF InsertAt, TableType
<1> HIDE DEF g
<1>8. Stored(g) = Stored(h) \cup {e}
  BY <1>1, <1>2, <1>5, <1>6, <1>7, StoredWrite
<1>9. KeyOf[e] \notin Abstract!KeysOf(Stored(h))
  BY <1>1, <1>2, <1>4, VacantNotStored DEF Abstract!KeysOf, Stored
<1>10. Contents' = [Contents EXCEPT ![t] = Stored(g)]
  BY <1>1, <1>3, ContentsChange DEF g
<1>11. Contents[t] = Stored(h)
  BY <1>1, ContentsFacts
<1>12. Stored(g) = Abstract!Added(Contents[t], e)
  BY <1>8, <1>9, <1>11 DEF Abstract!Added
<1> QED  BY <1>10, <1>12

(* Adding an element whose key is there changes nothing.                   *)
LEMMA PlaceOldAdds ==
  ASSUME StoredInv, PlaceOld
  PROVE  Contents' = [Contents EXCEPT ![call.tab] = Abstract!Added(@, Head(call.todo))]
<1> DEFINE t == call.tab
           h == tab[t]
           e == Head(call.todo)
<1>1. /\ t \in Tables /\ Contents[t] = Stored(h) /\ Contents = [w \in Tables |-> Contents[w]]
  BY InvFacts, ContentsFacts DEF Contents
<1>2. PICK b \in Buckets(h) : FoundAt(h, KeyOf[e], b)
  BY DEF PlaceOld
<1>3. b \in Full(h) /\ KeyOf[h.cells[b]] = KeyOf[e]
  BY <1>2, MarkersAssumption DEF FoundAt, LastProbe, Stops, Full, MarkersAssumption
<1>4. KeyOf[e] \in Abstract!KeysOf(Contents[t])
  BY <1>1, <1>3 DEF Abstract!KeysOf, Stored
<1>5. Abstract!Added(Contents[t], e) = Contents[t]
  BY <1>4 DEF Abstract!Added
<1>6. Contents' = Contents
  BY ContentsSame DEF PlaceOld
<1> QED  BY <1>1, <1>5, <1>6

LEMMA ErasureErases ==
  ASSUME StoredInv, Atomic, NEW t \in Tables, NEW S \in SUBSET Full(tab[t]),
         tab' = [tab EXCEPT ![t] = EraseAll(tab[t], S)]
  PROVE  \E D \in SUBSET Contents[t] : Abstract!Erase(t, D)
<1> DEFINE D == {tab[t].cells[b] : b \in S}
           g == EraseAll(tab[t], S)
<1>1. TabsCovered /\ Covered(tab[t]) /\ AllReachable(tab[t]) /\ Contents[t] = Stored(tab[t])
  BY InvFacts, ContentsFacts
<1>2. Stored(g) = Stored(tab[t]) \ D
  BY <1>1, StoredErase
<1>3. D \in SUBSET Contents[t]
  BY <1>1 DEF Stored
<1> HIDE DEF g, D
<1>4. Contents' = [Contents EXCEPT ![t] = Stored(g)]
  BY <1>1, ContentsChange DEF g
<1>5. Abstract!Erase(t, D)
  BY <1>1, <1>2, <1>4, AtomicAtOnce DEF Abstract!Erase
<1> QED  BY <1>3, <1>5

LEMMA EraseKeyErases ==
  ASSUME StoredInv, NEW t \in Tables, NEW k \in Keys, EraseKey(t, k)
  PROVE  \E D \in SUBSET Contents[t] : Abstract!Erase(t, D)
<1>1. PICK b \in Buckets(tab[t]) :
        Atomic /\ FoundAt(tab[t], k, b) /\ tab' = [tab EXCEPT ![t] = EraseAll(tab[t], {b})]
  BY DEF EraseKey
<1>2. {b} \in SUBSET Full(tab[t])
  BY <1>1, FoundIsFull
<1> QED  BY <1>1, <1>2, ErasureErases

LEMMA EraseRangeErases ==
  ASSUME StoredInv, NEW t \in Tables, NEW b, NEW l, EraseRange(t, b, l)
  PROVE  \E D \in SUBSET Contents[t] : Abstract!Erase(t, D)
<1> DEFINE S == {c \in Full(tab[t]) : b <= c /\ c < l}
<1>1. Atomic /\ S \in SUBSET Full(tab[t]) /\ tab' = [tab EXCEPT ![t] = EraseAll(tab[t], S)]
  BY DEF EraseRange
<1> HIDE DEF S
<1> QED  BY <1>1, ErasureErases

LEMMA EraseRangeFailsErases ==
  ASSUME StoredInv, NEW t \in Tables, NEW b, NEW l, EraseRangeFails(t, b, l)
  PROVE  \E D \in SUBSET Contents[t] : Abstract!Erase(t, D)
<1>1. /\ TabsCovered /\ Covered(tab[t]) /\ TableType(tab[t]) /\ AllReachable(tab[t])
      /\ Contents[t] = Stored(tab[t])
  BY InvFacts, ContentsFacts
<1>s. PICK S \in SUBSET Full(tab[t]) :
        \E g : /\ tab' = [tab EXCEPT ![t] = g]
               /\ g.size = EraseAll(tab[t], S).size /\ g.cells = EraseAll(tab[t], S).cells
  BY <1>1, FailedErasure
<1>2. PICK g : /\ tab' = [tab EXCEPT ![t] = g]
               /\ g.size = EraseAll(tab[t], S).size /\ g.cells = EraseAll(tab[t], S).cells
  BY <1>s
<1> DEFINE D == {tab[t].cells[c] : c \in S}
<1>3. Stored(g) = Stored(tab[t]) \ D
  BY <1>1, <1>2, StoredErase, StoredKept
<1>4. D \in SUBSET Contents[t]
  BY <1>1 DEF Stored
<1> HIDE DEF D
<1>5. Contents' = [Contents EXCEPT ![t] = Stored(g)]
  BY <1>1, <1>2, ContentsChange
<1>6. Abstract!Erase(t, D)
  BY <1>1, <1>3, <1>5, AtomicAtOnce DEF Abstract!Erase, EraseRangeFails
<1> QED  BY <1>4, <1>6

(* A table that ends up without elements has had all of them erased.       *)
LEMMA EmptyingErases ==
  ASSUME StoredInv, Atomic, NEW t \in Tables, NEW g, Full(g) = {}, tab' = [tab EXCEPT ![t] = g]
  PROVE  \E D \in SUBSET Contents[t] : Abstract!Erase(t, D)
<1>1. TabsCovered /\ Stored(g) = {}
  BY InvFacts, StoredNothing
<1>2. Contents' = [Contents EXCEPT ![t] = Stored(g)]
  BY <1>1, ContentsChange
<1>3. Contents' = [Contents EXCEPT ![t] = @ \ Contents[t]]
  BY <1>1, <1>2
<1>4. Abstract!Erase(t, Contents[t])
  BY <1>3, AtomicAtOnce DEF Abstract!Erase
<1> QED  BY <1>4

LEMMA ClearErases ==
  ASSUME StoredInv, NEW t \in Tables, Clear(t)
  PROVE  \E D \in SUBSET Contents[t] : Abstract!Erase(t, D)
<1> DEFINE g == Cleared(tab[t])
<1>1. Atomic /\ Full(g) = {} /\ tab' = [tab EXCEPT ![t] = g]
  BY InvFacts, ClearedCovered DEF Clear
<1> HIDE DEF g
<1> QED  BY <1>1, EmptyingErases

LEMMA AssignMappedUpdates ==
  ASSUME StoredInv, NEW t \in Tables, NEW e \in Elements, AssignMapped(t, e)
  PROVE  Abstract!Update(t, e)
<1> DEFINE h == tab[t]
<1>1. PICK b \in Buckets(h) :
        /\ FoundAt(h, KeyOf[e], b)
        /\ tab' = [tab EXCEPT ![t].cells = [@ EXCEPT ![b] = e]]
  BY DEF AssignMapped
<1>2. TabsCovered /\ Covered(h) /\ AllReachable(h) /\ Contents[t] = Stored(h)
  BY InvFacts, ContentsFacts
<1> DEFINE c == [h.cells EXCEPT ![b] = e]
           g == [h EXCEPT !.cells = c]
<1>3. g.size = h.size /\ g.cells = c
  BY <1>2 DEF Covered, TableType
<1>4. tab' = [tab EXCEPT ![t] = g]
  BY <1>1
<1> HIDE DEF g
<1>5. /\ \E d \in Stored(h) : KeyOf[d] = KeyOf[e]
      /\ Stored(g) = {IF KeyOf[d] = KeyOf[e] THEN e ELSE d : d \in Stored(h)}
  BY <1>1, <1>2, <1>3, StoredOverwrite
<1>6. Contents' = [Contents EXCEPT ![t] = Stored(g)]
  BY <1>2, <1>4, ContentsChange
<1>7. KeyOf[e] \in Abstract!KeysOf(Contents[t])
  BY <1>2, <1>5 DEF Abstract!KeysOf
<1>8. Contents' = [Contents EXCEPT ![t] = {IF KeyOf[d] = KeyOf[e] THEN e ELSE d : d \in @}]
  BY <1>2, <1>5, <1>6
<1>9. Abstract!AtOnce
  BY AtomicAtOnce DEF AssignMapped
<1> QED  BY <1>7, <1>8, <1>9 DEF Abstract!Update

(* Tables that trade settings only, or an unused flag, store what they did. *)
LEMMA SameStored ==
  ASSUME StoredInv, NEW t \in Tables, NEW g, Stored(g) = Stored(tab[t]),
         tab' = [tab EXCEPT ![t] = g]
  PROVE  Contents' = Contents
<1>1. TabsCovered /\ Contents[t] = Stored(tab[t]) /\ Contents = [w \in Tables |-> Contents[w]]
  BY InvFacts, ContentsFacts DEF Contents
<1>2. Contents' = [Contents EXCEPT ![t] = Stored(g)]
  BY <1>1, ContentsChange
<1> QED  BY <1>1, <1>2

LEMMA SetResizingParametersStutters ==
  ASSUME StoredInv, NEW t \in Tables, NEW f \in Factors, SetResizingParameters(t, f)
  PROVE  Contents' = Contents
<1> DEFINE h == tab[t]
           k == [h EXCEPT !.shrink = Clipped(f), !.grow = f.grow]
           g == ResetThresholds(k)
<1>1. TableType(h)
  BY InvFacts
<1>2. g.size = h.size /\ g.cells = h.cells
  BY <1>1 DEF TableType, ResetThresholds
<1>3. tab' = [tab EXCEPT ![t] = g]
  BY DEF SetResizingParameters
<1> HIDE DEF g
<1>4. Stored(g) = Stored(h)
  BY <1>2, StoredKept
<1> QED  BY <1>3, <1>4, SameStored

LEMMA SkipShrinkStutters == ASSUME StoredInv, SkipShrink PROVE Contents' = Contents
<1> DEFINE h == tab[call.tab]
           g == [h EXCEPT !.consider = FALSE]
<1>1. call.tab \in Tables /\ TableType(h)
  BY InvFacts
<1>2. g.size = h.size /\ g.cells = h.cells
  BY <1>1 DEF TableType
<1>3. tab' = [tab EXCEPT ![call.tab] = g]
  BY DEF SkipShrink
<1> HIDE DEF g
<1>4. Stored(g) = Stored(h)
  BY <1>2, StoredKept
<1> QED  BY <1>1, <1>3, <1>4, SameStored

LEMMA ExchangeExchanges ==
  ASSUME StoredInv, NEW t \in Tables, NEW u \in Tables
  PROVE  /\ Swap(t, u) => Abstract!Swap(t, u)
         /\ MoveConstruct(t, u) => Abstract!Take(t, u)
         /\ Reread(t, u) => Abstract!Load(t, u)
<1> DEFINE g == ResetThresholds(tab[u])
           k == ResetThresholds(tab[t])
           d == Fresh(DefaultBuckets, tab[u].shrink, tab[u].grow)
           r == Reloaded(tab[t], tab[u])
<1>1. /\ TabsCovered /\ TableType(tab[t]) /\ TableType(tab[u])
      /\ Contents[t] = Stored(tab[t]) /\ Contents[u] = Stored(tab[u])
      /\ Contents = [w \in Tables |-> Contents[w]]
  BY InvFacts, ContentsFacts DEF Contents
<1>2. Stored(g) = Contents[u] /\ Stored(k) = Contents[t] /\ Stored(r) = Contents[u]
  BY <1>1, StoredReset, StoredWritten
<1>3. Stored(d) = {}
  <2>1. Full(d) = {}
    BY <1>1, FreshSound, TableFacts, SizesAssumption DEF SizesAssumption
  <2> QED  BY <2>1, StoredNothing
<1>4. /\ Swap(t, u) => tab' = [tab EXCEPT ![t] = g, ![u] = k]
      /\ MoveConstruct(t, u) => t # u /\ tab' = [tab EXCEPT ![t] = g, ![u] = d]
      /\ Reread(t, u) => tab' = [tab EXCEPT ![t] = r]
  BY DEF Swap, MoveConstruct, Reread
<1> HIDE DEF g, k, d, r
<1>5. ASSUME Swap(t, u) PROVE Abstract!Swap(t, u)
  <2>1. Contents' = [Contents EXCEPT ![t] = Stored(g), ![u] = Stored(k)]
    BY <1>1, <1>4, <1>5, ContentsExchange
  <2>2. Abstract!AtOnce
    BY <1>5, AtomicAtOnce DEF Swap
  <2> QED  BY <1>2, <2>1, <2>2 DEF Abstract!Swap
<1>6. ASSUME MoveConstruct(t, u) PROVE Abstract!Take(t, u)
  <2>1. Contents' = [Contents EXCEPT ![t] = Stored(g), ![u] = Stored(d)]
    BY <1>1, <1>4, <1>6, ContentsExchange
  <2>2. Contents' = [Contents EXCEPT ![u] = {}, ![t] = Contents[u]]
    BY <1>1, <1>2, <1>3, <1>4, <1>6, <2>1
  <2>3. Abstract!AtOnce
    BY <1>6, AtomicAtOnce DEF MoveConstruct
  <2> QED  BY <2>2, <2>3 DEF Abstract!Take
<1>7. ASSUME Reread(t, u) PROVE Abstract!Load(t, u)
  <2>1. Contents' = [Contents EXCEPT ![t] = Stored(r)]
    BY <1>1, <1>4, <1>7, ContentsChange
  <2>2. Abstract!AtOnce
    BY <1>7, AtomicAtOnce DEF Reread
  <2> QED  BY <1>2, <2>1, <2>2 DEF Abstract!Load
<1> QED  BY <1>5, <1>6, <1>7

LEMMA CopyAssignBegins ==
  ASSUME StoredInv, NEW t \in Tables, NEW u \in Tables, CopyAssign(t, u)
  PROVE  Abstract!BeginCopy(t, u) \/ \E D \in SUBSET Contents[t] : Abstract!Erase(t, D)
<1> DEFINE base == AssignBase(tab[t], tab[u])
<1>1. AssignOntoEmptied \/ Marks(tab[t]) = {} \/ tab[t].items # 0 \/ tab[u].deleted # 0
  BY DEF CopyAssign
<1>2. Full(base) = {}
  BY <1>1, InvFacts, AssignBaseCovered
<1>3. \/ \E h : StartCopy(t, u, "assign", h)
      \/ Atomic /\ tab' = [tab EXCEPT ![t] = base]
  BY DEF CopyAssign
<1> HIDE DEF base
<1>4. CASE \E h : StartCopy(t, u, "assign", h)
  BY <1>4, StartCopyBegins
<1>5. CASE Atomic /\ tab' = [tab EXCEPT ![t] = base]
  BY <1>2, <1>5, EmptyingErases
<1> QED  BY <1>3, <1>4, <1>5

(* Only when it is complete does the temporary table show.                 *)
LEMMA RehashDoneCopies ==
  ASSUME StoredInv, RehashDone
  PROVE  Contents' = [Contents EXCEPT ![call.tab] = Contents[call.src]]
<1> DEFINE h == tab[call.src]
           g == ResetThresholds(tmp)
<1>1. /\ TabsCovered /\ call.tab \in Tables /\ call.src \in Tables /\ TableType(tmp)
      /\ Contents[call.src] = Stored(h)
  BY InvFacts, ContentsFacts
<1>2. pc = "rehash" /\ \A b \in Full(h) : b < call.cursor
  BY DEF RehashDone
<1>3. Stored(tmp) \subseteq Stored(h)
  BY <1>2 DEF StoredInv, ReachInv, TmpReachable, Moved, Stored
<1>4. Stored(h) \subseteq Stored(tmp)
  <2>1. \A b \in Full(h) : h.cells[b] \in Stored(tmp)
    BY <1>2 DEF StoredInv, Carried
  <2> HIDE DEF h
  <2>2. Stored(h) = {h.cells[b] : b \in Full(h)}
    BY DEF Stored
  <2> QED  BY <2>1, <2>2
<1>5. Stored(g) = Contents[call.src]
  BY <1>1, <1>3, <1>4, StoredReset
<1>6. tab' = [tab EXCEPT ![call.tab] = g]
  BY DEF RehashDone
<1> HIDE DEF g
<1>7. Contents' = [Contents EXCEPT ![call.tab] = Stored(g)]
  BY <1>1, <1>6, ContentsChange
<1> QED  BY <1>5, <1>7

(* A table that is rehashed stores what it did.                            *)
LEMMA RehashLosesNothing ==
  ASSUME StoredInv, RehashDone, call.kind = "move"
  PROVE  Contents' = Contents
<1>1. call.src = call.tab
  BY DEF RehashDone, StoredInv, Purposeful
<1>2. Contents' = [Contents EXCEPT ![call.tab] = Contents[call.tab]]
  BY <1>1, RehashDoneCopies
<1>3. Contents = [w \in Tables |-> Contents[w]]
  BY DEF Contents
<1> QED  BY <1>2, <1>3

LEMMA RehashDoneAnswers ==
  ASSUME StoredInv, RequestRight, RequestRight', RehashDone
  PROVE  [Abstract!Next]_<<Contents, Request>>
<1>1. /\ pc = "rehash" /\ call.next \in {"idle", "delta", "place"}
      /\ call.next = "place" => call.todo # <<>>
  BY InvFacts DEF RehashDone, CallType, StoredInv, ReachInv, CoverInv, CallSound, Stopped
<1>2. CASE call.kind = "move"
  <2>1. Contents' = Contents /\ Request = Abstract!Prepare(call.tab, call.todo)
    BY <1>1, <1>2, RehashLosesNothing DEF RequestRight
  <2>2. pc' = call.next /\ (call.next # "idle" => call' = call)
    BY DEF RehashDone, Returned
  <2> QED  BY <1>1, <2>1, <2>2, PreparationGoesOn
<1>3. CASE call.kind # "move"
  <2>1. call.next = "idle"
    BY <1>1, <1>3 DEF StoredInv, Purposeful
  <2>2. pc' = "idle"
    BY <2>1 DEF RehashDone, Returned
  <2>3. Request = Abstract!Copy(call.tab, call.src) /\ Request' = Abstract!None
    BY <1>1, <1>3, <2>2 DEF RequestRight
  <2>4. Request.op = "copy" /\ Request.to = call.tab /\ Request.from = call.src
    BY <2>3 DEF Abstract!Copy
  <2>5. Abstract!CopyDone
    BY <2>3, <2>4, RehashDoneCopies DEF Abstract!CopyDone
  <2> QED  BY <2>5 DEF Abstract!Next
<1> QED  BY <1>2, <1>3

-----------------------------------------------------------------------------
(* Carried is kept.                                                        *)

LEMMA RehashOneCarries == ASSUME StoredInv, RehashOne PROVE Carried'
<1> DEFINE h == tab[call.src]
<1>1. /\ Covered(h) /\ TableType(h) /\ Covered(tmp) /\ TableType(tmp)
      /\ call \in CallType /\ call.cursor \in Nat /\ pc = "rehash"
  BY InvFacts DEF RehashOne, CallType, StoredInv, ReachInv, CoverInv
<1>2. PICK b \in Buckets(h), d \in Buckets(tmp) :
        /\ IsNextFull(h, call.cursor, b) /\ FreeAt(tmp, KeyOf[h.cells[b]], d)
        /\ tmp' = PutAt(tmp, d, h.cells[b])
        /\ call' = [call EXCEPT !.cursor = b + 1]
  BY DEF RehashOne
<1> DEFINE e == h.cells[b]
           g == PutAt(tmp, d, e)
<1>3. b \in Full(h) /\ e \in Elements /\ tmp.cells[d] \notin Elements
  BY <1>2 DEF IsNextFull, Full, FreeAt
<1>4. TableType(g)
  BY <1>1, <1>3, PutCovered DEF Covered
<1>5. g.size = tmp.size /\ g.cells = [tmp.cells EXCEPT ![d] = e]
  BY <1>1 DEF PutAt, TableType
<1> HIDE DEF g
<1>6. Stored(g) = Stored(tmp) \cup {e}
  BY <1>1, <1>3, <1>4, <1>5, StoredWrite
<1>7. tab' = tab /\ tmp' = g /\ call'.src = call.src /\ call'.cursor = b + 1
  BY <1>1, <1>2 DEF RehashOne, CallType, g
<1>8. ASSUME NEW a \in Full(h), a < b + 1 PROVE h.cells[a] \in Stored(g)
  <2>1. a \in Nat /\ b \in Nat
    BY <1>1, TableFacts DEF Full, Buckets
  <2>2. CASE a < call.cursor
    BY <1>1, <1>6, <1>8, <2>2 DEF StoredInv, Carried
  <2>3. CASE call.cursor <= a
    <3>1. b <= a
      BY <1>2, <1>8, <2>3 DEF IsNextFull
    <3>2. a = b
      BY <1>8, <2>1, <3>1
    <3> QED  BY <1>6, <3>2
  <2> QED  BY <1>1, <2>1, <2>2, <2>3
<1>9. Full(tab'[call'.src]) = Full(h) /\ Stored(tmp)' = Stored(g)
  BY <1>7 DEF Stored, Full, Buckets
<1> QED  BY <1>7, <1>8, <1>9 DEF Carried, Full, Buckets

LEMMA StartCarries ==
  ASSUME call'.cursor = 0, tab' = tab, TableType(tab[call'.src])
  PROVE  Carried'
<1>1. \A b \in Full(tab[call'.src]) : ~ (b < 0)
  BY TableFacts DEF Full, Buckets
<1>2. \A b \in Full(tab'[call'.src]) : ~ (b < call'.cursor)
  BY <1>1
<1> QED  BY <1>2 DEF Carried, Full, Buckets

LEMMA StartRehashCarries ==
  ASSUME StoredInv, NEW sz, NEW next, StartRehash(sz, next)
  PROVE  Carried'
<1>1. call \in CallType /\ TableType(tab[call.tab])
  BY InvFacts
<1>2. call'.cursor = 0 /\ call'.src = call.tab /\ tab' = tab
  BY <1>1 DEF StartRehash, CallType
<1> QED  BY <1>1, <1>2, StartCarries

LEMMA StartCopyCarries ==
  ASSUME StoredInv, NEW t \in Tables, NEW u \in Tables, NEW kind, NEW h, StartCopy(t, u, kind, h)
  PROVE  Carried'
<1>1. call'.cursor = 0 /\ call'.src = u /\ tab' = tab
  BY DEF StartCopy, NoCall
<1> QED  BY <1>1, InvFacts, StartCarries

LEMMA StepCarries ==
  ASSUME ~ StorageFails, StoredInv, Step
  PROVE  Carried'
<1>1. call.next \in {"idle", "delta", "place"}
  BY InvFacts DEF CallType
<1>2. CASE ShrinkTable \/ GrowTable
  BY <1>2, StartRehashCarries DEF ShrinkTable, GrowTable
<1>3. CASE RehashOne
  BY <1>3, RehashOneCarries
<1>4. CASE SkipShrink \/ SkipGrow \/ ResizeOverflow \/ RehashDone
  BY <1>1, <1>4 DEF SkipShrink, SkipGrow, AfterDelta, ResizeOverflow, RehashDone, Returned, Carried
<1>5. CASE PlaceNew \/ PlaceOld \/ AssertionFails
  BY <1>5 DEF PlaceNew, PlaceOld, AssertionFails, Placed, Returned, Carried
<1>6. CASE RehashFails
  BY <1>6 DEF RehashFails
<1> QED  BY <1>2, <1>3, <1>4, <1>5, <1>6 DEF Step

LEMMA CallCarries ==
  ASSUME StoredInv, Call
  PROVE  Carried'
<1>1. ASSUME NEW t \in Tables, NEW u \in Tables, CopyConstruct(t, u) PROVE Carried'
  BY <1>1, StartCopyCarries DEF CopyConstruct
<1>2. ASSUME NEW t \in Tables, NEW u \in Tables, CopyAssign(t, u) PROVE Carried'
  <2>1. CASE \E h : StartCopy(t, u, "assign", h)
    BY <2>1, StartCopyCarries
  <2>2. CASE Atomic
    BY <2>2 DEF Atomic, Carried
  <2> QED  BY <1>2, <2>1, <2>2 DEF CopyAssign
<1>3. CASE pc' # "rehash"
  BY <1>3 DEF Carried
<1>4. CASE pc' = "rehash"
  <2>1. \E t, u \in Tables : CopyConstruct(t, u) \/ CopyAssign(t, u)
    BY <1>4 DEF Call, Insert, FindOrInsert, Resize, EraseKey, EraseRange, EraseRangeFails,
                AssignMapped, Clear, SetResizingParameters, Swap, MoveConstruct, Reread, Atomic
  <2> QED  BY <1>1, <1>2, <2>1
<1> QED  BY <1>3, <1>4

(* Purposeful is kept.                                                     *)
LEMMA PurposefulKept ==
  ASSUME StoredInv, [Next]_vars
  PROVE  Purposeful'
<1>1. /\ call \in CallType /\ Purposeful /\ call.next \in {"idle", "delta", "place"}
      /\ pc = "idle" => call = NoCall
  BY InvFacts DEF StoredInv, CallType, ReachInv, CoverInv, CallSound, Stopped
<1>2. CASE call' = NoCall /\ pc' = "idle"
  BY <1>2 DEF Purposeful, NoCall
<1>3. CASE UNCHANGED <<call, pc>>
  BY <1>1, <1>3 DEF Purposeful
<1>4. CASE pc' # "rehash" /\ (call'.kind = call.kind \/ call'.kind = "none") /\ pc # "rehash"
  BY <1>1, <1>4 DEF Purposeful
<1>5. ASSUME NEW sz, NEW next, StartRehash(sz, next) PROVE Purposeful'
  BY <1>1, <1>5 DEF StartRehash, CallType, Purposeful
<1>6. ASSUME NEW t, NEW u, NEW kind \in {"construct", "assign"}, NEW h, StartCopy(t, u, kind, h)
      PROVE  Purposeful'
  BY <1>6 DEF StartCopy, NoCall, Purposeful
<1>7. ASSUME NEW t, NEW todo, NEW delta, NEW spot, NEW next, Begin(t, todo, delta, spot, next),
             pc' # "rehash"
      PROVE  Purposeful'
  BY <1>7 DEF Begin, NoCall, Purposeful
<1>8. CASE Step
  <2>1. CASE ShrinkTable \/ GrowTable
    BY <1>5, <2>1 DEF ShrinkTable, GrowTable
  <2>2. CASE SkipShrink \/ SkipGrow \/ ResizeOverflow
    BY <1>1, <1>2, <1>4, <2>2 DEF SkipShrink, SkipGrow, AfterDelta, ResizeOverflow, Returned
  <2>3. CASE RehashOne
    BY <1>1, <2>3 DEF RehashOne, CallType, Purposeful
  <2>4. CASE RehashDone \/ RehashFails
    BY <1>1, <1>2, <2>4 DEF RehashDone, RehashFails, Returned, Purposeful
  <2>5. CASE PlaceNew \/ PlaceOld \/ AssertionFails
    BY <1>1, <1>2, <1>4, <2>5 DEF PlaceNew, PlaceOld, AssertionFails, Placed, Returned, CallType
  <2> QED  BY <1>8, <2>1, <2>2, <2>3, <2>4, <2>5 DEF Step
<1>9. CASE Call
  <2>1. CASE Atomic
    BY <1>3, <2>1 DEF Atomic
  <2>2. CASE \/ \E t \in Tables, todo \in Inserts : Insert(t, todo)
             \/ \E t \in Tables, k \in Keys : FindOrInsert(t, k)
             \/ \E t \in Tables, n \in Requests : Resize(t, n)
    BY <1>7, <2>2 DEF Insert, FindOrInsert, Resize
  <2>3. CASE \E t, u \in Tables : CopyConstruct(t, u) \/ CopyAssign(t, u)
    BY <1>6, <2>1, <2>3 DEF CopyConstruct, CopyAssign
  <2> QED  BY <1>9, <2>1, <2>2, <2>3
           DEF Call, EraseKey, EraseRange, EraseRangeFails, AssignMapped, Clear,
               SetResizingParameters, Swap, MoveConstruct, Reread
<1> QED  BY <1>3, <1>8, <1>9 DEF Next, vars

LEMMA StoredInvKept ==
  ASSUME ~ StorageFails, ~ SerializeMarked
  PROVE  /\ Init => StoredInv
         /\ StoredInv /\ [Next]_vars => StoredInv'
<1>1. Init => StoredInv
  BY ReachInvKept DEF Init, Carried, Purposeful, NoCall, StoredInv
<1>2. ASSUME StoredInv, [Next]_vars PROVE StoredInv'
  <2>1. ReachInv'
    BY <1>2, ReachInvKept DEF StoredInv
  <2>2. Carried'
    <3>1. CASE UNCHANGED vars
      BY <1>2, <3>1 DEF StoredInv, Carried, Stored, Full, Buckets, vars
    <3> QED  BY <1>2, <3>1, StepCarries, CallCarries DEF Next
  <2>3. Purposeful'
    BY <1>2, PurposefulKept
  <2> QED  BY <2>1, <2>2, <2>3 DEF StoredInv
<1> QED  BY <1>1, <1>2

-----------------------------------------------------------------------------
(* Every step is one of the container, or none.                            *)

LEMMA StepImplements ==
  ASSUME ~ StorageFails, StoredInv, StoredInv', Step
  PROVE  [Abstract!Next]_<<Contents, Request>>
<1>1. /\ RequestRight /\ RequestRight' /\ call \in CallType
      /\ call.next \in {"idle", "delta", "place"}
      /\ pc # "aborted" /\ call.next = "place" => call.todo # <<>>
  <2>1. RequestRight /\ RequestRight'
    BY RequestsAreRight
  <2> QED  BY <2>1, InvFacts DEF CallType, StoredInv, ReachInv, CoverInv, CallSound, Stopped
<1>2. CASE pc \in {"shrink", "delta"}
  <2>1. Request = Abstract!Prepare(call.tab, call.todo)
    BY <1>1, <1>2 DEF RequestRight
  <2>2. ASSUME NEW sz, NEW next, StartRehash(sz, next)
        PROVE  /\ Contents' = Contents /\ pc' = "rehash" /\ call'.kind = "move"
               /\ call'.tab = call.tab /\ call'.todo = call.todo
    BY <1>1, <2>2, ContentsSame DEF StartRehash, CallType
  <2>3. CASE ShrinkTable \/ GrowTable
    BY <1>1, <2>1, <2>2, <2>3, PreparationGoesOn DEF ShrinkTable, GrowTable
  <2>4. CASE SkipShrink
    <3>1. Contents' = Contents /\ pc' = call.next /\ (call.next # "idle" => call' = call)
      BY <2>4, SkipShrinkStutters DEF SkipShrink, Returned
    <3> QED  BY <1>1, <1>2, <2>1, <3>1, PreparationGoesOn
  <2>5. CASE SkipGrow
    <3>1. Contents' = Contents /\ (pc' = "idle" \/ (pc' = "place" /\ call' = call /\ call.todo # <<>>))
      BY <2>5, ContentsSame DEF SkipGrow, AfterDelta, Returned
    <3> QED  BY <1>1, <2>1, <3>1, PreparationGoesOn
  <2>6. CASE ResizeOverflow
    <3>1. Contents' = Contents /\ pc' = "idle"
      BY <2>6, ContentsSame DEF ResizeOverflow, Returned
    <3> QED  BY <1>1, <2>1, <3>1, PreparationGoesOn
  <2> QED  BY <1>2, <2>3, <2>4, <2>5, <2>6
           DEF Step, RehashOne, RehashDone, RehashFails, PlaceNew, PlaceOld, AssertionFails
<1>3. CASE pc \notin {"shrink", "delta"}
  <2>1. CASE RehashOne
    <3>1. /\ Contents' = Contents /\ pc = "rehash" /\ pc' = "rehash" /\ call'.tab = call.tab
          /\ call'.todo = call.todo /\ call'.src = call.src /\ call'.kind = call.kind
      BY <1>1, <2>1, ContentsSame DEF RehashOne, CallType
    <3>2. Request' = Request
      BY <1>1, <3>1 DEF RequestRight
    <3> QED  BY <3>1, <3>2
  <2>2. CASE RehashDone
    BY <1>1, <2>2, RehashDoneAnswers
  <2>3. CASE PlaceNew
    <3>1. pc = "place" /\ Placed
      BY <2>3 DEF PlaceNew
    <3>2. Abstract!InsertNext
      BY <1>1, <2>3, <3>1, PlaceNewAdds, PlacedAnswers
    <3> QED  BY <3>2 DEF Abstract!Next
  <2>4. CASE PlaceOld
    <3>1. pc = "place" /\ Placed
      BY <2>4 DEF PlaceOld
    <3>2. Abstract!InsertNext
      BY <1>1, <2>4, <3>1, PlaceOldAdds, PlacedAnswers
    <3> QED  BY <3>2 DEF Abstract!Next
  <2>5. CASE AssertionFails
    <3>1. /\ Contents' = Contents /\ pc = "place" /\ pc' = "aborted" /\ call' = call
      BY <2>5, ContentsSame DEF AssertionFails
    <3>2. Request' = Request
      BY <1>1, <3>1 DEF RequestRight
    <3> QED  BY <3>1, <3>2
  <2> QED  BY <1>3, <2>1, <2>2, <2>3, <2>4, <2>5
           DEF Step, ShrinkTable, GrowTable, SkipShrink, SkipGrow, ResizeOverflow, RehashFails
<1> QED  BY <1>2, <1>3

LEMMA CallImplements ==
  ASSUME StoredInv, Call
  PROVE  [Abstract!Next]_<<Contents, Request>>
<1>1. ASSUME NEW t \in Tables, NEW D \in SUBSET Contents[t], Abstract!Erase(t, D)
      PROVE  Abstract!Next
  BY <1>1 DEF Abstract!Next
<1>2. ASSUME NEW t \in Tables,
             NEW todo \in Inserts \cup {<<>>} \cup {<<DefaultOf[k]>> : k \in Keys},
             Abstract!BeginInsert(t, todo)
      PROVE  Abstract!Next
  BY <1>2 DEF Abstract!Next
<1>3. ASSUME NEW t \in Tables, NEW todo \in Inserts, Insert(t, todo) PROVE Abstract!Next
  BY <1>2, <1>3, BeginBegins DEF Insert
<1>4. ASSUME NEW t \in Tables, NEW k \in Keys, FindOrInsert(t, k) \/ EraseKey(t, k)
      PROVE  Abstract!Next
  <2>1. CASE FindOrInsert(t, k)
    BY <1>2, <2>1, BeginBegins DEF FindOrInsert
  <2>2. CASE EraseKey(t, k)
    BY <1>1, <2>2, EraseKeyErases
  <2> QED  BY <1>4, <2>1, <2>2
<1>5. ASSUME NEW t \in Tables, NEW n \in Requests, Resize(t, n) PROVE Abstract!Next
  BY <1>2, <1>5, BeginBegins DEF Resize
<1>6. ASSUME NEW t \in Tables, NEW b, NEW l, EraseRange(t, b, l) \/ EraseRangeFails(t, b, l)
      PROVE  Abstract!Next
  BY <1>1, <1>6, EraseRangeErases, EraseRangeFailsErases
<1>7. ASSUME NEW t \in Tables, Clear(t) PROVE Abstract!Next
  BY <1>1, <1>7, ClearErases
<1>8. ASSUME NEW t \in Tables, NEW e \in Elements, AssignMapped(t, e) PROVE Abstract!Next
  BY <1>8, AssignMappedUpdates DEF Abstract!Next
<1>9. ASSUME NEW t \in Tables, NEW f \in Factors, SetResizingParameters(t, f)
      PROVE  Contents' = Contents /\ Request' = Request
  BY <1>9, SetResizingParametersStutters DEF SetResizingParameters, Atomic, Request
<1>10. ASSUME NEW t \in Tables, NEW u \in Tables,
              Swap(t, u) \/ MoveConstruct(t, u) \/ Reread(t, u)
      PROVE  Abstract!Next
  BY <1>10, ExchangeExchanges DEF Abstract!Next
<1>11. ASSUME NEW t \in Tables, NEW u \in Tables, Abstract!BeginCopy(t, u)
      PROVE  Abstract!Next
  BY <1>11 DEF Abstract!Next
<1>12. ASSUME NEW t \in Tables, NEW u \in Tables, CopyConstruct(t, u) PROVE Abstract!Next
  BY <1>11, <1>12, StartCopyBegins DEF CopyConstruct
<1>13. ASSUME NEW t \in Tables, NEW u \in Tables, CopyAssign(t, u) PROVE Abstract!Next
  BY <1>1, <1>11, <1>13, CopyAssignBegins
<1> QED  BY <1>3, <1>4, <1>5, <1>6, <1>7, <1>8, <1>9, <1>10, <1>12, <1>13 DEF Call

(* A hash table is a set of elements with one element per key, and only    *)
(* the calls that are to change the set do: however often an insertion or  *)
(* resize rebuilds the table, no element is lost, a range is inserted one  *)
(* element after the other, each once, and nothing but erase and clear     *)
(* removes any. The hypotheses are those under which find reaches every    *)
(* element.                                                                *)
THEOREM HashtableImplementsContainer ==
  ASSUME ~ StorageFails, ~ SerializeMarked
  PROVE  Spec => ImplementsContainer
<1>1. Init => StoredInv /\ Abstract!Init
  <2> SUFFICES ASSUME Init PROVE StoredInv /\ Abstract!Init
    OBVIOUS
  <2>1. StoredInv
    BY StoredInvKept
  <2>2. \A t \in Tables : Full(tab[t]) = {}
    <3>1. InitialSizes \subseteq BucketCounts
      BY SizesAssumption DEF InitialSizes, SizesAssumption
    <3>2. DefaultFactors.shrink \in Percent /\ DefaultFactors.grow \in Percent
      BY FactorsAssumption DEF FactorsAssumption
    <3>3. \A sz \in InitialSizes :
            Full(Fresh(sz, DefaultFactors.shrink, DefaultFactors.grow)) = {}
      BY <3>1, <3>2, FreshSound
    <3> QED  BY <3>3 DEF Init
  <2>3. \A t \in Tables : Stored(tab[t]) = {}
    BY <2>2, StoredNothing
  <2>4. Request = Abstract!None
    BY DEF Init, Request, Abstract!None
  <2> QED  BY <2>1, <2>3, <2>4 DEF Abstract!Init, Contents
<1>2. StoredInv /\ [Next]_vars => StoredInv' /\ [Abstract!Next]_<<Contents, Request>>
  <2> SUFFICES ASSUME StoredInv, [Next]_vars PROVE StoredInv' /\ [Abstract!Next]_<<Contents, Request>>
    OBVIOUS
  <2>1. StoredInv'
    BY StoredInvKept
  <2>2. CASE UNCHANGED vars
    <3>1. Contents' = Contents /\ Request' = Request
      BY <2>2, ContentsSame DEF vars, Request
    <3> QED  BY <2>1, <3>1
  <2> QED  BY <2>1, <2>2, StepImplements, CallImplements DEF Next
<1> QED  BY <1>1, <1>2, PTL DEF Spec, ImplementsContainer, Abstract!Spec, Abstract!vars

(***************************************************************************)
(* Theorems about sizing: a call that places elements has room for them,   *)
(* probes end at an empty bucket, and a rehash changes the size of its     *)
(* table, and not twice for one insertion.                                 *)
(***************************************************************************)

-----------------------------------------------------------------------------
(* What the program must not do for some of the theorems to hold.          *)

(* No grow factor lets a table fill up.                                    *)
FactorsLeaveRoom == DefaultFactors.grow < 100 /\ \A f \in Factors : f.grow < 100

(* A new table could be given its factors by set_resizing_parameters.      *)
DefaultsClipped == 2 * DefaultFactors.shrink <= DefaultFactors.grow

-----------------------------------------------------------------------------
(* The inductive invariant.  Beyond CoverInv it says that the thresholds   *)
(* in force are those of the factors, that no table counts itself full,    *)
(* and what a call knows when it decides on a size: that the temporary     *)
(* table has room for what the old one counts and for what is placed       *)
(* afterwards.  It holds whatever fails, because it is about the counters. *)

Allowed(shrink, grow) ==
  /\ FactorsLeaveRoom => grow < 100
  /\ DefaultsClipped => 2 * shrink <= grow

NeverFull(h) == FactorsLeaveRoom => Occupied(h) < h.size

Tuned(h) ==
  /\ h.enlargeAt = Scaled(h.size, h.grow) /\ h.shrinkAt = Scaled(h.size, h.shrink)
  /\ Allowed(h.shrink, h.grow) /\ NeverFull(h)

TabsTuned == \A t \in Tables : Tuned(tab[t])

(* The elements of h that a rehash has passed when it is at bucket c.      *)
Passed(h, c) == {b \in Full(h) : b < c}

RehashFits ==
  pc = "rehash" =>
    /\ tmp.items = Cardinality(Passed(tab[call.src], call.cursor))
    /\ tab[call.src].items < Scaled(tmp.size, tmp.grow)
    /\ call.next = "place" =>
         tab[call.src].items + Len(call.todo) <= Scaled(tmp.size, tmp.grow)

(* _resize_delta is told how many elements follow; they are placed only    *)
(* when there is room; and it finds room if the table has just shrunk.     *)
CallFits ==
  /\ pc \in {"shrink", "delta", "rehash"} /\ call.todo # <<>> => call.delta = Len(call.todo)
  /\ pc \in {"shrink", "delta"} => call.next # "place"
  /\ pc = "shrink" => call.kind = "none"
  /\ pc = "delta" /\ call.kind # "none" =>
       Occupied(tab[call.tab]) < tab[call.tab].enlargeAt

(* A temporary table has no marks to count, even if it is the target of a  *)
(* copy assignment.                                                        *)
TmpTuned == Tuned(tmp) /\ tmp.deleted = 0

Roominess == TabsTuned /\ TmpTuned /\ RehashFits /\ CallFits /\ RoomToPlace

RoomInv == CoverInv /\ Roominess

-----------------------------------------------------------------------------
(* Sizes.                                                                  *)

LEMMA LeastNat ==
  ASSUME NEW T \in SUBSET Nat, T # {}
  PROVE  \E x \in T : \A y \in T : x <= y
<1>1. PICK x \in T : \A y \in T : ~ (<<y, x>> \in OpToRel(<, Nat))
  BY NatLessThanWellFounded, WFMin
<1>2. \A y \in T : ~ (y < x)
  BY <1>1 DEF OpToRel
<1> QED  BY <1>2

LEMMA LeastCount == \A c \in BucketCounts : MinBuckets <= c
<1> DEFINE T == {c \in BucketCounts : c < MinBuckets}
<1>1. ASSUME T # {} PROVE FALSE
  <2>1. PICK c \in T : \A d \in T : c <= d
    BY <1>1, LeastNat, BucketCountType
  <2>2. PICK half \in BucketCounts : c = 2 * half
    BY SizesAssumption DEF SizesAssumption
  <2>3. half < c /\ c < MinBuckets /\ MinBuckets \in Nat /\ half \in Nat
    BY <2>2, BucketCountType, SizesAssumption DEF SizesAssumption
  <2> QED  BY <2>1, <2>3, BucketCountType
<1> QED  BY <1>1, BucketCountType, SizesAssumption DEF SizesAssumption

(* Bucket counts are powers of two: of two, the larger is at least twice   *)
(* the smaller.                                                            *)
LEMMA CountsDouble ==
  ASSUME NEW a \in BucketCounts, NEW b \in BucketCounts, a < b
  PROVE  2 * a <= b
<1>1. \A c \in BucketCounts : MinBuckets <= c
  BY LeastCount
<1> DEFINE T == {c \in BucketCounts : \E d \in BucketCounts : d < c /\ 2 * d > c}
<1>2. ASSUME T # {} PROVE FALSE
  <2>1. PICK c \in T : \A d \in T : c <= d
    BY <1>2, LeastNat, BucketCountType
  <2>2. PICK d \in BucketCounts : d < c /\ 2 * d > c
    OBVIOUS
  <2>3. /\ MinBuckets \in Nat \ {0} /\ MinBuckets \in BucketCounts
        /\ c \in Nat \ {0} /\ d \in Nat \ {0} /\ MinBuckets <= d
    BY <1>1, BucketCountType, SizesAssumption DEF SizesAssumption
  <2>4. PICK half \in BucketCounts : c = 2 * half
    BY <2>2, <2>3, SizesAssumption DEF SizesAssumption
  <2>5. half \in Nat \ {0} /\ MinBuckets <= half
    BY <1>1, BucketCountType
  <2>6. d # MinBuckets
    BY <2>2, <2>3, <2>4, <2>5
  <2>7. PICK part \in BucketCounts : d = 2 * part
    BY <2>6, SizesAssumption DEF SizesAssumption
  <2>8. part < half /\ 2 * part > half /\ half < c
    BY <2>2, <2>4, <2>5, <2>7, BucketCountType
  <2> QED  BY <2>1, <2>3, <2>5, <2>8
<1> QED  BY <1>2, BucketCountType

LEMMA ScaledGrows ==
  ASSUME NEW a \in Nat, NEW b \in Nat, a <= b, NEW pct \in Percent
  PROVE  Scaled(a, pct) <= Scaled(b, pct)
<1>1. pct \in Nat
  BY DEF Percent
<1>2. b = a + (b - a) /\ b - a \in Nat
  OBVIOUS
<1>3. (b - a) * pct \in Nat
  BY <1>1, <1>2
<1>4. b * pct = a * pct + (b - a) * pct
  BY <1>1, <1>2
<1>5. a * pct \in Nat /\ b * pct \in Nat /\ a * pct <= b * pct
  BY <1>1, <1>3, <1>4
<1> QED  BY <1>5 DEF Scaled

LEMMA ScaledBelow ==
  ASSUME NEW sz \in Nat \ {0}, NEW pct \in Percent, pct < 100
  PROVE  Scaled(sz, pct) < sz
<1>1. pct \in Nat /\ 100 - pct \in Nat \ {0}
  BY DEF Percent
<1>2. sz * (100 - pct) \in Nat \ {0}
  BY <1>1
<1>3. sz * pct + sz * (100 - pct) = 100 * sz
  BY <1>1
<1>4. sz * pct \in Nat /\ sz * pct < 100 * sz
  BY <1>1, <1>2, <1>3
<1> QED  BY <1>4 DEF Scaled

(* What is below the shrink threshold is below the enlarge threshold of a  *)
(* table half as large.                                                    *)
LEMMA ScaledHalf ==
  ASSUME NEW half \in Nat, NEW s \in Percent, NEW g \in Percent, 2 * s <= g
  PROVE  Scaled(2 * half, s) <= Scaled(half, g)
<1>1. s \in Nat /\ g \in Nat /\ g - 2 * s \in Nat
  BY DEF Percent
<1>2. half * g = (2 * half) * s + half * (g - 2 * s)
  BY <1>1
<1>3. half * (g - 2 * s) \in Nat /\ half * g \in Nat /\ (2 * half) * s \in Nat
  BY <1>1
<1>4. (2 * half) * s <= half * g
  BY <1>2, <1>3
<1> QED  BY <1>3, <1>4 DEF Scaled

-----------------------------------------------------------------------------
(* Tables.                                                                 *)

LEMMA TunedFresh ==
  ASSUME NEW sz \in BucketCounts, NEW s \in Percent, NEW g \in Percent, Allowed(s, g)
  PROVE  Tuned(Fresh(sz, s, g))
<1> DEFINE h == Fresh(sz, s, g)
<1>1. sz \in Nat \ {0}
  BY BucketCountType
<1>2. /\ h.size = sz /\ h.items = 0 /\ h.deleted = 0 /\ h.shrink = s /\ h.grow = g
      /\ h.enlargeAt = Scaled(sz, g) /\ h.shrinkAt = Scaled(sz, s)
  BY DEF Fresh
<1> HIDE DEF h
<1>3. Tuned(h)
  BY <1>1, <1>2 DEF Tuned, NeverFull, Occupied
<1> QED  BY <1>3 DEF h

LEMMA TunedReset ==
  ASSUME NEW h, TableType(h), Allowed(h.shrink, h.grow), NeverFull(h)
  PROVE  Tuned(ResetThresholds(h))
<1> DEFINE g == ResetThresholds(h)
<1>1. /\ g.size = h.size /\ g.shrink = h.shrink /\ g.grow = h.grow
      /\ g.items = h.items /\ g.deleted = h.deleted
      /\ g.enlargeAt = Scaled(h.size, h.grow) /\ g.shrinkAt = Scaled(h.size, h.shrink)
  BY DEF TableType, ResetThresholds
<1> HIDE DEF g
<1>2. Tuned(g)
  BY <1>1 DEF Tuned, NeverFull, Occupied
<1> QED  BY <1>2 DEF g

(* A table below its enlarge threshold is not full.                        *)
LEMMA ThresholdBelowSize ==
  ASSUME NEW h, TableType(h), Tuned(h), FactorsLeaveRoom
  PROVE  h.enlargeAt < h.size /\ h.enlargeAt \in Nat /\ h.size \in Nat
BY TableFacts, ScaledBelow, ScaledType DEF Tuned, Allowed

LEMMA TunedInsert ==
  ASSUME NEW h, Covered(h), Tuned(h), NEW b \in Buckets(h), NEW e \in Elements,
         Occupied(h) + 1 <= h.enlargeAt
  PROVE  /\ Tuned(InsertAt(h, b, e))
         /\ InsertAt(h, b, e).enlargeAt = h.enlargeAt
         /\ Occupied(InsertAt(h, b, e)) <= Occupied(h) + 1
         /\ Occupied(InsertAt(h, b, e)) \in Int
<1> DEFINE g == InsertAt(h, b, e)
<1>1. TableType(h) /\ h.items \in Nat /\ h.deleted \in Nat
  BY TableFacts DEF Covered
<1>2. /\ g.size = h.size /\ g.shrink = h.shrink /\ g.grow = h.grow
      /\ g.enlargeAt = h.enlargeAt /\ g.shrinkAt = h.shrinkAt
      /\ g.items = h.items + 1 /\ g.deleted \in {h.deleted, h.deleted - 1}
  BY <1>1 DEF InsertAt, TableType
<1> HIDE DEF g
<1>3. Occupied(g) <= Occupied(h) + 1 /\ Occupied(g) \in Int /\ Occupied(h) \in Int
  BY <1>1, <1>2 DEF Occupied
<1>4. NeverFull(g)
  BY <1>1, <1>2, <1>3, ThresholdBelowSize DEF NeverFull
<1>5. Tuned(g)
  BY <1>2, <1>4 DEF Tuned
<1> QED  BY <1>2, <1>3, <1>5 DEF g

(* A table that counts no more than before stays tuned.                    *)
LEMMA TunedNoFuller ==
  ASSUME NEW h, Covered(h), Tuned(h), NEW g, g.size = h.size, g.shrink = h.shrink,
         g.grow = h.grow, g.enlargeAt = h.enlargeAt, g.shrinkAt = h.shrinkAt,
         g.items \in Int, g.deleted \in Int, g.items + g.deleted <= h.items + h.deleted
  PROVE  Tuned(g)
<1>1. TableType(h) /\ h.items \in Nat /\ h.deleted \in Nat /\ h.size \in Nat
  BY TableFacts DEF Covered
<1>2. NeverFull(g)
  BY <1>1 DEF Tuned, NeverFull, Occupied
<1> QED  BY <1>2 DEF Tuned

LEMMA TunedForget ==
  ASSUME NEW h, Covered(h), Tuned(h), NEW b
  PROVE  Tuned(ForgetMark(h, b))
<1> DEFINE g == ForgetMark(h, b)
<1>1. TableType(h) /\ h.items \in Nat /\ h.deleted \in Nat
  BY TableFacts DEF Covered
<1>2. /\ g.size = h.size /\ g.shrink = h.shrink /\ g.grow = h.grow
      /\ g.enlargeAt = h.enlargeAt /\ g.shrinkAt = h.shrinkAt
      /\ g.items = h.items /\ g.deleted \in {h.deleted, h.deleted - 1}
  BY <1>1 DEF ForgetMark, TableType
<1> HIDE DEF g
<1>3. g.items \in Int /\ g.deleted \in Int /\ g.items + g.deleted <= h.items + h.deleted
  BY <1>1, <1>2
<1>4. Tuned(g)
  BY <1>2, <1>3, TunedNoFuller
<1> QED  BY <1>4 DEF g

LEMMA TunedFreed ==
  ASSUME NEW h, Covered(h), Tuned(h), NEW b
  PROVE  Tuned(FreedUpTo(h, b))
BY DEF Covered, TableType, Tuned, NeverFull, Occupied, FreedUpTo

(* An erasure turns an element into a mark: the table is as full as before *)
(* or, if num_deleted is not updated, less so.                             *)
LEMMA TunedErase ==
  ASSUME NEW h, Covered(h), Tuned(h), NEW S \in SUBSET Full(h)
  PROVE  /\ Tuned(EraseAll(h, S))
         /\ Tuned([EraseAll(h, S) EXCEPT !.deleted = h.deleted, !.consider = h.consider])
<1> DEFINE g == EraseAll(h, S)
           k == [g EXCEPT !.deleted = h.deleted, !.consider = h.consider]
           n == Cardinality(S)
<1>1. TableType(h) /\ h.items \in Nat /\ h.deleted \in Nat
  BY TableFacts DEF Covered
<1>2. n \in Nat
  BY <1>1, BucketSetsFinite, FS_Subset, FS_CardinalityType
<1>3. /\ g.size = h.size /\ g.shrink = h.shrink /\ g.grow = h.grow
      /\ g.enlargeAt = h.enlargeAt /\ g.shrinkAt = h.shrinkAt
      /\ g.items = h.items - n /\ g.deleted = h.deleted + n
  BY <1>1 DEF EraseAll, TableType
<1>4. /\ k.size = h.size /\ k.shrink = h.shrink /\ k.grow = h.grow
      /\ k.enlargeAt = h.enlargeAt /\ k.shrinkAt = h.shrinkAt
      /\ k.items = h.items - n /\ k.deleted = h.deleted
  BY <1>1 DEF EraseAll, TableType
<1> HIDE DEF g, k, n
<1>5. g.items \in Int /\ g.deleted \in Int /\ g.items + g.deleted <= h.items + h.deleted
  BY <1>1, <1>2, <1>3
<1>6. k.items \in Int /\ k.deleted \in Int /\ k.items + k.deleted <= h.items + h.deleted
  BY <1>1, <1>2, <1>4
<1>7. Tuned(g)
  BY <1>3, <1>5, TunedNoFuller
<1>8. Tuned(k)
  BY <1>4, <1>6, TunedNoFuller
<1> QED  BY <1>7, <1>8 DEF g, k

LEMMA TunedOverwrite ==
  ASSUME NEW h, Covered(h), Tuned(h), NEW c
  PROVE  Tuned([h EXCEPT !.cells = c])
BY DEF Covered, TableType, Tuned, NeverFull, Occupied

LEMMA TunedCleared ==
  ASSUME NEW h, TableType(h), Allowed(h.shrink, h.grow)
  PROVE  Tuned(Cleared(h))
<1>1. CASE h.items # 0 \/ h.deleted # 0
  BY <1>1, TableFacts, TunedFresh, SizesAssumption DEF Cleared, SizesAssumption
<1>2. CASE h.items = 0 /\ h.deleted = 0
  BY <1>2, TunedReset, TableFacts DEF Cleared, NeverFull, Occupied
<1> QED  BY <1>1, <1>2

LEMMA TunedBase ==
  ASSUME NEW h, Covered(h), NEW u, Covered(u), Tuned(u)
  PROVE  /\ Tuned(AssignBase(h, u)) /\ AssignBase(h, u).grow = u.grow
         /\ AssignBase(h, u).items = 0
<1> DEFINE g == [h EXCEPT !.shrink = u.shrink, !.grow = u.grow, !.deleted = u.deleted]
<1>1. TableType(g) /\ g.shrink = u.shrink /\ g.grow = u.grow
  BY TableFacts DEF Covered, TableType
<1> HIDE DEF g
<1>2. Tuned(Cleared(g))
  BY <1>1, TunedCleared DEF Tuned
<1>3. Cleared(g).grow = g.grow /\ Cleared(g).items = 0
  BY <1>1 DEF Cleared, Fresh, ResetThresholds, TableType
<1> QED  BY <1>1, <1>2, <1>3 DEF AssignBase, g

LEMMA TunedExtended ==
  ASSUME NEW h, Covered(h), Tuned(h), NEW sz \in BucketCounts
  PROVE  /\ Tuned(Extended(h, sz)) /\ Extended(h, sz).grow = h.grow
         /\ Extended(h, sz).size >= sz /\ Extended(h, sz).items = h.items
<1>1. TableType(h) /\ sz \in Nat /\ h.size \in Nat /\ h.items \in Nat /\ h.deleted \in Nat
  BY TableFacts, BucketCountType DEF Covered
<1>2. CASE sz <= h.size
  BY <1>1, <1>2 DEF Extended
<1>3. CASE ~ (sz <= h.size)
  <2> DEFINE c == [b \in 0 .. sz - 1 |-> IF b < h.size THEN h.cells[b] ELSE Empty]
             g == [h EXCEPT !.size = sz, !.cells = c]
  <2>1. /\ g.size = sz /\ g.cells = c /\ g.items = h.items /\ g.deleted = h.deleted
        /\ g.shrink = h.shrink /\ g.grow = h.grow
    BY <1>1 DEF TableType
  <2>2. TableType(g)
    <3>1. c \in [0 .. sz - 1 -> Cell]
      BY <1>1, <1>3, TableFacts DEF Cell, Buckets
    <3> QED  BY <1>1, <3>1 DEF TableType
  <2>3. Extended(h, sz) = ResetThresholds(g)
    BY <1>3 DEF Extended
  <2> HIDE DEF g, c
  <2>4. NeverFull(g) /\ Allowed(g.shrink, g.grow)
    BY <1>1, <1>3, <2>1 DEF Tuned, NeverFull, Occupied
  <2>5. Tuned(ResetThresholds(g))
    BY <2>2, <2>4, TunedReset
  <2>6. ResetThresholds(g).grow = g.grow /\ ResetThresholds(g).size = g.size
        /\ ResetThresholds(g).items = g.items
    BY <2>2 DEF ResetThresholds, TableType
  <2> QED  BY <1>1, <2>1, <2>3, <2>5, <2>6
<1> QED  BY <1>2, <1>3

LEMMA TunedReloaded ==
  ASSUME NEW h, Covered(h), Tuned(h), NEW u, Covered(u), Tuned(u)
  PROVE  Tuned(Reloaded(h, u))
<1> DEFINE c == Written(u)
           g == [h EXCEPT !.size = u.size, !.cells = c, !.items = u.items, !.deleted = 0]
<1>1. TableType(h) /\ TableType(u) /\ u.items \in Nat /\ u.deleted \in Nat /\ u.size \in Nat
  BY TableFacts DEF Covered
<1>2. c \in [0 .. u.size - 1 -> Cell]
  BY DEF Written, Cell, Buckets
<1> HIDE DEF c
<1>3. /\ g.size = u.size /\ g.items = u.items /\ g.deleted = 0
      /\ g.shrink = h.shrink /\ g.grow = h.grow
  BY <1>1 DEF TableType
<1>4. TableType(g)
  BY <1>1, <1>2 DEF TableType
<1>5. Reloaded(h, u) = ResetThresholds(g)
  BY DEF Reloaded, c
<1> HIDE DEF g
<1>6. NeverFull(g) /\ Allowed(g.shrink, g.grow)
  BY <1>1, <1>3 DEF Tuned, NeverFull, Occupied
<1> QED  BY <1>4, <1>5, <1>6, TunedReset

LEMMA TunedPut ==
  ASSUME NEW h, Covered(h), Tuned(h), NEW b, NEW e, Occupied(h) + 1 <= h.enlargeAt
  PROVE  /\ Tuned(PutAt(h, b, e)) /\ PutAt(h, b, e).items = h.items + 1
         /\ PutAt(h, b, e).size = h.size /\ PutAt(h, b, e).grow = h.grow
         /\ PutAt(h, b, e).deleted = h.deleted
<1> DEFINE g == PutAt(h, b, e)
<1>1. TableType(h) /\ h.items \in Nat /\ h.deleted \in Nat
  BY TableFacts DEF Covered
<1>2. /\ g.size = h.size /\ g.shrink = h.shrink /\ g.grow = h.grow
      /\ g.enlargeAt = h.enlargeAt /\ g.shrinkAt = h.shrinkAt
      /\ g.items = h.items + 1 /\ g.deleted = h.deleted
  BY <1>1 DEF PutAt, TableType
<1> HIDE DEF g
<1>3. Occupied(g) = Occupied(h) + 1 /\ Occupied(h) \in Nat
  BY <1>1, <1>2 DEF Occupied
<1>4. NeverFull(g)
  BY <1>1, <1>2, <1>3, ThresholdBelowSize DEF NeverFull
<1>5. Tuned(g)
  BY <1>2, <1>4 DEF Tuned
<1> QED  BY <1>2, <1>5 DEF g

(* A rehash that has not passed all elements has passed fewer of them.     *)
LEMMA PassedOneMore ==
  ASSUME NEW h, Covered(h), NEW c \in Nat, NEW b \in Buckets(h), IsNextFull(h, c, b)
  PROVE  /\ Cardinality(Passed(h, b + 1)) = Cardinality(Passed(h, c)) + 1
         /\ Cardinality(Passed(h, b + 1)) <= h.items
         /\ Cardinality(Passed(h, c)) \in Nat
<1>1. TableType(h) /\ h.size \in Nat /\ b \in Nat /\ IsFiniteSet(Full(h))
  BY TableFacts, BucketSetsFinite DEF Covered, Buckets
<1>2. Passed(h, b + 1) = Passed(h, c) \cup {b} /\ b \notin Passed(h, c)
  BY <1>1 DEF Passed, IsNextFull, Full, Buckets
<1>3. Passed(h, c) \in SUBSET Full(h) /\ Passed(h, b + 1) \in SUBSET Full(h)
  BY DEF Passed
<1>4. IsFiniteSet(Passed(h, c)) /\ Cardinality(Passed(h, c)) \in Nat
  BY <1>1, <1>3, FS_Subset, FS_CardinalityType
<1>5. Cardinality(Passed(h, c) \cup {b}) = Cardinality(Passed(h, c)) + 1
  BY <1>2, <1>4, FS_AddElement
<1>6. Cardinality(Passed(h, b + 1)) <= Cardinality(Full(h))
  BY <1>1, <1>3, FS_Subset
<1>7. h.items \in Nat /\ Cardinality(Full(h)) \in Nat /\ h.items >= Cardinality(Full(h))
  BY CoveredFacts
<1> QED  BY <1>2, <1>4, <1>5, <1>6, <1>7

LEMMA PassedAtStart ==
  ASSUME NEW h, TableType(h)
  PROVE  Cardinality(Passed(h, 0)) = 0
<1>1. Passed(h, 0) = {}
  BY TableFacts DEF Passed, Full, Buckets
<1> QED  BY <1>1, FS_EmptySet

-----------------------------------------------------------------------------
(* Steps that return, begin, or start a rehash.                            *)

LEMMA CallFacts ==
  ASSUME CoverInv
  PROVE  /\ call \in CallType /\ call.tab \in Tables /\ call.src \in Tables
         /\ call.cursor \in Nat /\ call.todo \in Seq(Elements) /\ call.delta \in Nat
         /\ Covered(tab[call.tab]) /\ Covered(tab[call.src]) /\ Covered(tmp)
         /\ pc = "place" => call.todo # <<>>
<1>1. call \in CallType /\ TabsCovered /\ Covered(tmp) /\ (pc = "place" => call.todo # <<>>)
  BY DEF CoverInv, CallSound, Stopped
<1> QED  BY <1>1 DEF CallType, TabsCovered

LEMMA TunedNoTmp == Tuned(NoTmp) /\ NoTmp.deleted = 0
<1>1. 0 \in Percent /\ MinBuckets \in BucketCounts /\ Allowed(0, 0)
  BY SizesAssumption DEF SizesAssumption, Percent, Allowed
<1>2. NoTmp.deleted = 0
  BY DEF NoTmp, Fresh
<1> QED  BY <1>1, <1>2, TunedFresh DEF NoTmp

(* The temporary table is replaced by g.                                   *)
LEMMA TmpBecomes ==
  ASSUME NEW g, Tuned(g), g.deleted = 0, tmp' = g
  PROVE  TmpTuned'
BY DEF TmpTuned, Tuned, Allowed, NeverFull, Occupied

LEMMA RoomReturned == Returned /\ TabsTuned' => Roominess'
<1> SUFFICES ASSUME Returned, TabsTuned' PROVE Roominess'
  OBVIOUS
<1>1. pc' = "idle" /\ call'.todo = <<>> /\ tmp' = NoTmp
  BY DEF Returned, NoCall
<1>2. TmpTuned'
  BY <1>1, TunedNoTmp, TmpBecomes
<1> QED  BY <1>1, <1>2 DEF Roominess, RehashFits, CallFits, RoomToPlace

LEMMA TmpStaysTuned == TmpTuned /\ UNCHANGED tmp => TmpTuned'
BY DEF TmpTuned, Tuned, Allowed, NeverFull, Occupied

LEMMA RoomAtomic == RoomInv /\ Atomic /\ TabsTuned' => Roominess'
<1> SUFFICES ASSUME RoomInv, Atomic, TabsTuned' PROVE Roominess'
  OBVIOUS
<1>1. pc' = "idle" /\ TmpTuned'
  BY TmpStaysTuned DEF Atomic, RoomInv, Roominess
<1> QED  BY <1>1 DEF Roominess, RehashFits, CallFits, RoomToPlace

LEMMA TabsStayTuned == TabsTuned /\ UNCHANGED tab => TabsTuned'
BY DEF TabsTuned, Tuned, Allowed, NeverFull, Occupied

LEMMA TabsChanged ==
  ASSUME TabsCovered, TabsTuned, NEW t \in Tables, NEW g, Tuned(g), tab' = [tab EXCEPT ![t] = g]
  PROVE  TabsTuned' /\ tab'[t] = g
<1>1. \A u \in Tables : tab'[u] = IF u = t THEN g ELSE tab[u]
  BY DEF TabsCovered
<1>2. \A u \in Tables : Tuned(tab'[u])
  BY <1>1 DEF TabsTuned
<1> QED  BY <1>1, <1>2 DEF TabsTuned, Tuned, Allowed, NeverFull, Occupied

LEMMA RoomAtomicChange ==
  ASSUME RoomInv, Atomic, NEW t \in Tables, NEW g, Tuned(g), tab' = [tab EXCEPT ![t] = g]
  PROVE  Roominess'
<1>1. TabsTuned'
  BY TabsChanged DEF RoomInv, Roominess, CoverInv
<1> QED  BY <1>1, RoomAtomic

LEMMA RoomBegins ==
  ASSUME RoomInv, NEW t \in Tables, NEW todo, NEW delta, NEW spot, NEW next,
         Begin(t, todo, delta, spot, next), next # "place", pc' \in {"shrink", "delta"},
         todo # <<>> => delta = Len(todo)
  PROVE  Roominess'
<1>1. /\ call'.todo = todo /\ call'.delta = delta /\ call'.kind = "none" /\ call'.next = next
      /\ tab' = tab /\ tmp' = tmp
  BY DEF Begin, NoCall
<1>2. TabsTuned' /\ TmpTuned'
  BY <1>1, TabsStayTuned, TmpStaysTuned DEF RoomInv, Roominess
<1> QED  BY <1>1, <1>2 DEF Roominess, RehashFits, CallFits, RoomToPlace

LEMMA RoomRehashStarts ==
  ASSUME RoomInv, pc \in {"shrink", "delta"}, NEW sz \in BucketCounts,
         NEW next \in {"idle", "delta", "place"}, StartRehash(sz, next),
         tab[call.tab].items < Scaled(sz, tab[call.tab].grow),
         next = "place" =>
           tab[call.tab].items + Len(call.todo) <= Scaled(sz, tab[call.tab].grow)
  PROVE  Roominess'
<1> DEFINE h == tab[call.tab]
<1>1. Covered(h) /\ call \in CallType /\ call.tab \in Tables /\ TableType(h)
  BY CallFacts DEF RoomInv, Covered
<1>2. /\ call'.src = call.tab /\ call'.cursor = 0 /\ call'.next = next
      /\ call'.todo = call.todo /\ call'.delta = call.delta
      /\ tab' = tab /\ pc' = "rehash" /\ tmp' = Fresh(sz, h.shrink, h.grow)
  BY <1>1 DEF StartRehash, CallType
<1>3. tmp'.items = 0 /\ tmp'.size = sz /\ tmp'.grow = h.grow
  BY <1>2 DEF Fresh
<1>4. Tuned(Fresh(sz, h.shrink, h.grow)) /\ Fresh(sz, h.shrink, h.grow).deleted = 0
  BY <1>1, TableFacts, TunedFresh DEF RoomInv, Roominess, TabsTuned, Tuned, Fresh
<1>5. TmpTuned'
  BY <1>2, <1>4, TmpBecomes
<1>6. TabsTuned'
  BY <1>2, TabsStayTuned DEF RoomInv, Roominess
<1>7. Cardinality(Passed(h, 0)) = 0
  BY <1>1, PassedAtStart
<1>8. RehashFits'
  <2>1. Passed(tab'[call'.src], call'.cursor) = Passed(h, 0)
    BY <1>2
  <2>2. tab'[call'.src].items = h.items
    BY <1>2
  <2>3. tmp'.items = Cardinality(Passed(tab'[call'.src], call'.cursor))
    BY <1>3, <1>7, <2>1
  <2> QED  BY <1>2, <1>3, <2>2, <2>3 DEF RehashFits, Passed, Full, Buckets
<1>9. CallFits' /\ RoomToPlace'
  BY <1>2 DEF RoomInv, Roominess, CallFits, RoomToPlace
<1> QED  BY <1>5, <1>6, <1>8, <1>9 DEF Roominess

-----------------------------------------------------------------------------
(* _maybe_shrink and _resize_delta.                                        *)

LEMMA RoomShrinkTable == RoomInv /\ ShrinkTable => Roominess'
<1> SUFFICES ASSUME RoomInv, ShrinkTable PROVE Roominess'
  OBVIOUS
<1> DEFINE h == tab[call.tab]
<1>1. PICK sz \in BucketCounts, to \in BucketCounts :
        IsMinBuckets(to, h.items, sz, h.grow) /\ StartRehash(to, call.next)
  BY DEF ShrinkTable
<1>2. h.items < Scaled(to, h.grow)
  BY <1>1 DEF IsMinBuckets, Roomy
<1>3. pc = "shrink" /\ call.next \in {"idle", "delta"}
  BY CallFacts DEF RoomInv, Roominess, CallFits, ShrinkTable, CallType
<1> QED  BY <1>1, <1>2, <1>3, RoomRehashStarts

LEMMA RoomSkipShrink == RoomInv /\ SkipShrink => Roominess'
<1> SUFFICES ASSUME RoomInv, SkipShrink PROVE Roominess'
  OBVIOUS
<1> DEFINE h == tab[call.tab]
           g == [h EXCEPT !.consider = FALSE]
<1>1. Covered(h) /\ Tuned(h) /\ call \in CallType /\ call.tab \in Tables
  BY CallFacts DEF RoomInv, Roominess, TabsTuned
<1>2. Tuned(g)
  BY <1>1 DEF Covered, TableType, Tuned, NeverFull, Occupied
<1>3. tab' = [tab EXCEPT ![call.tab] = g]
  BY DEF SkipShrink
<1> HIDE DEF g
<1>4. TabsTuned'
  BY <1>1, <1>2, <1>3, TabsChanged DEF RoomInv, Roominess, CoverInv
<1>5. CASE call.next = "idle"
  BY <1>4, <1>5, RoomReturned DEF SkipShrink
<1>6. CASE call.next # "idle"
  <2>1. pc = "shrink" /\ pc' = "delta" /\ tmp' = tmp /\ call' = call /\ call.kind = "none"
    BY <1>1, <1>6 DEF SkipShrink, CallType, RoomInv, Roominess, CallFits
  <2>2. TmpTuned'
    BY <2>1, TmpStaysTuned DEF RoomInv, Roominess
  <2> QED  BY <1>4, <2>1, <2>2 DEF RoomInv, Roominess, RehashFits, CallFits, RoomToPlace
<1> QED  BY <1>5, <1>6

(* Room by the second early return is room by the first.                   *)
LEMMA EnoughRoom ==
  ASSUME NEW h, Covered(h), Tuned(h), NEW delta \in Nat, Enough(h, delta)
  PROVE  Occupied(h) + delta <= h.enlargeAt
<1> DEFINE n == Occupied(h) + delta
<1>1. TableType(h) /\ h.size \in Nat /\ h.grow \in Percent /\ n \in Nat
  BY TableFacts DEF Covered, Occupied
<1> HIDE DEF n
<1>2. CASE n <= h.enlargeAt
  BY <1>2 DEF n
<1>3. CASE \E needed \in Roomy(n, 0, h.grow) : needed <= h.size
  <2>1. PICK needed \in BucketCounts : n < Scaled(needed, h.grow) /\ needed <= h.size
    BY <1>3 DEF Roomy
  <2>2. needed \in Nat
    BY BucketCountType
  <2>3. Scaled(needed, h.grow) <= Scaled(h.size, h.grow)
    BY <1>1, <2>1, <2>2, ScaledGrows
  <2>4. h.enlargeAt = Scaled(h.size, h.grow)
    BY DEF Tuned
  <2>5. Scaled(needed, h.grow) \in Nat /\ Scaled(h.size, h.grow) \in Nat
    BY <1>1, <2>2, ScaledType
  <2>6. n <= h.enlargeAt
    BY <1>1, <2>1, <2>3, <2>4, <2>5
  <2> QED  BY <2>6 DEF n
<1> QED  BY <1>2, <1>3 DEF Enough, n

LEMMA RoomSkipGrow == RoomInv /\ SkipGrow => Roominess'
<1> SUFFICES ASSUME RoomInv, SkipGrow PROVE Roominess'
  OBVIOUS
<1>1. TabsTuned'
  BY TabsStayTuned DEF SkipGrow, RoomInv, Roominess
<1>2. CASE call.todo = <<>>
  BY <1>1, <1>2, RoomReturned DEF SkipGrow, AfterDelta
<1>3. CASE call.todo # <<>>
  <2>1. pc = "delta" /\ pc' = "place" /\ UNCHANGED <<tab, tmp, call>>
    BY <1>3 DEF SkipGrow, AfterDelta
  <2>2. TmpTuned'
    BY <2>1, TmpStaysTuned DEF RoomInv, Roominess
  <2>3. call.delta = Len(call.todo) /\ call.delta \in Nat
    BY <1>3, <2>1, CallFacts DEF RoomInv, Roominess, CallFits
  <2>4. Covered(tab[call.tab]) /\ Tuned(tab[call.tab]) /\ Enough(tab[call.tab], call.delta)
    BY CallFacts DEF RoomInv, Roominess, TabsTuned, SkipGrow
  <2>5. Occupied(tab[call.tab]) + Len(call.todo) <= tab[call.tab].enlargeAt
    BY <2>3, <2>4, EnoughRoom
  <2>6. RoomToPlace'
    BY <2>1, <2>5 DEF RoomToPlace, Occupied
  <2> QED  BY <1>1, <2>1, <2>2, <2>6 DEF Roominess, RehashFits, CallFits
<1> QED  BY <1>2, <1>3

(* The size _resize_delta decides on has room for all that is coming.      *)
LEMMA GrowTargetRoom ==
  ASSUME NEW h, Covered(h), NEW delta \in Nat, NEW sz \in BucketCounts,
         GrowTarget(h, delta, sz), NEW to \in BucketCounts, IsMinBuckets(to, h.items, sz, h.grow)
  PROVE  h.items + delta < Scaled(to, h.grow)
<1>1. /\ TableType(h) /\ h.grow \in Percent /\ h.items \in Nat /\ h.deleted \in Nat
      /\ to \in Nat /\ sz \in Nat
  BY TableFacts, BucketCountType DEF Covered
<1>2. PICK low \in BucketCounts :
        IsMinBuckets(low, Occupied(h) + delta, h.size, h.grow) /\ sz \in {low, 2 * low}
  BY DEF GrowTarget
<1>3. low \in Nat /\ low <= sz /\ sz <= to /\ Occupied(h) + delta < Scaled(low, h.grow)
  BY <1>1, <1>2, BucketCountType DEF IsMinBuckets, Roomy
<1>4. Scaled(low, h.grow) <= Scaled(to, h.grow)
  BY <1>1, <1>3, ScaledGrows
<1>5. Scaled(low, h.grow) \in Nat /\ Scaled(to, h.grow) \in Nat
  BY <1>1, <1>3, ScaledType
<1>6. h.items + delta <= Occupied(h) + delta /\ Occupied(h) + delta \in Nat
  BY <1>1 DEF Occupied
<1> QED  BY <1>1, <1>3, <1>4, <1>5, <1>6

LEMMA RoomGrowTable == RoomInv /\ GrowTable => Roominess'
<1> SUFFICES ASSUME RoomInv, GrowTable PROVE Roominess'
  OBVIOUS
<1> DEFINE h == tab[call.tab]
           next == IF call.todo = <<>> THEN "idle" ELSE "place"
<1>1. PICK sz \in BucketCounts, to \in BucketCounts :
        /\ GrowTarget(h, call.delta, sz) /\ IsMinBuckets(to, h.items, sz, h.grow)
        /\ StartRehash(to, next)
  BY DEF GrowTable
<1>2. Covered(h) /\ call.delta \in Nat /\ call.todo \in Seq(Elements)
  BY CallFacts DEF RoomInv
<1>3. h.items + call.delta < Scaled(to, h.grow)
  BY <1>1, <1>2, GrowTargetRoom
<1>4. Scaled(to, h.grow) \in Nat /\ h.items \in Nat
  BY <1>2, BucketCountType, TableFacts, ScaledType DEF Covered
<1>5. pc = "delta" /\ next \in {"idle", "place"}
  BY DEF GrowTable
<1>6. next = "place" => call.delta = Len(call.todo)
  BY <1>5 DEF RoomInv, Roominess, CallFits
<1> HIDE DEF next
<1>7. h.items < Scaled(to, h.grow)
  BY <1>2, <1>3, <1>4
<1>8. next = "place" => h.items + Len(call.todo) <= Scaled(to, h.grow)
  BY <1>2, <1>3, <1>4, <1>6
<1> QED  BY <1>1, <1>5, <1>7, <1>8, RoomRehashStarts

LEMMA RoomResizeOverflow == RoomInv /\ ResizeOverflow => Roominess'
BY RoomReturned, TabsStayTuned DEF ResizeOverflow, RoomInv, Roominess

-----------------------------------------------------------------------------
(* Rehashing.                                                              *)

LEMMA RoomRehashOne == RoomInv /\ RehashOne => Roominess'
<1> SUFFICES ASSUME RoomInv, RehashOne PROVE Roominess'
  OBVIOUS
<1> DEFINE h == tab[call.src]
<1>1. /\ Covered(h) /\ Covered(tmp) /\ Tuned(tmp) /\ tmp.deleted = 0 /\ call \in CallType
      /\ call.cursor \in Nat
  BY CallFacts DEF RoomInv, Roominess, TmpTuned
<1>2. PICK b \in Buckets(h), d \in Buckets(tmp) :
        /\ IsNextFull(h, call.cursor, b)
        /\ tmp' = PutAt(tmp, d, h.cells[b])
        /\ call' = [call EXCEPT !.cursor = b + 1]
  BY DEF RehashOne
<1>3. /\ pc = "rehash" /\ pc' = "rehash" /\ tab' = tab /\ call'.cursor = b + 1
      /\ call'.src = call.src /\ call'.next = call.next /\ call'.todo = call.todo
      /\ call'.delta = call.delta
  BY <1>1, <1>2 DEF RehashOne, CallType
<1>4. /\ Cardinality(Passed(h, b + 1)) = Cardinality(Passed(h, call.cursor)) + 1
      /\ Cardinality(Passed(h, b + 1)) <= h.items
      /\ Cardinality(Passed(h, call.cursor)) \in Nat
  BY <1>1, <1>2, PassedOneMore
<1>5. /\ tmp.items = Cardinality(Passed(h, call.cursor))
      /\ h.items < Scaled(tmp.size, tmp.grow)
      /\ call.next = "place" => h.items + Len(call.todo) <= Scaled(tmp.size, tmp.grow)
  BY <1>3 DEF RoomInv, Roominess, RehashFits
<1>6. /\ h.items \in Nat /\ tmp.items \in Nat /\ Scaled(tmp.size, tmp.grow) \in Nat
      /\ tmp.enlargeAt = Scaled(tmp.size, tmp.grow)
  BY <1>1, TableFacts, ScaledType DEF Covered, Tuned
<1>7. Occupied(tmp) + 1 <= tmp.enlargeAt
  BY <1>1, <1>4, <1>5, <1>6 DEF Occupied
<1> DEFINE g == PutAt(tmp, d, h.cells[b])
<1>8. /\ Tuned(g) /\ g.items = tmp.items + 1 /\ g.size = tmp.size /\ g.grow = tmp.grow
      /\ g.deleted = 0
  BY <1>1, <1>7, TunedPut
<1> HIDE DEF g
<1>9. tmp' = g
  BY <1>2 DEF g
<1>10. TmpTuned'
  BY <1>8, <1>9, TmpBecomes
<1>11. TabsTuned'
  BY <1>3, TabsStayTuned DEF RoomInv, Roominess
<1>12. RehashFits'
  <2>1. tab'[call'.src] = h
    BY <1>3
  <2>2. Passed(h, call'.cursor) = Passed(h, b + 1)
    BY <1>3
  <2>3. tmp'.items = Cardinality(Passed(h, b + 1))
    BY <1>4, <1>5, <1>8, <1>9
  <2> QED  BY <1>3, <1>5, <1>8, <1>9, <2>1, <2>2, <2>3 DEF RehashFits, Passed, Full, Buckets
<1>13. CallFits' /\ RoomToPlace'
  BY <1>3 DEF RoomInv, Roominess, CallFits, RoomToPlace
<1> QED  BY <1>10, <1>11, <1>12, <1>13 DEF Roominess

LEMMA RoomRehashDone == RoomInv /\ RehashDone => Roominess'
<1> SUFFICES ASSUME RoomInv, RehashDone PROVE Roominess'
  OBVIOUS
<1> DEFINE h == tab[call.src]
           g == ResetThresholds(tmp)
<1>1. /\ Covered(h) /\ Covered(tmp) /\ Tuned(tmp) /\ tmp.deleted = 0 /\ call \in CallType
      /\ call.tab \in Tables /\ TableType(tmp) /\ TableType(h)
  BY CallFacts DEF RoomInv, Roominess, TmpTuned, Covered
<1>2. pc = "rehash" /\ \A b \in Full(h) : b < call.cursor
  BY DEF RehashDone
<1>3. tmp.items <= h.items /\ tmp.items \in Nat /\ h.items \in Nat
  <2>1. Passed(h, call.cursor) = Full(h)
    BY <1>2 DEF Passed
  <2>2. tmp.items = Cardinality(Full(h))
    BY <1>2, <2>1 DEF RoomInv, Roominess, RehashFits
  <2> QED  BY <1>1, <2>2, CoveredFacts
<1>4. /\ h.items < Scaled(tmp.size, tmp.grow)
      /\ call.next = "place" => h.items + Len(call.todo) <= Scaled(tmp.size, tmp.grow)
  BY <1>2 DEF RoomInv, Roominess, RehashFits
<1>5. Tuned(g)
  BY <1>1, TunedReset DEF Tuned
<1>6. g.items = tmp.items /\ g.deleted = 0 /\ g.enlargeAt = Scaled(tmp.size, tmp.grow)
  BY <1>1 DEF ResetThresholds, TableType
<1>7. tab' = [tab EXCEPT ![call.tab] = g]
  BY DEF RehashDone
<1> HIDE DEF g
<1>8. TabsTuned' /\ tab'[call.tab] = g
  BY <1>1, <1>5, <1>7, TabsChanged DEF RoomInv, Roominess, CoverInv
<1>9. CASE call.next = "idle"
  BY <1>8, <1>9, RoomReturned DEF RehashDone
<1>10. CASE call.next # "idle"
  <2>1. pc' = call.next /\ tmp' = NoTmp /\ call' = call /\ call.next \in {"delta", "place"}
    BY <1>1, <1>10 DEF RehashDone, CallType
  <2>2. TmpTuned'
    BY <2>1, TunedNoTmp, TmpBecomes
  <2>3. Scaled(tmp.size, tmp.grow) \in Nat /\ call.todo \in Seq(Elements)
    BY <1>1, TableFacts, ScaledType, CallFacts DEF RoomInv
  <2>4. Occupied(g) <= h.items /\ Occupied(g) \in Nat
    BY <1>3, <1>6 DEF Occupied
  <2>5. tab'[call'.tab] = g
    BY <1>8, <2>1
  <2>6. pc' = "place" => Occupied(g) + Len(call.todo) <= g.enlargeAt
    <3> SUFFICES ASSUME pc' = "place" PROVE Occupied(g) + Len(call.todo) <= g.enlargeAt
      OBVIOUS
    <3>1. Len(call.todo) \in Nat /\ h.items + Len(call.todo) <= Scaled(tmp.size, tmp.grow)
      BY <1>4, <2>1, <2>3
    <3> QED  BY <1>3, <1>6, <2>3, <2>4, <3>1
  <2>7. RoomToPlace'
    BY <2>1, <2>5, <2>6 DEF RoomToPlace, Occupied
  <2>8. Occupied(g) < g.enlargeAt
    BY <1>3, <1>4, <1>6, <2>3, <2>4
  <2>9. CallFits'
    BY <1>2, <2>1, <2>5, <2>8 DEF RoomInv, Roominess, CallFits, Occupied
  <2> QED  BY <1>8, <2>1, <2>2, <2>7, <2>9 DEF Roominess, RehashFits
<1> QED  BY <1>9, <1>10

LEMMA RoomRehashFails == RoomInv /\ RehashFails => Roominess'
<1> SUFFICES ASSUME RoomInv, RehashFails PROVE Roominess'
  OBVIOUS
<1> DEFINE h == tab[call.src]
<1>1. /\ Returned /\ call.tab \in Tables /\ Covered(h) /\ Tuned(h) /\ Tuned(tmp)
      /\ TabsCovered /\ TabsTuned
  BY CallFacts DEF RehashFails, RoomInv, CoverInv, Roominess, TmpTuned, TabsTuned
<1>2. PICK b \in Buckets(h) :
        tab' = CASE call.kind = "move" -> [tab EXCEPT ![call.tab] = FreedUpTo(h, b)]
                 [] call.kind = "assign" -> [tab EXCEPT ![call.tab] = tmp]
                 [] OTHER -> tab
  BY DEF RehashFails
<1>3. CASE call.kind = "move"
  <2> DEFINE g == FreedUpTo(h, b)
  <2>1. tab' = [tab EXCEPT ![call.tab] = g]
    BY <1>2, <1>3
  <2>2. Tuned(g)
    BY <1>1, TunedFreed
  <2> HIDE DEF g
  <2>3. TabsTuned'
    BY <1>1, <2>1, <2>2, TabsChanged
  <2> QED  BY <1>1, <2>3, RoomReturned
<1>4. CASE call.kind = "assign"
  <2>1. tab' = [tab EXCEPT ![call.tab] = tmp]
    BY <1>2, <1>4
  <2>2. TabsTuned'
    BY <1>1, <2>1, TabsChanged
  <2> QED  BY <1>1, <2>2, RoomReturned
<1>5. CASE call.kind \notin {"move", "assign"}
  <2>1. UNCHANGED tab
    BY <1>2, <1>5
  <2> QED  BY <1>1, <2>1, TabsStayTuned, RoomReturned
<1> QED  BY <1>3, <1>4, <1>5

LEMMA RoomCopyStarts ==
  ASSUME RoomInv, NEW t \in Tables, NEW u \in Tables, NEW kind \in {"construct", "assign"},
         NEW h, TableType(h), Tuned(h), h.items = 0, h.deleted = 0,
         tab[u].items < Scaled(h.size, h.grow), StartCopy(t, u, kind, h)
  PROVE  Roominess'
<1>1. /\ call'.src = u /\ call'.cursor = 0 /\ call'.next = "idle" /\ call'.todo = <<>>
      /\ pc' = "rehash" /\ tmp' = h /\ tab' = tab
  BY DEF StartCopy, NoCall
<1>2. TabsTuned'
  BY <1>1, TabsStayTuned DEF RoomInv, Roominess
<1>3. TmpTuned'
  BY <1>1, TmpBecomes
<1>4. TableType(tab[u])
  BY DEF RoomInv, CoverInv, TabsCovered, Covered
<1>5. Cardinality(Passed(tab[u], 0)) = 0
  BY <1>4, PassedAtStart
<1>6. RehashFits'
  <2>1. tab'[call'.src] = tab[u] /\ Passed(tab[u], call'.cursor) = Passed(tab[u], 0)
    BY <1>1
  <2> QED  BY <1>1, <1>5, <2>1 DEF RehashFits, Passed, Full, Buckets
<1> QED  BY <1>1, <1>2, <1>3, <1>6 DEF Roominess, CallFits, RoomToPlace

LEMMA RoomCopyConstruct ==
  ASSUME RoomInv, NEW t \in Tables, NEW u \in Tables, CopyConstruct(t, u)
  PROVE  Roominess'
<1> DEFINE h(sz) == Fresh(sz, tab[u].shrink, tab[u].grow)
<1>1. PICK sz \in BucketCounts :
        /\ IsMinBuckets(sz, tab[u].items, DefaultBuckets, tab[u].grow)
        /\ StartCopy(t, u, "construct", h(sz))
  BY DEF CopyConstruct
<1>2. Covered(tab[u]) /\ Tuned(tab[u])
  BY DEF RoomInv, CoverInv, TabsCovered, Roominess, TabsTuned
<1>3. tab[u].shrink \in Percent /\ tab[u].grow \in Percent /\ Allowed(tab[u].shrink, tab[u].grow)
  BY <1>2, TableFacts DEF Covered, Tuned
<1>4. TableType(h(sz)) /\ Tuned(h(sz))
  BY <1>3, FreshSound, TunedFresh DEF Sound
<1>5. h(sz).items = 0 /\ h(sz).deleted = 0 /\ tab[u].items < Scaled(h(sz).size, h(sz).grow)
  BY <1>1 DEF Fresh, IsMinBuckets, Roomy
<1> HIDE DEF h
<1> QED  BY <1>1, <1>4, <1>5, RoomCopyStarts

LEMMA RoomCopyAssign ==
  ASSUME RoomInv, NEW t \in Tables, NEW u \in Tables, CopyAssign(t, u)
  PROVE  Roominess'
<1> DEFINE base == AssignBase(tab[t], tab[u])
           h(sz) == Extended(base, sz)
<1>1. Covered(tab[t]) /\ Covered(tab[u]) /\ Tuned(tab[u]) /\ TableType(tab[u])
  BY DEF RoomInv, CoverInv, TabsCovered, Covered, Roominess, TabsTuned
<1>2. AssignOntoEmptied \/ Marks(tab[t]) = {} \/ tab[t].items # 0 \/ tab[u].deleted # 0
  BY DEF CopyAssign
<1>3. Covered(base) /\ base.deleted = 0
  BY <1>1, <1>2, AssignBaseCovered
<1>4. Tuned(base) /\ base.grow = tab[u].grow /\ base.items = 0
  BY <1>1, TunedBase
<1>5. CASE \E sz \in BucketCounts :
             /\ IsMinBuckets(sz, tab[u].items, MinBuckets, tab[u].grow)
             /\ StartCopy(t, u, "assign", h(sz))
  <2>1. PICK sz \in BucketCounts :
          /\ IsMinBuckets(sz, tab[u].items, MinBuckets, tab[u].grow)
          /\ StartCopy(t, u, "assign", h(sz))
    BY <1>5
  <2> HIDE DEF base
  <2>2. Covered(h(sz)) /\ h(sz).deleted = 0
    BY <1>3, ExtendedCovered
  <2>3. /\ Tuned(h(sz)) /\ h(sz).grow = tab[u].grow /\ h(sz).size >= sz
        /\ h(sz).items = 0
    BY <1>3, <1>4, TunedExtended
  <2> HIDE DEF h
  <2>5. TableType(h(sz)) /\ h(sz).size \in Nat /\ sz \in Nat /\ tab[u].items \in Nat
        /\ tab[u].grow \in Percent
    BY <1>1, <2>2, TableFacts, BucketCountType DEF Covered
  <2>6. tab[u].items < Scaled(sz, tab[u].grow)
    BY <2>1 DEF IsMinBuckets, Roomy
  <2>7. Scaled(sz, tab[u].grow) <= Scaled(h(sz).size, tab[u].grow)
    BY <2>3, <2>5, ScaledGrows
  <2>8. Scaled(sz, tab[u].grow) \in Nat /\ Scaled(h(sz).size, tab[u].grow) \in Nat
    BY <2>5, ScaledType
  <2>9. tab[u].items < Scaled(h(sz).size, h(sz).grow)
    BY <2>3, <2>5, <2>6, <2>7, <2>8
  <2> QED  BY <2>1, <2>2, <2>3, <2>5, <2>9, RoomCopyStarts
<1>6. CASE Atomic /\ tab' = [tab EXCEPT ![t] = base]
  <2> HIDE DEF base
  <2> QED  BY <1>4, <1>6, RoomAtomicChange
<1> QED  BY <1>5, <1>6 DEF CopyAssign

-----------------------------------------------------------------------------
(* Placing elements.                                                       *)

LEMMA RoomPlaced ==
  ASSUME RoomInv, pc = "place", Placed, TabsTuned',
         Occupied(tab'[call.tab]) \in Int, tab'[call.tab].enlargeAt \in Int,
         Occupied(tab'[call.tab]) + Len(call.todo) <= tab'[call.tab].enlargeAt + 1
  PROVE  Roominess'
<1>1. call \in CallType /\ call.todo \in Seq(Elements) /\ call.todo # <<>>
  BY CallFacts DEF RoomInv
<1>2. CASE Len(call.todo) = 1
  BY <1>2, RoomReturned DEF Placed
<1>3. CASE Len(call.todo) # 1
  <2>1. /\ call' = [call EXCEPT !.todo = Tail(call.todo), !.spot = ILLEGAL_BUCKET]
        /\ pc' = "place" /\ tmp' = tmp
    BY <1>3 DEF Placed
  <2>2. call'.todo = Tail(call.todo) /\ call'.tab = call.tab
    BY <1>1, <2>1 DEF CallType
  <2>3. Len(call'.todo) = Len(call.todo) - 1 /\ Len(call.todo) \in Nat
    BY <1>1, <2>2, HeadTailProperties
  <2>4. TmpTuned'
    BY <2>1, TmpStaysTuned DEF RoomInv, Roominess
  <2> DEFINE g == tab'[call.tab]
  <2>5. Occupied(g) + Len(call'.todo) <= g.enlargeAt
    <3> HIDE DEF g
    <3>1. /\ Occupied(g) \in Int /\ g.enlargeAt \in Int
          /\ Occupied(g) + Len(call.todo) <= g.enlargeAt + 1
      BY DEF g
    <3> QED  BY <2>3, <3>1
  <2>6. RoomToPlace'
    BY <2>2, <2>5 DEF RoomToPlace, Occupied
  <2> QED  BY <2>1, <2>4, <2>6 DEF Roominess, RehashFits, CallFits
<1> QED  BY <1>2, <1>3

LEMMA RoomPlaceNew == RoomInv /\ PlaceNew => Roominess'
<1> SUFFICES ASSUME RoomInv, PlaceNew PROVE Roominess'
  OBVIOUS
<1> DEFINE h == tab[call.tab]
           e == Head(call.todo)
<1>1. /\ pc = "place" /\ call.tab \in Tables /\ Covered(h) /\ Tuned(h)
      /\ call.todo \in Seq(Elements) /\ call.todo # <<>>
  BY CallFacts DEF RoomInv, Roominess, TabsTuned, PlaceNew
<1>2. PICK b \in Buckets(h) :
        \/ tab' = [tab EXCEPT ![call.tab] = InsertAt(h, b, e)] /\ Placed
        \/ tab' = [tab EXCEPT ![call.tab] = ForgetMark(h, b)] /\ Returned
  BY DEF PlaceNew
<1>3. e \in Elements /\ Len(call.todo) \in Nat \ {0}
  BY <1>1, HeadTailProperties, EmptySeq
<1>4. Occupied(h) + Len(call.todo) <= h.enlargeAt
  BY <1>1 DEF RoomInv, Roominess, RoomToPlace
<1>5. Occupied(h) \in Nat /\ h.enlargeAt \in Nat
  BY <1>1, TableFacts DEF Covered, Occupied, TableType
<1>6. Occupied(h) + 1 <= h.enlargeAt
  BY <1>3, <1>4, <1>5
<1> DEFINE g == InsertAt(h, b, e)
<1>7. Tuned(g) /\ g.enlargeAt = h.enlargeAt /\ Occupied(g) <= Occupied(h) + 1 /\ Occupied(g) \in Int
  BY <1>1, <1>3, <1>6, TunedInsert
<1>8. CASE tab' = [tab EXCEPT ![call.tab] = g] /\ Placed
  <2> HIDE DEF g
  <2>1. TabsTuned' /\ tab'[call.tab] = g
    BY <1>1, <1>7, <1>8, TabsChanged DEF RoomInv, Roominess, CoverInv
  <2>2. Occupied(g) + Len(call.todo) <= g.enlargeAt + 1
    BY <1>3, <1>4, <1>5, <1>7
  <2> QED  BY <1>1, <1>5, <1>7, <1>8, <2>1, <2>2, RoomPlaced
<1>9. CASE tab' = [tab EXCEPT ![call.tab] = ForgetMark(h, b)] /\ Returned
  <2> DEFINE f == ForgetMark(h, b)
  <2>1. Tuned(f) /\ tab' = [tab EXCEPT ![call.tab] = f]
    BY <1>1, <1>9, TunedForget
  <2> HIDE DEF f
  <2>2. TabsTuned'
    BY <1>1, <2>1, TabsChanged DEF RoomInv, Roominess, CoverInv
  <2> QED  BY <1>9, <2>2, RoomReturned
<1> QED  BY <1>2, <1>8, <1>9

LEMMA RoomPlaceOld == RoomInv /\ PlaceOld => Roominess'
<1> SUFFICES ASSUME RoomInv, PlaceOld PROVE Roominess'
  OBVIOUS
<1> DEFINE h == tab[call.tab]
<1>1. pc = "place" /\ Covered(h) /\ tab' = tab /\ Placed /\ call.todo \in Seq(Elements)
  BY CallFacts DEF RoomInv, PlaceOld
<1>2. Occupied(h) + Len(call.todo) <= h.enlargeAt
  BY <1>1 DEF RoomInv, Roominess, RoomToPlace
<1>3. Occupied(h) \in Nat /\ h.enlargeAt \in Nat /\ Len(call.todo) \in Nat
  BY <1>1, TableFacts DEF Covered, Occupied, TableType
<1>4. Occupied(h) + Len(call.todo) <= h.enlargeAt + 1
  BY <1>2, <1>3
<1>5. TabsTuned'
  BY <1>1, TabsStayTuned DEF RoomInv, Roominess
<1> QED  BY <1>1, <1>3, <1>4, <1>5, RoomPlaced

(* When the assertion ends the program no element is placed any more.      *)
LEMMA RoomAssertionFails == RoomInv /\ AssertionFails => Roominess'
<1> SUFFICES ASSUME RoomInv, AssertionFails PROVE Roominess'
  OBVIOUS
<1>1. TabsTuned' /\ TmpTuned' /\ pc' = "aborted"
  BY TabsStayTuned, TmpStaysTuned DEF AssertionFails, RoomInv, Roominess
<1> QED  BY <1>1 DEF Roominess, RehashFits, CallFits, RoomToPlace

-----------------------------------------------------------------------------
(* Calls.                                                                  *)

LEMMA RoomInsert == ASSUME RoomInv, NEW t \in Tables, NEW todo \in Inserts, Insert(t, todo)
                    PROVE  Roominess'
BY RoomBegins DEF Insert

LEMMA RoomFindOrInsert ==
  ASSUME RoomInv, NEW t \in Tables, NEW k \in Keys, FindOrInsert(t, k)
  PROVE  Roominess'
<1>1. PICK b \in Buckets(tab[t]) : Begin(t, <<DefaultOf[k]>>, 1, b, "delta")
  BY DEF FindOrInsert
<1>2. pc' \in {"shrink", "delta"} /\ Len(<<DefaultOf[k]>>) = 1
  BY DEF FindOrInsert
<1> QED  BY <1>1, <1>2, RoomBegins

LEMMA RoomResize == ASSUME RoomInv, NEW t \in Tables, NEW n \in Requests, Resize(t, n)
                    PROVE  Roominess'
<1> DEFINE grows == n > tab[t].items
           delta == IF grows THEN n - tab[t].items ELSE 0
           next  == IF grows THEN "delta" ELSE "idle"
<1>1. Begin(t, <<>>, delta, ILLEGAL_BUCKET, next)
  BY DEF Resize
<1>2. pc' \in {"shrink", "delta"} /\ next # "place"
  BY DEF Resize
<1> HIDE DEF delta, next
<1> QED  BY <1>1, <1>2, RoomBegins

LEMMA RoomErase ==
  ASSUME RoomInv, NEW t \in Tables, NEW S \in SUBSET Full(tab[t]), Atomic,
         tab' = [tab EXCEPT ![t] = EraseAll(tab[t], S)]
  PROVE  Roominess'
<1>1. Covered(tab[t]) /\ Tuned(tab[t])
  BY DEF RoomInv, CoverInv, TabsCovered, Roominess, TabsTuned
<1> DEFINE g == EraseAll(tab[t], S)
<1>2. Tuned(g)
  BY <1>1, TunedErase
<1>3. tab' = [tab EXCEPT ![t] = g]
  OBVIOUS
<1> HIDE DEF g
<1> QED  BY <1>2, <1>3, RoomAtomicChange

LEMMA RoomEraseKey == ASSUME RoomInv, NEW t \in Tables, NEW k \in Keys, EraseKey(t, k)
                      PROVE  Roominess'
<1>1. PICK b \in Buckets(tab[t]) :
        FoundAt(tab[t], k, b) /\ tab' = [tab EXCEPT ![t] = EraseAll(tab[t], {b})]
  BY DEF EraseKey
<1>2. {b} \in SUBSET Full(tab[t]) /\ Atomic
  BY <1>1, FoundIsFull DEF EraseKey
<1> QED  BY <1>1, <1>2, RoomErase

LEMMA RoomEraseRange ==
  ASSUME RoomInv, NEW t \in Tables, NEW b, NEW l, EraseRange(t, b, l)
  PROVE  Roominess'
<1> DEFINE S == {c \in Full(tab[t]) : b <= c /\ c < l}
<1>1. S \in SUBSET Full(tab[t]) /\ Atomic /\ tab' = [tab EXCEPT ![t] = EraseAll(tab[t], S)]
  BY DEF EraseRange
<1> HIDE DEF S
<1> QED  BY <1>1, RoomErase

LEMMA RoomEraseRangeFails ==
  ASSUME RoomInv, NEW t \in Tables, NEW b, NEW l, EraseRangeFails(t, b, l)
  PROVE  Roominess'
<1> DEFINE h == tab[t]
           S == {c \in Full(h) : b <= c /\ c < l}
           T(m) == {c \in S : c < m}
           g(m) == [EraseAll(h, T(m)) EXCEPT !.deleted = h.deleted, !.consider = h.consider]
<1>1. PICK m \in S : tab' = [tab EXCEPT ![t] = g(m)]
  BY DEF EraseRangeFails
<1>2. Covered(h) /\ Tuned(h) /\ T(m) \in SUBSET Full(h) /\ Atomic
  BY DEF RoomInv, CoverInv, TabsCovered, Roominess, TabsTuned, EraseRangeFails
<1>3. Tuned(g(m))
  BY <1>2, TunedErase
<1> HIDE DEF g
<1> QED  BY <1>1, <1>2, <1>3, RoomAtomicChange

LEMMA RoomAssignMapped ==
  ASSUME RoomInv, NEW t \in Tables, NEW e \in Elements, AssignMapped(t, e)
  PROVE  Roominess'
<1>1. PICK b \in Buckets(tab[t]) : tab' = [tab EXCEPT ![t].cells = [@ EXCEPT ![b] = e]]
  BY DEF AssignMapped
<1> DEFINE c == [tab[t].cells EXCEPT ![b] = e]
           g == [tab[t] EXCEPT !.cells = c]
<1>2. Covered(tab[t]) /\ Tuned(tab[t])
  BY DEF RoomInv, CoverInv, TabsCovered, Roominess, TabsTuned
<1>3. Tuned(g)
  <2> HIDE DEF c
  <2> QED  BY <1>2, TunedOverwrite
<1>4. Atomic /\ tab' = [tab EXCEPT ![t] = g]
  BY <1>1 DEF AssignMapped
<1> HIDE DEF g
<1> QED  BY <1>3, <1>4, RoomAtomicChange

LEMMA RoomClear == ASSUME RoomInv, NEW t \in Tables, Clear(t) PROVE Roominess'
<1> DEFINE g == Cleared(tab[t])
<1>1. TableType(tab[t]) /\ Allowed(tab[t].shrink, tab[t].grow)
  BY DEF RoomInv, CoverInv, TabsCovered, Covered, Roominess, TabsTuned, Tuned
<1>2. Tuned(g) /\ Atomic /\ tab' = [tab EXCEPT ![t] = g]
  BY <1>1, TunedCleared DEF Clear
<1> HIDE DEF g
<1> QED  BY <1>2, RoomAtomicChange

(* set_resizing_parameters clips, so that the factors stay allowed.        *)
LEMMA RoomSetResizingParameters ==
  ASSUME RoomInv, NEW t \in Tables, NEW f \in Factors, SetResizingParameters(t, f)
  PROVE  Roominess'
<1> DEFINE h == tab[t]
           g == [h EXCEPT !.shrink = Clipped(f), !.grow = f.grow]
           r == ResetThresholds(g)
<1>1. Covered(h) /\ Tuned(h) /\ TableType(h)
  BY DEF RoomInv, CoverInv, TabsCovered, Covered, Roominess, TabsTuned
<1>2. f.shrink \in Percent /\ f.grow \in Percent
  BY FactorsAssumption DEF FactorsAssumption
<1>3. Clipped(f) \in Percent /\ 2 * Clipped(f) <= f.grow
  BY <1>2 DEF Clipped, Percent
<1>4. Allowed(Clipped(f), f.grow)
  BY <1>3 DEF Allowed, FactorsLeaveRoom
<1> DEFINE s == Clipped(f)
<1> HIDE DEF s
<1>5. /\ TableType(g) /\ g.shrink = s /\ g.grow = f.grow /\ g.items = h.items
      /\ g.deleted = h.deleted /\ g.size = h.size
  BY <1>1, <1>2, <1>3 DEF TableType, s
<1> HIDE DEF g
<1>6. NeverFull(g)
  BY <1>1, <1>5 DEF Tuned, NeverFull, Occupied
<1>7. Tuned(r)
  BY <1>4, <1>5, <1>6, TunedReset DEF s
<1>8. Atomic /\ tab' = [tab EXCEPT ![t] = r]
  BY DEF SetResizingParameters, g
<1> HIDE DEF r
<1> QED  BY <1>7, <1>8, RoomAtomicChange

LEMMA RoomReread ==
  ASSUME RoomInv, NEW t \in Tables, NEW u \in Tables, Reread(t, u)
  PROVE  Roominess'
<1> DEFINE g == Reloaded(tab[t], tab[u])
<1>1. Tuned(g)
  BY TunedReloaded DEF RoomInv, CoverInv, TabsCovered, Roominess, TabsTuned
<1>2. Atomic /\ tab' = [tab EXCEPT ![t] = g]
  BY DEF Reread
<1> HIDE DEF g
<1> QED  BY <1>1, <1>2, RoomAtomicChange

(* What replaces both tables of a swap.                                    *)
LEMMA TwoTablesChange ==
  ASSUME RoomInv, NEW t \in Tables, NEW u \in Tables, NEW g, Tuned(g), NEW k, Tuned(k),
         Atomic, tab' = [tab EXCEPT ![t] = g, ![u] = k]
  PROVE  Roominess'
<1>1. \A w \in Tables : tab'[w] = IF w = u THEN k ELSE IF w = t THEN g ELSE tab[w]
  BY DEF RoomInv, CoverInv, TabsCovered
<1>2. \A w \in Tables : Tuned(tab'[w])
  BY <1>1 DEF RoomInv, Roominess, TabsTuned
<1>3. TabsTuned'
  BY <1>2 DEF TabsTuned, Tuned, Allowed, NeverFull, Occupied
<1> QED  BY <1>3, RoomAtomic

LEMMA RoomSwap ==
  ASSUME RoomInv, NEW t \in Tables, NEW u \in Tables, Swap(t, u) \/ MoveConstruct(t, u)
  PROVE  Roominess'
<1> DEFINE g == ResetThresholds(tab[u])
           k == ResetThresholds(tab[t])
           d == Fresh(DefaultBuckets, tab[u].shrink, tab[u].grow)
<1>1. /\ TableType(tab[t]) /\ Tuned(tab[t]) /\ TableType(tab[u]) /\ Tuned(tab[u])
  BY DEF RoomInv, CoverInv, TabsCovered, Covered, Roominess, TabsTuned
<1>2. Tuned(g) /\ Tuned(k)
  BY <1>1, TunedReset DEF Tuned
<1>3. Tuned(d)
  BY <1>1, TunedFresh, TableFacts, SizesAssumption DEF Tuned, SizesAssumption
<1>4. /\ Atomic
      /\ \/ tab' = [tab EXCEPT ![t] = g, ![u] = k]
         \/ tab' = [tab EXCEPT ![t] = g, ![u] = d]
  BY DEF Swap, MoveConstruct
<1> HIDE DEF g, k, d
<1> QED  BY <1>2, <1>3, <1>4, TwoTablesChange

-----------------------------------------------------------------------------
(* Every step preserves the invariant.                                     *)

LEMMA RoomInit == Init => RoomInv
<1> SUFFICES ASSUME Init PROVE RoomInv
  OBVIOUS
<1> DEFINE s == DefaultFactors.shrink
           g == DefaultFactors.grow
<1>1. InitialSizes \subseteq BucketCounts
  BY SizesAssumption DEF InitialSizes, SizesAssumption
<1>2. s \in Percent /\ g \in Percent /\ Allowed(s, g)
  BY FactorsAssumption DEF FactorsAssumption, Allowed, FactorsLeaveRoom, DefaultsClipped
<1> HIDE DEF s, g
<1>3. \A sz \in InitialSizes : Tuned(Fresh(sz, s, g))
  BY <1>1, <1>2, TunedFresh
<1>4. TabsTuned
  BY <1>3 DEF Init, TabsTuned, s, g
<1>5. pc = "idle" /\ tmp = NoTmp
  BY DEF Init
<1>6. Roominess
  BY <1>4, <1>5, TunedNoTmp DEF Roominess, TmpTuned, RehashFits, CallFits, RoomToPlace
<1> QED  BY <1>6, InitCovers DEF RoomInv

LEMMA RoomStep ==
  ASSUME RoomInv, Step
  PROVE  Roominess'
<1>1. CASE ShrinkTable \/ SkipShrink \/ GrowTable \/ SkipGrow \/ ResizeOverflow
  BY <1>1, RoomShrinkTable, RoomSkipShrink, RoomGrowTable, RoomSkipGrow, RoomResizeOverflow
<1>2. CASE RehashOne \/ RehashDone \/ RehashFails
  BY <1>2, RoomRehashOne, RoomRehashDone, RoomRehashFails
<1>3. CASE PlaceNew \/ PlaceOld \/ AssertionFails
  BY <1>3, RoomPlaceNew, RoomPlaceOld, RoomAssertionFails
<1> QED  BY <1>1, <1>2, <1>3 DEF Step

LEMMA RoomCall ==
  ASSUME RoomInv, Call
  PROVE  Roominess'
<1>1. ASSUME NEW t \in Tables, NEW todo \in Inserts, Insert(t, todo) PROVE Roominess'
  BY <1>1, RoomInsert
<1>2. ASSUME NEW t \in Tables, NEW k \in Keys, FindOrInsert(t, k) \/ EraseKey(t, k)
      PROVE  Roominess'
  BY <1>2, RoomFindOrInsert, RoomEraseKey
<1>3. ASSUME NEW t \in Tables, NEW n \in Requests, Resize(t, n) PROVE Roominess'
  BY <1>3, RoomResize
<1>4. ASSUME NEW t \in Tables, NEW b, NEW l, EraseRange(t, b, l) \/ EraseRangeFails(t, b, l)
      PROVE  Roominess'
  BY <1>4, RoomEraseRange, RoomEraseRangeFails
<1>5. ASSUME NEW t \in Tables, NEW e \in Elements, AssignMapped(t, e) PROVE Roominess'
  BY <1>5, RoomAssignMapped
<1>6. ASSUME NEW t \in Tables, Clear(t) PROVE Roominess'
  BY <1>6, RoomClear
<1>7. ASSUME NEW t \in Tables, NEW f \in Factors, SetResizingParameters(t, f) PROVE Roominess'
  BY <1>7, RoomSetResizingParameters
<1>8. ASSUME NEW t \in Tables, NEW u \in Tables,
             Swap(t, u) \/ MoveConstruct(t, u) \/ Reread(t, u)
      PROVE  Roominess'
  BY <1>8, RoomSwap, RoomReread
<1>9. ASSUME NEW t \in Tables, NEW u \in Tables, CopyConstruct(t, u) \/ CopyAssign(t, u)
      PROVE  Roominess'
  BY <1>9, RoomCopyConstruct, RoomCopyAssign
<1> QED  BY <1>1, <1>2, <1>3, <1>4, <1>5, <1>6, <1>7, <1>8, <1>9 DEF Call

LEMMA RoomStutter == RoomInv /\ UNCHANGED vars => Roominess'
BY TabsStayTuned, TmpStaysTuned
   DEF RoomInv, Roominess, RehashFits, CallFits, RoomToPlace, vars, Passed, Full, Buckets, Occupied

LEMMA RoomKept == RoomInv /\ [Next]_vars => RoomInv'
<1> SUFFICES ASSUME RoomInv, [Next]_vars PROVE RoomInv'
  OBVIOUS
<1>1. CoverInv'
  BY NextCovers DEF RoomInv
<1>2. Roominess'
  BY RoomStep, RoomCall, RoomStutter DEF Next
<1> QED  BY <1>1, <1>2 DEF RoomInv

LEMMA RoomAlways == Spec => []RoomInv
BY RoomInit, RoomKept, PTL DEF Spec

-----------------------------------------------------------------------------
(* What follows from it.                                                   *)

LEMMA EmptyBucket ==
  ASSUME ~ ShrinkFails, ~ AssignOntoEmptied, NEW h, Covered(h), Occupied(h) < h.size
  PROVE  \E b \in Buckets(h) : h.cells[b] = Empty
<1>1. TableType(h) /\ h.size \in Nat /\ h.cells \in [Buckets(h) -> Cell]
  BY TableFacts DEF Covered
<1>2. /\ IsFiniteSet(Full(h)) /\ IsFiniteSet(Marks(h))
      /\ Cardinality(Full(h)) \in Nat /\ Cardinality(Marks(h)) \in Nat
  BY <1>1, BucketSetsFinite
<1> SUFFICES ASSUME \A b \in Buckets(h) : h.cells[b] # Empty PROVE FALSE
  OBVIOUS
<1>3. Buckets(h) = Full(h) \cup Marks(h)
  BY <1>1 DEF Full, Marks, Cell
<1>4. Full(h) \cap Marks(h) = {}
  BY MarkersAssumption DEF Full, Marks, MarkersAssumption
<1>5. Cardinality(Full(h) \cap Marks(h)) = 0
  BY <1>4, FS_EmptySet
<1>6. Cardinality(Buckets(h)) = Cardinality(Full(h)) + Cardinality(Marks(h))
  <2> DEFINE F == Full(h)
             M == Marks(h)
  <2> HIDE DEF F, M
  <2>1. IsFiniteSet(F) /\ IsFiniteSet(M)
    BY <1>2 DEF F, M
  <2>2. Cardinality(F \cup M) = Cardinality(F) + Cardinality(M) - Cardinality(F \cap M)
    BY <2>1, FS_Union
  <2>3. Cardinality(F) \in Nat /\ Cardinality(M) \in Nat /\ Cardinality(F \cap M) = 0
    BY <1>2, <1>5 DEF F, M
  <2>4. Cardinality(F \cup M) = Cardinality(F) + Cardinality(M)
    BY <2>2, <2>3
  <2> QED  BY <1>3, <2>4 DEF F, M
<1>7. Cardinality(Buckets(h)) = h.size
  <2>1. 0 \in Int /\ h.size - 1 \in Int /\ 0 <= h.size - 1
    BY <1>1, TableFacts
  <2>2. Cardinality(0 .. h.size - 1) = h.size - 1 - 0 + 1
    BY <2>1, FS_Interval
  <2> QED  BY <1>1, <2>2 DEF Buckets
<1>8. h.items \in Nat /\ h.deleted \in Nat /\ h.items + h.deleted < h.size
  BY <1>1, TableFacts DEF Occupied
<1>9. h.items >= Cardinality(Full(h)) /\ h.deleted >= Cardinality(Marks(h))
  BY DEF Covered
<1> QED  BY <1>1, <1>2, <1>6, <1>7, <1>8, <1>9

(* The probes of a key visit every bucket, so they meet an empty one.      *)
LEMMA ProbeEnds ==
  ASSUME NEW h, TableType(h), NEW b \in Buckets(h), h.cells[b] = Empty, NEW k \in Keys
  PROVE  \E n \in Buckets(h) : LastProbe(h, k, n)
<1> DEFINE T == {n \in Buckets(h) : Stops(h, k, n)}
<1>1. h.size \in BucketCounts /\ h.size \in Nat
  BY TableFacts
<1>2. PICK n \in Buckets(h) : Probe(Hash[k], n, h.size) = b
  BY <1>1, ProbingAssumption DEF ProbingAssumption, Buckets
<1>3. n \in T
  BY <1>2 DEF Stops, At
<1>4. T \in SUBSET Nat
  BY <1>1 DEF Buckets
<1>5. PICK m \in T : \A i \in T : m <= i
  BY <1>3, <1>4, LeastNat
<1>6. \A i \in 0 .. m - 1 : ~ Stops(h, k, i)
  <2> SUFFICES ASSUME NEW i \in 0 .. m - 1, Stops(h, k, i) PROVE FALSE
    OBVIOUS
  <2>1. i \in Buckets(h) /\ i \in Nat /\ m \in Nat /\ i < m
    BY <1>1 DEF Buckets
  <2> QED  BY <1>5, <2>1
<1> QED  BY <1>5, <1>6 DEF LastProbe

(* Once _resize_delta returns there is room below the enlarge threshold    *)
(* for all elements of the call, whatever the factors are and whatever has *)
(* failed before: _resize_delta measures by the counters, and no failure   *)
(* raises them.                                                            *)
THEOREM RoomIsMade == Spec => []RoomToPlace
<1>1. RoomInv => RoomToPlace
  BY DEF RoomInv, Roominess
<1> QED  BY <1>1, RoomAlways, PTL

(* The loops of find, erase and _find_position end for every key, unless a *)
(* grow factor lets a table fill up or a table has marks it does not count. *)
(* They end also when storage runs out: a failure loses elements and marks *)
(* and never an empty bucket.                                              *)
THEOREM ProbesAlwaysEnd ==
  ASSUME ~ ShrinkFails, ~ AssignOntoEmptied, FactorsLeaveRoom
  PROVE  Spec => []ProbesEnd
<1>1. RoomInv => ProbesEnd
  <2> SUFFICES ASSUME RoomInv, NEW t \in Tables, NEW k \in Keys
               PROVE  \E n \in Buckets(tab[t]) : LastProbe(tab[t], k, n)
    BY DEF ProbesEnd
  <2>1. Covered(tab[t]) /\ Occupied(tab[t]) < tab[t].size
    BY DEF RoomInv, CoverInv, TabsCovered, Roominess, TabsTuned, Tuned, NeverFull
  <2> QED  BY <2>1, EmptyBucket, ProbeEnds DEF Covered
<1> QED  BY <1>1, RoomAlways, PTL

(* A table that has shrunk for the insertion of one element is not grown   *)
(* for it: min_buckets left more room than the elements it holds need.     *)
THEOREM NeverThrashes == Spec => NoThrashing
<1>1. RoomInv => ~ (GrowTable /\ Len(call.todo) = 1 /\ call.kind = "move")
  <2> SUFFICES ASSUME RoomInv, GrowTable, Len(call.todo) = 1, call.kind = "move" PROVE FALSE
    OBVIOUS
  <2> DEFINE h == tab[call.tab]
  <2>1. Covered(h) /\ pc = "delta" /\ ~ Enough(h, call.delta) /\ call.todo \in Seq(Elements)
    BY CallFacts DEF RoomInv, GrowTable
  <2>2. Len(<<>>) = 0 /\ call.todo # <<>>
    OBVIOUS
  <2>3. call.delta = 1 /\ Occupied(h) < h.enlargeAt
    BY <2>1, <2>2 DEF RoomInv, Roominess, CallFits
  <2>4. Occupied(h) \in Nat /\ h.enlargeAt \in Nat
    BY <2>1, TableFacts DEF Covered, Occupied, TableType
  <2>5. Occupied(h) + call.delta <= h.enlargeAt
    BY <2>3, <2>4
  <2> QED  BY <2>1, <2>5 DEF Enough
<1>2. RoomInv => [GrowTable /\ Len(call.todo) = 1 => call.kind # "move"]_vars
  BY <1>1
<1> QED  BY <1>2, RoomAlways, PTL DEF NoThrashing

LEMMA ShrinkGetsSmaller ==
  ASSUME DefaultsClipped, RoomInv, ShrinkTable
  PROVE  tmp'.size < tab[call.tab].size /\ tmp'.size >= DefaultBuckets
<1> DEFINE h == tab[call.tab]
<1>1. Covered(h) /\ Tuned(h) /\ TableType(h) /\ call.tab \in Tables
  BY CallFacts DEF RoomInv, Roominess, TabsTuned, Covered
<1>2. PICK sz \in BucketCounts, to \in BucketCounts :
        /\ ShrinkTarget(h, sz) /\ IsMinBuckets(to, h.items, sz, h.grow)
        /\ StartRehash(to, call.next)
  BY DEF ShrinkTable
<1>3. tmp'.size = to
  BY <1>2 DEF StartRehash, Fresh
<1>4. /\ h.size \in BucketCounts /\ h.size \in Nat /\ h.size > DefaultBuckets
      /\ h.items \in Nat /\ h.shrink \in Percent /\ h.grow \in Percent
      /\ h.items < Scaled(h.size, h.shrink) /\ 2 * h.shrink <= h.grow
  BY <1>1, TableFacts DEF ShrinkTable, ShouldShrink, Tuned, Allowed
<1>5. DefaultBuckets \in BucketCounts /\ DefaultBuckets \in Nat /\ sz \in Nat /\ to \in Nat
  BY BucketCountType, SizesAssumption DEF SizesAssumption
<1>6. 2 * DefaultBuckets <= h.size
  BY <1>4, <1>5, CountsDouble
<1>7. DefaultBuckets <= sz /\ 2 * sz <= h.size
  BY <1>2, <1>5, <1>6 DEF ShrinkTarget
<1>8. h.size # MinBuckets
  <2>1. ASSUME h.size = MinBuckets PROVE FALSE
    <3>1. sz < MinBuckets /\ MinBuckets \in Nat \ {0}
      BY <1>4, <1>5, <1>7, <2>1, BucketCountType
    <3> QED  BY <3>1, LeastCount, <1>5
  <2> QED  BY <2>1
<1>9. PICK half \in BucketCounts : h.size = 2 * half
  BY <1>4, <1>8, SizesAssumption DEF SizesAssumption
<1>10. half \in Nat \ {0}
  BY BucketCountType
<1>11. h.items < Scaled(half, h.grow)
  <2>1. Scaled(2 * half, h.shrink) <= Scaled(half, h.grow)
    BY <1>4, <1>10, ScaledHalf
  <2>2. Scaled(2 * half, h.shrink) \in Nat /\ Scaled(half, h.grow) \in Nat
    BY <1>4, <1>10, ScaledType
  <2> QED  BY <1>4, <1>9, <2>1, <2>2
<1>12. half \in Roomy(h.items, sz, h.grow)
  BY <1>5, <1>7, <1>9, <1>10, <1>11 DEF Roomy
<1>13. to <= half /\ sz <= to
  BY <1>2, <1>12 DEF IsMinBuckets, Roomy
<1> QED  BY <1>3, <1>4, <1>5, <1>7, <1>9, <1>10, <1>13

LEMMA GrowGetsLarger ==
  ASSUME RoomInv, GrowTable
  PROVE  tmp'.size > tab[call.tab].size
<1> DEFINE h == tab[call.tab]
           n == Occupied(h) + call.delta
<1>1. Covered(h) /\ TableType(h) /\ call.delta \in Nat
  BY CallFacts DEF RoomInv, Covered
<1>2. PICK sz \in BucketCounts, to \in BucketCounts :
        /\ GrowTarget(h, call.delta, sz) /\ IsMinBuckets(to, h.items, sz, h.grow)
        /\ StartRehash(to, IF call.todo = <<>> THEN "idle" ELSE "place")
  BY DEF GrowTable
<1>3. tmp'.size = to
  BY <1>2 DEF StartRehash, Fresh
<1>4. PICK low \in BucketCounts : IsMinBuckets(low, n, h.size, h.grow) /\ sz \in {low, 2 * low}
  BY <1>2 DEF GrowTarget
<1>5. ~ (\E needed \in Roomy(n, 0, h.grow) : needed <= h.size)
  BY DEF GrowTable, Enough
<1>6. h.size \in Nat /\ low \in Nat /\ to \in Nat /\ sz \in Nat
  BY <1>1, TableFacts, BucketCountType
<1>7. h.size <= low /\ low \in Roomy(n, 0, h.grow)
  BY <1>4, <1>6 DEF IsMinBuckets, Roomy
<1>8. h.size < low
  BY <1>5, <1>6, <1>7
<1>9. low <= sz /\ sz <= to
  BY <1>2, <1>4, <1>6 DEF IsMinBuckets, Roomy
<1> QED  BY <1>3, <1>6, <1>8, <1>9

(* No call copies a table to the size it had: what is below the shrink     *)
(* threshold fits half the buckets, and what does not fit needs more.      *)
THEOREM ResizesResize ==
  ASSUME DefaultsClipped
  PROVE  Spec => ResizeActuallyResizes
<1>1. RoomInv => RehashResizes
  BY ShrinkGetsSmaller, GrowGetsLarger DEF RehashResizes
<1>2. RoomInv => [RehashResizes]_vars
  BY <1>1
<1> QED  BY <1>2, RoomAlways, PTL DEF ResizeActuallyResizes
=============================================================================
