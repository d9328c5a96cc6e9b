---------------------------- MODULE MCHashtable ----------------------------
(***************************************************************************)
(* Small instances of SparseHashtable for TLC.                             *)
(***************************************************************************)
EXTENDS SparseHashtable, TLC

(* A set of four elements, each its own key.  1, 2 and 3 collide in tables *)
(* of up to 8 buckets, 4 starts on a bucket their probes also visit.       *)
SetKeys     == 1 .. 4
SetHash     == <<3, 3, 11, 4>>
SetIdentity == [k \in SetKeys |-> k]
SetInserts  == {<<k>> : k \in SetKeys} \cup {<<>>, <<1, 4, 2>>}

(* Three elements, for runs that multiply the states of a table.           *)
TrioKeys     == 1 .. 3
TrioHash     == <<3, 3, 4>>
TrioIdentity == [k \in TrioKeys |-> k]
TrioInserts  == {<<k>> : k \in TrioKeys} \cup {<<>>, <<1, 3, 2>>}

(* A map of two keys that collide; key 1 has two mapped values.            *)
MapElements == 1 .. 3
MapKeys     == 1 .. 2
MapKeyOf    == <<1, 1, 2>>
MapHash     == <<3, 3>>
MapDefault  == <<1, 3>>
MapInserts  == {<<e>> : e \in MapElements}

(* The factors of a new table; factors set_resizing_parameters clips; and  *)
(* a grow factor that no bucket count satisfies.                           *)
Usual  == [shrink |-> 20, grow |-> 50]
Dense  == [shrink |-> 40, grow |-> 50]
Frozen == [shrink |-> 0, grow |-> 0]

UsualOnly      == {Usual}
UsualAndDense  == {Usual, Dense}
UsualAndFrozen == {Usual, Frozen}
UsualAndFull   == {Usual, [shrink |-> 20, grow |-> 100]}
=============================================================================
