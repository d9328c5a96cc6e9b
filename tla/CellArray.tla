------------------------------ MODULE CellArray ------------------------------
(***************************************************************************)
(* What a group of buckets promises the table above it: an array of cells, *)
(* each Empty, Erased or holding a value.  How the values are packed, when *)
(* arrays are allocated and how they grow and shrink does not appear.      *)
(* SparseGroup is shown to implement this specification.                   *)
(***************************************************************************)

CONSTANTS
  Groups,         \* the arrays of the program
  Positions,      \* the positions of an array
  Values,         \* value_type
  Empty, Erased,  \* the two states of a cell that holds no value
  Fallible        \* TRUE if memory may run out

VARIABLE cells    \* cells[g][i]: what is at position i of array g

Vacated == [i \in Positions |-> Empty]

Init == cells = [g \in Groups |-> Vacated]

Set(g, i, v) == cells' = [cells EXCEPT ![g][i] = v]

(* A failed insertion loses the mark of the cell it was meant for.         *)
Forget(g, i) ==
  /\ Fallible /\ cells[g][i] = Erased
  /\ cells' = [cells EXCEPT ![g][i] = Empty]

Erase(g, i) ==
  /\ cells[g][i] \in Values
  /\ cells' = [cells EXCEPT ![g][i] = Erased]

Clear(g) == cells' = [cells EXCEPT ![g] = Vacated]

Copy(g, h) == cells' = [cells EXCEPT ![g] = cells[h]]

Swap(g, h) == cells' = [cells EXCEPT ![g] = cells[h], ![h] = cells[g]]

Next ==
  \/ \E g \in Groups, i \in Positions :
       \/ \E v \in Values : Set(g, i, v)
       \/ Forget(g, i) \/ Erase(g, i)
  \/ \E g \in Groups : Clear(g)
  \/ \E g, h \in Groups : Copy(g, h) \/ Swap(g, h)

Spec == Init /\ [][Next]_cells
=============================================================================
