--------------------------- MODULE GroupIterators ---------------------------
(***************************************************************************)
(* The iterators over the full buckets of a sparsetable: Two_d_iterator    *)
(* and the destructive one of sparsepp/spp.h, with the functions of        *)
(* sparsetable that turn a bucket number into an iterator and back.        *)
(*                                                                         *)
(* A table is a sequence of groups, each a function from the positions     *)
(* 0 .. GroupSize - 1 to cells.  The values of a group are packed, so an   *)
(* iterator is a row, the number of a group, and a column, a number among  *)
(* the values of that group.  Behind the last group there is one that is   *)
(* marked: it is where iteration ends.                                     *)
(***************************************************************************)
EXTENDS Integers, FiniteSets, Sequences, FiniteSetsExt

CONSTANTS
  GroupSize,      \* SPP_GROUP_SIZE
  Values,         \* value_type
  Raw,            \* the bytes of a value that was allocated, never constructed
  Empty, Erased   \* the states of a bucket without a value

ASSUME GroupAssumption ==
  /\ GroupSize \in Nat \ {0}
  /\ {Empty, Erased} \cap (Values \cup {Raw}) = {}
  /\ Empty # Erased /\ Raw \notin Values

Positions == 0 .. GroupSize - 1

(* The positions of group g that have a value: its bitmap.                 *)
Occupied(g) == {p \in Positions : g[p] \in Values \cup {Raw}}

NumItems(g) == Cardinality(Occupied(g))

PosToOffset(g, p) == Cardinality({q \in Occupied(g) : q < p})

OffsetToPos(g, c) == CHOOSE p \in Occupied(g) : PosToOffset(g, p) = c

(* group_num, counted from 1, and pos_in_group.                            *)
GroupNum(b)   == b \div GroupSize + 1
PosInGroup(b) == b % GroupSize

CellAt(groups, b) == groups[GroupNum(b)][PosInGroup(b)]

(* The full buckets of a table.                                            *)
FullBuckets(groups) ==
  {b \in 0 .. Len(groups) * GroupSize - 1 : CellAt(groups, b) \in Values \cup {Raw}}

-----------------------------------------------------------------------------
(* Iterators.                                                              *)

EndOf(groups) == [row |-> Len(groups) + 1, col |-> 0]

IsMarked(groups, it) == it.row = Len(groups) + 1

(* A column behind the last value moves to the first value of the next row *)
(* that has one.                                                           *)
AdvancePastEnd(groups, it) ==
  IF IsMarked(groups, it) \/ it.col < NumItems(groups[it.row]) THEN it
  ELSE LET later == {r \in it.row + 1 .. Len(groups) : NumItems(groups[r]) > 0}
       IN  IF later = {} THEN EndOf(groups) ELSE [row |-> Min(later), col |-> 0]

(* ne_begin: a table without groups begins at its end.                     *)
BeginOf(groups) == AdvancePastEnd(groups, [row |-> 1, col |-> 0])

Incremented(groups, it) == AdvancePastEnd(groups, [it EXCEPT !.col = @ + 1])

(* operator--: to the last value of the nearest earlier row that has one.  *)
Decremented(groups, it) ==
  IF it.col > 0 THEN [it EXCEPT !.col = @ - 1]
  ELSE LET r == Max({q \in 1 .. it.row - 1 : NumItems(groups[q]) > 0})
       IN  [row |-> r, col |-> NumItems(groups[r]) - 1]

(* operator-(l, f): how often f is incremented before it equals l.         *)
Distance(groups, l, f) ==
  LET after[n \in 0 .. Cardinality(FullBuckets(groups))] ==
        IF n = 0 THEN f ELSE Incremented(groups, after[n - 1])
  IN  IF IsMarked(groups, f) THEN 0
      ELSE Min({n \in DOMAIN after : after[n] = l})

(* Mutant: the column is the position in the group.                        *)
GetIterUnpacked(groups, b) == [row |-> GroupNum(b), col |-> PosInGroup(b)]

(* get_iter: the iterator to full bucket b.                                *)
GetIter(groups, b) ==
  [row |-> GroupNum(b), col |-> PosToOffset(groups[GroupNum(b)], PosInGroup(b))]

(* get_pos: the bucket an iterator other than the end points to.           *)
GetPos(groups, it) ==
  (it.row - 1) * GroupSize + OffsetToPos(groups[it.row], it.col)

(* The bucket an iterator points to, the end being behind all of them.     *)
Place(groups, it) ==
  IF IsMarked(groups, it) THEN Len(groups) * GroupSize ELSE GetPos(groups, it)

(* erase_ne: the value leaves a mark, the column then has the value that   *)
(* was behind it, if there was one.                                        *)
ErasedAt(groups, it) ==
  [groups EXCEPT ![it.row] = [@ EXCEPT ![OffsetToPos(@, it.col)] = Erased]]

(* erase(f, l): counts first, because erasing moves the values l points    *)
(* to, and then erases at f as often; f is left where l was.               *)
ErasedRange(groups, f, l) ==
  LET n == Distance(groups, l, f)
      state[k \in 0 .. n] ==
        IF k = 0 THEN [groups |-> groups, it |-> f]
        ELSE LET rest == ErasedAt(state[k - 1].groups, state[k - 1].it)
             IN  [groups |-> rest, it |-> AdvancePastEnd(rest, state[k - 1].it)]
  IN  state[n]

(* The destructive iterator clears each row it leaves behind.              *)
LeftBehind(groups, it) ==
  [r \in 1 .. Len(groups) |-> IF r < it.row THEN [p \in Positions |-> Empty] ELSE groups[r]]
=============================================================================
