------------------------------- MODULE TreeBins -------------------------------
(***************************************************************************)
(* The trees of free chunks of malloc_state, sparsepp/spp_dlalloc.h, with  *)
(* their links.  Each treebin holds a range of sizes in a digital tree; a  *)
(* node has one chunk in the tree and the other chunks of its size behind  *)
(* it in a circular list.                                                  *)
(*                                                                         *)
(* Sizes are in units of 16 bytes; a size_t has WordBits bits beyond those *)
(* that alignment keeps zero.                                              *)
(***************************************************************************)
EXTENDS Integers, FiniteSets, FiniteSetsExt

CONSTANTS
  Chunks,      \* the addresses of free chunks
  Null, Root,  \* no chunk; the parent of the chunk a treebin points to
  TreeShift,   \* TREEBIN_SHIFT: large chunks have at least 2^TreeShift units
  NTreeBins,   \* NTREEBINS
  WordBits,
  LargeSizes   \* the sizes of the chunks that are freed

Pow2(n) == 2^n

ASSUME TreeAssumption ==
  /\ TreeShift \in Nat /\ TreeShift >= 2
  /\ NTreeBins \in Nat /\ NTreeBins >= 2 /\ NTreeBins % 2 = 0
  /\ WordBits \in Nat /\ WordBits > TreeShift
  /\ LargeSizes # {} /\ LargeSizes \subseteq Pow2(TreeShift) .. Pow2(WordBits) - 1
  /\ IsFiniteSet(Chunks)
  /\ {Null, Root} \cap Chunks = {} /\ Null # Root

VARIABLE t   \* the treemap, the roots, and the links of the chunks

TreeIndices == 0 .. NTreeBins - 1

(* compute_tree_index: two bins for each power of two, the last one for    *)
(* everything from half of its power on.                                   *)
TreeIndex(s) ==
  LET x == s \div Pow2(TreeShift)
      k == CHOOSE n \in 0 .. WordBits : Pow2(n) <= x /\ x < Pow2(n + 1)
  IN  IF 2 * k >= NTreeBins THEN NTreeBins - 1
      ELSE 2 * k + ((s \div Pow2(k + TreeShift - 1)) % 2)

(* minsize_for_tree_index.                                                 *)
MinSizeForTreeIndex(i) ==
  Pow2(i \div 2 + TreeShift) + ((i % 2) * Pow2(i \div 2 + TreeShift - 1))

(* The branch that size s takes at depth d of bin i: leftshift_for_tree_-  *)
(* index moves the highest bit the bin does not fix to the sign bit.       *)
Branch(s, i, d) ==
  LET highest == IF i = NTreeBins - 1 THEN WordBits - 1 ELSE i \div 2 + TreeShift - 2
  IN  IF d > highest THEN 0 ELSE (s \div Pow2(highest - d)) % 2

-----------------------------------------------------------------------------
(* insert_large_chunk.                                                     *)

NewNode(x, s, i, parent) ==
  [size |-> s, index |-> i, fd |-> x, bk |-> x, child |-> [b \in {0, 1} |-> Null],
   parent |-> parent]

WithNode(u, x, n) ==
  [u EXCEPT !.node = [y \in DOMAIN u.node \cup {x} |-> IF y = x THEN n ELSE u.node[y]]]

(* Where the walk from the root stops: at a chunk of the size, or at one   *)
(* without a child on the branch.                                          *)
InsertionPoint(u, s, i) ==
  LET next(x, d) == u.node[x].child[Branch(s, i, d)]
      walk[d \in 0 .. WordBits] ==
        IF d = 0 THEN [node |-> u.root[i], depth |-> 0]
        ELSE LET w == walk[d - 1] IN
             IF w.depth < d - 1 \/ u.node[w.node].size = s \/ next(w.node, d - 1) = Null THEN w
             ELSE [node |-> next(w.node, d - 1), depth |-> d]
  IN  [node |-> walk[WordBits].node, branch |-> Branch(s, i, walk[WordBits].depth)]

(* Mutant: a chunk joins its list at the front, before the oldest one.     *)
InsertLargeFront(u, x, s) ==
  LET i == TreeIndex(s)
      p == InsertionPoint(u, s, i)
      T == p.node
      B == u.node[T].bk
  IN  IF i \notin u.map
      THEN [WithNode(u, x, NewNode(x, s, i, Root)) EXCEPT !.map = @ \cup {i}, !.root[i] = x]
      ELSE IF u.node[T].size # s
      THEN [WithNode(u, x, NewNode(x, s, i, T)) EXCEPT !.node[T].child[p.branch] = x]
      ELSE LET v == WithNode(u, x, [NewNode(x, s, i, Null) EXCEPT !.fd = T, !.bk = B])
           IN  [v EXCEPT !.node[T].bk = x, !.node[B].fd = x]

InsertLarge(u, x, s) ==
  LET i == TreeIndex(s)
      p == InsertionPoint(u, s, i)
      T == p.node
      F == u.node[T].fd
  IN  IF i \notin u.map
      THEN [WithNode(u, x, NewNode(x, s, i, Root)) EXCEPT !.map = @ \cup {i}, !.root[i] = x]
      ELSE IF u.node[T].size # s
      THEN [WithNode(u, x, NewNode(x, s, i, T)) EXCEPT !.node[T].child[p.branch] = x]
      ELSE LET v == WithNode(u, x, [NewNode(x, s, i, Null) EXCEPT !.fd = F, !.bk = T])
           IN  [v EXCEPT !.node[T].fd = x, !.node[F].bk = x]

-----------------------------------------------------------------------------
(* unlink_large_chunk.                                                     *)

(* The last child of a link: the second one if there is one.               *)
LastBranch(n) == IF n.child[1] # Null THEN 1 ELSE 0

IsLeaf(n) == n.child[0] = Null /\ n.child[1] = Null

(* The link, a chunk and a branch, to the rightmost leaf below x.          *)
LinkToLeaf(u, x) ==
  LET below[n \in 0 .. Cardinality(Chunks)] ==
        IF n = 0 THEN <<x, LastBranch(u.node[x])>>
        ELSE LET r == u.node[below[n - 1][1]].child[below[n - 1][2]]
             IN  IF IsLeaf(u.node[r]) THEN below[n - 1] ELSE <<r, LastBranch(u.node[r])>>
  IN  below[Cardinality(Chunks)]

(* The chunk that takes the place of x, and the links without the two:     *)
(* the next older chunk of the same size, else a leaf below x, if any.     *)
Replacement(u, x) ==
  LET n == u.node[x]
      l == LinkToLeaf(u, x)
  IN  IF n.bk # x
      THEN [chunk |-> n.bk, u |-> [u EXCEPT !.node[n.fd].bk = n.bk, !.node[n.bk].fd = n.fd]]
      ELSE IF IsLeaf(n) THEN [chunk |-> Null, u |-> u]
      ELSE [chunk |-> u.node[l[1]].child[l[2]], u |-> [u EXCEPT !.node[l[1]].child[l[2]] = Null]]

(* r, which may be Null, below the parent of x.                            *)
Relinked(u, x, r) ==
  LET n == u.node[x] IN
  IF u.root[n.index] = x
  THEN [u EXCEPT !.root[n.index] = r, !.map = IF r = Null THEN @ \ {n.index} ELSE @]
  ELSE [u EXCEPT !.node[n.parent].child[IF u.node[n.parent].child[0] = x THEN 0 ELSE 1] = r]

(* r above the children of x.                                              *)
Adopted(u, x, r) ==
  LET n == u.node[x] IN
  [u EXCEPT !.node = [y \in DOMAIN u.node |->
     CASE y = r -> [u.node[y] EXCEPT
                      !.parent = n.parent,
                      !.child = [b \in {0, 1} |-> IF n.child[b] # Null THEN n.child[b] ELSE @[b]]]
       [] y # r /\ y \in {n.child[0], n.child[1]} -> [u.node[y] EXCEPT !.parent = r]
       [] OTHER -> u.node[y]]]

Without(u, x) == [u EXCEPT !.node = [y \in DOMAIN u.node \ {x} |-> u.node[y]]]

(* Mutant: the child of x takes its place, wherever its own children are.  *)
UnlinkLargeByChild(u, x) ==
  LET n == u.node[x]
      c == n.child[LastBranch(n)]
      s == IF n.bk # x \/ IsLeaf(n) THEN Replacement(u, x)
           ELSE [chunk |-> c, u |-> [u EXCEPT !.node[x].child[LastBranch(n)] = Null]]
      v == IF n.parent = Null THEN s.u ELSE Relinked(s.u, x, s.chunk)
  IN  Without(IF n.parent = Null \/ s.chunk = Null THEN v ELSE Adopted(v, x, s.chunk), x)

(* A chunk without a parent is only in the list of its size.               *)
UnlinkLarge(u, x) ==
  LET n == u.node[x]
      s == Replacement(u, x)
      v == IF n.parent = Null THEN s.u ELSE Relinked(s.u, x, s.chunk)
  IN  Without(IF n.parent = Null \/ s.chunk = Null THEN v ELSE Adopted(v, x, s.chunk), x)

-----------------------------------------------------------------------------
(* The searches.  The remainder of a chunk that is too small wraps around  *)
(* to more than that of any chunk that is large enough.                    *)

Remainder(u, x, nb) == (u.node[x].size - nb) % Pow2(WordBits)

(* Of chunk x and the best so far, Null at first, the better fit; the      *)
(* first one wins a tie.                                                   *)
Better(u, best, x, nb) ==
  LET bound == IF best = Null THEN (0 - nb) % Pow2(WordBits) ELSE Remainder(u, best, nb)
  IN  IF Remainder(u, x, nb) < bound THEN x ELSE best

LeftmostChild(n) == IF n.child[0] # Null THEN n.child[0] ELSE n.child[1]

(* The best fit on the way from x along the leftmost children.             *)
BestBelow(u, x, best, nb) ==
  LET walk[n \in 0 .. Cardinality(Chunks)] ==
        IF n = 0 THEN [at |-> x, best |-> best]
        ELSE LET w == walk[n - 1] IN
             IF w.at = Null THEN w
             ELSE [at |-> LeftmostChild(u.node[w.at]), best |-> Better(u, w.best, w.at, nb)]
  IN  walk[Cardinality(Chunks)].best

(* The walk of tmalloc_large along the bits of nb: where it ends, the best *)
(* fit on the way, and the deepest subtree to the right that was not taken.*)
WalkForSize(u, nb) ==
  LET i == TreeIndex(nb)
      walk[d \in 0 .. WordBits + 1] ==
        IF d = 0 THEN [at |-> u.root[i], best |-> Null, right |-> Null, found |-> FALSE]
        ELSE LET w == walk[d - 1] IN
             IF w.at = Null \/ w.found THEN w
             ELSE LET n == u.node[w.at]
                      c == n.child[Branch(nb, i, d - 1)]
                      best == Better(u, w.best, w.at, nb)
                  IN  [at    |-> c,
                       best  |-> best,
                       right |-> IF n.child[1] \notin {Null, c} THEN n.child[1] ELSE w.right,
                       found |-> n.size = nb]
  IN  walk[WordBits + 1]

(* Mutant: the subtree to the right is forgotten.                          *)
FindLargeOnPath(u, nb) ==
  LET w == WalkForSize(u, nb)
      later == {i \in u.map : i > TreeIndex(nb)}
      start == IF w.best = Null /\ later # {} THEN u.root[Min(later)] ELSE Null
  IN  IF w.found THEN w.best ELSE BestBelow(u, start, w.best, nb)

(* The search of tmalloc_large: the untaken subtree, else the next bin.    *)
FindLarge(u, nb) ==
  LET w == WalkForSize(u, nb)
      later == {i \in u.map : i > TreeIndex(nb)}
      start == IF w.right # Null THEN w.right
               ELSE IF w.best = Null /\ later # {} THEN u.root[Min(later)]
               ELSE Null
  IN  IF w.found THEN w.best ELSE BestBelow(u, start, w.best, nb)

(* The search of tmalloc_small: the smallest chunk of the first bin.       *)
FindSmall(u, nb) ==
  LET x == u.root[Min(u.map)] IN BestBelow(u, LeftmostChild(u.node[x]), x, nb)

-----------------------------------------------------------------------------

Init == t = [map |-> {}, root |-> [i \in TreeIndices |-> Null], node |-> <<>>]

(* A chunk is freed, alone or merged with its neighbours.                  *)
Insert(x, s) ==
  /\ x \notin DOMAIN t.node
  /\ t' = InsertLarge(t, x, s)

(* A chunk is merged into one of its neighbours, or its segment released.  *)
Unlink(x) ==
  /\ x \in DOMAIN t.node
  /\ t' = UnlinkLarge(t, x)

(* tmalloc_large, when the designated victim is not a better fit.          *)
TakeLarge(nb) ==
  /\ nb >= Pow2(TreeShift) /\ t.map # {}
  /\ FindLarge(t, nb) # Null
  /\ t' = UnlinkLarge(t, FindLarge(t, nb))

(* tmalloc_small.                                                          *)
TakeSmall(nb) ==
  /\ nb < Pow2(TreeShift) /\ t.map # {}
  /\ t' = UnlinkLarge(t, FindSmall(t, nb))

Next ==
  \/ \E x \in Chunks, s \in LargeSizes : Insert(x, s)
  \/ \E x \in Chunks : Unlink(x)
  \/ \E nb \in 2 .. Max(LargeSizes) : TakeLarge(nb) \/ TakeSmall(nb)

Spec == Init /\ [][Next]_t

-----------------------------------------------------------------------------
(* Properties.                                                             *)

(* The chunks of the list that starts at x, in the order of bk.            *)
ListFrom(x) ==
  LET at[n \in 0 .. Cardinality(Chunks)] ==
        IF n = 0 THEN x ELSE t.node[at[n - 1]].bk
      length == Min({n \in 1 .. Cardinality(Chunks) : at[n] = x} \cup {Cardinality(Chunks)})
  IN  [n \in 1 .. length |-> at[n - 1]]

(* The chunks with a parent: those in the tree itself.                     *)
InTree == {x \in DOMAIN t.node : t.node[x].parent # Null}

(* The trees as queues, one for each size.                                 *)
QueuesOfTrees ==
  [s \in LargeSizes |->
     LET heads == {x \in InTree : t.node[x].size = s}
     IN  IF heads = {} THEN <<>> ELSE ListFrom(CHOOSE x \in heads : TRUE)]

(* do_check_tree, the parts about one chunk u.                             *)
CheckNode(u) ==
  LET n == t.node[u] IN
  /\ n.index = TreeIndex(n.size)
  /\ n.size >= MinSizeForTreeIndex(n.index)
  /\ n.index = NTreeBins - 1 \/ n.size < MinSizeForTreeIndex(n.index + 1)
  /\ t.node[n.fd].bk = u /\ t.node[n.bk].fd = u
  /\ t.node[n.fd].size = n.size
  /\ n.parent = Null => n.child[0] = Null /\ n.child[1] = Null
  /\ n.parent = Root => t.root[n.index] = u
  /\ n.parent \in Chunks => \E b \in {0, 1} : t.node[n.parent].child[b] = u
  /\ \A b \in {0, 1} : n.child[b] # Null => t.node[n.child[b]].parent = u
  /\ (n.child[0] # Null /\ n.child[1] # Null) =>
       t.node[n.child[0]].size < t.node[n.child[1]].size

(* The links, the roots and the map of the treebins are as do_check_tree   *)
(* and do_check_treebin assert: each chunk is in the bin of its size, each *)
(* list is closed both ways and has one chunk in the tree, parents and     *)
(* children agree, left is smaller than right, and a bin is marked exactly *)
(* when it has a tree.                                                     *)
TreesChecked ==
  /\ \A u \in DOMAIN t.node : CheckNode(u)
  /\ \A u \in DOMAIN t.node : Cardinality({v \in InTree : t.node[v].size = t.node[u].size}) = 1
  /\ \A i \in TreeIndices : i \in t.map <=> t.root[i] # Null

Q == INSTANCE SizeQueues WITH MinLarge <- Pow2(TreeShift), queues <- QueuesOfTrees

(* Whatever the shape of the trees, tmalloc_large finds the oldest chunk   *)
(* of the smallest size that holds nb units, and nothing only if there is  *)
(* none; tmalloc_small, which needs a tree, does for any smaller request.  *)
FindsBestFit ==
  \A nb \in 2 .. Max(LargeSizes) :
    IF nb >= Pow2(TreeShift)
    THEN FindLarge(t, nb) = IF Q!Fits(nb) = {} THEN Null ELSE Q!BestFit(nb)
    ELSE t.map # {} => FindSmall(t, nb) = Q!BestFit(nb)

(* The trees implement queues of sizes: chunks of one size are used in the *)
(* order in which they were freed, and no insertion or removal, with all   *)
(* its relinking, loses or reorders another chunk.                         *)
ImplementsQueues == Q!Spec
=============================================================================
