--------------------------------- MODULE Heap ---------------------------------
(***************************************************************************)
(* What a memory space promises to spp_allocator: the blocks it has handed *)
(* out never share a word, a block stays until it is freed, a request may  *)
(* fail, and a reallocation that fails leaves the block as it was.         *)
(***************************************************************************)
EXTENDS Integers, TLAPS

CONSTANTS Words,     \* the addresses of memory words
          Requests   \* the numbers of words asked for

VARIABLES open,      \* whether the space exists
          blocks     \* the length of each block, by its address

Range(b, n) == b .. b + n - 1

Others(b) == [c \in DOMAIN blocks \ {b} |-> blocks[c]]

(* There is room for n words at b beside the blocks of f.                  *)
Free(f, b, n) == \A c \in DOMAIN f : Range(b, n) \cap Range(c, f[c]) = {} /\ c # b

With(f, b, n) == [c \in DOMAIN f \cup {b} |-> IF c = b THEN n ELSE f[c]]

Init == open = FALSE /\ blocks = <<>>

Create == ~open /\ open' = TRUE /\ UNCHANGED blocks

(* Destroying the space takes what was not freed with it.                  *)
Destroy == open /\ open' = FALSE /\ blocks' = <<>>

Malloc(n) ==
  /\ open /\ UNCHANGED open
  /\ \E b \in DOMAIN blocks' \ DOMAIN blocks :
       b \in Words /\ Free(blocks, b, n) /\ blocks' = With(blocks, b, n)

Release(b) == open /\ blocks' = Others(b) /\ UNCHANGED open

(* The new block may be where the old one was, or where nothing was.       *)
Realloc(b, n) ==
  /\ open /\ UNCHANGED open
  /\ \/ Free(Others(b), b, n) /\ blocks' = With(blocks, b, n)
     \/ \E c \in DOMAIN blocks' \ DOMAIN blocks :
          c \in Words /\ Free(blocks, c, n) /\ blocks' = With(Others(b), c, n)

Next ==
  \/ Create \/ Destroy
  \/ \E n \in Requests : Malloc(n)
  \/ \E b \in DOMAIN blocks : Release(b) \/ \E n \in Requests : Realloc(b, n)

Spec == Init /\ [][Next]_<<open, blocks>>

-----------------------------------------------------------------------------
(* No two blocks share a word, and without a space there is none.          *)
BlocksApart ==
  /\ \A b, c \in DOMAIN blocks : b # c => Range(b, blocks[b]) \cap Range(c, blocks[c]) = {}
  /\ ~open => DOMAIN blocks = {}

(* Whatever has room beside the blocks of f can be added to them: the      *)
(* allocation steps of malloc and realloc keep blocks apart.               *)
LEMMA AddedApart ==
  ASSUME NEW f, NEW b, NEW n,
         \A c, d \in DOMAIN f : c # d => Range(c, f[c]) \cap Range(d, f[d]) = {},
         Free(f, b, n)
  PROVE  \A c, d \in DOMAIN With(f, b, n) :
           c # d => Range(c, With(f, b, n)[c]) \cap Range(d, With(f, b, n)[d]) = {}
<1> DEFINE g == With(f, b, n)
<1>1. /\ DOMAIN g = DOMAIN f \cup {b}
      /\ \A c \in DOMAIN f : c # b => g[c] = f[c]
      /\ g[b] = n
  BY DEF With
<1>2. \A c \in DOMAIN f : c # b /\ Range(b, n) \cap Range(c, f[c]) = {}
  BY DEF Free
<1> HIDE DEF g
<1>3. SUFFICES ASSUME NEW c \in DOMAIN g, NEW d \in DOMAIN g, c # d
               PROVE  Range(c, g[c]) \cap Range(d, g[d]) = {}
  BY DEF g
<1>4. CASE c = b
  <2>1. d \in DOMAIN f /\ g[d] = f[d]
    BY <1>1, <1>3, <1>4
  <2> QED
    BY <1>1, <1>2, <1>4, <2>1
<1>5. CASE c # b /\ d = b
  <2>1. c \in DOMAIN f /\ g[c] = f[c]
    BY <1>1, <1>5
  <2> QED
    BY <1>1, <1>2, <1>5, <2>1
<1>6. CASE c # b /\ d # b
  <2>1. c \in DOMAIN f /\ d \in DOMAIN f /\ g[c] = f[c] /\ g[d] = f[d]
    BY <1>1, <1>6
  <2> QED
    BY <1>3, <2>1
<1> QED
  BY <1>4, <1>5, <1>6

(* Taking a block out leaves the others apart.                             *)
LEMMA OthersApart ==
  ASSUME NEW b, BlocksApart
  PROVE  \A c, d \in DOMAIN Others(b) :
           c # d => Range(c, Others(b)[c]) \cap Range(d, Others(b)[d]) = {}
BY DEF Others, BlocksApart

(* A block that has room beside all others has room beside all but one.    *)
LEMMA FreeBesideOthers ==
  ASSUME NEW b, NEW c, NEW n, Free(blocks, c, n)
  PROVE  Free(Others(b), c, n)
BY DEF Free, Others

LEMMA InitApart == Init => BlocksApart
BY DEF Init, BlocksApart

LEMMA StepApart == BlocksApart /\ [Next]_<<open, blocks>> => BlocksApart'
<1> SUFFICES ASSUME BlocksApart, [Next]_<<open, blocks>>
             PROVE  BlocksApart'
  OBVIOUS
<1>1. CASE UNCHANGED <<open, blocks>>
  BY <1>1 DEF BlocksApart
<1>2. CASE Create
  BY <1>2 DEF Create, BlocksApart
<1>3. CASE Destroy
  BY <1>3 DEF Destroy, BlocksApart
<1>4. ASSUME NEW n \in Requests, Malloc(n)
      PROVE  BlocksApart'
  <2>1. PICK b : Free(blocks, b, n) /\ blocks' = With(blocks, b, n) /\ open' = TRUE
    BY <1>4 DEF Malloc
  <2>2. \A c, d \in DOMAIN blocks : c # d => Range(c, blocks[c]) \cap Range(d, blocks[d]) = {}
    BY DEF BlocksApart
  <2> QED
    BY <2>1, <2>2, AddedApart DEF BlocksApart
<1>5. ASSUME NEW b \in DOMAIN blocks, Release(b)
      PROVE  BlocksApart'
  BY <1>5, OthersApart DEF Release, BlocksApart
<1>6. ASSUME NEW b \in DOMAIN blocks, NEW n \in Requests, Realloc(b, n)
      PROVE  BlocksApart'
  <2>1. PICK c : Free(Others(b), c, n) /\ blocks' = With(Others(b), c, n) /\ open' = TRUE
    <3>1. CASE Free(Others(b), b, n) /\ blocks' = With(blocks, b, n)
      <4>1. With(blocks, b, n) = With(Others(b), b, n)
        BY DEF With, Others
      <4> QED
        BY <1>6, <3>1, <4>1 DEF Realloc
    <3>2. CASE \E c \in DOMAIN blocks' \ DOMAIN blocks :
                 c \in Words /\ Free(blocks, c, n) /\ blocks' = With(Others(b), c, n)
      BY <1>6, <3>2, FreeBesideOthers DEF Realloc
    <3> QED
      BY <1>6, <3>1, <3>2 DEF Realloc
  <2> QED
    BY <2>1, OthersApart, AddedApart DEF BlocksApart
<1> QED
  BY <1>1, <1>2, <1>3, <1>4, <1>5, <1>6 DEF Next

(* spp_allocator hands out arrays that never overlap, whatever the order   *)
(* of allocations, reallocations and deallocations: the memory of one      *)
(* group is never that of another.                                         *)
THEOREM BlocksStayApart == Spec => []BlocksApart
<1>1. Init => BlocksApart
  BY InitApart
<1>2. BlocksApart /\ [Next]_<<open, blocks>> => BlocksApart'
  BY StepApart
<1> QED
  BY <1>1, <1>2, PTL DEF Spec
=============================================================================
