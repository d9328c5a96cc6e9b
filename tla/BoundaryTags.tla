----------------------------- MODULE BoundaryTags -----------------------------
(***************************************************************************)
(* The chunks of memory of sparsepp/spp_dlalloc.h: malloc_chunk_header and *)
(* the functions that set its fields.  Addresses and sizes are in units of *)
(* MALLOC_ALIGNMENT, two words; every chunk is aligned to that.            *)
(*                                                                         *)
(* head maps the addresses of chunks to their size and the two bits        *)
(* PINUSE and CINUSE, foot maps an address to the _prev_foot stored there, *)
(* the size of the free chunk before it.  A header or foot that another    *)
(* chunk covers is gone: its bytes are then part of that chunk.            *)
(***************************************************************************)
EXTENDS Integers

Without(f, gone) == [a \in DOMAIN f \ gone |-> f[a]]
With(f, a, v)    == [b \in DOMAIN f \cup {a} |-> IF b = a THEN v ELSE f[b]]

(* Bytes that no header was written to.                                    *)
Garbage == [size |-> 0, p |-> FALSE, c |-> FALSE]

Tag(h, a)  == IF a \in DOMAIN h.head THEN h.head[a] ELSE Garbage
Foot(h, a) == IF a \in DOMAIN h.foot THEN h.foot[a] ELSE 0

(* is_inuse and is_mmapped.                                                *)
IsInuse(tag)   == ~(tag.p /\ ~tag.c)
IsMmapped(tag) == ~tag.p /\ ~tag.c

(* FENCEPOST_HEAD; its size, one word, is never used.                      *)
Fencepost == [size |-> 0, p |-> TRUE, c |-> TRUE]

(* A header is written at a; those inside its chunk are gone.              *)
PutTag(h, a, tag) ==
  LET inside == a + 1 .. a + tag.size - 1
  IN  [h EXCEPT !.head = With(Without(@, inside), a, tag), !.foot = Without(@, inside)]

SetPinuse(h, a)   == [h EXCEPT !.head = With(@, a, [Tag(h, a) EXCEPT !.p = TRUE])]
ClearPinuse(h, a) == [h EXCEPT !.head = With(@, a, [Tag(h, a) EXCEPT !.p = FALSE])]

(* set_size_and_pinuse_of_free_chunk.                                      *)
PutFree(h, a, s) ==
  [PutTag(h, a, [size |-> s, p |-> TRUE, c |-> FALSE]) EXCEPT !.foot = With(@, a + s, s)]

(* set_free_with_pinuse.                                                   *)
SetFree(h, a, s, next) == PutFree(ClearPinuse(h, next), a, s)

(* set_size_and_pinuse_of_inuse_chunk; the user has the foot of the chunk. *)
PutInuse(h, a, s) ==
  [PutTag(h, a, [size |-> s, p |-> TRUE, c |-> TRUE]) EXCEPT !.foot = Without(@, {a + s})]

(* set_inuse_and_pinuse, and set_inuse, which keeps PINUSE.                *)
SetInuseAndPinuse(h, a, s) == SetPinuse(PutInuse(h, a, s), a + s)

SetInuse(h, a, s) ==
  LET g == SetInuseAndPinuse(h, a, s)
  IN  [g EXCEPT !.head[a].p = Tag(h, a).p]

(* The top chunk has no foot.                                              *)
PutTop(h, a, s) == PutTag(h, a, [size |-> s, p |-> TRUE, c |-> FALSE])
=============================================================================
