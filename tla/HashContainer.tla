---------------------------- MODULE HashContainer ----------------------------
(***************************************************************************)
(* What a sparse_hash_set or sparse_hash_map promises its users while      *)
(* there is memory: each table is a finite set of elements, at most one    *)
(* per key, and only what the program asked for changes it.  Buckets,      *)
(* probe chains, erased marks, resizing and the temporary tables of a      *)
(* rehash do not appear.  SparseHashtable is shown to implement this       *)
(* specification.                                                          *)
(*                                                                         *)
(* A call of several steps is a request.  An insertion, or a resize, first *)
(* prepares the table, which changes no set however often the table is     *)
(* rebuilt, and then inserts its elements one by one; a copy is there all  *)
(* at once.  Nothing is erased while a request is being answered.          *)
(***************************************************************************)
EXTENDS Sequences

CONSTANTS
  Tables,       \* the container objects of the program
  Elements,     \* value_type
  KeyOf,        \* ExtractKey, [Elements -> keys]
  Ranges        \* what one call may be asked to insert, sequences of elements;
                \* the empty one is that of a call that only resizes

VARIABLES
  contents,     \* contents[t]: the set of elements table t holds
  request       \* what the program has asked for and not yet been given

vars == <<contents, request>>

None == [op |-> "none"]
Prepare(t, todo) == [op |-> "prepare", to |-> t, todo |-> todo]
Place(t, todo) == [op |-> "insert", to |-> t, todo |-> todo]
Copy(t, u) == [op |-> "copy", to |-> t, from |-> u]

KeysOf(S) == {KeyOf[e] : e \in S}

(* Insertion never replaces an element whose key is already there.         *)
Added(S, e) == IF KeyOf[e] \in KeysOf(S) THEN S ELSE S \cup {e}

Init == contents = [t \in Tables |-> {}] /\ request = None

-----------------------------------------------------------------------------
(* Requests.                                                               *)

BeginInsert(t, todo) ==
  /\ request = None /\ request' = Prepare(t, todo)
  /\ UNCHANGED contents

(* There is room for the elements.                                         *)
Ready ==
  /\ request.op = "prepare" /\ request.todo # <<>>
  /\ request' = Place(request.to, request.todo)
  /\ UNCHANGED contents

(* A call that only resizes returns; one for whose elements no table is    *)
(* large enough (length_error) has inserted none of them.                  *)
Leave == request.op = "prepare" /\ request' = None /\ UNCHANGED contents

InsertNext ==
  /\ request.op = "insert"
  /\ contents' = [contents EXCEPT ![request.to] = Added(@, Head(request.todo))]
  /\ request' = IF Len(request.todo) = 1 THEN None
                                         ELSE Place(request.to, Tail(request.todo))

BeginCopy(t, u) ==
  /\ request = None /\ request' = Copy(t, u)
  /\ UNCHANGED contents

CopyDone ==
  /\ request.op = "copy" /\ request' = None
  /\ contents' = [contents EXCEPT ![request.to] = contents[request.from]]

-----------------------------------------------------------------------------
(* Calls of one step.                                                      *)

AtOnce == request = None /\ UNCHANGED request

(* erase and clear, and an assignment that cleared its target and then     *)
(* found no table large enough for the source.                             *)
Erase(t, S) == AtOnce /\ contents' = [contents EXCEPT ![t] = @ \ S]

(* Writing the mapped value of an element that is there: m[k] = v.         *)
Update(t, e) ==
  /\ AtOnce
  /\ KeyOf[e] \in KeysOf(contents[t])
  /\ contents' = [contents EXCEPT ![t] =
                    {IF KeyOf[d] = KeyOf[e] THEN e ELSE d : d \in @}]

(* t is read from a file u was written to.                                 *)
Load(t, u) == AtOnce /\ contents' = [contents EXCEPT ![t] = contents[u]]

Swap(t, u) ==
  AtOnce /\ contents' = [contents EXCEPT ![t] = contents[u], ![u] = contents[t]]

(* Move construction: t takes what u holds and u is left empty.            *)
Take(t, u) ==
  AtOnce /\ contents' = [contents EXCEPT ![u] = {}, ![t] = contents[u]]

-----------------------------------------------------------------------------

Next ==
  \/ \E t \in Tables, todo \in Ranges : BeginInsert(t, todo)
  \/ Ready \/ Leave \/ InsertNext \/ CopyDone
  \/ \E t \in Tables : \E S \in SUBSET contents[t] : Erase(t, S)
  \/ \E t \in Tables, e \in Elements : Update(t, e)
  \/ \E t, u \in Tables : BeginCopy(t, u) \/ Load(t, u) \/ Swap(t, u) \/ Take(t, u)

Spec == Init /\ [][Next]_vars
=============================================================================
