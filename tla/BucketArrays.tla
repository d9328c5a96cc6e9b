---------------------------- MODULE BucketArrays ----------------------------
(***************************************************************************)
(* What sparsetable promises the hash table above it: growable arrays of   *)
(* buckets, each Empty, Erased or holding a value.  Groups, allocators and *)
(* iterators do not appear.  SparseTable is shown to implement this        *)
(* specification.                                                          *)
(***************************************************************************)
EXTENDS Integers

CONSTANTS
  Tables,         \* the arrays of the program
  Sizes,          \* the bucket counts it asks for
  Values,         \* value_type
  Empty, Erased,  \* the two states of a bucket without a value
  Lost,           \* an array that a failed read or a rehash has spoilt
  Fallible        \* TRUE if memory may run out

VARIABLE arrays   \* arrays[t]: a function from bucket numbers, or Lost

Known == {t \in Tables : arrays[t] # Lost}

Becomes(t, a) == arrays' = [arrays EXCEPT ![t] = a]

Vacant(n) == [b \in 0 .. n - 1 |-> Empty]

Init == arrays = [t \in Tables |-> Vacant(0)]

New(t) == \E n \in Sizes \cup {0} : Becomes(t, Vacant(n))

(* Growing keeps what is there.                                            *)
Resize(t) ==
  \E n \in Sizes :
    /\ DOMAIN arrays[t] \subseteq 0 .. n - 1
    /\ Becomes(t, [b \in 0 .. n - 1 |-> IF b \in DOMAIN arrays[t] THEN arrays[t][b] ELSE Empty])

Set(t, b, v) == Becomes(t, [arrays[t] EXCEPT ![b] = v])

(* A failed insertion loses the mark of the bucket it was meant for.       *)
Forget(t, b) ==
  /\ Fallible /\ arrays[t][b] = Erased
  /\ Becomes(t, [arrays[t] EXCEPT ![b] = Empty])

(* The values in buckets f up to l are erased.                             *)
Erase(t, f, l) ==
  Becomes(t, [b \in DOMAIN arrays[t] |->
                IF arrays[t][b] \in Values /\ f <= b /\ b < l THEN Erased ELSE arrays[t][b]])

Copy(t, u) == Becomes(t, arrays[u])

Swap(t, u) == arrays' = [arrays EXCEPT ![t] = arrays[u], ![u] = arrays[t]]

Take(t, u) == arrays' = [arrays EXCEPT ![t] = arrays[u], ![u] = Vacant(0)]

(* t is read from a file u was written to, which has no erased marks.      *)
Read(t, u) ==
  Becomes(t, [b \in DOMAIN arrays[u] |-> IF arrays[u][b] = Erased THEN Empty ELSE arrays[u][b]])

Lose(t) == Becomes(t, Lost)

Next ==
  \/ \E t \in Tables : New(t) \/ Lose(t)
  \/ \E t \in Known :
       \/ Resize(t)
       \/ \E b \in DOMAIN arrays[t] :
            \/ \E v \in Values : Set(t, b, v)
            \/ \E l \in DOMAIN arrays[t] : Erase(t, b, l + 1)
            \/ Forget(t, b)
  \/ \E t \in Tables, u \in Known : Copy(t, u) \/ Swap(t, u) \/ Take(t, u) \/ Read(t, u)

Spec == Init /\ [][Next]_arrays
=============================================================================
