------------------------------ MODULE TreeProofs ------------------------------
(***************************************************************************)
(* Theorems about the trees of free chunks of TreeBins: whatever chunks    *)
(* are freed and taken, in whatever order, the links are as the checks of  *)
(* the source demand, and the searches find the best fit.                  *)
(***************************************************************************)
EXTENDS TreeBins, FiniteSetTheorems, SequenceTheorems, TLAPS

-----------------------------------------------------------------------------
(* Least members.                                                          *)

LEMMA LeastNat ==
  ASSUME NEW T \in SUBSET Nat, T # {}
  PROVE  Min(T) \in T /\ \A y \in T : Min(T) <= y
<1>1. PICK x \in T : \A y \in T : ~ (<<y, x>> \in OpToRel(<, Nat))
  BY NatLessThanWellFounded, WFMin
<1>2. \A y \in T : ~ (y < x)
  BY <1>1 DEF OpToRel
<1>3. \E z \in T : \A y \in T : z <= y
  BY <1>2
<1> QED  BY <1>3 DEF Min

-----------------------------------------------------------------------------
(* Powers of two.                                                          *)

LEMMA Pow2Zero == Pow2(0) = 1
BY SMT DEF Pow2

LEMMA Pow2Subsets ==
  ASSUME NEW n \in Nat
  PROVE  IsFiniteSet(SUBSET (1 .. n)) /\ Cardinality(SUBSET (1 .. n)) = Pow2(n)
<1>1. IsFiniteSet(1 .. n) /\ Cardinality(1 .. n) = n
  BY FS_Interval
<1> QED  BY <1>1, FS_SUBSET DEF Pow2

LEMMA Pow2Type ==
  ASSUME NEW n \in Nat
  PROVE  Pow2(n) \in Nat \ {0}
<1>1. Cardinality(SUBSET (1 .. n)) \in Nat
  BY Pow2Subsets, FS_CardinalityType
<1>2. SUBSET (1 .. n) # {}
  OBVIOUS
<1>3. Cardinality(SUBSET (1 .. n)) # 0
  BY <1>2, Pow2Subsets, FS_EmptySet
<1> QED  BY <1>1, <1>3, Pow2Subsets

LEMMA Pow2Next ==
  ASSUME NEW n \in Nat
  PROVE  Pow2(n + 1) = 2 * Pow2(n)
<1> DEFINE A == SUBSET (1 .. n)
           B == {T \cup {n + 1} : T \in A}
           f == [T \in A |-> T \cup {n + 1}]
<1>1. IsFiniteSet(A) /\ Cardinality(A) = Pow2(n)
  BY Pow2Subsets
<1>2. f \in Bijection(A, B)
  <2>1. \A T \in A : n + 1 \notin T
    BY SMT
  <2>2. f \in [A -> B]
    OBVIOUS
  <2>3. \A T, U \in A : f[T] = f[U] => T = U
    <3> SUFFICES ASSUME NEW T \in A, NEW U \in A, f[T] = f[U] PROVE T = U
      OBVIOUS
    <3>1. T \cup {n + 1} = U \cup {n + 1}
      OBVIOUS
    <3>2. n + 1 \notin T /\ n + 1 \notin U
      BY <2>1
    <3>3. T = (T \cup {n + 1}) \ {n + 1} /\ U = (U \cup {n + 1}) \ {n + 1}
      BY <3>2
    <3> QED  BY <3>1, <3>3
  <2>4. \A V \in B : \E T \in A : f[T] = V
    OBVIOUS
  <2> HIDE DEF f, A, B
  <2> QED  BY <2>2, <2>3, <2>4 DEF Bijection, Injection, Surjection, IsInjective
<1>3. IsFiniteSet(B) /\ Cardinality(B) = Pow2(n)
  BY <1>1, <1>2, FS_Bijection DEF ExistsBijection
<1>4. A \cap B = {}
  BY SMT
<1>5. SUBSET (1 .. n + 1) = A \cup B
  <2>1. A \cup B \subseteq SUBSET (1 .. n + 1)
    <3>1. 1 .. n \subseteq 1 .. n + 1 /\ n + 1 \in 1 .. n + 1
      BY SMT
    <3>2. \A T \in A : T \subseteq 1 .. n + 1 /\ T \cup {n + 1} \subseteq 1 .. n + 1
      BY <3>1
    <3> QED  BY <3>2, ZenonT(40)
  <2>2. ASSUME NEW V \in SUBSET (1 .. n + 1) PROVE V \in A \cup B
    <3>1. CASE n + 1 \notin V
      <4>1. \A v \in V : v \in 1 .. n
        BY <3>1
      <4> QED  BY <4>1
    <3>2. CASE n + 1 \in V
      <4>1. \A v \in V \ {n + 1} : v \in 1 .. n
        OBVIOUS
      <4>2. V \ {n + 1} \in A
        BY <4>1
      <4>3. V = (V \ {n + 1}) \cup {n + 1}
        BY <3>2
      <4>4. V \in B
        BY <4>2, <4>3
      <4> QED  BY <4>4
    <3> QED  BY <3>1, <3>2
  <2> QED  BY <2>1, <2>2
<1>6. n + 1 \in Nat /\ Pow2(n) \in Nat
  BY Pow2Type
<1>7. Cardinality(SUBSET (1 .. n + 1)) = Pow2(n + 1)
  BY <1>6, Pow2Subsets
<1>8. Cardinality(A \cup B) = Cardinality(A) + Cardinality(B) - Cardinality(A \cap B)
  <2> HIDE DEF A, B
  <2> QED  BY <1>1, <1>3, FS_Union
<1>9. Cardinality(A \cap B) = 0
  BY <1>4, FS_EmptySet
<1>10. Cardinality(SUBSET (1 .. n + 1)) = Cardinality(A \cup B)
  BY <1>5
<1> HIDE DEF A, B
<1>11. Pow2(n + 1) = Cardinality(A \cup B)
  BY <1>7, <1>10
<1> QED  BY <1>1, <1>3, <1>6, <1>8, <1>9, <1>11

LEMMA Pow2Sum ==
  ASSUME NEW m \in Nat, NEW n \in Nat
  PROVE  Pow2(m + n) = Pow2(m) * Pow2(n)
<1> DEFINE T == {k \in Nat : Pow2(m + k) # Pow2(m) * Pow2(k)}
<1>1. ASSUME T # {} PROVE FALSE
  <2> DEFINE k == Min(T)
  <2>1. k \in T /\ \A j \in T : k <= j
    BY <1>1, LeastNat
  <2> HIDE DEF k
  <2>2. Pow2(m) \in Nat
    BY Pow2Type
  <2>3. k # 0
    <3>1. Pow2(m + 0) = Pow2(m) * Pow2(0)
      BY <2>2, Pow2Zero
    <3> QED  BY <2>1, <3>1
  <2>4. k - 1 \in Nat /\ ~ (k <= k - 1) /\ (k - 1) + 1 = k /\ m + k = (m + (k - 1)) + 1 /\ m + (k - 1) \in Nat
    BY <2>1, <2>3
  <2>5. Pow2(m + (k - 1)) = Pow2(m) * Pow2(k - 1)
    BY <2>1, <2>4
  <2>6. Pow2(m + k) = 2 * Pow2(m + (k - 1))
    BY <2>4, Pow2Next
  <2>7. Pow2(k) = 2 * Pow2(k - 1)
    BY <2>4, Pow2Next
  <2>8. Pow2(k - 1) \in Nat
    BY <2>4, Pow2Type
  <2>9. 2 * (Pow2(m) * Pow2(k - 1)) = Pow2(m) * (2 * Pow2(k - 1))
    BY <2>2, <2>8
  <2>10. Pow2(m + k) = Pow2(m) * Pow2(k)
    BY <2>5, <2>6, <2>7, <2>9
  <2> QED  BY <2>1, <2>10
<1> QED  BY <1>1

LEMMA Pow2Grows ==
  ASSUME NEW m \in Nat, NEW n \in Nat, m <= n
  PROVE  Pow2(m) <= Pow2(n)
<1>1. n - m \in Nat /\ m + (n - m) = n
  OBVIOUS
<1>2. Pow2(n) = Pow2(m) * Pow2(n - m)
  BY <1>1, Pow2Sum
<1> DEFINE a == Pow2(m)
           b == Pow2(n - m)
<1>3. a \in Nat /\ b \in Nat \ {0}
  BY <1>1, Pow2Type
<1> HIDE DEF a, b
<1>4. a <= a * b
  BY <1>3
<1> QED  BY <1>2, <1>4 DEF a, b

-----------------------------------------------------------------------------
(* Quotients.                                                              *)

LEMMA DivBounds ==
  ASSUME NEW s \in Nat, NEW c \in Nat \ {0}
  PROVE  s \div c \in Nat /\ (s \div c) * c <= s /\ s < (s \div c) * c + c
BY SMT

LEMMA DivIs ==
  ASSUME NEW s \in Nat, NEW c \in Nat \ {0}, NEW q \in Nat, q * c <= s, s < q * c + c
  PROVE  s \div c = q
<1> DEFINE p == s \div c
<1>1. p \in Nat /\ p * c <= s /\ s < p * c + c
  BY DivBounds
<1> HIDE DEF p
<1>2. ~ (p < q)
  <2>1. p < q => (p + 1) * c <= q * c
    BY <1>1
  <2>2. (p + 1) * c = p * c + c
    BY <1>1
  <2> QED  BY <1>1, <2>1, <2>2
<1>3. ~ (q < p)
  <2>1. q < p => (q + 1) * c <= p * c
    BY <1>1
  <2>2. (q + 1) * c = q * c + c
    BY <1>1
  <2> QED  BY <1>1, <2>1, <2>2
<1> QED  BY <1>1, <1>2, <1>3 DEF p

LEMMA DivMonotone ==
  ASSUME NEW r \in Nat, NEW s \in Nat, NEW c \in Nat \ {0}, r <= s
  PROVE  r \div c <= s \div c
<1> DEFINE p == r \div c
           q == s \div c
<1>1. p \in Nat /\ p * c <= r /\ r < p * c + c /\ q \in Nat /\ q * c <= s /\ s < q * c + c
  BY DivBounds
<1> HIDE DEF p, q
<1>2. q < p => (q + 1) * c <= p * c
  BY <1>1
<1>3. (q + 1) * c = q * c + c
  BY <1>1
<1>4. p <= q
  BY <1>1, <1>2, <1>3
<1> QED  BY <1>4 DEF p, q

LEMMA HalfAndBit ==
  ASSUME NEW b \in Nat, NEW r \in 0 .. 1
  PROVE  (2 * b + r) \div 2 = b /\ (2 * b + r) % 2 = r
OBVIOUS

LEMMA Halves ==
  ASSUME NEW n \in Nat
  PROVE  /\ n \div 2 \in Nat /\ n % 2 \in 0 .. 1
         /\ n = 2 * (n \div 2) \/ n = 2 * (n \div 2) + 1
         /\ n = 2 * (n \div 2) + (n % 2)
OBVIOUS

LEMMA DivTwice ==
  ASSUME NEW s \in Nat, NEW c \in Nat \ {0}
  PROVE  s \div c = 2 * (s \div (2 * c)) + ((s \div c) % 2)
<1> DEFINE a == s \div c
           b == a \div 2
<1>1. a \in Nat /\ a * c <= s /\ s < a * c + c
  BY DivBounds
<1> HIDE DEF a
<1>2. b \in Nat /\ (a = 2 * b \/ a = 2 * b + 1) /\ a = 2 * b + (a % 2)
  BY <1>1, Halves
<1> HIDE DEF b
<1>3. b * (2 * c) <= s /\ s < b * (2 * c) + 2 * c
  <2>1. (2 * b) * c = b * (2 * c)
    BY <1>2, Z3
  <2>2. (2 * b + 1) * c = (2 * b) * c + c
    BY <1>2, Z3
  <2>3. a * c = b * (2 * c) \/ a * c = b * (2 * c) + c
    BY <1>2, <2>1, <2>2
  <2>4. b * (2 * c) \in Nat /\ a * c \in Nat
    BY <1>1, <1>2
  <2> QED  BY <1>1, <2>3, <2>4
<1>4. s \div (2 * c) = b
  <2>1. 2 * c \in Nat \ {0}
    OBVIOUS
  <2> QED  BY <1>2, <1>3, <2>1, DivIs
<1>5. a = 2 * (s \div (2 * c)) + (a % 2)
  BY <1>2, <1>4
<1> QED  BY <1>5 DEF a

-----------------------------------------------------------------------------
(* Sizes and treebins.                                                     *)

(* The sizes of chunks that are not small.                                 *)
Sizes == Pow2(TreeShift) .. Pow2(WordBits) - 1

LEMMA ConstantTypes ==
  /\ TreeShift \in Nat /\ TreeShift >= 2 /\ WordBits \in Nat /\ WordBits > TreeShift
  /\ NTreeBins \in Nat /\ NTreeBins >= 2 /\ NTreeBins % 2 = 0
  /\ Pow2(TreeShift) \in Nat \ {0} /\ Pow2(WordBits) \in Nat \ {0}
  /\ LargeSizes \subseteq Sizes /\ Sizes \subseteq Nat
  /\ LargeSizes # {} /\ IsFiniteSet(LargeSizes) /\ IsFiniteSet(Chunks)
  /\ Null \notin Chunks /\ Root \notin Chunks /\ Null # Root
<1>1. /\ TreeShift \in Nat /\ TreeShift >= 2 /\ WordBits \in Nat /\ WordBits > TreeShift
      /\ NTreeBins \in Nat /\ NTreeBins >= 2 /\ NTreeBins % 2 = 0
      /\ LargeSizes \subseteq Sizes /\ LargeSizes # {} /\ IsFiniteSet(Chunks)
      /\ Null \notin Chunks /\ Root \notin Chunks /\ Null # Root
  BY TreeAssumption DEF Sizes
<1>2. Pow2(TreeShift) \in Nat \ {0} /\ Pow2(WordBits) \in Nat \ {0}
  BY <1>1, Pow2Type
<1>3. Sizes \subseteq Nat /\ IsFiniteSet(Sizes)
  <2> DEFINE a == Pow2(TreeShift)
             b == Pow2(WordBits) - 1
  <2>1. a \in Nat /\ b \in Int
    BY <1>2
  <2>2. Sizes = a .. b
    BY DEF Sizes
  <2> HIDE DEF a, b
  <2>3. IsFiniteSet(a .. b)
    BY <2>1, FS_Interval
  <2>4. a .. b \subseteq Nat
    BY <2>1
  <2> QED  BY <2>2, <2>3, <2>4
<1>4. IsFiniteSet(LargeSizes)
  BY <1>1, <1>3, FS_Subset
<1> QED  BY <1>1, <1>2, <1>3, <1>4

(* The position of the highest bit of a size, less TreeShift.              *)
Log(s) == CHOOSE n \in 0 .. WordBits : Pow2(n) <= s \div Pow2(TreeShift) /\ s \div Pow2(TreeShift) < Pow2(n + 1)

LEMMA LogExists ==
  ASSUME NEW s \in Sizes
  PROVE  /\ Log(s) \in 0 .. WordBits
         /\ Pow2(Log(s)) <= s \div Pow2(TreeShift)
         /\ s \div Pow2(TreeShift) < Pow2(Log(s) + 1)
<1> DEFINE c == Pow2(TreeShift)
           x == s \div c
           T == {n \in Nat : x < Pow2(n)}
           m == Min(T)
<1>1. c \in Nat \ {0} /\ s \in Nat /\ c <= s /\ s < Pow2(WordBits) /\ Pow2(WordBits) \in Nat
  BY ConstantTypes DEF Sizes
<1> HIDE DEF c
<1>2. x \in Nat /\ x * c <= s /\ s < x * c + c
  BY <1>1, DivBounds
<1> HIDE DEF x
<1>3. x # 0
  BY <1>1, <1>2
<1>4. x <= x * c
  BY <1>1, <1>2
<1>5. x * c \in Nat
  BY <1>1, <1>2
<1>6. x < Pow2(WordBits)
  BY <1>1, <1>2, <1>4, <1>5
<1>7. WordBits \in T /\ T \in SUBSET Nat
  BY <1>6, ConstantTypes
<1>8. m \in T /\ \A n \in T : m <= n
  BY <1>7, LeastNat
<1> HIDE DEF m
<1>9. m # 0
  BY <1>2, <1>3, <1>8, Pow2Zero
<1>10. m - 1 \in Nat /\ (m - 1) + 1 = m /\ m - 1 \in 0 .. WordBits /\ ~ (m <= m - 1)
  BY <1>7, <1>8, <1>9, ConstantTypes
<1>11. Pow2(m - 1) \in Nat
  BY <1>10, Pow2Type
<1>12. Pow2(m - 1) <= x
  BY <1>2, <1>8, <1>10, <1>11
<1>13. x < Pow2((m - 1) + 1)
  BY <1>8, <1>10
<1>14. \E n \in 0 .. WordBits : Pow2(n) <= x /\ x < Pow2(n + 1)
  BY <1>10, <1>12, <1>13
<1> QED  BY <1>14 DEF Log, x, c

(* A size is between two powers of two, and TreeIndex tells in which half. *)
LEMMA IndexOfSize ==
  ASSUME NEW s \in Sizes
  PROVE  \E k \in Nat, c \in Nat \ {0} :
           /\ c = Pow2(k + TreeShift - 1) /\ 2 * c = Pow2(k + TreeShift) /\ 4 * c = Pow2(k + TreeShift + 1)
           /\ 2 * c <= s /\ s < 4 * c /\ k + TreeShift < WordBits
           /\ TreeIndex(s) = IF 2 * k >= NTreeBins THEN NTreeBins - 1
                             ELSE IF s < 3 * c THEN 2 * k ELSE 2 * k + 1
<1> DEFINE k == Log(s)
           d == Pow2(TreeShift)
           c == Pow2(k + TreeShift - 1)
           x == s \div d
<1>1. d \in Nat \ {0} /\ s \in Nat /\ s < Pow2(WordBits) /\ Pow2(WordBits) \in Nat
      /\ TreeShift \in Nat /\ TreeShift >= 2 /\ WordBits \in Nat
  BY ConstantTypes DEF Sizes
<1>2. k \in Nat /\ Pow2(k) <= x /\ x < Pow2(k + 1)
  BY LogExists
<1>t. TreeIndex(s) = IF 2 * k >= NTreeBins THEN NTreeBins - 1
                     ELSE 2 * k + ((s \div Pow2(k + TreeShift - 1)) % 2)
  BY Zenon DEF TreeIndex, Log
<1> HIDE DEF k
<1>3. k + TreeShift - 1 \in Nat /\ k + TreeShift \in Nat /\ (k + TreeShift - 1) + 1 = k + TreeShift
      /\ k + 1 \in Nat /\ (k + 1) + TreeShift = (k + TreeShift) + 1
  BY <1>1, <1>2
<1>4. c \in Nat \ {0}
  BY <1>3, Pow2Type
<1>5. Pow2(k + TreeShift) = 2 * c
  BY <1>3, Pow2Next
<1>6. Pow2(k + TreeShift + 1) = 4 * c
  <2>1. Pow2(k + TreeShift + 1) = 2 * Pow2(k + TreeShift)
    BY <1>3, Pow2Next
  <2> HIDE DEF c
  <2> QED  BY <1>4, <1>5, <2>1
<1>7. Pow2(k + TreeShift) = Pow2(k) * d /\ Pow2(k + TreeShift + 1) = Pow2(k + 1) * d
  BY <1>1, <1>2, <1>3, Pow2Sum
<1>8. Pow2(k) \in Nat /\ Pow2(k + 1) \in Nat
  BY <1>2, <1>3, Pow2Type
<1> HIDE DEF d
<1>9. x \in Nat /\ x * d <= s /\ s < x * d + d
  BY <1>1, DivBounds
<1> HIDE DEF x
<1>10. Pow2(k) * d <= s
  <2> DEFINE p == Pow2(k)
  <2>1. p \in Nat /\ p <= x
    BY <1>2, <1>8
  <2> HIDE DEF p
  <2>2. p * d <= x * d /\ p * d \in Nat /\ x * d \in Nat
    BY <1>1, <1>9, <2>1
  <2>3. p * d <= s
    BY <1>1, <1>9, <2>2
  <2> QED  BY <2>3 DEF p
<1>11. s < Pow2(k + 1) * d
  <2> DEFINE p == Pow2(k + 1)
  <2>1. p \in Nat /\ x + 1 <= p
    BY <1>2, <1>8, <1>9
  <2> HIDE DEF p
  <2>2. (x + 1) * d <= p * d /\ (x + 1) * d = x * d + d /\ p * d \in Nat /\ x * d \in Nat
    BY <1>1, <1>9, <2>1
  <2>3. s < p * d
    BY <1>1, <1>9, <2>2
  <2> QED  BY <2>3 DEF p
<1> HIDE DEF c
<1>12. 2 * c <= s /\ s < 4 * c
  BY <1>5, <1>6, <1>7, <1>10, <1>11
<1>13. k + TreeShift < WordBits
  <2> SUFFICES ASSUME WordBits <= k + TreeShift PROVE FALSE
    BY <1>1, <1>2
  <2>1. Pow2(WordBits) <= Pow2(k + TreeShift)
    BY <1>1, <1>3, Pow2Grows
  <2> QED  BY <1>1, <1>4, <1>5, <1>12, <2>1
<1>14. s \div c = IF s < 3 * c THEN 2 ELSE 3
  <2>1. CASE s < 3 * c
    <3>1. 2 * c <= s /\ s < 2 * c + c
      BY <1>1, <1>4, <1>12, <2>1
    <3> QED  BY <1>1, <1>4, <2>1, <3>1, DivIs
  <2>2. CASE ~ (s < 3 * c)
    <3>1. 3 * c <= s /\ s < 3 * c + c
      BY <1>1, <1>4, <1>12, <2>2
    <3> QED  BY <1>1, <1>4, <2>2, <3>1, DivIs
  <2> QED  BY <2>1, <2>2
<1>15. (s \div c) % 2 = IF s < 3 * c THEN 0 ELSE 1
  <2>1. 2 % 2 = 0 /\ 3 % 2 = 1
    OBVIOUS
  <2> QED  BY <1>14, <2>1
<1>16. TreeIndex(s) = IF 2 * k >= NTreeBins THEN NTreeBins - 1
                      ELSE IF s < 3 * c THEN 2 * k ELSE 2 * k + 1
  BY <1>t, <1>2, <1>15 DEF c
<1>17. c = Pow2(k + TreeShift - 1)
  BY DEF c
<1>18. 2 * c = Pow2(k + TreeShift) /\ 4 * c = Pow2(k + TreeShift + 1)
  BY <1>5, <1>6
<1> HIDE DEF c
<1> QED  BY <1>2, <1>4, <1>12, <1>13, <1>16, <1>17, <1>18

LEMMA MinSizes ==
  ASSUME NEW j \in Nat
  PROVE  /\ MinSizeForTreeIndex(2 * j) = Pow2(j + TreeShift)
         /\ MinSizeForTreeIndex(2 * j + 1) = Pow2(j + TreeShift) + Pow2(j + TreeShift - 1)
<1>1. (2 * j) \div 2 = j /\ (2 * j) % 2 = 0 /\ (2 * j + 1) \div 2 = j /\ (2 * j + 1) % 2 = 1
  BY HalfAndBit
<1>2. j + TreeShift \in Nat /\ j + TreeShift - 1 \in Nat
  BY ConstantTypes
<1>3. Pow2(j + TreeShift) \in Nat /\ Pow2(j + TreeShift - 1) \in Nat
  BY <1>2, Pow2Type
<1>4. MinSizeForTreeIndex(2 * j) = Pow2(j + TreeShift) + 0 * Pow2(j + TreeShift - 1)
  BY <1>1 DEF MinSizeForTreeIndex
<1>5. MinSizeForTreeIndex(2 * j + 1) = Pow2(j + TreeShift) + 1 * Pow2(j + TreeShift - 1)
  BY <1>1 DEF MinSizeForTreeIndex
<1> QED  BY <1>3, <1>4, <1>5

LEMMA MinSizeNext ==
  ASSUME NEW i \in Nat
  PROVE  /\ MinSizeForTreeIndex(i) \in Nat
         /\ MinSizeForTreeIndex(i) <= MinSizeForTreeIndex(i + 1)
<1> DEFINE j == i \div 2
           c == Pow2(j + TreeShift - 1)
<1>1. j \in Nat /\ (i = 2 * j \/ i = 2 * j + 1)
  BY Halves
<1> HIDE DEF j
<1>2. j + TreeShift - 1 \in Nat /\ (j + TreeShift - 1) + 1 = j + TreeShift /\ j + TreeShift \in Nat
      /\ j + 1 \in Nat /\ (j + 1) + TreeShift = (j + TreeShift) + 1 /\ (2 * j + 1) + 1 = 2 * (j + 1)
  BY <1>1, ConstantTypes
<1>3. c \in Nat
  BY <1>2, Pow2Type
<1>4. Pow2(j + TreeShift) = 2 * c
  BY <1>2, Pow2Next
<1>5. Pow2((j + TreeShift) + 1) = 2 * Pow2(j + TreeShift)
  BY <1>2, Pow2Next
<1>6. MinSizeForTreeIndex(2 * j) = 2 * c /\ MinSizeForTreeIndex(2 * j + 1) = 2 * c + c
  BY <1>1, <1>4, MinSizes
<1>7. MinSizeForTreeIndex(2 * (j + 1)) = Pow2((j + TreeShift) + 1)
  BY <1>2, MinSizes
<1>8. MinSizeForTreeIndex((2 * j + 1) + 1) = 2 * Pow2(j + TreeShift)
  BY <1>2, <1>5, <1>7
<1> HIDE DEF c
<1>9. CASE i = 2 * j
  BY <1>3, <1>6, <1>9
<1>10. CASE i = 2 * j + 1
  BY <1>3, <1>4, <1>6, <1>8, <1>10
<1> QED  BY <1>1, <1>9, <1>10

LEMMA MinSizeGrows ==
  ASSUME NEW i \in Nat, NEW j \in Nat, i <= j
  PROVE  MinSizeForTreeIndex(i) <= MinSizeForTreeIndex(j)
<1> DEFINE T == {n \in Nat : ~ (MinSizeForTreeIndex(i) <= MinSizeForTreeIndex(i + n))}
<1>1. ASSUME T # {} PROVE FALSE
  <2> DEFINE k == Min(T)
  <2>1. k \in T /\ \A n \in T : k <= n
    BY <1>1, LeastNat
  <2> HIDE DEF k
  <2>2. MinSizeForTreeIndex(i) \in Nat
    BY MinSizeNext
  <2>3. k # 0
    <3>1. i + 0 = i
      OBVIOUS
    <3> QED  BY <2>1, <2>2, <3>1
  <2>4. k - 1 \in Nat /\ ~ (k <= k - 1) /\ i + (k - 1) \in Nat /\ (i + (k - 1)) + 1 = i + k /\ i + k \in Nat
    BY <2>1, <2>3
  <2>5. MinSizeForTreeIndex(i) <= MinSizeForTreeIndex(i + (k - 1))
    BY <2>1, <2>4
  <2>6. /\ MinSizeForTreeIndex(i + (k - 1)) \in Nat /\ MinSizeForTreeIndex(i + k) \in Nat
        /\ MinSizeForTreeIndex(i + (k - 1)) <= MinSizeForTreeIndex(i + k)
    <3>1. /\ MinSizeForTreeIndex(i + (k - 1)) \in Nat
          /\ MinSizeForTreeIndex(i + (k - 1)) <= MinSizeForTreeIndex((i + (k - 1)) + 1)
      BY <2>4, MinSizeNext
    <3>2. MinSizeForTreeIndex(i + k) \in Nat
      BY <2>4, MinSizeNext
    <3> QED  BY <2>4, <3>1, <3>2
  <2>7. MinSizeForTreeIndex(i) <= MinSizeForTreeIndex(i + k)
    BY <2>2, <2>5, <2>6
  <2> QED  BY <2>1, <2>7
<1>2. j - i \in Nat /\ i + (j - i) = j
  OBVIOUS
<1> QED  BY <1>1, <1>2

(* compute_tree_index and minsize_for_tree_index agree.                    *)
LEMMA BinOfSize ==
  ASSUME NEW s \in Sizes
  PROVE  /\ TreeIndex(s) \in TreeIndices
         /\ MinSizeForTreeIndex(TreeIndex(s)) <= s
         /\ TreeIndex(s) = NTreeBins - 1 \/ s < MinSizeForTreeIndex(TreeIndex(s) + 1)
<1>1. PICK k \in Nat, c \in Nat \ {0} :
        /\ c = Pow2(k + TreeShift - 1) /\ 2 * c = Pow2(k + TreeShift) /\ 4 * c = Pow2(k + TreeShift + 1)
        /\ 2 * c <= s /\ s < 4 * c /\ k + TreeShift < WordBits
        /\ TreeIndex(s) = IF 2 * k >= NTreeBins THEN NTreeBins - 1
                          ELSE IF s < 3 * c THEN 2 * k ELSE 2 * k + 1
  BY IndexOfSize
<1>2. s \in Nat
  BY ConstantTypes
<1>3. MinSizeForTreeIndex(2 * k) = 2 * c /\ MinSizeForTreeIndex(2 * k + 1) = 2 * c + c
  BY <1>1, MinSizes
<1>4. MinSizeForTreeIndex(2 * (k + 1)) = 4 * c
  <2>1. k + 1 \in Nat /\ (k + 1) + TreeShift = k + TreeShift + 1
    BY ConstantTypes
  <2> QED  BY <1>1, <2>1, MinSizes
<1>5. CASE 2 * k >= NTreeBins
  <2>1. NTreeBins - 1 \in Nat /\ NTreeBins - 1 <= 2 * k /\ TreeIndex(s) = NTreeBins - 1
    BY <1>1, <1>5, ConstantTypes
  <2>2. MinSizeForTreeIndex(NTreeBins - 1) <= MinSizeForTreeIndex(2 * k)
    BY <2>1, MinSizeGrows
  <2>3. MinSizeForTreeIndex(NTreeBins - 1) \in Nat
    BY <2>1, MinSizeNext
  <2> QED  BY <1>1, <1>2, <1>3, <2>1, <2>2, <2>3 DEF TreeIndices
<1>6. CASE 2 * k < NTreeBins
  <2>1. 2 * k + 1 < NTreeBins
    <3>1. \A n \in Nat : n % 2 = 0 /\ 2 * k < n => 2 * k + 1 < n
      BY Halves
    <3> QED  BY <1>6, <3>1, ConstantTypes
  <2>2. (2 * k + 1) + 1 = 2 * (k + 1)
    OBVIOUS
  <2>3. CASE s < 3 * c
    <3>1. TreeIndex(s) = 2 * k
      BY <1>1, <1>6, <2>3, ConstantTypes
    <3>2. s < MinSizeForTreeIndex(2 * k + 1)
      BY <1>2, <1>3, <2>3
    <3> QED  BY <1>1, <1>3, <2>1, <3>1, <3>2, ConstantTypes DEF TreeIndices
  <2>4. CASE ~ (s < 3 * c)
    <3>1. TreeIndex(s) = 2 * k + 1
      BY <1>1, <1>6, <2>4, ConstantTypes
    <3>2. MinSizeForTreeIndex(2 * k + 1) <= s
      BY <1>2, <1>3, <2>4
    <3>3. s < MinSizeForTreeIndex((2 * k + 1) + 1)
      BY <1>1, <1>4, <2>2
    <3> QED  BY <2>1, <3>1, <3>2, <3>3, ConstantTypes DEF TreeIndices
  <2> QED  BY <2>3, <2>4
<1> QED  BY <1>5, <1>6, ConstantTypes

(* The bins are in the order of their sizes.                               *)
LEMMA BinsOrdered ==
  ASSUME NEW r \in Sizes, NEW s \in Sizes, TreeIndex(r) < TreeIndex(s)
  PROVE  r < s
<1>1. /\ TreeIndex(r) \in 0 .. NTreeBins - 1 /\ TreeIndex(s) \in 0 .. NTreeBins - 1
      /\ MinSizeForTreeIndex(TreeIndex(s)) <= s
      /\ TreeIndex(r) = NTreeBins - 1 \/ r < MinSizeForTreeIndex(TreeIndex(r) + 1)
  BY BinOfSize DEF TreeIndices
<1>2. r < MinSizeForTreeIndex(TreeIndex(r) + 1)
  BY <1>1, ConstantTypes
<1>3. TreeIndex(r) + 1 \in Nat /\ TreeIndex(s) \in Nat /\ TreeIndex(r) + 1 <= TreeIndex(s)
  BY <1>1, ConstantTypes
<1>4. MinSizeForTreeIndex(TreeIndex(r) + 1) <= MinSizeForTreeIndex(TreeIndex(s))
  BY <1>3, MinSizeGrows
<1>5. MinSizeForTreeIndex(TreeIndex(r) + 1) \in Nat /\ MinSizeForTreeIndex(TreeIndex(s)) \in Nat
  BY <1>3, MinSizeNext
<1>6. r \in Nat /\ s \in Nat
  BY ConstantTypes
<1> QED  BY <1>1, <1>2, <1>4, <1>5, <1>6

-----------------------------------------------------------------------------
(* The bits of a size that bin i does not fix, from the highest one.  The  *)
(* first d of them are the way to a node at depth d.                       *)

Bits(i) == IF i = NTreeBins - 1 THEN WordBits ELSE i \div 2 + TreeShift - 1

Prefix(s, i, d) == s \div Pow2(Bits(i) - d)

LEMMA BitsType ==
  ASSUME NEW i \in TreeIndices
  PROVE  Bits(i) \in Nat \ {0}
<1>1. i \in Nat
  BY DEF TreeIndices
<1>2. i \div 2 \in Nat
  BY <1>1, Halves
<1> QED  BY <1>2, ConstantTypes DEF Bits

LEMMA BitsOfSize ==
  ASSUME NEW s \in Sizes
  PROVE  Bits(TreeIndex(s)) <= WordBits
<1>1. PICK k \in Nat, c \in Nat \ {0} :
        /\ k + TreeShift < WordBits
        /\ TreeIndex(s) = IF 2 * k >= NTreeBins THEN NTreeBins - 1
                          ELSE IF s < 3 * c THEN 2 * k ELSE 2 * k + 1
  BY IndexOfSize
<1>2. CASE TreeIndex(s) = NTreeBins - 1
  BY <1>2, ConstantTypes DEF Bits
<1>3. CASE TreeIndex(s) # NTreeBins - 1
  <2>1. TreeIndex(s) = 2 * k + 0 \/ TreeIndex(s) = 2 * k + 1
    BY <1>1, <1>3
  <2>2. TreeIndex(s) \div 2 = k
    BY <2>1, HalfAndBit
  <2> QED  BY <1>1, <1>3, <2>2, ConstantTypes DEF Bits
<1> QED  BY <1>2, <1>3

LEMMA PrefixType ==
  ASSUME NEW s \in Sizes, NEW i \in TreeIndices, NEW d \in 0 .. Bits(i)
  PROVE  Prefix(s, i, d) \in Nat
<1>1. Bits(i) - d \in Nat /\ s \in Nat
  BY BitsType, ConstantTypes
<1>2. Pow2(Bits(i) - d) \in Nat \ {0}
  BY <1>1, Pow2Type
<1> QED  BY <1>1, <1>2, DivBounds DEF Prefix

(* Chunks of one bin agree on what the bin fixes.                          *)
LEMMA PrefixAtRoot ==
  ASSUME NEW r \in Sizes, NEW s \in Sizes, TreeIndex(r) = TreeIndex(s)
  PROVE  Prefix(r, TreeIndex(s), 0) = Prefix(s, TreeIndex(s), 0)
<1> DEFINE i == TreeIndex(s)
           b == Bits(i)
<1>1. i \in TreeIndices /\ i = TreeIndex(r) /\ i \in Nat
  BY BinOfSize DEF TreeIndices
<1>2. b \in Nat /\ b - 0 = b
  BY <1>1, BitsType
<1>3. CASE i = NTreeBins - 1
  <2>1. \A x \in Sizes : x \div Pow2(WordBits) = 0
    <3> SUFFICES ASSUME NEW x \in Sizes PROVE x \div Pow2(WordBits) = 0
      OBVIOUS
    <3> DEFINE w == Pow2(WordBits)
    <3>1. x \in Nat /\ w \in Nat \ {0} /\ x < w
      BY ConstantTypes DEF Sizes
    <3> HIDE DEF w
    <3>2. 0 * w <= x /\ x < 0 * w + w
      BY <3>1
    <3>3. x \div w = 0
      BY <3>1, <3>2, DivIs
    <3> QED  BY <3>3 DEF w
  <2>2. b = WordBits
    BY <1>3 DEF Bits
  <2> QED  BY <1>2, <2>1, <2>2 DEF Prefix
<1>4. CASE i # NTreeBins - 1
  <2>1. \A x \in Sizes : TreeIndex(x) = i => x \div Pow2(b) = 2 + (i % 2)
    <3> SUFFICES ASSUME NEW x \in Sizes, TreeIndex(x) = i PROVE x \div Pow2(b) = 2 + (i % 2)
      OBVIOUS
    <3>1. PICK k \in Nat, c \in Nat \ {0} :
            /\ c = Pow2(k + TreeShift - 1) /\ 2 * c <= x /\ x < 4 * c
            /\ i = IF 2 * k >= NTreeBins THEN NTreeBins - 1
                   ELSE IF x < 3 * c THEN 2 * k ELSE 2 * k + 1
      BY IndexOfSize
    <3> HIDE DEF i, b
    <3>2. x \in Nat
      BY ConstantTypes
    <3>3. (x < 3 * c /\ i = 2 * k + 0) \/ (3 * c <= x /\ i = 2 * k + 1)
      BY <1>4, <3>1, <3>2
    <3>h. (2 * k + 0) \div 2 = k /\ (2 * k + 0) % 2 = 0 /\ (2 * k + 1) \div 2 = k /\ (2 * k + 1) % 2 = 1
      BY HalfAndBit
    <3>4. i \div 2 = k /\ ((x < 3 * c /\ i % 2 = 0) \/ (3 * c <= x /\ i % 2 = 1))
      BY <3>3, <3>h
    <3>5. Pow2(b) = c
      BY <1>4, <3>1, <3>4 DEF b, Bits
    <3>6. CASE x < 3 * c /\ i % 2 = 0
      <4>1. 2 * c <= x /\ x < 2 * c + c
        BY <3>1, <3>2, <3>6
      <4>2. x \div c = 2
        BY <3>2, <4>1, DivIs
      <4> QED  BY <3>5, <3>6, <4>2
    <3>7. CASE 3 * c <= x /\ i % 2 = 1
      <4>1. 3 * c <= x /\ x < 3 * c + c
        BY <3>1, <3>2, <3>7
      <4>2. x \div c = 3
        BY <3>2, <4>1, DivIs
      <4> QED  BY <3>5, <3>7, <4>2
    <3> QED  BY <3>4, <3>6, <3>7
  <2>2. r \div Pow2(b) = s \div Pow2(b)
    BY <1>1, <2>1
  <2> QED  BY <1>2, <2>2 DEF Prefix
<1> QED  BY <1>3, <1>4

(* One level down a prefix has one bit more, the branch.                   *)
LEMMA PrefixNext ==
  ASSUME NEW s \in Sizes, NEW i \in TreeIndices, NEW d \in Nat, d < Bits(i)
  PROVE  /\ Branch(s, i, d) \in {0, 1}
         /\ Prefix(s, i, d + 1) = 2 * Prefix(s, i, d) + Branch(s, i, d)
<1> DEFINE b == Bits(i)
           c == Pow2(b - (d + 1))
<1>1. b \in Nat /\ s \in Nat /\ b - (d + 1) \in Nat /\ (b - (d + 1)) + 1 = b - d /\ (b - 1) - d = b - (d + 1)
      /\ ~ (d > b - 1)
  BY BitsType, ConstantTypes
<1>2. c \in Nat \ {0}
  BY <1>1, Pow2Type
<1>3. Pow2(b - d) = 2 * c
  BY <1>1, Pow2Next
<1>4. Branch(s, i, d) = (s \div c) % 2
  <2>1. (IF i = NTreeBins - 1 THEN WordBits - 1 ELSE i \div 2 + TreeShift - 2) = b - 1
    <3>1. i \in Nat
      BY DEF TreeIndices
    <3>2. i \div 2 \in Nat
      BY <3>1, Halves
    <3> QED  BY <3>2, ConstantTypes DEF Bits
  <2>2. Branch(s, i, d) = IF d > b - 1 THEN 0 ELSE (s \div Pow2((b - 1) - d)) % 2
    BY <2>1 DEF Branch
  <2> QED  BY <1>1, <2>2
<1> HIDE DEF c
<1>5. s \div c = 2 * (s \div (2 * c)) + ((s \div c) % 2)
  BY <1>1, <1>2, DivTwice
<1>6. s \div c \in Nat
  BY <1>1, <1>2, DivBounds
<1>7. (s \div c) % 2 \in 0 .. 1
  BY <1>6, Halves
<1>8. Prefix(s, i, d + 1) = s \div c /\ Prefix(s, i, d) = s \div (2 * c)
  BY <1>3 DEF Prefix, c
<1> QED  BY <1>4, <1>5, <1>7, <1>8

(* All bits together are the size.                                         *)
LEMMA PrefixAll ==
  ASSUME NEW s \in Sizes, NEW i \in TreeIndices
  PROVE  Prefix(s, i, Bits(i)) = s
<1>1. Bits(i) - Bits(i) = 0 /\ s \in Nat
  BY BitsType, ConstantTypes
<1>2. s \div 1 = s
  BY <1>1, DivIs
<1> QED  BY <1>1, <1>2, Pow2Zero DEF Prefix

(* Sizes with the same prefix agree on a shorter one.                      *)
LEMMA PrefixShorter ==
  ASSUME NEW r \in Sizes, NEW s \in Sizes, NEW i \in TreeIndices,
         NEW d \in 0 .. Bits(i), NEW e \in 0 .. d, Prefix(r, i, d) = Prefix(s, i, d)
  PROVE  Prefix(r, i, e) = Prefix(s, i, e)
<1> DEFINE T == {k \in 0 .. d : Prefix(r, i, d - k) # Prefix(s, i, d - k)}
<1>0. d \in Nat /\ e \in Nat /\ Bits(i) \in Nat /\ d <= Bits(i) /\ e <= d
  BY BitsType
<1>1. ASSUME T # {} PROVE FALSE
  <2> DEFINE k == Min(T)
  <2>0. T \in SUBSET Nat
    BY <1>0
  <2>1. k \in T /\ \A n \in T : k <= n
    BY <1>1, <2>0, LeastNat
  <2> HIDE DEF k
  <2>2. k # 0
    <3>1. d - 0 = d
      BY <1>0
    <3> QED  BY <2>1, <3>1
  <2>3. k \in Nat /\ k <= d
    BY <1>0, <2>1
  <2>4. k - 1 \in 0 .. d /\ ~ (k <= k - 1) /\ d - k \in Nat /\ d - k < Bits(i) /\ (d - k) + 1 = d - (k - 1)
    BY <1>0, <2>2, <2>3
  <2>5. Prefix(r, i, d - (k - 1)) = Prefix(s, i, d - (k - 1))
    BY <2>1, <2>4
  <2>6. Branch(r, i, d - k) \in {0, 1} /\ Prefix(r, i, (d - k) + 1) = 2 * Prefix(r, i, d - k) + Branch(r, i, d - k)
    BY <2>4, PrefixNext
  <2>7. Branch(s, i, d - k) \in {0, 1} /\ Prefix(s, i, (d - k) + 1) = 2 * Prefix(s, i, d - k) + Branch(s, i, d - k)
    BY <2>4, PrefixNext
  <2>8. d - k \in 0 .. Bits(i)
    BY <1>0, <2>4
  <2>9. Prefix(r, i, d - k) \in Nat /\ Prefix(s, i, d - k) \in Nat
    BY <2>8, PrefixType
  <2>10. \A p, q \in Nat : \A a, b \in {0, 1} : 2 * p + a = 2 * q + b => p = q
    OBVIOUS
  <2>11. 2 * Prefix(r, i, d - k) + Branch(r, i, d - k) = 2 * Prefix(s, i, d - k) + Branch(s, i, d - k)
    BY <2>4, <2>5, <2>6, <2>7
  <2>12. Prefix(r, i, d - k) = Prefix(s, i, d - k)
    BY <2>6, <2>7, <2>9, <2>10, <2>11
  <2> QED  BY <2>1, <2>12
<1>2. d - e \in 0 .. d /\ d - (d - e) = e
  BY <1>0
<1> QED  BY <1>1, <1>2

(* A smaller prefix belongs to a smaller size.                             *)
LEMMA PrefixOrder ==
  ASSUME NEW r \in Sizes, NEW s \in Sizes, NEW i \in TreeIndices,
         NEW d \in 0 .. Bits(i), Prefix(r, i, d) < Prefix(s, i, d)
  PROVE  r < s
<1>1. r \in Nat /\ s \in Nat /\ Bits(i) - d \in Nat
  BY BitsType, ConstantTypes
<1>2. Pow2(Bits(i) - d) \in Nat \ {0}
  BY <1>1, Pow2Type
<1> DEFINE c == Pow2(Bits(i) - d)
<1>3. s <= r => Prefix(s, i, d) <= Prefix(r, i, d)
  <2>1. c \in Nat \ {0}
    BY <1>2
  <2> HIDE DEF c
  <2>2. s <= r => s \div c <= r \div c
    BY <1>1, <2>1, DivMonotone
  <2> QED  BY <2>2 DEF Prefix, c
<1>4. Prefix(r, i, d) \in Nat /\ Prefix(s, i, d) \in Nat
  BY PrefixType
<1> QED  BY <1>1, <1>3, <1>4

(* Below one node the left branch has the smaller sizes.                   *)
LEMMA LeftIsSmaller ==
  ASSUME NEW r \in Sizes, NEW s \in Sizes, NEW i \in TreeIndices, NEW d \in Nat, d < Bits(i),
         Prefix(r, i, d) = Prefix(s, i, d), Branch(r, i, d) = 0, Branch(s, i, d) = 1
  PROVE  r < s /\ Prefix(r, i, d + 1) < Prefix(s, i, d + 1)
<1>1. d \in 0 .. Bits(i) /\ d + 1 \in 0 .. Bits(i)
  BY BitsType
<1>2. Prefix(r, i, d + 1) = 2 * Prefix(r, i, d) + 0 /\ Prefix(s, i, d + 1) = 2 * Prefix(s, i, d) + 1
  BY PrefixNext
<1>3. Prefix(r, i, d) \in Nat
  BY <1>1, PrefixType
<1>4. Prefix(r, i, d + 1) < Prefix(s, i, d + 1)
  BY <1>2, <1>3
<1> QED  BY <1>1, <1>4, PrefixOrder

-----------------------------------------------------------------------------
(* Forests.  S are the chunks that are in trees, D their depths.  A link   *)
(* leads one level down, along the branch that the bits of the size say.   *)

NodeType ==
  [size : LargeSizes, index : TreeIndices, fd : Chunks, bk : Chunks,
   child : [{0, 1} -> Chunks \cup {Null}], parent : Chunks \cup {Null, Root}]

BinsType(u) ==
  u \in [map : SUBSET TreeIndices, root : [TreeIndices -> Chunks \cup {Null}],
         node : UNION {[N -> NodeType] : N \in SUBSET Chunks}]

Link(u, D, S, x, b) ==
  LET c == u.node[x].child[b]
      i == u.node[x].index
  IN  /\ c \in S /\ u.node[c].parent = x /\ u.node[c].index = i
      /\ D[c] = D[x] + 1 /\ D[x] < Bits(i)
      /\ Prefix(u.node[c].size, i, D[x]) = Prefix(u.node[x].size, i, D[x])
      /\ Branch(u.node[c].size, i, D[x]) = b

AtRoot(u, D, x) ==
  u.node[x].parent = Root /\ u.root[u.node[x].index] = x /\ D[x] = 0

BelowParent(u, S, x) ==
  u.node[x].parent \in S /\ \E b \in {0, 1} : u.node[u.node[x].parent].child[b] = x

Forest(u, D, S) ==
  /\ BinsType(u) /\ D \in [Chunks -> Nat] /\ S \subseteq DOMAIN u.node
  /\ \A x \in DOMAIN u.node : u.node[x].index = TreeIndex(u.node[x].size)
  /\ \A i \in TreeIndices : u.root[i] # Null =>
       u.root[i] \in S /\ u.node[u.root[i]].parent = Root /\ u.node[u.root[i]].index = i
  /\ \A x \in S : AtRoot(u, D, x) \/ BelowParent(u, S, x)
  /\ \A x \in S, b \in {0, 1} : u.node[x].child[b] # Null => Link(u, D, S, x, b)

(* The chunks of the tree below x, with x.                                 *)
Below(u, D, S, x) ==
  LET i == u.node[x].index
  IN  {y \in S : /\ u.node[y].index = i /\ D[x] <= D[y]
                 /\ Prefix(u.node[y].size, i, D[x]) = Prefix(u.node[x].size, i, D[x])}

LEMMA NodeTypes ==
  ASSUME NEW u, BinsType(u)
  PROVE  /\ DOMAIN u.node \subseteq Chunks /\ u.node \in [DOMAIN u.node -> NodeType]
         /\ u.root \in [TreeIndices -> Chunks \cup {Null}] /\ u.map \subseteq TreeIndices
         /\ \A x \in DOMAIN u.node :
              /\ u.node[x].size \in LargeSizes /\ u.node[x].size \in Sizes /\ u.node[x].size \in Nat
              /\ u.node[x].index \in TreeIndices /\ u.node[x].fd \in Chunks /\ u.node[x].bk \in Chunks
              /\ u.node[x].child \in [{0, 1} -> Chunks \cup {Null}]
              /\ u.node[x].parent \in Chunks \cup {Null, Root}
<1>1. PICK N \in SUBSET Chunks : u.node \in [N -> NodeType]
  BY DEF BinsType
<1>2. DOMAIN u.node = N
  BY <1>1
<1>3. \A x \in N : u.node[x] \in NodeType
  BY <1>1
<1>4. \A n \in NodeType : /\ n.size \in LargeSizes /\ n.index \in TreeIndices /\ n.fd \in Chunks /\ n.bk \in Chunks
                          /\ n.child \in [{0, 1} -> Chunks \cup {Null}]
                          /\ n.parent \in Chunks \cup {Null, Root}
  BY DEF NodeType
<1>5. u.root \in [TreeIndices -> Chunks \cup {Null}] /\ u.map \subseteq TreeIndices
  BY DEF BinsType
<1>6. \A s \in LargeSizes : s \in Sizes /\ s \in Nat
  BY ConstantTypes
<1> HIDE DEF NodeType
<1> QED  BY <1>1, <1>2, <1>3, <1>4, <1>5, <1>6

LEMMA ForestNode ==
  ASSUME NEW u, NEW D, NEW S, Forest(u, D, S), NEW x \in S
  PROVE  /\ x \in Chunks /\ x \in DOMAIN u.node /\ D[x] \in Nat
         /\ u.node[x].size \in LargeSizes /\ u.node[x].size \in Sizes /\ u.node[x].size \in Nat
         /\ u.node[x].index \in TreeIndices /\ u.node[x].index = TreeIndex(u.node[x].size)
         /\ \A b \in {0, 1} : u.node[x].child[b] \in Chunks \cup {Null}
         /\ AtRoot(u, D, x) \/ BelowParent(u, S, x)
         /\ \A b \in {0, 1} : u.node[x].child[b] # Null => Link(u, D, S, x, b)
<1>1. BinsType(u) /\ x \in DOMAIN u.node /\ D \in [Chunks -> Nat]
  BY DEF Forest
<1>2. x \in Chunks
  BY <1>1, NodeTypes
<1>3. /\ u.node[x].size \in LargeSizes /\ u.node[x].size \in Sizes /\ u.node[x].size \in Nat
      /\ u.node[x].index \in TreeIndices
      /\ u.node[x].child \in [{0, 1} -> Chunks \cup {Null}]
  BY <1>1, NodeTypes
<1>4. u.node[x].index = TreeIndex(u.node[x].size)
  BY <1>1 DEF Forest
<1>5. /\ AtRoot(u, D, x) \/ BelowParent(u, S, x)
      /\ \A b \in {0, 1} : u.node[x].child[b] # Null => Link(u, D, S, x, b)
  BY DEF Forest
<1> QED  BY <1>1, <1>2, <1>3, <1>4, <1>5

(* A chunk that is not a root hangs from its parent.                       *)
LEMMA ParentLink ==
  ASSUME NEW u, NEW D, NEW S, Forest(u, D, S), NEW x \in S, ~ AtRoot(u, D, x)
  PROVE  \E b \in {0, 1} :
           LET p == u.node[x].parent
           IN  /\ p \in S /\ p # Null /\ u.node[p].child[b] = x /\ u.node[p].index = u.node[x].index
               /\ D[x] = D[p] + 1 /\ D[p] < Bits(u.node[x].index)
               /\ Prefix(u.node[x].size, u.node[x].index, D[p]) = Prefix(u.node[p].size, u.node[x].index, D[p])
               /\ Branch(u.node[x].size, u.node[x].index, D[p]) = b
<1> DEFINE p == u.node[x].parent
<1>1. BelowParent(u, S, x)
  BY ForestNode
<1>2. PICK b \in {0, 1} : p \in S /\ u.node[p].child[b] = x
  BY <1>1 DEF BelowParent
<1>3. x # Null /\ p # Null
  BY <1>2, ForestNode, ConstantTypes
<1>4. Link(u, D, S, p, b)
  BY <1>2, <1>3, ForestNode
<1> QED  BY <1>2, <1>3, <1>4 DEF Link

(* The deepest nodes are as deep as a size has bits.                       *)
LEMMA DepthBound ==
  ASSUME NEW u, NEW D, NEW S, Forest(u, D, S), NEW x \in S
  PROVE  D[x] \in 0 .. Bits(u.node[x].index) /\ Bits(u.node[x].index) \in Nat /\ Bits(u.node[x].index) <= WordBits
<1> DEFINE i == u.node[x].index
<1>1. D[x] \in Nat /\ i \in TreeIndices
  BY ForestNode
<1>2. Bits(i) \in Nat
  BY <1>1, BitsType
<1>3. ASSUME AtRoot(u, D, x) PROVE D[x] <= Bits(i)
  BY <1>1, <1>2, <1>3 DEF AtRoot
<1>4. ASSUME ~ AtRoot(u, D, x) PROVE D[x] <= Bits(i)
  <2>1. PICK p \in S : D[x] = D[p] + 1 /\ D[p] < Bits(i)
    BY <1>4, ParentLink
  <2>2. D[p] \in Nat
    BY ForestNode
  <2> QED  BY <1>1, <1>2, <2>1, <2>2
<1>5. Bits(i) <= WordBits
  BY ForestNode, BitsOfSize
<1> HIDE DEF i
<1>6. D[x] \in 0 .. Bits(i)
  BY <1>1, <1>2, <1>3, <1>4
<1> QED  BY <1>2, <1>5, <1>6 DEF i

(* There is one node at each place.                                        *)
LEMMA PlaceUnique ==
  ASSUME NEW u, NEW D, NEW S, Forest(u, D, S), NEW x \in S, NEW y \in S,
         u.node[x].index = u.node[y].index, D[x] = D[y],
         Prefix(u.node[x].size, u.node[x].index, D[x]) = Prefix(u.node[y].size, u.node[x].index, D[x])
  PROVE  x = y
<1> DEFINE Twins(v, w) ==
             /\ u.node[v].index = u.node[w].index /\ D[v] = D[w]
             /\ Prefix(u.node[v].size, u.node[v].index, D[v]) = Prefix(u.node[w].size, u.node[v].index, D[v])
           T == {d \in Nat : \E v, w \in S : Twins(v, w) /\ v # w /\ D[v] = d}
<1>1. ASSUME T # {} PROVE FALSE
  <2> DEFINE d == Min(T)
  <2>1. d \in T /\ \A n \in T : d <= n
    BY <1>1, LeastNat
  <2> HIDE DEF d
  <2>2. PICK v \in S, w \in S : Twins(v, w) /\ v # w /\ D[v] = d
    BY <2>1
  <2> DEFINE i == u.node[v].index
  <2>3. AtRoot(u, D, v) <=> D[v] = 0
    <3>1. ~ AtRoot(u, D, v) => D[v] # 0
      <4> SUFFICES ASSUME ~ AtRoot(u, D, v) PROVE D[v] # 0
        OBVIOUS
      <4>1. PICK p \in S : D[v] = D[p] + 1
        BY ParentLink, SMTT(30)
      <4>2. D[p] \in Nat
        BY ForestNode
      <4> QED  BY <4>1, <4>2
    <3> QED  BY <3>1 DEF AtRoot
  <2>4. AtRoot(u, D, w) <=> D[w] = 0
    <3>1. ~ AtRoot(u, D, w) => D[w] # 0
      <4> SUFFICES ASSUME ~ AtRoot(u, D, w) PROVE D[w] # 0
        OBVIOUS
      <4>1. PICK p \in S : D[w] = D[p] + 1
        BY ParentLink
      <4>2. D[p] \in Nat
        BY ForestNode
      <4> QED  BY <4>1, <4>2
    <3> QED  BY <3>1 DEF AtRoot
  <2>5. CASE D[v] = 0
    BY <2>2, <2>3, <2>4, <2>5 DEF AtRoot
  <2>6. CASE D[v] # 0
    <3>1. ~ AtRoot(u, D, v) /\ ~ AtRoot(u, D, w)
      BY <2>2, <2>3, <2>4, <2>6
    <3>2. PICK p \in S, b \in {0, 1} :
            /\ u.node[p].child[b] = v /\ u.node[p].index = i /\ D[v] = D[p] + 1 /\ D[p] < Bits(i)
            /\ Prefix(u.node[v].size, i, D[p]) = Prefix(u.node[p].size, i, D[p])
            /\ Branch(u.node[v].size, i, D[p]) = b
      BY <3>1, ParentLink, SMTT(30)
    <3>e. u.node[w].index = i
      BY <2>2
    <3>f. PICK r \in S, a \in {0, 1} :
            /\ u.node[r].child[a] = w /\ u.node[r].index = u.node[w].index
            /\ D[w] = D[r] + 1 /\ D[r] < Bits(u.node[w].index)
            /\ Prefix(u.node[w].size, u.node[w].index, D[r]) = Prefix(u.node[r].size, u.node[w].index, D[r])
            /\ Branch(u.node[w].size, u.node[w].index, D[r]) = a
      BY <3>1, ParentLink, SMTT(30)
    <3>3. /\ u.node[r].child[a] = w /\ u.node[r].index = i /\ D[w] = D[r] + 1 /\ D[r] < Bits(i)
          /\ Prefix(u.node[w].size, i, D[r]) = Prefix(u.node[r].size, i, D[r])
          /\ Branch(u.node[w].size, i, D[r]) = a
      BY <3>e, <3>f
    <3>d. D[p] \in Nat /\ D[r] \in Nat /\ D[v] \in Nat
      BY ForestNode
    <3>4. D[p] \in Nat /\ D[r] \in Nat /\ D[p] = D[r] /\ D[v] \in Nat
      <4>1. D[v] = D[w] /\ D[v] = D[p] + 1 /\ D[w] = D[r] + 1
        BY <2>2, <3>2, <3>3
      <4>2. \A j, k \in Nat : j + 1 = k + 1 => j = k
        OBVIOUS
      <4>3. D[p] + 1 = D[r] + 1
        BY <4>1
      <4> QED  BY <3>d, <4>2, <4>3
    <3>5. /\ u.node[v].size \in Sizes /\ u.node[w].size \in Sizes /\ i \in TreeIndices
          /\ Bits(i) \in Nat /\ D[v] \in 0 .. Bits(i) /\ D[p] \in 0 .. D[v]
      BY <3>2, <3>4, ForestNode, DepthBound
    <3>6. Prefix(u.node[v].size, i, D[v]) = Prefix(u.node[w].size, i, D[v])
      BY <2>2
    <3>7. Prefix(u.node[v].size, i, D[p]) = Prefix(u.node[w].size, i, D[p])
      BY <3>5, <3>6, PrefixShorter
    <3>8. Twins(p, r)
      BY <3>2, <3>3, <3>4, <3>7
    <3>9. D[p] \notin T
      BY <2>1, <2>2, <3>2, <3>4
    <3>10. p = r
      BY <3>4, <3>8, <3>9
    <3>11. a = b
      <4>1. Prefix(u.node[v].size, i, D[p] + 1) = 2 * Prefix(u.node[v].size, i, D[p]) + Branch(u.node[v].size, i, D[p])
        BY <3>2, <3>4, <3>5, PrefixNext
      <4>2. Prefix(u.node[w].size, i, D[p] + 1) = 2 * Prefix(u.node[w].size, i, D[p]) + Branch(u.node[w].size, i, D[p])
        BY <3>2, <3>4, <3>5, PrefixNext
      <4>3. D[p] \in 0 .. Bits(i)
        BY <3>5
      <4>4. Prefix(u.node[v].size, i, D[p]) \in Nat
        BY <3>5, <4>3, PrefixType
      <4> DEFINE m == Prefix(u.node[v].size, i, D[p])
      <4>5. 2 * m + b = 2 * m + a
        BY <3>2, <3>3, <3>4, <3>6, <3>7, <4>1, <4>2
      <4> HIDE DEF m
      <4>6. m \in Nat
        BY <4>4 DEF m
      <4> QED  BY <4>5, <4>6
    <3> QED  BY <2>2, <3>2, <3>3, <3>10, <3>11
  <2> QED  BY <2>5, <2>6
<1>2. Twins(x, y) /\ D[x] \in Nat
  BY ForestNode
<1> QED  BY <1>1, <1>2

(* A child is below its parent, with all that is below it.                 *)
LEMMA BelowChild ==
  ASSUME NEW u, NEW D, NEW S, Forest(u, D, S), NEW x \in S, NEW b \in {0, 1}, u.node[x].child[b] # Null
  PROVE  /\ Below(u, D, S, u.node[x].child[b]) \subseteq Below(u, D, S, x)
         /\ x \notin Below(u, D, S, u.node[x].child[b])
         /\ u.node[x].child[b] \in Below(u, D, S, u.node[x].child[b])
         /\ \A y \in Below(u, D, S, u.node[x].child[b]) : Branch(u.node[y].size, u.node[x].index, D[x]) = b
<1> DEFINE c == u.node[x].child[b]
           i == u.node[x].index
<1>1. Link(u, D, S, x, b)
  BY ForestNode
<1>2. /\ c \in S /\ u.node[c].index = i /\ D[c] = D[x] + 1 /\ D[x] < Bits(i)
      /\ Prefix(u.node[c].size, i, D[x]) = Prefix(u.node[x].size, i, D[x])
      /\ Branch(u.node[c].size, i, D[x]) = b
  BY <1>1 DEF Link
<1>3. /\ D[x] \in Nat /\ u.node[x].size \in Sizes /\ u.node[c].size \in Sizes /\ i \in TreeIndices /\ D[c] \in Nat
      /\ Bits(i) \in Nat
  BY <1>2, ForestNode, BitsType, SMTT(30)
<1>4. D[x] \in 0 .. Bits(i) /\ D[c] \in 0 .. Bits(i) /\ D[x] \in 0 .. D[c] /\ ~ (D[c] <= D[x])
  BY <1>2, <1>3
<1>5. ASSUME NEW y \in Below(u, D, S, c)
      PROVE  y \in Below(u, D, S, x) /\ Branch(u.node[y].size, i, D[x]) = b
  <2>1. /\ y \in S /\ u.node[y].index = i /\ D[c] <= D[y]
        /\ Prefix(u.node[y].size, i, D[c]) = Prefix(u.node[c].size, i, D[c])
    BY <1>2 DEF Below
  <2>2. u.node[y].size \in Sizes /\ D[y] \in Nat
    BY <2>1, ForestNode
  <2>3. Prefix(u.node[y].size, i, D[x]) = Prefix(u.node[c].size, i, D[x])
    BY <1>3, <1>4, <2>1, <2>2, PrefixShorter
  <2>4. D[x] <= D[y]
    BY <1>2, <1>3, <2>1, <2>2
  <2>5. y \in Below(u, D, S, x)
    BY <1>2, <2>1, <2>3, <2>4 DEF Below
  <2>6. Prefix(u.node[y].size, i, D[x] + 1) = 2 * Prefix(u.node[y].size, i, D[x]) + Branch(u.node[y].size, i, D[x])
        /\ Branch(u.node[y].size, i, D[x]) \in {0, 1}
    BY <1>2, <1>3, <2>2, PrefixNext
  <2>7. Prefix(u.node[c].size, i, D[x] + 1) = 2 * Prefix(u.node[c].size, i, D[x]) + b
    BY <1>2, <1>3, PrefixNext
  <2>8. Prefix(u.node[c].size, i, D[x]) \in Nat
    BY <1>3, <1>4, PrefixType
  <2>9. \A m \in Nat : \A j, k \in {0, 1} : 2 * m + j = 2 * m + k => j = k
    OBVIOUS
  <2>10. 2 * Prefix(u.node[c].size, i, D[x]) + Branch(u.node[y].size, i, D[x]) = 2 * Prefix(u.node[c].size, i, D[x]) + b
    BY <1>2, <2>1, <2>3, <2>6, <2>7
  <2>11. Branch(u.node[y].size, i, D[x]) = b
    BY <2>6, <2>8, <2>9, <2>10
  <2> QED  BY <2>5, <2>11
<1>6. x \notin Below(u, D, S, c)
  BY <1>4 DEF Below
<1>7. c \in Below(u, D, S, c)
  BY <1>2, <1>3, SMTT(30) DEF Below
<1> QED  BY <1>5, <1>6, <1>7

(* What is below a chunk, but not the chunk itself, is below the child on  *)
(* the branch its size takes.                                              *)
LEMMA BelowSplits ==
  ASSUME NEW u, NEW D, NEW S, Forest(u, D, S), NEW x \in S, NEW y \in Below(u, D, S, x), y # x
  PROVE  LET b == Branch(u.node[y].size, u.node[x].index, D[x])
         IN  /\ b \in {0, 1} /\ u.node[x].child[b] # Null
             /\ y \in Below(u, D, S, u.node[x].child[b])
<1> DEFINE i == u.node[x].index
           Hangs(z, b) == u.node[x].child[b] # Null /\ z \in Below(u, D, S, u.node[x].child[b])
           T == {d \in Nat : \E z \in Below(u, D, S, x) :
                    z # x /\ D[z] = d /\ \A b \in {0, 1} : ~ Hangs(z, b)}
<1>0. /\ D[x] \in Nat /\ u.node[x].size \in Sizes /\ i \in TreeIndices /\ Bits(i) \in Nat
      /\ \A z \in Below(u, D, S, x) : z \in S /\ u.node[z].index = i /\ D[x] <= D[z]
            /\ Prefix(u.node[z].size, i, D[x]) = Prefix(u.node[x].size, i, D[x])
  BY ForestNode, BitsType DEF Below
<1>1. ASSUME T # {} PROVE FALSE
  <2> DEFINE d == Min(T)
  <2>1. d \in T /\ \A n \in T : d <= n
    BY <1>1, LeastNat
  <2> HIDE DEF d
  <2>2. PICK z \in Below(u, D, S, x) : z # x /\ D[z] = d /\ \A b \in {0, 1} : ~ Hangs(z, b)
    BY <2>1
  <2>3. /\ z \in S /\ u.node[z].index = i /\ D[x] <= D[z] /\ D[z] \in Nat /\ u.node[z].size \in Sizes
        /\ Prefix(u.node[z].size, i, D[x]) = Prefix(u.node[x].size, i, D[x])
    BY <1>0, <2>2, ForestNode
  <2>4. D[z] # D[x]
    BY <2>2, <2>3, PlaceUnique
  <2>5. ~ AtRoot(u, D, z)
    BY <1>0, <2>3, <2>4 DEF AtRoot
  <2>6. PICK p \in S, a \in {0, 1} :
          /\ p # Null /\ u.node[p].child[a] = z /\ u.node[p].index = u.node[z].index
          /\ D[z] = D[p] + 1 /\ D[p] < Bits(u.node[z].index)
          /\ Prefix(u.node[z].size, u.node[z].index, D[p]) = Prefix(u.node[p].size, u.node[z].index, D[p])
    BY <2>3, <2>5, ParentLink, SMTT(30)
  <2>7. /\ u.node[p].index = i /\ D[z] = D[p] + 1 /\ D[p] < Bits(i)
        /\ Prefix(u.node[z].size, i, D[p]) = Prefix(u.node[p].size, i, D[p])
    BY <2>3, <2>6
  <2>8. D[p] \in Nat /\ u.node[p].size \in Sizes
    BY ForestNode
  <2>9. D[p] \in 0 .. Bits(i) /\ D[x] \in 0 .. D[p] /\ D[x] <= D[p]
    BY <1>0, <2>3, <2>4, <2>7, <2>8
  <2>10. Prefix(u.node[z].size, i, D[x]) = Prefix(u.node[p].size, i, D[x])
    BY <1>0, <2>3, <2>7, <2>8, <2>9, PrefixShorter
  <2>11. p \in Below(u, D, S, x)
    BY <2>3, <2>7, <2>9, <2>10 DEF Below
  <2>12. z # Null
    BY <2>3, ForestNode, ConstantTypes
  <2>13. CASE p = x
    <3>1. u.node[x].child[a] # Null /\ z \in Below(u, D, S, u.node[x].child[a])
      BY <2>6, <2>12, <2>13, BelowChild
    <3> QED  BY <2>2, <3>1
  <2>14. CASE p # x
    <3>1. D[p] \notin T
      BY <2>1, <2>2, <2>7, <2>8
    <3>2. PICK b \in {0, 1} : Hangs(p, b)
      BY <2>8, <2>11, <2>14, <3>1
    <3> DEFINE c == u.node[x].child[b]
    <3>3. Link(u, D, S, x, b)
      BY <3>2, ForestNode
    <3>4. c \in S /\ u.node[c].index = i
      BY <3>3 DEF Link
    <3>5. D[c] <= D[p] /\ Prefix(u.node[p].size, i, D[c]) = Prefix(u.node[c].size, i, D[c])
      BY <3>2, <3>4 DEF Below
    <3>6. D[c] \in Nat /\ u.node[c].size \in Sizes
      BY <3>4, ForestNode
    <3>7. D[c] \in 0 .. D[p] /\ D[c] <= D[z]
      BY <2>7, <2>8, <3>5, <3>6
    <3>8. Prefix(u.node[z].size, i, D[c]) = Prefix(u.node[p].size, i, D[c])
      BY <1>0, <2>3, <2>7, <2>8, <2>9, <3>7, PrefixShorter
    <3>9. z \in Below(u, D, S, c)
      BY <2>3, <3>4, <3>5, <3>7, <3>8 DEF Below
    <3> QED  BY <2>2, <3>2, <3>9
  <2> QED  BY <2>13, <2>14
<1>2. D[y] \in Nat
  BY <1>0, ForestNode
<1>3. PICK b \in {0, 1} : Hangs(y, b)
  BY <1>1, <1>2
<1>4. Branch(u.node[y].size, i, D[x]) = b
  BY <1>3, BelowChild
<1> QED  BY <1>3, <1>4

(* The part of it about the link that a search follows.                    *)
LEMMA ChildTowards ==
  ASSUME NEW u, NEW D, NEW S, Forest(u, D, S), NEW x \in S, NEW y \in Below(u, D, S, x), y # x
  PROVE  u.node[x].child[Branch(u.node[y].size, u.node[x].index, D[x])] # Null
BY BelowSplits

(* Every tree has a root, and everything in it is below the root.          *)
LEMMA BelowRoot ==
  ASSUME NEW u, NEW D, NEW S, Forest(u, D, S), NEW x \in S
  PROVE  /\ u.root[u.node[x].index] # Null /\ u.root[u.node[x].index] \in S
         /\ D[u.root[u.node[x].index]] = 0
         /\ x \in Below(u, D, S, u.root[u.node[x].index])
<1> DEFINE i == u.node[x].index
           r == u.root[i]
           T == {d \in Nat : \E z \in S : u.node[z].index = i /\ D[z] = d}
           d == Min(T)
<1>1. D[x] \in T
  BY ForestNode
<1>2. d \in T /\ \A n \in T : d <= n
  BY <1>1, LeastNat
<1> HIDE DEF d
<1>3. PICK z \in S : u.node[z].index = i /\ D[z] = d
  BY <1>2
<1>4. AtRoot(u, D, z)
  <2> SUFFICES ASSUME ~ AtRoot(u, D, z) PROVE FALSE
    OBVIOUS
  <2>1. PICK p \in S : u.node[p].index = u.node[z].index /\ D[z] = D[p] + 1
    BY ParentLink
  <2>2. D[p] \in Nat
    BY ForestNode
  <2>3. D[p] \in T
    BY <1>3, <2>1, <2>2
  <2> QED  BY <1>2, <1>3, <2>1, <2>2, <2>3
<1>5. r = z /\ D[z] = 0
  BY <1>3, <1>4 DEF AtRoot
<1>6. r # Null
  BY <1>5, ForestNode, ConstantTypes
<1>7. /\ u.node[x].size \in Sizes /\ u.node[z].size \in Sizes /\ D[x] \in Nat
      /\ i = TreeIndex(u.node[x].size) /\ i = TreeIndex(u.node[z].size)
  BY <1>3, ForestNode
<1>8. Prefix(u.node[x].size, i, 0) = Prefix(u.node[z].size, i, 0)
  BY <1>7, PrefixAtRoot
<1>9. x \in Below(u, D, S, z)
  BY <1>3, <1>5, <1>7, <1>8 DEF Below
<1> QED  BY <1>5, <1>6, <1>9

-----------------------------------------------------------------------------
(* Walks: the recursive functions of TreeBins have the values of a loop.   *)

IsLoop(g, W, w0, f, m) ==
  g \in [0 .. m -> W] /\ g[0] = w0 /\ \A n \in 1 .. m : g[n] = f[n - 1][g[n - 1]]

LEMMA LoopExists ==
  ASSUME NEW W, NEW w0 \in W, NEW f \in [Nat -> [W -> W]], NEW m \in Nat
  PROVE  \E g : IsLoop(g, W, w0, f, m)
<1> DEFINE Good(k) == \E g \in [0 .. k -> W] : g[0] = w0 /\ \A n \in 1 .. k : g[n] = f[n - 1][g[n - 1]]
           T == {k \in Nat : ~ Good(k)}
<1>1. ASSUME T # {} PROVE FALSE
  <2> DEFINE k == Min(T)
  <2>1. k \in T /\ \A j \in T : k <= j
    BY <1>1, LeastNat
  <2> HIDE DEF k
  <2>2. CASE k = 0
    <3> DEFINE g == [n \in 0 .. 0 |-> w0]
    <3>1. g \in [0 .. 0 -> W] /\ g[0] = w0 /\ 1 .. 0 = {}
      OBVIOUS
    <3>2. Good(0)
      BY <3>1
    <3> QED  BY <2>1, <2>2, <3>2
  <2>3. CASE k # 0
    <3>0. k \in Nat
      BY <2>1
    <3>1. k - 1 \in Nat /\ ~ (k <= k - 1)
      BY <2>3, <3>0
    <3>2. k - 1 \notin T
      BY <2>1, <3>1
    <3>3. PICK h \in [0 .. k - 1 -> W] : h[0] = w0 /\ \A n \in 1 .. k - 1 : h[n] = f[n - 1][h[n - 1]]
      BY <3>1, <3>2
    <3> DEFINE g == [n \in 0 .. k |-> IF n = k THEN f[k - 1][h[k - 1]] ELSE h[n]]
    <3>4. k - 1 \in 0 .. k - 1
      BY <3>0, <3>1
    <3>5. \A n \in 0 .. k - 1 : g[n] = h[n]
      BY <3>0, <3>1
    <3>6. h[k - 1] \in W
      BY <3>3, <3>4
    <3>7. f[k - 1][h[k - 1]] \in W
      BY <3>1, <3>6
    <3>8. g \in [0 .. k -> W]
      BY <3>3, <3>0, <3>7
    <3>9. g[k] = f[k - 1][h[k - 1]]
      BY <3>0
    <3> HIDE DEF g
    <3>10. ASSUME NEW n \in 1 .. k PROVE g[n] = f[n - 1][g[n - 1]]
      <4>1. n - 1 \in 0 .. k - 1
        BY <3>0
      <4>2. g[n - 1] = h[n - 1]
        BY <3>5, <4>1
      <4>3. CASE n = k
        BY <3>9, <4>2, <4>3
      <4>4. CASE n # k
        <5>1. n \in 1 .. k - 1 /\ n \in 0 .. k - 1
          BY <3>0, <4>4
        <5> QED  BY <3>3, <3>5, <4>2, <5>1
      <4> QED  BY <4>3, <4>4
    <3>11. g[0] = w0
      <4>1. 0 \in 0 .. k - 1
        BY <3>0, <3>1
      <4> QED  BY <3>3, <3>5, <4>1
    <3>12. Good(k)
      BY <3>8, <3>10, <3>11
    <3> QED  BY <2>1, <3>12
  <2> QED  BY <2>2, <2>3
<1>2. Good(m)
  BY <1>1
<1> QED  BY <1>2 DEF IsLoop

(* The walk of insert_large_chunk.                                         *)
NextDown(u, s, i, x, d) == u.node[x].child[Branch(s, i, d)]

InsertionWalk(u, s, i) ==
  CHOOSE walk : walk = [d \in 0 .. WordBits |->
    IF d = 0 THEN [node |-> u.root[i], depth |-> 0]
    ELSE LET w == walk[d - 1] IN
         IF w.depth < d - 1 \/ u.node[w.node].size = s \/ NextDown(u, s, i, w.node, d - 1) = Null THEN w
         ELSE [node |-> NextDown(u, s, i, w.node, d - 1), depth |-> d]]

LEMMA BranchType ==
  ASSUME NEW s \in Sizes, NEW i \in TreeIndices, NEW d \in Nat
  PROVE  Branch(s, i, d) \in {0, 1}
<1> DEFINE highest == IF i = NTreeBins - 1 THEN WordBits - 1 ELSE i \div 2 + TreeShift - 2
<1>1. highest \in Int /\ s \in Nat
  <2>1. i \in Nat
    BY DEF TreeIndices
  <2>2. i \div 2 \in Nat
    BY <2>1, Halves
  <2> QED  BY <2>2, ConstantTypes
<1>2. Branch(s, i, d) = IF d > highest THEN 0 ELSE (s \div Pow2(highest - d)) % 2
  BY DEF Branch
<1> HIDE DEF highest
<1>3. ASSUME ~ (d > highest) PROVE (s \div Pow2(highest - d)) % 2 \in 0 .. 1
  <2>1. highest - d \in Nat
    BY <1>1, <1>3
  <2>2. Pow2(highest - d) \in Nat \ {0}
    BY <2>1, Pow2Type
  <2>3. s \div Pow2(highest - d) \in Nat
    BY <1>1, <2>2, DivBounds
  <2> QED  BY <2>3, Halves
<1> QED  BY <1>2, <1>3

LEMMA NextDownType ==
  ASSUME NEW u, NEW D, NEW S, Forest(u, D, S), NEW s \in Sizes, NEW i \in TreeIndices, NEW x \in S, NEW d \in Nat
  PROVE  NextDown(u, s, i, x, d) \in S \cup {Null}
<1>1. Branch(s, i, d) \in {0, 1}
  BY BranchType
<1>2. \A b \in {0, 1} : u.node[x].child[b] # Null => u.node[x].child[b] \in S
  BY ForestNode, SMTT(30) DEF Link
<1> QED  BY <1>1, <1>2 DEF NextDown

LEMMA InsertionWalkIs ==
  ASSUME NEW u, NEW D, NEW S, Forest(u, D, S), NEW s \in Sizes, NEW i \in TreeIndices, u.root[i] # Null
  PROVE  LET walk == InsertionWalk(u, s, i)
         IN  /\ walk[0] = [node |-> u.root[i], depth |-> 0]
             /\ \A d \in 1 .. WordBits :
                  walk[d] = IF \/ walk[d - 1].depth < d - 1 \/ u.node[walk[d - 1].node].size = s
                               \/ NextDown(u, s, i, walk[d - 1].node, d - 1) = Null
                            THEN walk[d - 1]
                            ELSE [node |-> NextDown(u, s, i, walk[d - 1].node, d - 1), depth |-> d]
             /\ InsertionPoint(u, s, i) =
                  [node |-> walk[WordBits].node, branch |-> Branch(s, i, walk[WordBits].depth)]
<1> DEFINE W == [node : S, depth : Nat]
           w0 == [node |-> u.root[i], depth |-> 0]
           Step(w, d) ==
             IF w.depth < d - 1 \/ u.node[w.node].size = s \/ NextDown(u, s, i, w.node, d - 1) = Null THEN w
             ELSE [node |-> NextDown(u, s, i, w.node, d - 1), depth |-> d]
           f == [d \in Nat |-> [w \in W |-> Step(w, d + 1)]]
           walk == InsertionWalk(u, s, i)
<1>1. u.root[i] \in S
  BY DEF Forest
<1>2. w0 \in W
  BY <1>1
<1>3. \A x \in S, d \in Nat : NextDown(u, s, i, x, d) \in S \cup {Null}
  BY NextDownType
<1>4. \A w \in W, d \in Nat : Step(w, d + 1) \in W
  BY <1>3
<1> HIDE DEF Step, W
<1>5. f \in [Nat -> [W -> W]]
  BY <1>4
<1>6. WordBits \in Nat
  BY ConstantTypes
<1> HIDE DEF f, w0
<1>i. PICK g : IsLoop(g, W, w0, f, WordBits)
  BY <1>2, <1>5, <1>6, LoopExists
<1>7. g \in [0 .. WordBits -> W] /\ g[0] = w0 /\ \A n \in 1 .. WordBits : g[n] = f[n - 1][g[n - 1]]
  BY <1>i DEF IsLoop
<1>8. \A n \in 1 .. WordBits : g[n] = Step(g[n - 1], n)
  <2> SUFFICES ASSUME NEW n \in 1 .. WordBits PROVE g[n] = Step(g[n - 1], n)
    OBVIOUS
  <2>1. n - 1 \in Nat /\ n - 1 \in 0 .. WordBits /\ (n - 1) + 1 = n
    BY <1>6
  <2>2. g[n - 1] \in W
    BY <1>7, <2>1
  <2>3. f[n - 1][g[n - 1]] = Step(g[n - 1], (n - 1) + 1)
    BY <2>1, <2>2 DEF f
  <2> QED  BY <1>7, <2>1, <2>3
<1>9. g = [n \in 0 .. WordBits |-> IF n = 0 THEN w0 ELSE Step(g[n - 1], n)]
  <2>1. \A n \in 0 .. WordBits : n = 0 \/ n \in 1 .. WordBits
    BY <1>6
  <2>2. \A n \in 0 .. WordBits : g[n] = IF n = 0 THEN w0 ELSE Step(g[n - 1], n)
    BY <1>7, <1>8, <2>1
  <2> QED  BY <1>7, <2>2
<1>10. \E x : x = [n \in 0 .. WordBits |-> IF n = 0 THEN w0 ELSE Step(x[n - 1], n)]
  BY <1>9
<1>11. walk = [n \in 0 .. WordBits |-> IF n = 0 THEN w0 ELSE Step(walk[n - 1], n)]
  BY <1>10, Zenon DEF InsertionWalk, Step, w0
<1> HIDE DEF walk
<1>12. walk[0] = w0 /\ \A d \in 1 .. WordBits : walk[d] = Step(walk[d - 1], d)
  BY <1>6, <1>11
<1>13. InsertionPoint(u, s, i) = [node |-> walk[WordBits].node, branch |-> Branch(s, i, walk[WordBits].depth)]
  BY Zenon DEF InsertionPoint, InsertionWalk, NextDown, walk
<1> QED  BY <1>12, <1>13 DEF walk, w0, Step

(* Where the walk ends: a chunk of the size, if the tree has one, else the *)
(* chunk that a new one hangs below.                                       *)
LEMMA InsertionPointIs ==
  ASSUME NEW u, NEW D, NEW S, Forest(u, D, S), NEW s \in Sizes, u.root[TreeIndex(s)] # Null
  PROVE  LET i == TreeIndex(s)
             p == InsertionPoint(u, s, i)
         IN  /\ p.node \in S /\ u.node[p.node].index = i /\ p.branch = Branch(s, i, D[p.node])
             /\ p.branch \in {0, 1}
             /\ Prefix(u.node[p.node].size, i, D[p.node]) = Prefix(s, i, D[p.node])
             /\ u.node[p.node].size = s \/ (u.node[p.node].child[p.branch] = Null /\ D[p.node] < Bits(i))
             /\ \A y \in S : u.node[y].size = s => y \in Below(u, D, S, p.node)
<1> DEFINE i == TreeIndex(s)
           walk == InsertionWalk(u, s, i)
           Stops(w) == u.node[w.node].size = s \/ NextDown(u, s, i, w.node, w.depth) = Null
           Good(d) == /\ walk[d].node \in S /\ u.node[walk[d].node].index = i
                      /\ walk[d].depth = D[walk[d].node]
                      /\ Prefix(u.node[walk[d].node].size, i, D[walk[d].node]) = Prefix(s, i, D[walk[d].node])
                      /\ D[walk[d].node] = d \/ (D[walk[d].node] < d /\ Stops(walk[d]))
                      /\ \A y \in S : u.node[y].size = s => y \in Below(u, D, S, walk[d].node)
           T == {d \in 0 .. WordBits : ~ Good(d)}
<1>1. i \in TreeIndices /\ WordBits \in Nat
  BY BinOfSize, ConstantTypes
<1>2. /\ walk[0] = [node |-> u.root[i], depth |-> 0]
      /\ \A d \in 1 .. WordBits :
           walk[d] = IF \/ walk[d - 1].depth < d - 1 \/ u.node[walk[d - 1].node].size = s
                        \/ NextDown(u, s, i, walk[d - 1].node, d - 1) = Null
                     THEN walk[d - 1]
                     ELSE [node |-> NextDown(u, s, i, walk[d - 1].node, d - 1), depth |-> d]
      /\ InsertionPoint(u, s, i) = [node |-> walk[WordBits].node, branch |-> Branch(s, i, walk[WordBits].depth)]
  BY <1>1, InsertionWalkIs
<1>3. \A y \in S : u.node[y].size = s => u.node[y].index = i /\ y \in Below(u, D, S, u.root[i])
  BY ForestNode, BelowRoot
<1> HIDE DEF walk
<1>4. ASSUME T # {} PROVE FALSE
  <2> DEFINE d == Min(T)
  <2>0. T \in SUBSET Nat
    OBVIOUS
  <2>1. d \in T /\ \A n \in T : d <= n
    BY <1>4, <2>0, LeastNat
  <2> HIDE DEF d
  <2>a. d \in 0 .. WordBits /\ ~ Good(d)
    BY <2>1
  <2>2. CASE d = 0
    <3> DEFINE r == u.root[i]
    <3>1. r \in S /\ u.node[r].parent = Root /\ u.node[r].index = i
      BY <1>1 DEF Forest
    <3>2. AtRoot(u, D, r)
      <4>1. r \in Chunks
        BY <3>1, ForestNode
      <4>2. ~ BelowParent(u, S, r)
        <5>1. Root \notin S
          BY ForestNode, ConstantTypes
        <5> QED  BY <3>1, <5>1 DEF BelowParent
      <4> QED  BY <3>1, <4>2, ForestNode
    <3>3. D[r] = 0
      BY <3>2 DEF AtRoot
    <3>4. u.node[r].size \in Sizes /\ TreeIndex(u.node[r].size) = i
      BY <3>1, ForestNode
    <3>5. Prefix(u.node[r].size, i, 0) = Prefix(s, i, 0)
      BY <3>4, PrefixAtRoot
    <3>6. walk[0].node = r /\ walk[0].depth = 0
      BY <1>2
    <3> HIDE DEF r
    <3>7. \A y \in S : u.node[y].size = s => y \in Below(u, D, S, r)
      BY <1>3 DEF r
    <3> HIDE DEF i, Stops
    <3>8. Good(0)
      BY <3>1, <3>3, <3>5, <3>6, <3>7
    <3> QED  BY <2>2, <2>a, <3>8
  <2>3. CASE d # 0
    <3>0. /\ d - 1 \in Nat /\ d - 1 \in 0 .. WordBits /\ d \in 1 .. WordBits /\ d \in Nat
          /\ ~ (d <= d - 1) /\ (d - 1) + 1 = d
      BY <1>1, <2>a, <2>3
    <3>1. Good(d - 1)
      BY <2>1, <3>0
    <3> DEFINE w == walk[d - 1]
               x == w.node
               c == NextDown(u, s, i, x, d - 1)
    <3> HIDE DEF i
    <3>2. /\ x \in S /\ u.node[x].index = i /\ w.depth = D[x]
          /\ Prefix(u.node[x].size, i, D[x]) = Prefix(s, i, D[x])
          /\ D[x] = d - 1 \/ (D[x] < d - 1 /\ Stops(w))
          /\ \A y \in S : u.node[y].size = s => y \in Below(u, D, S, x)
      BY <3>1
    <3>3. walk[d] = IF w.depth < d - 1 \/ u.node[x].size = s \/ c = Null THEN w ELSE [node |-> c, depth |-> d]
      BY <1>2, <3>0
    <3>4. D[x] \in Nat /\ u.node[x].size \in Sizes
      BY <3>2, ForestNode
    <3> HIDE DEF w, c
    <3>5. CASE w.depth < d - 1 \/ u.node[x].size = s \/ c = Null
      <4>1. walk[d] = w
        BY <3>3, <3>5
      <4>2. Stops(w)
        <5>1. ASSUME ~ (w.depth < d - 1) PROVE Stops(w)
          <6>1. D[x] = d - 1 /\ w.depth = d - 1
            BY <3>0, <3>2, <3>4, <5>1
          <6> QED  BY <3>5, <5>1, <6>1 DEF c
        <5>2. ASSUME w.depth < d - 1 PROVE Stops(w)
          BY <3>0, <3>2, <3>4, <5>2
        <5> QED  BY <5>1, <5>2
      <4>3. D[x] < d
        BY <3>0, <3>2, <3>4
      <4> HIDE DEF Stops
      <4>4. Good(d)
        BY <3>2, <4>1, <4>2, <4>3
      <4> QED  BY <2>a, <4>4
    <3>6. CASE ~ (w.depth < d - 1) /\ u.node[x].size # s /\ c # Null
      <4>1. walk[d].node = c /\ walk[d].depth = d
        BY <3>3, <3>6
      <4>2. D[x] = d - 1
        BY <3>0, <3>2, <3>4, <3>6
      <4> DEFINE b == Branch(s, i, D[x])
      <4>3. b \in {0, 1}
        BY <1>1, <3>4, BranchType
      <4>4. c = u.node[x].child[b]
        BY <4>2 DEF c, NextDown
      <4>5. Link(u, D, S, x, b)
        BY <3>2, <3>6, <4>3, <4>4, ForestNode
      <4>6. /\ c \in S /\ u.node[c].index = i /\ D[c] = D[x] + 1 /\ D[x] < Bits(i)
            /\ Prefix(u.node[c].size, i, D[x]) = Prefix(u.node[x].size, i, D[x])
            /\ Branch(u.node[c].size, i, D[x]) = b
        BY <3>2, <4>4, <4>5 DEF Link
      <4>7. D[c] = d /\ u.node[c].size \in Sizes
        BY <3>0, <4>2, <4>6, ForestNode
      <4>8. Prefix(u.node[c].size, i, D[x] + 1) = 2 * Prefix(u.node[c].size, i, D[x]) + b
        BY <1>1, <3>4, <4>6, <4>7, PrefixNext
      <4>9. Prefix(s, i, D[x] + 1) = 2 * Prefix(s, i, D[x]) + b
        BY <1>1, <3>4, <4>6, PrefixNext
      <4>10. Prefix(u.node[c].size, i, D[c]) = Prefix(s, i, D[c])
        BY <3>2, <4>6, <4>8, <4>9
      <4>11. ASSUME NEW y \in S, u.node[y].size = s PROVE y \in Below(u, D, S, c)
        <5>1. y \in Below(u, D, S, x) /\ y # x
          BY <3>2, <3>6, <4>11
        <5>2. y \in Below(u, D, S, u.node[x].child[Branch(u.node[y].size, u.node[x].index, D[x])])
          BY <3>2, <5>1, BelowSplits
        <5> QED  BY <3>2, <4>4, <4>11, <5>2
      <4> HIDE DEF b, Stops
      <4>12. Good(d)
        BY <4>1, <4>6, <4>7, <4>10, <4>11
      <4> QED  BY <2>a, <4>12
    <3> QED  BY <3>5, <3>6
  <2> QED  BY <2>2, <2>3
<1>5. Good(WordBits)
  BY <1>1, <1>4
<1> DEFINE x == walk[WordBits].node
           p == InsertionPoint(u, s, i)
<1> HIDE DEF i
<1>6. /\ x \in S /\ u.node[x].index = i /\ walk[WordBits].depth = D[x]
      /\ Prefix(u.node[x].size, i, D[x]) = Prefix(s, i, D[x])
      /\ D[x] = WordBits \/ (D[x] < WordBits /\ Stops(walk[WordBits]))
      /\ \A y \in S : u.node[y].size = s => y \in Below(u, D, S, x)
  BY <1>5
<1>7. p.node = x /\ p.branch = Branch(s, i, D[x])
  BY <1>2, <1>6
<1>8. /\ D[x] \in Nat /\ u.node[x].size \in Sizes
      /\ D[x] \in 0 .. Bits(i) /\ Bits(i) \in Nat /\ Bits(i) <= WordBits
  BY <1>6, ForestNode, DepthBound
<1>9. p.branch \in {0, 1}
  BY <1>1, <1>7, <1>8, BranchType
<1>10. u.node[x].size = s \/ (u.node[x].child[p.branch] = Null /\ D[x] < Bits(i))
  <2>1. ASSUME D[x] = Bits(i) PROVE u.node[x].size = s
    <3>1. Prefix(u.node[x].size, i, Bits(i)) = u.node[x].size
      BY <1>1, <1>8, PrefixAll
    <3>2. Prefix(s, i, Bits(i)) = s
      BY <1>1, PrefixAll
    <3> QED  BY <1>6, <2>1, <3>1, <3>2
  <2>2. ASSUME D[x] # Bits(i) PROVE D[x] < Bits(i) /\ D[x] < WordBits
    BY <1>1, <1>8, <2>2
  <2>3. ASSUME D[x] # Bits(i) PROVE u.node[x].size = s \/ u.node[x].child[p.branch] = Null
    <3>1. Stops(walk[WordBits])
      BY <1>1, <1>6, <1>8, <2>2, <2>3
    <3> QED  BY <1>6, <1>7, <3>1 DEF NextDown
  <2> QED  BY <2>1, <2>2, <2>3
<1> HIDE DEF x, p
<1>11. /\ p.node \in S /\ u.node[p.node].index = i /\ p.branch = Branch(s, i, D[p.node])
       /\ p.branch \in {0, 1}
       /\ Prefix(u.node[p.node].size, i, D[p.node]) = Prefix(s, i, D[p.node])
       /\ u.node[p.node].size = s \/ (u.node[p.node].child[p.branch] = Null /\ D[p.node] < Bits(i))
       /\ \A y \in S : u.node[y].size = s => y \in Below(u, D, S, p.node)
  BY <1>6, <1>7, <1>9, <1>10
<1> QED  BY <1>11 DEF p, i

-----------------------------------------------------------------------------
(* The walk of unlink_large_chunk to a leaf.                               *)

LEMMA BelowBelow ==
  ASSUME NEW u, NEW D, NEW S, Forest(u, D, S), NEW x \in S,
         NEW y \in Below(u, D, S, x), NEW z \in Below(u, D, S, y)
  PROVE  z \in Below(u, D, S, x)
<1> DEFINE i == u.node[x].index
<1>1. /\ y \in S /\ u.node[y].index = i /\ D[x] <= D[y]
      /\ Prefix(u.node[y].size, i, D[x]) = Prefix(u.node[x].size, i, D[x])
  BY DEF Below
<1>2. /\ z \in S /\ u.node[z].index = u.node[y].index /\ D[y] <= D[z]
      /\ Prefix(u.node[z].size, u.node[y].index, D[y]) = Prefix(u.node[y].size, u.node[y].index, D[y])
  BY DEF Below
<1>3. /\ u.node[z].size \in Sizes /\ u.node[y].size \in Sizes /\ i \in TreeIndices
      /\ D[x] \in Nat /\ D[y] \in Nat /\ D[z] \in Nat /\ D[y] \in 0 .. Bits(i)
  BY <1>1, <1>2, ForestNode, DepthBound
<1>4. D[x] \in 0 .. D[y] /\ D[x] <= D[z]
  BY <1>1, <1>2, <1>3
<1>5. Prefix(u.node[z].size, i, D[x]) = Prefix(u.node[y].size, i, D[x])
  BY <1>1, <1>2, <1>3, <1>4, PrefixShorter
<1> QED  BY <1>1, <1>2, <1>4, <1>5 DEF Below

LEMMA BelowItself ==
  ASSUME NEW u, NEW D, NEW S, Forest(u, D, S), NEW x \in S
  PROVE  x \in Below(u, D, S, x)
BY ForestNode DEF Below

(* On the way to a chunk there are as many others as it is deep.           *)
LEMMA FewLevels ==
  ASSUME NEW u, NEW D, NEW S, Forest(u, D, S), NEW x \in S
  PROVE  Cardinality(Chunks) \in Nat /\ D[x] < Cardinality(Chunks)
<1> DEFINE Way(z) == \E A \in SUBSET S : /\ IsFiniteSet(A) /\ Cardinality(A) = D[z] + 1
                                         /\ \A y \in A : D[y] <= D[z]
           T == {d \in Nat : \E z \in S : D[z] = d /\ ~ Way(z)}
<1>1. ASSUME T # {} PROVE FALSE
  <2> DEFINE d == Min(T)
  <2>1. d \in T /\ \A n \in T : d <= n
    BY <1>1, LeastNat
  <2> HIDE DEF d
  <2>2. PICK z \in S : D[z] = d /\ ~ Way(z)
    BY <2>1
  <2>3. D[z] \in Nat
    BY ForestNode
  <2>4. CASE AtRoot(u, D, z)
    <3>1. D[z] = 0
      BY <2>4 DEF AtRoot
    <3>2. IsFiniteSet({z}) /\ Cardinality({z}) = 1
      BY FS_Singleton
    <3> QED  BY <2>2, <3>1, <3>2
  <2>5. CASE ~ AtRoot(u, D, z)
    <3>1. PICK p \in S : D[z] = D[p] + 1
      BY <2>5, ParentLink
    <3>2. D[p] \in Nat
      BY ForestNode
    <3>3. D[p] \notin T
      BY <2>1, <2>2, <3>1, <3>2
    <3>4. PICK A \in SUBSET S : IsFiniteSet(A) /\ Cardinality(A) = D[p] + 1 /\ \A y \in A : D[y] <= D[p]
      BY <3>2, <3>3
    <3>5. z \notin A
      BY <3>1, <3>2, <3>4
    <3>6. IsFiniteSet(A \cup {z}) /\ Cardinality(A \cup {z}) = D[z] + 1
      BY <3>1, <3>4, <3>5, FS_AddElement
    <3>7. \A y \in S : D[y] \in Nat
      BY ForestNode
    <3>8. \A y \in A \cup {z} : D[y] <= D[z]
      BY <3>1, <3>2, <3>4, <3>7
    <3>9. Way(z)
      BY <3>6, <3>8
    <3> QED  BY <2>2, <3>9
  <2> QED  BY <2>4, <2>5
<1>2. D[x] \in Nat
  BY ForestNode
<1>3. Way(x)
  BY <1>1, <1>2
<1>4. PICK A \in SUBSET S : IsFiniteSet(A) /\ Cardinality(A) = D[x] + 1
  BY <1>3
<1>5. A \subseteq Chunks
  BY ForestNode
<1>6. Cardinality(A) <= Cardinality(Chunks) /\ Cardinality(Chunks) \in Nat
  BY <1>5, ConstantTypes, FS_Subset, FS_CardinalityType
<1> QED  BY <1>2, <1>4, <1>6

LEMMA LastChild ==
  ASSUME NEW u, NEW D, NEW S, Forest(u, D, S), NEW x \in S, ~ IsLeaf(u.node[x])
  PROVE  LastBranch(u.node[x]) \in {0, 1} /\ u.node[x].child[LastBranch(u.node[x])] # Null
BY DEF IsLeaf, LastBranch

LEMMA ChildBelow ==
  ASSUME NEW u, NEW D, NEW S, Forest(u, D, S), NEW x \in S, NEW b \in {0, 1}, u.node[x].child[b] # Null
  PROVE  /\ u.node[x].child[b] \in S /\ D[u.node[x].child[b]] = D[x] + 1
         /\ u.node[x].child[b] \in Below(u, D, S, x)
<1>1. Link(u, D, S, x, b)
  BY ForestNode
<1>2. u.node[x].child[b] \in S /\ D[u.node[x].child[b]] = D[x] + 1
  BY <1>1 DEF Link
<1> QED  BY <1>2, BelowChild

After(u, w) == u.node[w[1]].child[w[2]]

LeafWalk(u, x) ==
  CHOOSE below : below = [n \in 0 .. Cardinality(Chunks) |->
    IF n = 0 THEN <<x, LastBranch(u.node[x])>>
    ELSE LET r == u.node[below[n - 1][1]].child[below[n - 1][2]]
         IN  IF IsLeaf(u.node[r]) THEN below[n - 1] ELSE <<r, LastBranch(u.node[r])>>]

LEMMA LeafWalkIs ==
  ASSUME NEW u, NEW D, NEW S, Forest(u, D, S), NEW x \in S, ~ IsLeaf(u.node[x])
  PROVE  LET below == LeafWalk(u, x)
         IN  /\ below[0] = <<x, LastBranch(u.node[x])>>
             /\ \A n \in 1 .. Cardinality(Chunks) :
                  below[n] = IF IsLeaf(u.node[After(u, below[n - 1])]) THEN below[n - 1]
                             ELSE <<After(u, below[n - 1]), LastBranch(u.node[After(u, below[n - 1])])>>
             /\ LinkToLeaf(u, x) = below[Cardinality(Chunks)]
<1> DEFINE N == Cardinality(Chunks)
           W == {w \in S \X {0, 1} : u.node[w[1]].child[w[2]] # Null}
           w0 == <<x, LastBranch(u.node[x])>>
           Step(w) == LET r == u.node[w[1]].child[w[2]]
                      IN  IF IsLeaf(u.node[r]) THEN w ELSE <<r, LastBranch(u.node[r])>>
           f == [d \in Nat |-> [w \in W |-> Step(w)]]
           below == LeafWalk(u, x)
<1>1. N \in Nat
  BY FewLevels
<1>2. w0 \in W
  BY LastChild
<1>3. ASSUME NEW w \in W PROVE Step(w) \in W
  <2> DEFINE r == u.node[w[1]].child[w[2]]
  <2>1. r \in S
    BY ChildBelow
  <2> HIDE DEF r
  <2>2. CASE IsLeaf(u.node[r])
    BY <2>2 DEF r
  <2>3. CASE ~ IsLeaf(u.node[r])
    <3>1. <<r, LastBranch(u.node[r])>> \in W
      BY <2>1, <2>3, LastChild
    <3> QED  BY <2>3, <3>1 DEF r
  <2> QED  BY <2>2, <2>3
<1> HIDE DEF Step, W
<1>5. f \in [Nat -> [W -> W]]
  BY <1>3
<1> HIDE DEF f, w0
<1>i. PICK g : IsLoop(g, W, w0, f, N)
  BY <1>1, <1>2, <1>5, LoopExists
<1> HIDE DEF N
<1>7. g \in [0 .. N -> W] /\ g[0] = w0 /\ \A n \in 1 .. N : g[n] = f[n - 1][g[n - 1]]
  BY <1>i DEF IsLoop
<1>8. \A n \in 1 .. N : g[n] = Step(g[n - 1])
  <2> SUFFICES ASSUME NEW n \in 1 .. N PROVE g[n] = Step(g[n - 1])
    OBVIOUS
  <2>1. n - 1 \in Nat /\ n - 1 \in 0 .. N
    BY <1>1
  <2>2. g[n - 1] \in W
    BY <1>7, <2>1
  <2>3. f[n - 1][g[n - 1]] = Step(g[n - 1])
    BY <2>1, <2>2 DEF f
  <2> QED  BY <1>7, <2>1, <2>3
<1>9. g = [n \in 0 .. N |-> IF n = 0 THEN w0 ELSE Step(g[n - 1])]
  <2>1. \A n \in 0 .. N : n = 0 \/ n \in 1 .. N
    BY <1>1
  <2>2. \A n \in 0 .. N : g[n] = IF n = 0 THEN w0 ELSE Step(g[n - 1])
    BY <1>7, <1>8, <2>1
  <2> QED  BY <1>7, <2>2
<1>10. \E h : h = [n \in 0 .. N |-> IF n = 0 THEN w0 ELSE Step(h[n - 1])]
  BY <1>9
<1>11. below = [n \in 0 .. N |-> IF n = 0 THEN w0 ELSE Step(below[n - 1])]
  BY <1>10, Zenon DEF LeafWalk, Step, w0, N
<1> HIDE DEF below
<1>12. below[0] = w0 /\ \A n \in 1 .. N : below[n] = Step(below[n - 1])
  BY <1>1, <1>11
<1>13. LinkToLeaf(u, x) = below[N]
  BY Zenon DEF LinkToLeaf, LeafWalk, below, N
<1> QED  BY <1>12, <1>13 DEF below, w0, Step, N, After

(* The link is one below x, and leads to a leaf.                           *)
LEMMA LinkToLeafIs ==
  ASSUME NEW u, NEW D, NEW S, Forest(u, D, S), NEW x \in S, ~ IsLeaf(u.node[x])
  PROVE  LET l == LinkToLeaf(u, x)
         IN  /\ l[1] \in Below(u, D, S, x) /\ l[2] \in {0, 1}
             /\ u.node[l[1]].child[l[2]] # Null /\ IsLeaf(u.node[u.node[l[1]].child[l[2]]])
<1> DEFINE N == Cardinality(Chunks)
           below == LeafWalk(u, x)
           Good(n) == /\ below[n][1] \in Below(u, D, S, x) /\ below[n][2] \in {0, 1}
                      /\ After(u, below[n]) # Null
                      /\ IsLeaf(u.node[After(u, below[n])]) \/ D[below[n][1]] = D[x] + n
           T == {n \in 0 .. N : ~ Good(n)}
<1>1. N \in Nat /\ D[x] \in Nat
  BY FewLevels, ForestNode
<1>2. /\ below[0] = <<x, LastBranch(u.node[x])>>
      /\ \A n \in 1 .. N : below[n] = IF IsLeaf(u.node[After(u, below[n - 1])]) THEN below[n - 1]
                                      ELSE <<After(u, below[n - 1]), LastBranch(u.node[After(u, below[n - 1])])>>
      /\ LinkToLeaf(u, x) = below[N]
  BY LeafWalkIs
<1> HIDE DEF below
<1>3. ASSUME T # {} PROVE FALSE
  <2> DEFINE n == Min(T)
  <2>0. T \in SUBSET Nat
    OBVIOUS
  <2>1. n \in T /\ \A m \in T : n <= m
    BY <1>3, <2>0, LeastNat
  <2> HIDE DEF n
  <2>a. n \in 0 .. N /\ ~ Good(n)
    BY <2>1
  <2>2. CASE n = 0
    <3>1. x \in Below(u, D, S, x)
      BY BelowItself
    <3>2. LastBranch(u.node[x]) \in {0, 1} /\ u.node[x].child[LastBranch(u.node[x])] # Null
      BY LastChild
    <3>3. below[0][1] = x /\ below[0][2] = LastBranch(u.node[x])
      BY <1>2
    <3>b. After(u, below[0]) # Null
      BY <3>2, <3>3 DEF After
    <3>4. D[x] = D[x] + 0
      BY <1>1
    <3>5. Good(0)
      BY <3>1, <3>2, <3>3, <3>4, <3>b
    <3> QED  BY <2>2, <2>a, <3>5
  <2>3. CASE n # 0
    <3>0. n - 1 \in 0 .. N /\ n - 1 \in Nat /\ n \in 1 .. N /\ ~ (n <= n - 1) /\ n \in Nat
      BY <1>1, <2>a, <2>3
    <3>1. Good(n - 1)
      BY <2>1, <3>0
    <3> DEFINE w == below[n - 1]
               p == w[1]
               r == After(u, w)
    <3>2. /\ p \in Below(u, D, S, x) /\ w[2] \in {0, 1} /\ r # Null
          /\ IsLeaf(u.node[r]) \/ D[p] = D[x] + (n - 1)
      BY <3>1
    <3>3. p \in S
      BY <3>2 DEF Below
    <3>4. r \in S /\ D[r] = D[p] + 1 /\ r \in Below(u, D, S, p)
      BY <3>2, <3>3, ChildBelow DEF After
    <3>5. r \in Below(u, D, S, x)
      BY <3>2, <3>4, BelowBelow
    <3>6. below[n] = IF IsLeaf(u.node[r]) THEN w ELSE <<r, LastBranch(u.node[r])>>
      BY <1>2, <3>0
    <3>7. CASE IsLeaf(u.node[r])
      <4>1. below[n] = w
        BY <3>6, <3>7
      <4> HIDE DEF w
      <4>2. Good(n)
        BY <3>2, <3>7, <4>1
      <4> QED  BY <2>a, <4>2
    <3>8. CASE ~ IsLeaf(u.node[r])
      <4>1. below[n] = <<r, LastBranch(u.node[r])>>
        BY <3>6, <3>8
      <4>2. LastBranch(u.node[r]) \in {0, 1} /\ u.node[r].child[LastBranch(u.node[r])] # Null
        BY <3>4, <3>8, LastChild
      <4>3. D[r] = D[x] + n
        <5>1. D[p] = D[x] + (n - 1) /\ D[r] = D[p] + 1
          BY <3>2, <3>4, <3>8
        <5>2. \A d, m \in Nat : m # 0 => (d + (m - 1)) + 1 = d + m
          OBVIOUS
        <5> QED  BY <1>1, <2>3, <3>0, <5>1, <5>2
      <4> HIDE DEF r
      <4>4. below[n][1] = r /\ below[n][2] = LastBranch(u.node[r])
        BY <4>1
      <4>b. After(u, below[n]) # Null
        BY <4>2, <4>4 DEF After
      <4>5. Good(n)
        BY <3>5, <4>2, <4>3, <4>4, <4>b
      <4> QED  BY <2>a, <4>5
    <3> QED  BY <3>7, <3>8
  <2> QED  BY <2>2, <2>3
<1>4. Good(N)
  BY <1>1, <1>3
<1> DEFINE l == LinkToLeaf(u, x)
<1>5. /\ l[1] \in Below(u, D, S, x) /\ l[2] \in {0, 1} /\ After(u, l) # Null
      /\ IsLeaf(u.node[After(u, l)]) \/ D[l[1]] = D[x] + N
  BY <1>2, <1>4
<1>6. l[1] \in S
  BY <1>5 DEF Below
<1>7. D[l[1]] < N /\ D[l[1]] \in Nat
  BY <1>6, FewLevels, ForestNode
<1>8. D[l[1]] # D[x] + N
  BY <1>1, <1>7
<1> QED  BY <1>5, <1>8 DEF After

-----------------------------------------------------------------------------
(* Insertion, field by field.                                              *)

LEMMA NewNodeType ==
  ASSUME NEW x \in Chunks, NEW s \in LargeSizes, NEW p \in Chunks \cup {Null, Root}
  PROVE  NewNode(x, s, TreeIndex(s), p) \in NodeType
<1>1. TreeIndex(s) \in TreeIndices
  BY ConstantTypes, BinOfSize
<1>2. [b \in {0, 1} |-> Null] \in [{0, 1} -> Chunks \cup {Null}]
  OBVIOUS
<1> QED  BY <1>1, <1>2 DEF NewNode, NodeType

LEMMA WithNodeIs ==
  ASSUME NEW u, BinsType(u), NEW x \in Chunks, x \notin DOMAIN u.node, NEW n \in NodeType
  PROVE  LET v == WithNode(u, x, n)
         IN  /\ BinsType(v) /\ v.map = u.map /\ v.root = u.root
             /\ DOMAIN v.node = DOMAIN u.node \cup {x}
             /\ v.node[x] = n /\ \A y \in DOMAIN u.node : v.node[y] = u.node[y]
<1> DEFINE N == DOMAIN u.node \cup {x}
           K == [y \in N |-> IF y = x THEN n ELSE u.node[y]]
           v == WithNode(u, x, n)
<1>1. DOMAIN u.node \subseteq Chunks /\ u.node \in [DOMAIN u.node -> NodeType]
  BY NodeTypes
<1>2. K \in [N -> NodeType] /\ N \in SUBSET Chunks
  BY <1>1
<1>3. DOMAIN K = N /\ K[x] = n /\ \A y \in DOMAIN u.node : K[y] = u.node[y]
  OBVIOUS
<1>4. v = [u EXCEPT !.node = K]
  BY DEF WithNode
<1> HIDE DEF v, K, N
<1>5. K \in UNION {[M -> NodeType] : M \in SUBSET Chunks}
  BY <1>2
<1>6. BinsType(v) /\ v.map = u.map /\ v.root = u.root /\ v.node = K
  BY <1>4, <1>5 DEF BinsType
<1> QED  BY <1>3, <1>6 DEF v, N

(* The type of the bins when nodes, roots or the map change.               *)
LEMMA ChangedNodes ==
  ASSUME NEW u, BinsType(u), NEW K \in [DOMAIN u.node -> NodeType]
  PROVE  LET v == [u EXCEPT !.node = K]
         IN  BinsType(v) /\ v.map = u.map /\ v.root = u.root /\ v.node = K
<1>1. DOMAIN u.node \in SUBSET Chunks
  BY NodeTypes
<1>2. K \in UNION {[M -> NodeType] : M \in SUBSET Chunks}
  BY <1>1
<1> QED  BY <1>2 DEF BinsType

LEMMA ChangedRoots ==
  ASSUME NEW u, BinsType(u), NEW R \in [TreeIndices -> Chunks \cup {Null}], NEW M \in SUBSET TreeIndices
  PROVE  LET v == [u EXCEPT !.map = M, !.root = R]
         IN  BinsType(v) /\ v.map = M /\ v.root = R /\ v.node = u.node
BY DEF BinsType

(* Another child of T on branch b.                                         *)
WithChild(u, T, b, x) == [u EXCEPT !.node[T].child[b] = x]

LEMMA ChangedChild ==
  ASSUME NEW u, BinsType(u), NEW T \in DOMAIN u.node, NEW b \in {0, 1}, NEW x \in Chunks \cup {Null}
  PROVE  LET v == WithChild(u, T, b, x)
         IN  /\ BinsType(v) /\ v.map = u.map /\ v.root = u.root /\ DOMAIN v.node = DOMAIN u.node
             /\ v.node[T].child[b] = x /\ \A a \in {0, 1} : a # b => v.node[T].child[a] = u.node[T].child[a]
             /\ v.node[T].size = u.node[T].size /\ v.node[T].index = u.node[T].index
             /\ v.node[T].fd = u.node[T].fd /\ v.node[T].bk = u.node[T].bk
             /\ v.node[T].parent = u.node[T].parent
             /\ \A y \in DOMAIN u.node : y # T => v.node[y] = u.node[y]
<1> DEFINE n == [u.node[T] EXCEPT !.child[b] = x]
           K == [u.node EXCEPT ![T] = n]
           v == WithChild(u, T, b, x)
<1>1. DOMAIN u.node \subseteq Chunks /\ u.node \in [DOMAIN u.node -> NodeType]
  BY NodeTypes
<1>2. u.node[T] \in NodeType
  BY <1>1
<1>3. /\ n \in NodeType /\ n.child[b] = x /\ \A a \in {0, 1} : a # b => n.child[a] = u.node[T].child[a]
      /\ n.size = u.node[T].size /\ n.index = u.node[T].index /\ n.fd = u.node[T].fd /\ n.bk = u.node[T].bk
      /\ n.parent = u.node[T].parent
  BY <1>2 DEF NodeType
<1>4. v = [u EXCEPT !.node = K]
  BY DEF WithChild
<1> HIDE DEF n, v
<1>5. K \in [DOMAIN u.node -> NodeType] /\ K[T] = n /\ \A y \in DOMAIN u.node : y # T => K[y] = u.node[y]
  BY <1>1, <1>3
<1> HIDE DEF K
<1>6. BinsType(v) /\ v.map = u.map /\ v.root = u.root /\ v.node = K
  BY <1>4, <1>5, ChangedNodes
<1>7. DOMAIN v.node = DOMAIN u.node
  BY <1>5, <1>6
<1>8. v.node[T] = n /\ \A y \in DOMAIN u.node : y # T => v.node[y] = u.node[y]
  BY <1>5, <1>6
<1> QED  BY <1>3, <1>6, <1>7, <1>8 DEF v

-----------------------------------------------------------------------------
(* Changes to a forest.                                                    *)

SameLinks(u, v, y) ==
  /\ v.node[y].size = u.node[y].size /\ v.node[y].index = u.node[y].index
  /\ v.node[y].child = u.node[y].child /\ v.node[y].parent = u.node[y].parent

RightBin(u, x) == u.node[x].index = TreeIndex(u.node[x].size)

(* What the forest says of chunk x.                                        *)
Hung(u, D, S, x) ==
  /\ AtRoot(u, D, x) \/ BelowParent(u, S, x)
  /\ \A b \in {0, 1} : u.node[x].child[b] # Null => Link(u, D, S, x, b)

LEMMA ForestIs ==
  ASSUME NEW u, NEW D, NEW S, BinsType(u), D \in [Chunks -> Nat], S \subseteq DOMAIN u.node,
         \A x \in DOMAIN u.node : RightBin(u, x),
         \A i \in TreeIndices : u.root[i] # Null =>
           u.root[i] \in S /\ u.node[u.root[i]].parent = Root /\ u.node[u.root[i]].index = i,
         \A x \in S : Hung(u, D, S, x)
  PROVE  Forest(u, D, S)
BY DEF Forest, RightBin, Hung

LEMMA ForestHas ==
  ASSUME NEW u, NEW D, NEW S, Forest(u, D, S)
  PROVE  /\ BinsType(u) /\ D \in [Chunks -> Nat] /\ S \subseteq DOMAIN u.node /\ S \subseteq Chunks
         /\ \A x \in DOMAIN u.node : RightBin(u, x)
         /\ \A i \in TreeIndices : u.root[i] # Null =>
              u.root[i] \in S /\ u.node[u.root[i]].parent = Root /\ u.node[u.root[i]].index = i
         /\ \A x \in S : Hung(u, D, S, x)
<1>1. S \subseteq Chunks
  BY ForestNode
<1>2. \A x \in S : Hung(u, D, S, x)
  BY ForestNode DEF Hung
<1> QED  BY <1>1, <1>2 DEF Forest, RightBin

(* A root has no parent to hang from.                                      *)
LEMMA RootAtRoot ==
  ASSUME NEW u, NEW D, NEW S, Forest(u, D, S), NEW i \in TreeIndices, u.root[i] # Null
  PROVE  /\ u.root[i] \in S /\ AtRoot(u, D, u.root[i]) /\ u.node[u.root[i]].index = i
         /\ u.node[u.root[i]].parent = Root /\ D[u.root[i]] = 0
<1> DEFINE r == u.root[i]
<1>1. r \in S /\ u.node[r].parent = Root /\ u.node[r].index = i
  BY DEF Forest
<1>2. Root \notin S
  BY ForestNode, ConstantTypes
<1>3. ~ BelowParent(u, S, r)
  BY <1>1, <1>2 DEF BelowParent
<1>4. AtRoot(u, D, r)
  BY <1>1, <1>3, ForestNode
<1> QED  BY <1>1, <1>4 DEF AtRoot

(* Nothing in the forest changes.                                          *)
LEMMA ForestSame ==
  ASSUME NEW u, NEW D, NEW S, Forest(u, D, S), NEW v, BinsType(v), S \subseteq DOMAIN v.node,
         \A i \in TreeIndices : v.root[i] = u.root[i],
         \A y \in DOMAIN v.node : RightBin(v, y), \A y \in S : SameLinks(u, v, y)
  PROVE  Forest(v, D, S)
<1>1. /\ D \in [Chunks -> Nat]
      /\ \A i \in TreeIndices : u.root[i] # Null =>
           u.root[i] \in S /\ u.node[u.root[i]].parent = Root /\ u.node[u.root[i]].index = i
      /\ \A x \in S : Hung(u, D, S, x) /\ u.node[x].index \in TreeIndices
  BY ForestHas, ForestNode
<1>2. \A i \in TreeIndices : v.root[i] # Null =>
        v.root[i] \in S /\ v.node[v.root[i]].parent = Root /\ v.node[v.root[i]].index = i
  BY <1>1 DEF SameLinks
<1>3. ASSUME NEW x \in S PROVE Hung(v, D, S, x)
  <2>1. SameLinks(u, v, x) /\ Hung(u, D, S, x)
    BY <1>1
  <2>a. ASSUME AtRoot(u, D, x) PROVE AtRoot(v, D, x)
    BY <1>1, <2>1, <2>a DEF SameLinks, AtRoot
  <2>b. ASSUME BelowParent(u, S, x) PROVE BelowParent(v, S, x)
    BY <2>1, <2>b DEF SameLinks, BelowParent
  <2>2. AtRoot(v, D, x) \/ BelowParent(v, S, x)
    BY <2>1, <2>a, <2>b DEF Hung
  <2>3. ASSUME NEW b \in {0, 1}, v.node[x].child[b] # Null PROVE Link(v, D, S, x, b)
    <3>1. Link(u, D, S, x, b)
      BY <2>1, <2>3 DEF SameLinks, Hung
    <3>2. u.node[x].child[b] \in S
      BY <3>1 DEF Link
    <3>3. SameLinks(u, v, u.node[x].child[b])
      BY <3>2
    <3> QED  BY <2>1, <3>1, <3>3 DEF Link, SameLinks
  <2> QED  BY <2>2, <2>3 DEF Hung
<1> QED  BY <1>1, <1>2, <1>3, ForestIs

(* A new chunk in an empty bin.                                            *)
LEMMA ForestNewRoot ==
  ASSUME NEW u, NEW D, NEW S, Forest(u, D, S), NEW v, BinsType(v), NEW x \in Chunks,
         x \notin S, S \cup {x} \subseteq DOMAIN v.node,
         u.root[v.node[x].index] = Null, v.root[v.node[x].index] = x,
         \A j \in TreeIndices : j # v.node[x].index => v.root[j] = u.root[j],
         v.node[x].parent = Root, IsLeaf(v.node[x]),
         \A y \in DOMAIN v.node : RightBin(v, y), \A y \in S : SameLinks(u, v, y)
  PROVE  Forest(v, [D EXCEPT ![x] = 0], S \cup {x})
<1> DEFINE E == [D EXCEPT ![x] = 0]
           i == v.node[x].index
<1>1. /\ D \in [Chunks -> Nat] /\ S \subseteq Chunks
      /\ \A j \in TreeIndices : u.root[j] # Null =>
           u.root[j] \in S /\ u.node[u.root[j]].parent = Root /\ u.node[u.root[j]].index = j
      /\ \A y \in S : Hung(u, D, S, y) /\ u.node[y].index \in TreeIndices
  BY ForestHas, ForestNode
<1>2. E \in [Chunks -> Nat] /\ E[x] = 0 /\ \A y \in S : E[y] = D[y]
  BY <1>1
<1> HIDE DEF E
<1>3. i \in TreeIndices
  BY NodeTypes
<1>4. ASSUME NEW j \in TreeIndices, v.root[j] # Null
      PROVE  v.root[j] \in S \cup {x} /\ v.node[v.root[j]].parent = Root /\ v.node[v.root[j]].index = j
  BY <1>1, <1>4 DEF SameLinks
<1>5. Hung(v, E, S \cup {x}, x)
  BY <1>2 DEF Hung, AtRoot, IsLeaf
<1>6. ASSUME NEW y \in S PROVE Hung(v, E, S \cup {x}, y)
  <2>1. SameLinks(u, v, y) /\ Hung(u, D, S, y) /\ u.node[y].index \in TreeIndices
    BY <1>1
  <2>2. ASSUME AtRoot(u, D, y) PROVE AtRoot(v, E, y)
    <3>1. u.root[u.node[y].index] = y /\ y # Null
      BY <1>1, <2>2, ConstantTypes DEF AtRoot
    <3>2. u.node[y].index # i
      BY <3>1
    <3> QED  BY <1>2, <2>1, <2>2, <3>2 DEF AtRoot, SameLinks
  <2>3. ASSUME BelowParent(u, S, y) PROVE BelowParent(v, S \cup {x}, y)
    BY <2>1, <2>3 DEF BelowParent, SameLinks
  <2>4. ASSUME NEW b \in {0, 1}, v.node[y].child[b] # Null PROVE Link(v, E, S \cup {x}, y, b)
    <3>1. Link(u, D, S, y, b)
      BY <2>1, <2>4 DEF SameLinks, Hung
    <3>2. u.node[y].child[b] \in S
      BY <3>1 DEF Link
    <3>3. SameLinks(u, v, u.node[y].child[b]) /\ E[u.node[y].child[b]] = D[u.node[y].child[b]] /\ E[y] = D[y]
      BY <1>2, <3>2
    <3> QED  BY <2>1, <3>1, <3>3 DEF Link, SameLinks
  <2> QED  BY <2>1, <2>2, <2>3, <2>4 DEF Hung
<1>7. \A y \in S \cup {x} : Hung(v, E, S \cup {x}, y)
  BY <1>5, <1>6
<1>8. Forest(v, E, S \cup {x})
  BY <1>2, <1>4, <1>7, ForestIs
<1> QED  BY <1>8 DEF E

(* A new chunk where a branch of T ends.                                   *)
NewLeaf(u, D, S, v, x, T, b) ==
  /\ x \notin S /\ S \cup {x} \subseteq DOMAIN v.node
  /\ \A i \in TreeIndices : v.root[i] = u.root[i]
  /\ u.node[T].child[b] = Null /\ v.node[T].child[b] = x
  /\ \A a \in {0, 1} : a # b => v.node[T].child[a] = u.node[T].child[a]
  /\ v.node[T].size = u.node[T].size /\ v.node[T].index = u.node[T].index /\ v.node[T].parent = u.node[T].parent
  /\ v.node[x].parent = T /\ IsLeaf(v.node[x])
  /\ v.node[x].index = u.node[T].index /\ D[T] < Bits(u.node[T].index)
  /\ Prefix(v.node[x].size, u.node[T].index, D[T]) = Prefix(u.node[T].size, u.node[T].index, D[T])
  /\ Branch(v.node[x].size, u.node[T].index, D[T]) = b
  /\ \A y \in DOMAIN v.node : RightBin(v, y)
  /\ \A y \in S \ {T} : SameLinks(u, v, y)

LEMMA ForestNewLeaf ==
  ASSUME NEW u, NEW D, NEW S, Forest(u, D, S), NEW v, BinsType(v), NEW x \in Chunks,
         NEW T \in S, NEW b \in {0, 1}, NewLeaf(u, D, S, v, x, T, b)
  PROVE  Forest(v, [D EXCEPT ![x] = D[T] + 1], S \cup {x})
<1> DEFINE E == [D EXCEPT ![x] = D[T] + 1]
<1>n. /\ x \notin S /\ S \cup {x} \subseteq DOMAIN v.node
      /\ \A i \in TreeIndices : v.root[i] = u.root[i]
      /\ u.node[T].child[b] = Null /\ v.node[T].child[b] = x
      /\ \A a \in {0, 1} : a # b => v.node[T].child[a] = u.node[T].child[a]
      /\ v.node[T].size = u.node[T].size /\ v.node[T].index = u.node[T].index
      /\ v.node[T].parent = u.node[T].parent
      /\ v.node[x].parent = T /\ IsLeaf(v.node[x])
      /\ v.node[x].index = u.node[T].index /\ D[T] < Bits(u.node[T].index)
      /\ Prefix(v.node[x].size, u.node[T].index, D[T]) = Prefix(u.node[T].size, u.node[T].index, D[T])
      /\ Branch(v.node[x].size, u.node[T].index, D[T]) = b
      /\ \A y \in DOMAIN v.node : RightBin(v, y)
      /\ \A y \in S \ {T} : SameLinks(u, v, y)
  BY DEF NewLeaf
<1> USE <1>n
<1>1. /\ D \in [Chunks -> Nat] /\ S \subseteq Chunks
      /\ \A j \in TreeIndices : u.root[j] # Null =>
           u.root[j] \in S /\ u.node[u.root[j]].parent = Root /\ u.node[u.root[j]].index = j
      /\ \A y \in S : Hung(u, D, S, y) /\ u.node[y].index \in TreeIndices
  BY ForestHas, ForestNode
<1>2. E \in [Chunks -> Nat] /\ E[x] = D[T] + 1 /\ \A y \in S : E[y] = D[y]
  BY <1>1
<1> HIDE DEF E
<1>3. \A y \in S : /\ v.node[y].size = u.node[y].size /\ v.node[y].index = u.node[y].index
                   /\ v.node[y].parent = u.node[y].parent
  BY DEF SameLinks
<1>4. \A y \in S, a \in {0, 1} : ~ (y = T /\ a = b) => v.node[y].child[a] = u.node[y].child[a]
  BY DEF SameLinks
<1>5. ASSUME NEW j \in TreeIndices, v.root[j] # Null
      PROVE  v.root[j] \in S \cup {x} /\ v.node[v.root[j]].parent = Root /\ v.node[v.root[j]].index = j
  BY <1>1, <1>3, <1>5
<1>6. Hung(v, E, S \cup {x}, x)
  <2>1. BelowParent(v, S \cup {x}, x)
    BY DEF BelowParent
  <2> QED  BY <2>1 DEF Hung, IsLeaf
<1>7. ASSUME NEW y \in S PROVE Hung(v, E, S \cup {x}, y)
  <2>1. Hung(u, D, S, y) /\ u.node[y].index \in TreeIndices /\ y # Null
    BY <1>1, ConstantTypes
  <2>2. ASSUME AtRoot(u, D, y) PROVE AtRoot(v, E, y)
    BY <1>2, <1>3, <2>1, <2>2 DEF AtRoot
  <2>3. ASSUME BelowParent(u, S, y) PROVE BelowParent(v, S \cup {x}, y)
    <3>1. PICK a \in {0, 1} : u.node[y].parent \in S /\ u.node[u.node[y].parent].child[a] = y
      BY <2>3 DEF BelowParent
    <3>2. ~ (u.node[y].parent = T /\ a = b)
      BY <2>1, <3>1
    <3>3. v.node[u.node[y].parent].child[a] = y
      BY <1>4, <3>1, <3>2
    <3> QED  BY <1>3, <3>1, <3>3 DEF BelowParent
  <2>4. ASSUME NEW a \in {0, 1}, v.node[y].child[a] # Null PROVE Link(v, E, S \cup {x}, y, a)
    <3>1. CASE y = T /\ a = b
      BY <1>2, <3>1 DEF Link
    <3>2. CASE ~ (y = T /\ a = b)
      <4>0. v.node[y].child[a] = u.node[y].child[a]
        BY <1>4, <3>2
      <4>1. Link(u, D, S, y, a)
        BY <2>1, <2>4, <4>0 DEF Hung
      <4>2. u.node[y].child[a] \in S
        BY <4>1 DEF Link
      <4> DEFINE c == u.node[y].child[a]
      <4>3. /\ E[c] = D[c] /\ E[y] = D[y] /\ v.node[c].size = u.node[c].size /\ v.node[c].index = u.node[c].index
            /\ v.node[c].parent = u.node[c].parent
        BY <1>2, <1>3, <4>2
      <4>4. v.node[y].size = u.node[y].size /\ v.node[y].index = u.node[y].index
        BY <1>3
      <4> QED  BY <4>0, <4>1, <4>3, <4>4 DEF Link
    <3> QED  BY <3>1, <3>2
  <2> QED  BY <2>1, <2>2, <2>3, <2>4 DEF Hung
<1>8. \A y \in S \cup {x} : Hung(v, E, S \cup {x}, y)
  BY <1>6, <1>7
<1>9. Forest(v, E, S \cup {x})
  BY <1>2, <1>5, <1>8, ForestIs
<1> QED  BY <1>9 DEF E

(* A leaf below T is cut off.                                              *)
LEMMA ForestCutChild ==
  ASSUME NEW u, NEW D, NEW S, Forest(u, D, S), NEW v, BinsType(v), NEW T \in S, NEW b \in {0, 1},
         NEW r, r = u.node[T].child[b], r # Null, IsLeaf(u.node[r]),
         S \ {r} \subseteq DOMAIN v.node,
         \A i \in TreeIndices : v.root[i] = u.root[i],
         v.node[T].child[b] = Null,
         \A a \in {0, 1} : a # b => v.node[T].child[a] = u.node[T].child[a],
         v.node[T].size = u.node[T].size, v.node[T].index = u.node[T].index, v.node[T].parent = u.node[T].parent,
         \A y \in DOMAIN v.node : RightBin(v, y), \A y \in S \ {T, r} : SameLinks(u, v, y)
  PROVE  Forest(v, D, S \ {r})
<1>1. /\ D \in [Chunks -> Nat] /\ S \subseteq Chunks
      /\ \A j \in TreeIndices : u.root[j] # Null =>
           u.root[j] \in S /\ u.node[u.root[j]].parent = Root /\ u.node[u.root[j]].index = j
      /\ \A y \in S : Hung(u, D, S, y) /\ u.node[y].index \in TreeIndices
  BY ForestHas, ForestNode, SMTT(30)
<1>2. Link(u, D, S, T, b)
  BY ForestNode
<1>3. r \in S /\ u.node[r].parent = T /\ Branch(u.node[r].size, u.node[T].index, D[T]) = b
  BY <1>2 DEF Link
<1>4. \A y \in S \ {r} : /\ v.node[y].size = u.node[y].size /\ v.node[y].index = u.node[y].index
                         /\ v.node[y].parent = u.node[y].parent
  BY DEF SameLinks
<1>5. \A y \in S \ {r}, a \in {0, 1} : ~ (y = T /\ a = b) => v.node[y].child[a] = u.node[y].child[a]
  BY DEF SameLinks
<1>6. ASSUME NEW j \in TreeIndices, v.root[j] # Null
      PROVE  v.root[j] \in S \ {r} /\ v.node[v.root[j]].parent = Root /\ v.node[v.root[j]].index = j
  <2>1. T # Root
    BY <1>1, ConstantTypes
  <2> QED  BY <1>1, <1>3, <1>4, <1>6, <2>1, SMTT(30)
<1>7. ASSUME NEW y \in S \ {r} PROVE Hung(v, D, S \ {r}, y)
  <2>1. Hung(u, D, S, y) /\ u.node[y].index \in TreeIndices /\ y # Null
    BY <1>1, ConstantTypes
  <2>2. ASSUME AtRoot(u, D, y) PROVE AtRoot(v, D, y)
    BY <1>4, <2>1, <2>2 DEF AtRoot
  <2>3. ASSUME BelowParent(u, S, y) PROVE BelowParent(v, S \ {r}, y)
    <3>1. PICK a \in {0, 1} : u.node[y].parent \in S /\ u.node[u.node[y].parent].child[a] = y
      BY <2>3 DEF BelowParent
    <3>2. ~ (u.node[y].parent = T /\ a = b) /\ u.node[y].parent # r
      BY <2>1, <3>1 DEF IsLeaf
    <3>3. v.node[u.node[y].parent].child[a] = y
      BY <1>5, <3>1, <3>2
    <3> QED  BY <1>4, <3>1, <3>2, <3>3 DEF BelowParent
  <2>4. ASSUME NEW a \in {0, 1}, v.node[y].child[a] # Null PROVE Link(v, D, S \ {r}, y, a)
    <3>1. ~ (y = T /\ a = b)
      BY <2>4
    <3>2. v.node[y].child[a] = u.node[y].child[a]
      BY <1>5, <3>1
    <3>3. Link(u, D, S, y, a)
      BY <2>1, <2>4, <3>2 DEF Hung
    <3> DEFINE c == u.node[y].child[a]
    <3>4. c \in S /\ u.node[c].parent = y /\ Branch(u.node[c].size, u.node[y].index, D[y]) = a
      BY <3>3 DEF Link
    <3>5. c # r
      BY <1>3, <3>1, <3>4
    <3>6. /\ v.node[c].size = u.node[c].size /\ v.node[c].index = u.node[c].index
          /\ v.node[c].parent = u.node[c].parent
      BY <1>4, <3>4, <3>5
    <3>7. v.node[y].size = u.node[y].size /\ v.node[y].index = u.node[y].index
      BY <1>4
    <3> QED  BY <3>2, <3>3, <3>5, <3>6, <3>7 DEF Link
  <2> QED  BY <2>1, <2>2, <2>3, <2>4 DEF Hung
<1>8. S \ {r} \subseteq DOMAIN v.node
  OBVIOUS
<1> QED  BY <1>1, <1>6, <1>7, <1>8, ForestIs

(* A tree that is only a root goes.                                        *)
LEMMA ForestCutRoot ==
  ASSUME NEW u, NEW D, NEW S, Forest(u, D, S), NEW v, BinsType(v), NEW i \in TreeIndices,
         NEW r, r = u.root[i], r # Null, IsLeaf(u.node[r]),
         S \ {r} \subseteq DOMAIN v.node,
         v.root[i] = Null, \A j \in TreeIndices : j # i => v.root[j] = u.root[j],
         \A y \in DOMAIN v.node : RightBin(v, y), \A y \in S \ {r} : SameLinks(u, v, y)
  PROVE  Forest(v, D, S \ {r})
<1>1. /\ D \in [Chunks -> Nat] /\ S \subseteq Chunks
      /\ \A j \in TreeIndices : u.root[j] # Null =>
           u.root[j] \in S /\ u.node[u.root[j]].parent = Root /\ u.node[u.root[j]].index = j
      /\ \A y \in S : Hung(u, D, S, y) /\ u.node[y].index \in TreeIndices
  BY ForestHas, ForestNode
<1>2. r \in S /\ u.node[r].parent = Root /\ u.node[r].index = i
  BY <1>1
<1>3. \A y \in S \ {r} : SameLinks(u, v, y)
  OBVIOUS
<1>4. ASSUME NEW j \in TreeIndices, v.root[j] # Null
      PROVE  v.root[j] \in S \ {r} /\ v.node[v.root[j]].parent = Root /\ v.node[v.root[j]].index = j
  <2>1. j # i /\ v.root[j] = u.root[j]
    BY <1>4
  <2>2. u.root[j] \in S /\ u.node[u.root[j]].parent = Root /\ u.node[u.root[j]].index = j
    BY <1>1, <1>4, <2>1
  <2>3. u.root[j] # r
    BY <1>2, <2>1, <2>2
  <2>4. SameLinks(u, v, u.root[j])
    BY <2>2, <2>3
  <2> QED  BY <2>1, <2>2, <2>3, <2>4 DEF SameLinks
<1>5. ASSUME NEW y \in S \ {r} PROVE Hung(v, D, S \ {r}, y)
  <2>1. SameLinks(u, v, y) /\ Hung(u, D, S, y) /\ u.node[y].index \in TreeIndices /\ y # Null /\ y # Root
    BY <1>1, ConstantTypes
  <2>2. ASSUME AtRoot(u, D, y) PROVE AtRoot(v, D, y)
    <3>1. u.node[y].index # i
      BY <2>2 DEF AtRoot
    <3> QED  BY <2>1, <2>2, <3>1 DEF AtRoot, SameLinks
  <2>3. ASSUME BelowParent(u, S, y) PROVE BelowParent(v, S \ {r}, y)
    <3>1. PICK a \in {0, 1} : u.node[y].parent \in S /\ u.node[u.node[y].parent].child[a] = y
      BY <2>3 DEF BelowParent
    <3>2. u.node[y].parent # r
      BY <2>1, <3>1 DEF IsLeaf
    <3>3. SameLinks(u, v, u.node[y].parent)
      BY <3>1, <3>2
    <3> QED  BY <2>1, <3>1, <3>2, <3>3 DEF BelowParent, SameLinks
  <2>4. ASSUME NEW a \in {0, 1}, v.node[y].child[a] # Null PROVE Link(v, D, S \ {r}, y, a)
    <3>1. Link(u, D, S, y, a)
      BY <2>1, <2>4 DEF Hung, SameLinks
    <3> DEFINE c == u.node[y].child[a]
    <3>2. c \in S /\ u.node[c].parent = y
      BY <3>1 DEF Link
    <3>3. c # r
      BY <1>2, <2>1, <3>2
    <3>4. SameLinks(u, v, c)
      BY <3>2, <3>3
    <3> QED  BY <2>1, <3>1, <3>3, <3>4 DEF Link, SameLinks
  <2> QED  BY <2>1, <2>2, <2>3, <2>4 DEF Hung
<1>6. S \ {r} \subseteq DOMAIN v.node
  OBVIOUS
<1> QED  BY <1>1, <1>4, <1>5, <1>6, ForestIs

(* Chunk r takes the place of x in every link.                             *)
InPlace(u, D, S, v, x, r) ==
  /\ (S \ {x}) \cup {r} \subseteq DOMAIN v.node
  /\ v.node[r].index = u.node[x].index
  /\ Prefix(v.node[r].size, u.node[x].index, D[x]) = Prefix(u.node[x].size, u.node[x].index, D[x])
  /\ v.node[r].parent = u.node[x].parent
  /\ \A a \in {0, 1} : v.node[r].child[a] = u.node[x].child[a]
  /\ \A j \in TreeIndices : v.root[j] = IF u.root[j] = x THEN r ELSE u.root[j]
  /\ \A y \in S \ {x} : /\ v.node[y].size = u.node[y].size /\ v.node[y].index = u.node[y].index
                         /\ v.node[y].parent = IF u.node[y].parent = x THEN r ELSE u.node[y].parent
  /\ \A y \in S \ {x}, a \in {0, 1} :
       v.node[y].child[a] = IF u.node[y].child[a] = x THEN r ELSE u.node[y].child[a]
  /\ \A y \in DOMAIN v.node : RightBin(v, y)

LEMMA ForestReplace ==
  ASSUME NEW u, NEW D, NEW S, Forest(u, D, S), NEW v, BinsType(v), NEW x \in S, NEW r \in Chunks \ S,
         InPlace(u, D, S, v, x, r)
  PROVE  Forest(v, [D EXCEPT ![r] = D[x]], (S \ {x}) \cup {r})
<1> DEFINE E == [D EXCEPT ![r] = D[x]]
           R == (S \ {x}) \cup {r}
           i == u.node[x].index
<1>n. /\ (S \ {x}) \cup {r} \subseteq DOMAIN v.node
      /\ v.node[r].index = u.node[x].index
      /\ Prefix(v.node[r].size, u.node[x].index, D[x]) = Prefix(u.node[x].size, u.node[x].index, D[x])
      /\ v.node[r].parent = u.node[x].parent
      /\ \A a \in {0, 1} : v.node[r].child[a] = u.node[x].child[a]
      /\ \A j \in TreeIndices : v.root[j] = IF u.root[j] = x THEN r ELSE u.root[j]
      /\ \A y \in S \ {x} : /\ v.node[y].size = u.node[y].size /\ v.node[y].index = u.node[y].index
                             /\ v.node[y].parent = IF u.node[y].parent = x THEN r ELSE u.node[y].parent
      /\ \A y \in S \ {x}, a \in {0, 1} :
           v.node[y].child[a] = IF u.node[y].child[a] = x THEN r ELSE u.node[y].child[a]
      /\ \A y \in DOMAIN v.node : RightBin(v, y)
  BY DEF InPlace
<1> USE <1>n
<1>1. /\ D \in [Chunks -> Nat] /\ S \subseteq Chunks
      /\ \A j \in TreeIndices : u.root[j] # Null =>
           u.root[j] \in S /\ u.node[u.root[j]].parent = Root /\ u.node[u.root[j]].index = j
      /\ \A y \in S : Hung(u, D, S, y) /\ u.node[y].index \in TreeIndices /\ u.node[y].size \in Sizes
  BY ForestHas, ForestNode, SMTT(30)
<1>2. E \in [Chunks -> Nat] /\ E[r] = D[x] /\ \A y \in S : E[y] = D[y] /\ D[y] \in Nat
  BY <1>1
<1> HIDE DEF E
<1>3. r # x /\ r # Null /\ r # Root /\ x # Null /\ x # Root /\ \A y \in S : y # Null /\ y # Root
  BY <1>1, ConstantTypes
<1>4. ASSUME NEW j \in TreeIndices, v.root[j] # Null
      PROVE  v.root[j] \in R /\ v.node[v.root[j]].parent = Root /\ v.node[v.root[j]].index = j
  <2>1. CASE u.root[j] = x
    <3>1. v.root[j] = r /\ u.node[x].parent = Root /\ u.node[x].index = j
      BY <1>1, <1>3, <2>1
    <3> QED  BY <3>1
  <2>2. CASE u.root[j] # x
    <3>1. v.root[j] = u.root[j]
      BY <2>2
    <3> DEFINE z == u.root[j]
    <3>2. z \in S \ {x} /\ u.node[z].parent = Root /\ u.node[z].index = j
      BY <1>1, <1>4, <2>2, <3>1
    <3>3. v.node[z].index = j /\ v.node[z].parent = Root
      BY <1>3, <3>2
    <3> QED  BY <3>1, <3>2, <3>3
  <2> QED  BY <2>1, <2>2
<1>5. Hung(v, E, R, r)
  <2>1. Hung(u, D, S, x) /\ i \in TreeIndices
    BY <1>1
  <2>2. ASSUME AtRoot(u, D, x) PROVE AtRoot(v, E, r)
    BY <1>2, <2>1, <2>2 DEF AtRoot
  <2>3. ASSUME BelowParent(u, S, x), ~ AtRoot(u, D, x) PROVE BelowParent(v, R, r)
    <3>1. PICK a \in {0, 1} : u.node[x].parent \in S /\ u.node[u.node[x].parent].child[a] = x
      BY <2>3 DEF BelowParent
    <3>2. u.node[x].parent # x
      <4>1. PICK p \in S : p = u.node[x].parent /\ D[x] = D[p] + 1
        BY <2>3, ParentLink, SMTT(30)
      <4> QED  BY <1>2, <4>1
    <3>3. v.node[u.node[x].parent].child[a] = r
      BY <3>1, <3>2
    <3> QED  BY <3>1, <3>2, <3>3 DEF BelowParent
  <2>4. ASSUME NEW a \in {0, 1}, v.node[r].child[a] # Null PROVE Link(v, E, R, r, a)
    <3> DEFINE c == u.node[x].child[a]
    <3>1. v.node[r].child[a] = c /\ c # Null
      BY <2>4
    <3>2. Link(u, D, S, x, a)
      BY <2>1, <3>1 DEF Hung
    <3>3. /\ c \in S /\ u.node[c].parent = x /\ u.node[c].index = i /\ D[c] = D[x] + 1 /\ D[x] < Bits(i)
          /\ Prefix(u.node[c].size, i, D[x]) = Prefix(u.node[x].size, i, D[x])
          /\ Branch(u.node[c].size, i, D[x]) = a
      BY <3>2 DEF Link
    <3>4. c # x
      BY <1>2, <3>3, SMTT(30)
    <3> HIDE DEF c
    <3>5. v.node[c].size = u.node[c].size /\ v.node[c].index = i /\ v.node[c].parent = r /\ E[c] = D[c]
      BY <1>2, <3>3, <3>4
    <3> QED  BY <1>2, <3>1, <3>3, <3>4, <3>5 DEF Link
  <2> QED  BY <2>1, <2>2, <2>3, <2>4 DEF Hung
<1>6. ASSUME NEW y \in S \ {x} PROVE Hung(v, E, R, y)
  <2>1. Hung(u, D, S, y) /\ u.node[y].index \in TreeIndices /\ y # Null /\ y # Root
    BY <1>1, <1>3
  <2>2. ASSUME AtRoot(u, D, y) PROVE AtRoot(v, E, y)
    <3>1. u.node[y].parent = Root /\ u.root[u.node[y].index] = y /\ D[y] = 0
      BY <2>2 DEF AtRoot
    <3>2. v.node[y].parent = Root /\ v.node[y].index = u.node[y].index
      BY <1>3, <3>1
    <3>3. v.root[u.node[y].index] = y
      BY <2>1, <3>1
    <3> QED  BY <1>2, <3>1, <3>2, <3>3 DEF AtRoot
  <2>3. ASSUME BelowParent(u, S, y) PROVE BelowParent(v, R, y)
    <3> DEFINE p == u.node[y].parent
    <3>1. PICK a \in {0, 1} : p \in S /\ u.node[p].child[a] = y
      BY <2>3 DEF BelowParent
    <3>2. CASE p = x
      <4>1. v.node[y].parent = r /\ v.node[r].child[a] = y
        BY <3>1, <3>2
      <4> QED  BY <4>1 DEF BelowParent
    <3>3. CASE p # x
      <4>1. v.node[y].parent = p /\ v.node[p].child[a] = y
        BY <3>1, <3>3
      <4> QED  BY <3>1, <3>3, <4>1 DEF BelowParent
    <3> QED  BY <3>2, <3>3
  <2>4. ASSUME NEW a \in {0, 1}, v.node[y].child[a] # Null PROVE Link(v, E, R, y, a)
    <3> DEFINE c == u.node[y].child[a]
    <3>1. c # Null
      BY <1>3, <2>4
    <3>2. Link(u, D, S, y, a)
      BY <2>1, <3>1 DEF Hung
    <3> DEFINE k == u.node[y].index
    <3>3. /\ c \in S /\ u.node[c].parent = y /\ u.node[c].index = k /\ D[c] = D[y] + 1 /\ D[y] < Bits(k)
          /\ Prefix(u.node[c].size, k, D[y]) = Prefix(u.node[y].size, k, D[y])
          /\ Branch(u.node[c].size, k, D[y]) = a
      BY <3>2 DEF Link
    <3>4. v.node[y].size = u.node[y].size /\ v.node[y].index = k
      OBVIOUS
    <3>5. CASE c # x
      <4>1. v.node[y].child[a] = c
        BY <3>5
      <4>2. v.node[c].size = u.node[c].size /\ v.node[c].index = k /\ v.node[c].parent = y
        BY <3>3, <3>5
      <4> HIDE DEF c, k
      <4> QED  BY <1>2, <3>3, <3>4, <3>5, <4>1, <4>2 DEF Link
    <3>6. CASE c = x
      <4>1. v.node[y].child[a] = r
        BY <3>6
      <4>2. v.node[r].parent = y /\ v.node[r].index = k /\ i = k
        BY <3>3, <3>6
      <4>3. v.node[r].size \in Sizes /\ u.node[y].size \in Sizes /\ u.node[x].size \in Sizes /\ k \in TreeIndices
        BY <1>1, NodeTypes
      <4>4. D[y] \in Nat /\ D[y] < Bits(k) /\ D[x] = D[y] + 1 /\ Bits(k) \in Nat
        BY <1>2, <3>3, <3>6, <4>3, BitsType
      <4>5. D[x] \in 0 .. Bits(k) /\ D[y] \in 0 .. D[x] /\ D[y] \in 0 .. Bits(k)
        BY <4>4
      <4>6. Prefix(v.node[r].size, k, D[x]) = Prefix(u.node[x].size, k, D[x])
        BY <4>2
      <4>7. Prefix(v.node[r].size, k, D[y]) = Prefix(u.node[x].size, k, D[y])
        BY <4>3, <4>5, <4>6, PrefixShorter
      <4>8. Prefix(v.node[r].size, k, D[y] + 1) = 2 * Prefix(v.node[r].size, k, D[y]) + Branch(v.node[r].size, k, D[y])
            /\ Branch(v.node[r].size, k, D[y]) \in {0, 1}
        BY <4>3, <4>4, PrefixNext
      <4>9. Prefix(u.node[x].size, k, D[y] + 1) = 2 * Prefix(u.node[x].size, k, D[y]) + a
        BY <3>3, <3>6, <4>3, <4>4, PrefixNext
      <4>10. Prefix(u.node[x].size, k, D[y]) \in Nat
        BY <4>3, <4>5, PrefixType
      <4>11. \A m \in Nat : \A p, q \in {0, 1} : 2 * m + p = 2 * m + q => p = q
        OBVIOUS
      <4>12. 2 * Prefix(u.node[x].size, k, D[y]) + Branch(v.node[r].size, k, D[y])
               = 2 * Prefix(u.node[x].size, k, D[y]) + a
        BY <4>4, <4>6, <4>7, <4>8, <4>9
      <4>13. Branch(v.node[r].size, k, D[y]) = a
        BY <4>8, <4>10, <4>11, <4>12
      <4>14. E[r] = E[y] + 1 /\ E[y] = D[y]
        BY <1>2, <4>4
      <4>15. Prefix(v.node[r].size, k, D[y]) = Prefix(u.node[y].size, k, D[y])
        BY <3>3, <3>6, <4>7
      <4> HIDE DEF c, k, i
      <4> QED  BY <3>3, <3>4, <4>1, <4>2, <4>13, <4>14, <4>15 DEF Link
    <3> QED  BY <3>5, <3>6
  <2> QED  BY <2>1, <2>2, <2>3, <2>4 DEF Hung
<1>7. \A y \in R : Hung(v, E, R, y)
  BY <1>5, <1>6
<1>8. R \subseteq DOMAIN v.node
  OBVIOUS
<1> HIDE DEF R
<1>9. Forest(v, E, R)
  BY <1>2, <1>4, <1>7, <1>8, ForestIs
<1> QED  BY <1>9 DEF E, R

-----------------------------------------------------------------------------
(* The lists.  q are the chunks of each size in the order of bk, the one   *)
(* in the tree first.                                                      *)

PlaceAfter(k, n) == IF k = n THEN 1 ELSE k + 1
PlaceBefore(k, n) == IF k = 1 THEN n ELSE k - 1

Listed(u, s, l, k) ==
  /\ l[k] \in DOMAIN u.node /\ u.node[l[k]].size = s
  /\ u.node[l[k]].bk = l[PlaceAfter(k, Len(l))] /\ u.node[l[k]].fd = l[PlaceBefore(k, Len(l))]
  /\ u.node[l[k]].parent # Null <=> k = 1
  /\ k # 1 => IsLeaf(u.node[l[k]])

IsList(u, s, l) ==
  /\ l \in Seq(Chunks)
  /\ \A j, k \in 1 .. Len(l) : l[j] = l[k] => j = k
  /\ \A k \in 1 .. Len(l) : Listed(u, s, l, k)

Lists(u, q) ==
  /\ q \in [LargeSizes -> Seq(Chunks)]
  /\ \A s \in LargeSizes : IsList(u, s, q[s])
  /\ \A x \in DOMAIN u.node : \E k \in 1 .. Len(q[u.node[x].size]) : q[u.node[x].size][k] = x

LEMMA Places ==
  ASSUME NEW n \in Nat, NEW k \in 1 .. n
  PROVE  PlaceAfter(k, n) \in 1 .. n /\ PlaceBefore(k, n) \in 1 .. n
BY DEF PlaceAfter, PlaceBefore

(* The list of another size when nothing about its chunks changes.         *)
SameList(u, v, y) ==
  /\ v.node[y].size = u.node[y].size /\ v.node[y].fd = u.node[y].fd /\ v.node[y].bk = u.node[y].bk
  /\ v.node[y].parent = Null <=> u.node[y].parent = Null
  /\ u.node[y].parent = Null => (IsLeaf(u.node[y]) => IsLeaf(v.node[y]))

LEMMA ListSame ==
  ASSUME NEW u, NEW v, NEW s \in LargeSizes, NEW l, IsList(u, s, l),
         \A y \in DOMAIN u.node : u.node[y].size = s => y \in DOMAIN v.node /\ SameList(u, v, y)
  PROVE  IsList(v, s, l)
<1>1. l \in Seq(Chunks) /\ \A j, k \in 1 .. Len(l) : l[j] = l[k] => j = k
  BY DEF IsList
<1>2. ASSUME NEW k \in 1 .. Len(l) PROVE Listed(v, s, l, k)
  <2>1. Listed(u, s, l, k)
    BY DEF IsList
  <2>2. l[k] \in DOMAIN v.node /\ SameList(u, v, l[k])
    BY <2>1 DEF Listed
  <2> QED  BY <2>1, <2>2 DEF Listed, SameList
<1> QED  BY <1>1, <1>2 DEF IsList

InList(l, y) == \E k \in 1 .. Len(l) : l[k] = y

(* The list of one size changes.                                           *)
ListChange(u, v, q, r, s, l) ==
  /\ \A y \in DOMAIN u.node : u.node[y].size # s => y \in DOMAIN v.node /\ SameList(u, v, y)
  /\ \A y \in DOMAIN v.node :
       (v.node[y].size = s /\ InList(l, y)) \/ (y \in DOMAIN u.node /\ u.node[y].size # s)
  /\ r \in [LargeSizes -> Seq(Chunks)] /\ r[s] = l /\ \A z \in LargeSizes : z # s => r[z] = q[z]

LEMMA ListsChange ==
  ASSUME NEW u, BinsType(u), NEW v, BinsType(v), NEW q, Lists(u, q), NEW s \in LargeSizes,
         NEW l, IsList(v, s, l), NEW r, ListChange(u, v, q, r, s, l)
  PROVE  Lists(v, r)
<1>1. q \in [LargeSizes -> Seq(Chunks)] /\ l \in Seq(Chunks)
  BY DEF Lists, IsList
<1>2. r \in [LargeSizes -> Seq(Chunks)] /\ r[s] = l /\ \A z \in LargeSizes : z # s => r[z] = q[z]
  BY DEF ListChange
<1>c. /\ \A y \in DOMAIN u.node : u.node[y].size # s => y \in DOMAIN v.node /\ SameList(u, v, y)
      /\ \A y \in DOMAIN v.node :
           (v.node[y].size = s /\ InList(l, y)) \/ (y \in DOMAIN u.node /\ u.node[y].size # s)
  BY DEF ListChange
<1>3. ASSUME NEW z \in LargeSizes PROVE IsList(v, z, r[z])
  <2>1. CASE z = s
    BY <1>2, <2>1
  <2>2. CASE z # s
    <3>1. IsList(u, z, q[z])
      BY DEF Lists
    <3>2. \A y \in DOMAIN u.node : u.node[y].size = z => y \in DOMAIN v.node /\ SameList(u, v, y)
      BY <1>c, <2>2
    <3>3. IsList(v, z, q[z])
      BY <3>1, <3>2, ListSame
    <3> QED  BY <1>2, <2>2, <3>3
  <2> QED  BY <2>1, <2>2
<1>4. ASSUME NEW y \in DOMAIN v.node PROVE \E k \in 1 .. Len(r[v.node[y].size]) : r[v.node[y].size][k] = y
  <2>1. CASE v.node[y].size = s /\ InList(l, y)
    BY <1>2, <2>1 DEF InList
  <2>2. CASE y \in DOMAIN u.node /\ u.node[y].size # s
    <3>1. v.node[y].size = u.node[y].size /\ u.node[y].size \in LargeSizes
      BY <1>c, <2>2, NodeTypes DEF SameList
    <3>2. \E k \in 1 .. Len(q[u.node[y].size]) : q[u.node[y].size][k] = y
      BY <2>2 DEF Lists
    <3>3. r[v.node[y].size] = q[u.node[y].size]
      BY <1>2, <2>2, <3>1
    <3> QED  BY <3>2, <3>3
  <2> QED  BY <1>c, <2>1, <2>2
<1> QED  BY <1>2, <1>3, <1>4 DEF Lists

(* A new chunk is a list of its own.                                       *)
LEMMA ListOfOne ==
  ASSUME NEW u, NEW s, NEW x \in Chunks, x \in DOMAIN u.node, u.node[x].size = s,
         u.node[x].fd = x, u.node[x].bk = x, u.node[x].parent # Null
  PROVE  IsList(u, s, <<x>>) /\ Len(<<x>>) = 1 /\ <<x>>[1] = x
<1> DEFINE l == <<x>>
<1>1. l \in Seq(Chunks) /\ Len(l) = 1 /\ l[1] = x
  OBVIOUS
<1> HIDE DEF l
<1>2. 1 .. 1 = {1}
  OBVIOUS
<1>3. Listed(u, s, l, 1)
  BY <1>1 DEF Listed, PlaceAfter, PlaceBefore
<1>4. IsList(u, s, l)
  BY <1>1, <1>2, <1>3 DEF IsList
<1> QED  BY <1>1, <1>4 DEF l

(* Chunk x joins the list of its size at the end.                          *)
LEMMA ListAppended ==
  ASSUME NEW u, NEW v, NEW s, NEW l, IsList(u, s, l), Len(l) # 0, NEW x \in Chunks,
         x \notin DOMAIN u.node, DOMAIN v.node = DOMAIN u.node \cup {x},
         v.node[x].size = s, v.node[x].bk = l[1], v.node[x].fd = u.node[l[1]].fd,
         v.node[x].parent = Null, IsLeaf(v.node[x]),
         \A y \in DOMAIN u.node :
           /\ v.node[y].size = u.node[y].size /\ v.node[y].parent = u.node[y].parent
           /\ v.node[y].child = u.node[y].child
           /\ v.node[y].bk = IF y = u.node[l[1]].fd THEN x ELSE u.node[y].bk
           /\ v.node[y].fd = IF y = l[1] THEN x ELSE u.node[y].fd
  PROVE  IsList(v, s, Append(l, x))
<1> DEFINE m == Append(l, x)
           n == Len(l)
<1>1. l \in Seq(Chunks) /\ n \in Nat /\ n # 0 /\ (\A j, k \in 1 .. n : l[j] = l[k] => j = k)
      /\ (\A k \in 1 .. n : Listed(u, s, l, k))
  BY DEF IsList
<1>2. m \in Seq(Chunks) /\ Len(m) = n + 1 /\ m[n + 1] = x /\ \A k \in 1 .. n : m[k] = l[k]
  BY <1>1
<1> HIDE DEF m, n
<1>3. \A k \in 1 .. n : l[k] # x
  BY <1>1 DEF Listed
<1>4. \A j, k \in 1 .. n + 1 : m[j] = m[k] => j = k
  <2>1. \A k \in 1 .. n + 1 : k \in 1 .. n \/ k = n + 1
    BY <1>1
  <2> QED  BY <1>1, <1>2, <1>3, <2>1
<1>5. u.node[l[1]].fd = l[n]
  BY <1>1 DEF Listed, PlaceBefore, n
<1>6. 1 \in 1 .. n /\ n \in 1 .. n
  BY <1>1
<1>7. Listed(v, s, m, n + 1)
  <2>1. PlaceAfter(n + 1, n + 1) = 1 /\ PlaceBefore(n + 1, n + 1) = n /\ n + 1 # 1
    BY <1>1 DEF PlaceAfter, PlaceBefore
  <2> QED  BY <1>2, <1>5, <1>6, <2>1 DEF Listed
<1>8. ASSUME NEW k \in 1 .. n PROVE Listed(v, s, m, k)
  <2> DEFINE y == l[k]
  <2>1. /\ y \in DOMAIN u.node /\ u.node[y].size = s
        /\ u.node[y].bk = l[PlaceAfter(k, n)] /\ u.node[y].fd = l[PlaceBefore(k, n)]
        /\ u.node[y].parent # Null <=> k = 1
        /\ k # 1 => IsLeaf(u.node[y])
    BY <1>1 DEF Listed, n
  <2>2. m[k] = y
    BY <1>2
  <2>3. v.node[y].bk = m[PlaceAfter(k, n + 1)]
    <3>1. CASE k = n
      <4>1. PlaceAfter(k, n + 1) = n + 1
        BY <1>1, <3>1 DEF PlaceAfter
      <4> QED  BY <1>2, <1>5, <2>1, <3>1, <4>1
    <3>2. CASE k # n
      <4>1. PlaceAfter(k, n + 1) = k + 1 /\ PlaceAfter(k, n) = k + 1 /\ k + 1 \in 1 .. n
        BY <1>1, <3>2 DEF PlaceAfter
      <4>2. y # u.node[l[1]].fd
        BY <1>1, <1>5, <1>6, <3>2
      <4> QED  BY <1>2, <2>1, <4>1, <4>2
    <3> QED  BY <3>1, <3>2
  <2>4. v.node[y].fd = m[PlaceBefore(k, n + 1)]
    <3>1. CASE k = 1
      <4>1. PlaceBefore(k, n + 1) = n + 1
        BY <1>1, <3>1 DEF PlaceBefore
      <4> QED  BY <1>2, <2>1, <3>1, <4>1
    <3>2. CASE k # 1
      <4>1. PlaceBefore(k, n + 1) = k - 1 /\ PlaceBefore(k, n) = k - 1 /\ k - 1 \in 1 .. n
        BY <1>1, <3>2 DEF PlaceBefore
      <4>2. y # l[1]
        BY <1>1, <1>6, <3>2
      <4> QED  BY <1>2, <2>1, <4>1, <4>2
    <3> QED  BY <3>1, <3>2
  <2>5. v.node[y].size = s /\ v.node[y].parent = u.node[y].parent /\ v.node[y].child = u.node[y].child
    BY <2>1
  <2>6. k # 1 => IsLeaf(v.node[y])
    BY <2>1, <2>5 DEF IsLeaf
  <2> HIDE DEF y
  <2> QED  BY <1>2, <2>1, <2>2, <2>3, <2>4, <2>5, <2>6 DEF Listed
<1>9. \A k \in 1 .. n + 1 : Listed(v, s, m, k)
  <2>1. \A k \in 1 .. n + 1 : k \in 1 .. n \/ k = n + 1
    BY <1>1
  <2> QED  BY <1>7, <1>8, <2>1
<1>10. IsList(v, s, m)
  BY <1>2, <1>4, <1>9 DEF IsList
<1> QED  BY <1>10 DEF m

(* Where the j-th element was before the k-th was removed.                 *)
Kept(j, k) == IF j < k THEN j ELSE j + 1

Removed(l, k) == [j \in 1 .. Len(l) - 1 |-> l[Kept(j, k)]]

LEMMA KeptPlaces ==
  ASSUME NEW n \in Nat, NEW k \in 1 .. n, NEW j \in 1 .. n - 1
  PROVE  /\ Kept(j, k) \in 1 .. n /\ Kept(j, k) # k
         /\ Kept(PlaceAfter(j, n - 1), k) = IF Kept(j, k) = PlaceBefore(k, n) THEN PlaceAfter(k, n) ELSE PlaceAfter(Kept(j, k), n)
         /\ Kept(PlaceBefore(j, n - 1), k) = IF Kept(j, k) = PlaceAfter(k, n) THEN PlaceBefore(k, n) ELSE PlaceBefore(Kept(j, k), n)
         /\ j = 1 <=> (Kept(j, k) = 1 \/ (k = 1 /\ Kept(j, k) = PlaceAfter(k, n)))
BY DEF Kept, PlaceAfter, PlaceBefore

(* The part of it about the front of the list.                             *)
LEMMA KeptFirst ==
  ASSUME NEW n \in Nat, NEW k \in 1 .. n, NEW j \in 1 .. n - 1
  PROVE  j = 1 <=> (Kept(j, k) = 1 \/ (k = 1 /\ Kept(j, k) = PlaceAfter(k, n)))
BY DEF Kept, PlaceAfter

LEMMA RemovedIs ==
  ASSUME NEW l \in Seq(Chunks), NEW k \in 1 .. Len(l)
  PROVE  /\ Removed(l, k) \in Seq(Chunks) /\ Len(Removed(l, k)) = Len(l) - 1
         /\ \A j \in 1 .. Len(l) - 1 : Removed(l, k)[j] = l[Kept(j, k)]
         /\ \A i \in 1 .. Len(l) : i # k => \E j \in 1 .. Len(l) - 1 : Kept(j, k) = i
<1> DEFINE n == Len(l)
           m == Removed(l, k)
<1>1. n \in Nat /\ k \in 1 .. n /\ n - 1 \in Nat
  OBVIOUS
<1>2. \A j \in 1 .. n - 1 : Kept(j, k) \in 1 .. n
  BY KeptPlaces
<1>3. m = [j \in 1 .. n - 1 |-> l[Kept(j, k)]]
  BY DEF Removed
<1> HIDE DEF n, m
<1>4. \A j \in 1 .. n : l[j] \in Chunks
  BY DEF n
<1>5. m \in [1 .. n - 1 -> Chunks]
  BY <1>2, <1>3, <1>4
<1>6. m \in Seq(Chunks) /\ Len(m) = n - 1
  BY <1>1, <1>5
<1>7. ASSUME NEW i \in 1 .. n, i # k PROVE \E j \in 1 .. n - 1 : Kept(j, k) = i
  <2>1. CASE i < k
    <3>1. i \in 1 .. n - 1 /\ Kept(i, k) = i
      BY <1>1, <2>1 DEF Kept
    <3> QED  BY <3>1
  <2>2. CASE i > k
    <3>1. i - 1 \in 1 .. n - 1 /\ Kept(i - 1, k) = i
      BY <1>1, <2>2 DEF Kept
    <3> QED  BY <3>1
  <2> QED  BY <1>1, <1>7, <2>1, <2>2
<1> QED  BY <1>3, <1>6, <1>7 DEF n, m

(* Chunk x leaves its list; if it was the one in the tree, the next one    *)
(* takes its place.                                                        *)
(* Chunk x is no more, and the chunks before and after it in its list are  *)
(* neighbours; the next older one is in the tree if x was.                 *)
UnlinkedAt(u, v, x, y) ==
  /\ v.node[y].size = u.node[y].size
  /\ v.node[y].bk = IF y = u.node[x].fd THEN u.node[x].bk ELSE u.node[y].bk
  /\ v.node[y].fd = IF y = u.node[x].bk THEN u.node[x].fd ELSE u.node[y].fd
  /\ v.node[y].parent # Null <=>
       (u.node[y].parent # Null \/ (u.node[x].parent # Null /\ y = u.node[x].bk))
  /\ v.node[y].parent = Null => (IsLeaf(u.node[y]) => IsLeaf(v.node[y]))

UnlinkedFrom(u, v, x) ==
  /\ DOMAIN v.node = DOMAIN u.node \ {x}
  /\ \A y \in DOMAIN u.node \ {x} : UnlinkedAt(u, v, x, y)

LEMMA ListRemoved ==
  ASSUME NEW u, NEW v, NEW s, NEW l, IsList(u, s, l), NEW k \in 1 .. Len(l), NEW x, x = l[k],
         UnlinkedFrom(u, v, x)
  PROVE  IsList(v, s, Removed(l, k))
<1> DEFINE n == Len(l)
           m == Removed(l, k)
<1>1. l \in Seq(Chunks) /\ n \in Nat /\ (\A i, j \in 1 .. n : l[i] = l[j] => i = j)
      /\ (\A j \in 1 .. n : Listed(u, s, l, j)) /\ k \in 1 .. n /\ n - 1 \in Nat
  BY DEF IsList
<1>2. m \in Seq(Chunks) /\ Len(m) = n - 1 /\ \A j \in 1 .. n - 1 : m[j] = l[Kept(j, k)]
  BY <1>1, RemovedIs
<1> HIDE DEF m, n
<1>3. \A j \in 1 .. n - 1 : Kept(j, k) \in 1 .. n /\ Kept(j, k) # k
  BY <1>1, KeptPlaces
<1>4. \A i, j \in 1 .. n - 1 : m[i] = m[j] => i = j
  <2>1. \A i, j \in 1 .. n - 1 : Kept(i, k) = Kept(j, k) => i = j
    BY <1>1 DEF Kept
  <2> SUFFICES ASSUME NEW i \in 1 .. n - 1, NEW j \in 1 .. n - 1, m[i] = m[j] PROVE i = j
    OBVIOUS
  <2>2. l[Kept(i, k)] = l[Kept(j, k)] /\ Kept(i, k) \in 1 .. n /\ Kept(j, k) \in 1 .. n
    BY <1>2, <1>3
  <2>3. Kept(i, k) = Kept(j, k)
    BY <1>1, <2>2
  <2> QED  BY <2>1, <2>3
<1>5. /\ x = l[k] /\ u.node[x].fd = l[PlaceBefore(k, n)] /\ u.node[x].bk = l[PlaceAfter(k, n)]
      /\ u.node[x].parent # Null <=> k = 1
  BY <1>1 DEF Listed, n
<1>6. PlaceBefore(k, n) \in 1 .. n /\ PlaceAfter(k, n) \in 1 .. n
  BY <1>1, Places
<1>7. ASSUME NEW j \in 1 .. n - 1 PROVE Listed(v, s, m, j)
  <2> DEFINE e == Kept(j, k)
             y == l[e]
  <2>1. e \in 1 .. n /\ e # k /\ m[j] = y
    BY <1>2, <1>3
  <2>2. y # x
    BY <1>1, <1>5, <2>1
  <2>3. /\ y \in DOMAIN u.node /\ u.node[y].size = s
        /\ u.node[y].bk = l[PlaceAfter(e, n)] /\ u.node[y].fd = l[PlaceBefore(e, n)]
        /\ u.node[y].parent # Null <=> e = 1
        /\ e # 1 => IsLeaf(u.node[y])
    BY <1>1, <2>1 DEF Listed, n
  <2>4. /\ y \in DOMAIN v.node /\ v.node[y].size = s
        /\ v.node[y].bk = IF y = u.node[x].fd THEN u.node[x].bk ELSE u.node[y].bk
        /\ v.node[y].fd = IF y = u.node[x].bk THEN u.node[x].fd ELSE u.node[y].fd
        /\ v.node[y].parent # Null <=>
             (u.node[y].parent # Null \/ (u.node[x].parent # Null /\ y = u.node[x].bk))
        /\ v.node[y].parent = Null => (IsLeaf(u.node[y]) => IsLeaf(v.node[y]))
    BY <2>2, <2>3 DEF UnlinkedFrom, UnlinkedAt
  <2>a. n \in Nat /\ k \in 1 .. n /\ j \in 1 .. n - 1
    BY <1>1
  <2>b. Kept(PlaceAfter(j, n - 1), k) = IF e = PlaceBefore(k, n) THEN PlaceAfter(k, n) ELSE PlaceAfter(e, n)
    BY <2>a, KeptPlaces
  <2>c. Kept(PlaceBefore(j, n - 1), k) = IF e = PlaceAfter(k, n) THEN PlaceBefore(k, n) ELSE PlaceBefore(e, n)
    BY <2>a, KeptPlaces
  <2>d. j = 1 <=> (e = 1 \/ (k = 1 /\ e = PlaceAfter(k, n)))
    BY <2>a, KeptFirst
  <2>5. /\ Kept(PlaceAfter(j, n - 1), k) = IF e = PlaceBefore(k, n) THEN PlaceAfter(k, n) ELSE PlaceAfter(e, n)
        /\ Kept(PlaceBefore(j, n - 1), k) = IF e = PlaceAfter(k, n) THEN PlaceBefore(k, n) ELSE PlaceBefore(e, n)
        /\ j = 1 <=> (e = 1 \/ (k = 1 /\ e = PlaceAfter(k, n)))
    BY <2>b, <2>c, <2>d
  <2>6. PlaceAfter(j, n - 1) \in 1 .. n - 1 /\ PlaceBefore(j, n - 1) \in 1 .. n - 1
    BY <1>1, Places
  <2> HIDE DEF e
  <2>7. (y = u.node[x].fd <=> e = PlaceBefore(k, n)) /\ (y = u.node[x].bk <=> e = PlaceAfter(k, n))
    BY <1>1, <1>5, <1>6, <2>1
  <2>8. v.node[y].bk = m[PlaceAfter(j, n - 1)]
    <3>1. m[PlaceAfter(j, n - 1)] = l[IF e = PlaceBefore(k, n) THEN PlaceAfter(k, n) ELSE PlaceAfter(e, n)]
      BY <1>2, <2>5, <2>6
    <3> QED  BY <1>5, <2>3, <2>4, <2>7, <3>1
  <2>9. v.node[y].fd = m[PlaceBefore(j, n - 1)]
    <3>1. m[PlaceBefore(j, n - 1)] = l[IF e = PlaceAfter(k, n) THEN PlaceBefore(k, n) ELSE PlaceBefore(e, n)]
      BY <1>2, <2>5, <2>6
    <3> QED  BY <1>5, <2>3, <2>4, <2>7, <3>1
  <2>10. v.node[y].parent # Null <=> j = 1
    BY <1>5, <2>3, <2>4, <2>5, <2>7
  <2>11. j # 1 => IsLeaf(v.node[y])
    BY <2>3, <2>4, <2>5, <2>10
  <2> HIDE DEF y
  <2> QED  BY <1>2, <2>1, <2>4, <2>8, <2>9, <2>10, <2>11 DEF Listed
<1>8. IsList(v, s, m)
  BY <1>2, <1>4, <1>7 DEF IsList
<1> QED  BY <1>8 DEF m

-----------------------------------------------------------------------------
(* The invariant: the chunks with a parent are a forest, the chunks of one *)
(* size a list, and the marked bins those that have a tree.                *)

Heads(u) == {x \in DOMAIN u.node : u.node[x].parent # Null}

Marked(u) == \A i \in TreeIndices : i \in u.map <=> u.root[i] # Null

Bins(u, D, q) == Forest(u, D, Heads(u)) /\ Lists(u, q) /\ Marked(u)

(* Links of the lists change.                                              *)
SameTree(m, n) ==
  /\ n.size = m.size /\ n.index = m.index /\ n.child = m.child /\ n.parent = m.parent

LEMMA NodeFd ==
  ASSUME NEW N, NEW K \in [N -> NodeType], NEW a \in N, NEW x \in Chunks
  PROVE  LET L == [K EXCEPT ![a].fd = x]
         IN  /\ L \in [N -> NodeType]
             /\ \A z \in N : SameTree(K[z], L[z]) /\ L[z].bk = K[z].bk
             /\ \A z \in N : L[z].fd = IF z = a THEN x ELSE K[z].fd
<1> DEFINE n == [K[a] EXCEPT !.fd = x]
<1>1. n \in NodeType /\ n.fd = x /\ n.bk = K[a].bk /\ SameTree(K[a], n)
  BY DEF NodeType, SameTree
<1>2. [K EXCEPT ![a].fd = x] = [K EXCEPT ![a] = n]
  OBVIOUS
<1> HIDE DEF n
<1> DEFINE L == [K EXCEPT ![a] = n]
<1>3. L \in [N -> NodeType] /\ L[a] = n /\ \A z \in N : z # a => L[z] = K[z]
  BY <1>1
<1> HIDE DEF L
<1>4. \A z \in N : SameTree(K[z], L[z]) /\ L[z].bk = K[z].bk /\ L[z].fd = IF z = a THEN x ELSE K[z].fd
  BY <1>1, <1>3 DEF SameTree
<1>5. /\ L \in [N -> NodeType]
      /\ \A z \in N : SameTree(K[z], L[z]) /\ L[z].bk = K[z].bk
      /\ \A z \in N : L[z].fd = IF z = a THEN x ELSE K[z].fd
  BY <1>3, <1>4
<1> QED  BY <1>2, <1>5 DEF L

LEMMA NodeBk ==
  ASSUME NEW N, NEW K \in [N -> NodeType], NEW a \in N, NEW x \in Chunks
  PROVE  LET L == [K EXCEPT ![a].bk = x]
         IN  /\ L \in [N -> NodeType]
             /\ \A z \in N : SameTree(K[z], L[z]) /\ L[z].fd = K[z].fd
             /\ \A z \in N : L[z].bk = IF z = a THEN x ELSE K[z].bk
<1> DEFINE n == [K[a] EXCEPT !.bk = x]
<1>1. n \in NodeType /\ n.bk = x /\ n.fd = K[a].fd /\ SameTree(K[a], n)
  BY DEF NodeType, SameTree
<1>2. [K EXCEPT ![a].bk = x] = [K EXCEPT ![a] = n]
  OBVIOUS
<1> HIDE DEF n
<1> DEFINE L == [K EXCEPT ![a] = n]
<1>3. L \in [N -> NodeType] /\ L[a] = n /\ \A z \in N : z # a => L[z] = K[z]
  BY <1>1
<1> HIDE DEF L
<1>4. \A z \in N : SameTree(K[z], L[z]) /\ L[z].fd = K[z].fd /\ L[z].bk = IF z = a THEN x ELSE K[z].bk
  BY <1>1, <1>3 DEF SameTree
<1>5. /\ L \in [N -> NodeType]
      /\ \A z \in N : SameTree(K[z], L[z]) /\ L[z].fd = K[z].fd
      /\ \A z \in N : L[z].bk = IF z = a THEN x ELSE K[z].bk
  BY <1>3, <1>4
<1> QED  BY <1>2, <1>5 DEF L

WithFdBk(u, a, b, x, y) == [u EXCEPT !.node[a].fd = x, !.node[b].bk = y]

LEMMA ChangedFdBk ==
  ASSUME NEW u, BinsType(u), NEW a \in DOMAIN u.node, NEW b \in DOMAIN u.node,
         NEW x \in Chunks, NEW y \in Chunks
  PROVE  LET v == WithFdBk(u, a, b, x, y)
         IN  /\ BinsType(v) /\ v.map = u.map /\ v.root = u.root /\ DOMAIN v.node = DOMAIN u.node
             /\ \A z \in DOMAIN u.node : SameLinks(u, v, z)
             /\ \A z \in DOMAIN u.node : v.node[z].fd = IF z = a THEN x ELSE u.node[z].fd
             /\ \A z \in DOMAIN u.node : v.node[z].bk = IF z = b THEN y ELSE u.node[z].bk
<1> DEFINE N == DOMAIN u.node
           K == u.node
           L == [K EXCEPT ![a].fd = x]
           M == [L EXCEPT ![b].bk = y]
           v == WithFdBk(u, a, b, x, y)
<1>1. v = [u EXCEPT !.node = M]
  BY DEF WithFdBk
<1>2. K \in [N -> NodeType]
  BY NodeTypes
<1> HIDE DEF v, N
<1>a. a \in N /\ b \in N
  BY DEF N
<1>3. /\ L \in [N -> NodeType]
      /\ \A z \in N : SameTree(K[z], L[z]) /\ L[z].bk = K[z].bk
      /\ \A z \in N : L[z].fd = IF z = a THEN x ELSE K[z].fd
  BY <1>2, <1>a, NodeFd
<1> HIDE DEF L
<1>4. /\ M \in [N -> NodeType]
      /\ \A z \in N : SameTree(L[z], M[z]) /\ M[z].fd = L[z].fd
      /\ \A z \in N : M[z].bk = IF z = b THEN y ELSE L[z].bk
  BY <1>3, <1>a, NodeBk
<1> HIDE DEF M
<1>5. BinsType(v) /\ v.map = u.map /\ v.root = u.root /\ v.node = M
  BY <1>1, <1>4, ChangedNodes DEF N
<1>6. DOMAIN v.node = DOMAIN u.node
  BY <1>4, <1>5 DEF N
<1>7. \A z \in DOMAIN u.node : SameLinks(u, v, z)
  BY <1>3, <1>4, <1>5 DEF N, SameTree, SameLinks
<1>8. \A z \in DOMAIN u.node : v.node[z].fd = IF z = a THEN x ELSE u.node[z].fd
  BY <1>3, <1>4, <1>5 DEF N
<1>9. \A z \in DOMAIN u.node : v.node[z].bk = IF z = b THEN y ELSE u.node[z].bk
  BY <1>3, <1>4, <1>5 DEF N
<1> QED  BY <1>5, <1>6, <1>7, <1>8, <1>9 DEF v

WithBkFd(u, a, b, x, y) == [u EXCEPT !.node[a].bk = x, !.node[b].fd = y]

LEMMA ChangedBkFd ==
  ASSUME NEW u, BinsType(u), NEW a \in DOMAIN u.node, NEW b \in DOMAIN u.node,
         NEW x \in Chunks, NEW y \in Chunks
  PROVE  LET v == WithBkFd(u, a, b, x, y)
         IN  /\ BinsType(v) /\ v.map = u.map /\ v.root = u.root /\ DOMAIN v.node = DOMAIN u.node
             /\ \A z \in DOMAIN u.node : SameLinks(u, v, z)
             /\ \A z \in DOMAIN u.node : v.node[z].bk = IF z = a THEN x ELSE u.node[z].bk
             /\ \A z \in DOMAIN u.node : v.node[z].fd = IF z = b THEN y ELSE u.node[z].fd
<1> DEFINE N == DOMAIN u.node
           K == u.node
           L == [K EXCEPT ![a].bk = x]
           M == [L EXCEPT ![b].fd = y]
           v == WithBkFd(u, a, b, x, y)
<1>1. v = [u EXCEPT !.node = M]
  BY DEF WithBkFd
<1>2. K \in [N -> NodeType]
  BY NodeTypes
<1> HIDE DEF v, N
<1>a. a \in N /\ b \in N
  BY DEF N
<1>3. /\ L \in [N -> NodeType]
      /\ \A z \in N : SameTree(K[z], L[z]) /\ L[z].fd = K[z].fd
      /\ \A z \in N : L[z].bk = IF z = a THEN x ELSE K[z].bk
  BY <1>2, <1>a, NodeBk
<1> HIDE DEF L
<1>4. /\ M \in [N -> NodeType]
      /\ \A z \in N : SameTree(L[z], M[z]) /\ M[z].bk = L[z].bk
      /\ \A z \in N : M[z].fd = IF z = b THEN y ELSE L[z].fd
  BY <1>3, <1>a, NodeFd
<1> HIDE DEF M
<1>5. BinsType(v) /\ v.map = u.map /\ v.root = u.root /\ v.node = M
  BY <1>1, <1>4, ChangedNodes DEF N
<1>6. DOMAIN v.node = DOMAIN u.node
  BY <1>4, <1>5 DEF N
<1>7. \A z \in DOMAIN u.node : SameLinks(u, v, z)
  BY <1>3, <1>4, <1>5 DEF N, SameTree, SameLinks
<1>8. \A z \in DOMAIN u.node : v.node[z].bk = IF z = a THEN x ELSE u.node[z].bk
  BY <1>3, <1>4, <1>5 DEF N
<1>9. \A z \in DOMAIN u.node : v.node[z].fd = IF z = b THEN y ELSE u.node[z].fd
  BY <1>3, <1>4, <1>5 DEF N
<1> QED  BY <1>5, <1>6, <1>7, <1>8, <1>9 DEF v

(* No chunk is freed yet.                                                  *)
LEMMA InitBins ==
  ASSUME Init
  PROVE  Bins(t, [x \in Chunks |-> 0], [s \in LargeSizes |-> <<>>])
<1> DEFINE q == [s \in LargeSizes |-> <<>>]
           D == [x \in Chunks |-> 0]
<1>1. t.map = {} /\ (\A i \in TreeIndices : t.root[i] = Null) /\ t.node = <<>> /\ DOMAIN t.node = {}
  BY DEF Init
<1>2. BinsType(t)
  <2>1. <<>> \in [{} -> NodeType]
    <3>1. <<>> = [x \in {} |-> 0]
      OBVIOUS
    <3> QED  BY <3>1
  <2>2. [i \in TreeIndices |-> Null] \in [TreeIndices -> Chunks \cup {Null}]
    OBVIOUS
  <2>3. <<>> \in UNION {[N -> NodeType] : N \in SUBSET Chunks}
    BY <2>1
  <2> QED  BY <2>2, <2>3 DEF Init, BinsType
<1>3. Heads(t) = {}
  BY <1>1 DEF Heads
<1>4. Forest(t, D, Heads(t))
  BY <1>1, <1>2, <1>3 DEF Forest
<1>5. Lists(t, q)
  <2>1. q \in [LargeSizes -> Seq(Chunks)] /\ \A s \in LargeSizes : Len(q[s]) = 0
    OBVIOUS
  <2>2. 1 .. 0 = {}
    OBVIOUS
  <2>3. \A s \in LargeSizes : IsList(t, s, q[s])
    BY <2>1, <2>2 DEF IsList
  <2> QED  BY <1>1, <2>1, <2>3 DEF Lists
<1> QED  BY <1>1, <1>4, <1>5 DEF Bins, Marked

-----------------------------------------------------------------------------
(* Insertion keeps the invariant; the chunk joins the end of its list.     *)

LEMMA HeadOfList ==
  ASSUME NEW u, NEW D, NEW q, Bins(u, D, q), NEW s \in LargeSizes
  PROVE  /\ IsList(u, s, q[s]) /\ q[s] \in Seq(Chunks) /\ Len(q[s]) \in Nat
         /\ \A k \in 1 .. Len(q[s]) : q[s][k] \in DOMAIN u.node /\ u.node[q[s][k]].size = s
         /\ Len(q[s]) # 0 => q[s][1] \in Heads(u)
         /\ \A x \in Heads(u) : u.node[x].size = s => Len(q[s]) # 0 /\ x = q[s][1]
<1>1. IsList(u, s, q[s]) /\ q[s] \in Seq(Chunks) /\ Len(q[s]) \in Nat
  BY DEF Bins, Lists, IsList
<1>2. \A k \in 1 .. Len(q[s]) : Listed(u, s, q[s], k)
  BY <1>1 DEF IsList
<1>3. ASSUME Len(q[s]) # 0 PROVE q[s][1] \in Heads(u)
  <2>1. 1 \in 1 .. Len(q[s])
    BY <1>1, <1>3
  <2> QED  BY <1>2, <2>1 DEF Listed, Heads
<1>4. ASSUME NEW x \in Heads(u), u.node[x].size = s PROVE Len(q[s]) # 0 /\ x = q[s][1]
  <2>1. PICK k \in 1 .. Len(q[s]) : q[s][k] = x
    BY <1>4 DEF Bins, Lists, Heads
  <2>2. k = 1
    BY <1>2, <1>4, <2>1 DEF Listed, Heads
  <2> QED  BY <1>1, <2>1, <2>2
<1> QED  BY <1>1, <1>2, <1>3, <1>4 DEF Listed

LEMMA AppendEmpty ==
  ASSUME NEW l \in Seq(Chunks), Len(l) = 0, NEW x
  PROVE  Append(l, x) = <<x>>
OBVIOUS

(* The first chunk of a size, in a tree of its own or below T.             *)
LEMMA NewSize ==
  ASSUME NEW u, NEW D, NEW q, Bins(u, D, q), NEW x \in Chunks, x \notin DOMAIN u.node,
         NEW s \in LargeSizes, Len(q[s]) = 0,
         NEW v, BinsType(v), DOMAIN v.node = DOMAIN u.node \cup {x},
         v.node[x].size = s, v.node[x].fd = x, v.node[x].bk = x, v.node[x].parent # Null,
         \A y \in DOMAIN u.node : SameList(u, v, y)
  PROVE  Lists(v, [q EXCEPT ![s] = Append(@, x)]) /\ Heads(v) = Heads(u) \cup {x}
<1> DEFINE l == <<x>>
           r == [q EXCEPT ![s] = l]
<1>1. BinsType(u) /\ Lists(u, q) /\ q \in [LargeSizes -> Seq(Chunks)]
  BY ForestHas DEF Bins, Lists
<1>2. Append(q[s], x) = l
  BY <1>1, AppendEmpty
<1>3. IsList(v, s, l) /\ Len(l) = 1 /\ l[1] = x
  BY ListOfOne
<1> HIDE DEF l
<1>4. \A y \in DOMAIN u.node : u.node[y].size # s
  <2> SUFFICES ASSUME NEW y \in DOMAIN u.node, u.node[y].size = s PROVE FALSE
    OBVIOUS
  <2>1. PICK k \in 1 .. Len(q[s]) : q[s][k] = y
    BY <1>1 DEF Lists
  <2> QED  BY <2>1
<1>5. \A y \in DOMAIN u.node : u.node[y].size # s => y \in DOMAIN v.node /\ SameList(u, v, y)
  OBVIOUS
<1>6. \A y \in DOMAIN v.node : (v.node[y].size = s /\ InList(l, y)) \/ (y \in DOMAIN u.node /\ u.node[y].size # s)
  BY <1>3, <1>4 DEF InList
<1>8. [q EXCEPT ![s] = Append(@, x)] = r
  BY <1>2
<1>r. r \in [LargeSizes -> Seq(Chunks)] /\ r[s] = l /\ \A z \in LargeSizes : z # s => r[z] = q[z]
  BY <1>1, <1>3 DEF IsList
<1> HIDE DEF r
<1>b. ListChange(u, v, q, r, s, l)
  BY <1>5, <1>6, <1>r DEF ListChange
<1>7. Lists(v, r)
  BY <1>1, <1>3, <1>b, ListsChange
<1>9. Heads(v) = Heads(u) \cup {x}
  BY DEF Heads, SameList
<1> QED  BY <1>7, <1>8, <1>9

LEMMA InsertNewRoot ==
  ASSUME NEW u, NEW D, NEW q, Bins(u, D, q), NEW x \in Chunks, x \notin DOMAIN u.node,
         NEW s \in LargeSizes, TreeIndex(s) \notin u.map
  PROVE  Bins(InsertLarge(u, x, s), [D EXCEPT ![x] = 0], [q EXCEPT ![s] = Append(@, x)])
<1> DEFINE i == TreeIndex(s)
           n == NewNode(x, s, i, Root)
           w == WithNode(u, x, n)
           M == w.map \cup {i}
           v == [w EXCEPT !.map = M, !.root[i] = x]
<1>1. InsertLarge(u, x, s) = v
  BY DEF InsertLarge
<1>2. /\ Forest(u, D, Heads(u)) /\ BinsType(u) /\ i \in TreeIndices /\ s \in Sizes /\ Root # Null /\ x # Null
      /\ \A y \in DOMAIN u.node : RightBin(u, y)
  BY ForestHas, BinOfSize, ConstantTypes DEF Bins
<1>3. u.root[i] = Null
  BY <1>2 DEF Bins, Marked
<1>4. Len(q[s]) = 0
  <2> SUFFICES ASSUME Len(q[s]) # 0 PROVE FALSE
    OBVIOUS
  <2>1. q[s][1] \in Heads(u) /\ u.node[q[s][1]].size = s
    <3>1. 1 \in 1 .. Len(q[s])
      BY HeadOfList
    <3> QED  BY <3>1, HeadOfList
  <2>2. u.node[q[s][1]].index = i
    BY <1>2, <2>1, ForestNode
  <2> QED  BY <1>2, <1>3, <2>1, <2>2, BelowRoot
<1>5. n \in NodeType
  BY NewNodeType
<1>6. /\ n.size = s /\ n.index = i /\ n.fd = x /\ n.bk = x /\ n.parent = Root /\ IsLeaf(n)
  BY DEF NewNode, IsLeaf
<1> HIDE DEF n
<1>7. /\ BinsType(w) /\ w.map = u.map /\ w.root = u.root
      /\ DOMAIN w.node = DOMAIN u.node \cup {x}
      /\ w.node[x] = n /\ \A y \in DOMAIN u.node : w.node[y] = u.node[y]
  BY <1>2, <1>5, WithNodeIs
<1> HIDE DEF w
<1>8. M \in SUBSET TreeIndices /\ x \in Chunks \cup {Null}
  BY <1>2, <1>7, NodeTypes
<1> HIDE DEF M, i
<1> DEFINE R == [w.root EXCEPT ![i] = x]
<1>v. v = [w EXCEPT !.map = M, !.root = R]
  OBVIOUS
<1>r. R \in [TreeIndices -> Chunks \cup {Null}] /\ R[i] = x /\ \A j \in TreeIndices : j # i => R[j] = w.root[j]
  BY <1>2, <1>7, <1>8, NodeTypes
<1> HIDE DEF v, R
<1>9. /\ BinsType(v) /\ v.map = M /\ v.node = w.node
      /\ v.root[i] = x /\ \A j \in TreeIndices : j # i => v.root[j] = w.root[j]
  <2>1. BinsType(w) /\ R \in [TreeIndices -> Chunks \cup {Null}] /\ M \in SUBSET TreeIndices
    BY <1>7, <1>8, <1>r
  <2>2. BinsType(v) /\ v.map = M /\ v.root = R /\ v.node = w.node
    BY <2>1, <1>v DEF BinsType
  <2> QED  BY <2>2, <1>r
<1>10. /\ DOMAIN v.node = DOMAIN u.node \cup {x}
       /\ v.node[x] = n /\ \A y \in DOMAIN u.node : v.node[y] = u.node[y]
  BY <1>7, <1>9
<1>11. Lists(v, [q EXCEPT ![s] = Append(@, x)]) /\ Heads(v) = Heads(u) \cup {x}
  <2>1. \A y \in DOMAIN u.node : SameList(u, v, y)
    BY <1>10 DEF SameList
  <2>2. v.node[x].size = s /\ v.node[x].fd = x /\ v.node[x].bk = x /\ v.node[x].parent # Null
    BY <1>2, <1>6, <1>10
  <2> QED  BY <1>4, <1>9, <1>10, <2>1, <2>2, NewSize
<1>12. Forest(v, [D EXCEPT ![x] = 0], Heads(u) \cup {x})
  <2>1. x \notin Heads(u) /\ Heads(u) \cup {x} \subseteq DOMAIN v.node
    BY <1>10 DEF Heads
  <2>2. v.node[x].index = i /\ v.node[x].parent = Root /\ IsLeaf(v.node[x])
    BY <1>6, <1>10
  <2>3. u.root[v.node[x].index] = Null /\ v.root[v.node[x].index] = x
    BY <1>3, <1>9, <2>2
  <2>4. \A j \in TreeIndices : j # v.node[x].index => v.root[j] = u.root[j]
    BY <1>7, <1>9, <2>2
  <2>5. \A y \in DOMAIN v.node : RightBin(v, y)
    <3>1. RightBin(v, x)
      BY <1>6, <1>10 DEF RightBin, i
    <3>2. \A y \in DOMAIN u.node : RightBin(v, y)
      BY <1>2, <1>10 DEF RightBin
    <3> QED  BY <1>10, <3>1, <3>2
  <2>6. \A y \in Heads(u) : SameLinks(u, v, y)
    BY <1>10 DEF Heads, SameLinks
  <2>7. Forest(u, D, Heads(u)) /\ BinsType(v) /\ x \in Chunks
    BY <1>2, <1>9
  <2> DEFINE S == Heads(u)
  <2> HIDE DEF S
  <2>8. /\ Forest(u, D, S) /\ x \notin S /\ S \cup {x} \subseteq DOMAIN v.node
        /\ \A y \in S : SameLinks(u, v, y)
    BY <2>1, <2>6, <2>7 DEF S
  <2>9. Forest(v, [D EXCEPT ![x] = 0], S \cup {x})
    BY <2>2, <2>3, <2>4, <2>5, <2>7, <2>8, ForestNewRoot
  <2> QED  BY <2>9 DEF S
<1>13. Marked(v)
  <2>1. \A j \in TreeIndices : j # i => (j \in v.map <=> v.root[j] # Null)
    BY <1>7, <1>9 DEF Bins, Marked, M
  <2> QED  BY <1>2, <1>9, <2>1 DEF Marked, M
<1> QED  BY <1>1, <1>11, <1>12, <1>13 DEF Bins

LEMMA InsertNewLeaf ==
  ASSUME NEW u, NEW D, NEW q, Bins(u, D, q), NEW x \in Chunks, x \notin DOMAIN u.node,
         NEW s \in LargeSizes, TreeIndex(s) \in u.map,
         NEW T, T = InsertionPoint(u, s, TreeIndex(s)).node, u.node[T].size # s
  PROVE  Bins(InsertLarge(u, x, s), [D EXCEPT ![x] = D[T] + 1], [q EXCEPT ![s] = Append(@, x)])
<1> DEFINE i == TreeIndex(s)
           b == InsertionPoint(u, s, i).branch
           n == NewNode(x, s, i, T)
           w == WithNode(u, x, n)
           v == WithChild(w, T, b, x)
<1>1. InsertLarge(u, x, s) = v
  BY DEF InsertLarge, WithChild
<1>2. /\ Forest(u, D, Heads(u)) /\ BinsType(u) /\ i \in TreeIndices /\ s \in Sizes /\ Root # Null /\ x # Null
      /\ \A y \in DOMAIN u.node : RightBin(u, y)
  BY ForestHas, BinOfSize, ConstantTypes DEF Bins
<1>3. u.root[i] # Null
  BY <1>2 DEF Bins, Marked
<1> HIDE DEF i, b
<1>4. /\ T \in Heads(u) /\ u.node[T].index = i /\ b = Branch(s, i, D[T]) /\ b \in {0, 1}
      /\ Prefix(u.node[T].size, i, D[T]) = Prefix(s, i, D[T])
      /\ u.node[T].size = s \/ (u.node[T].child[b] = Null /\ D[T] < Bits(i))
      /\ \A y \in Heads(u) : u.node[y].size = s => y \in Below(u, D, Heads(u), T)
  BY <1>2, <1>3, InsertionPointIs DEF i, b
<1>5. u.node[T].child[b] = Null /\ D[T] < Bits(i) /\ T \in DOMAIN u.node /\ T \in Chunks /\ T # Null /\ T # x
  BY <1>2, <1>4, ForestNode, ConstantTypes, SMTT(30)
<1>6. Len(q[s]) = 0
  <2> SUFFICES ASSUME Len(q[s]) # 0 PROVE FALSE
    OBVIOUS
  <2> DEFINE y == q[s][1]
  <2>1. y \in Heads(u) /\ u.node[y].size = s
    <3>1. 1 \in 1 .. Len(q[s])
      BY HeadOfList
    <3> QED  BY <3>1, HeadOfList
  <2> HIDE DEF y
  <2>2. y \in Below(u, D, Heads(u), T) /\ y # T
    BY <1>4, <2>1
  <2>3. u.node[T].child[Branch(u.node[y].size, u.node[T].index, D[T])] # Null
    BY <1>2, <1>4, <2>2, ChildTowards
  <2>4. Branch(u.node[y].size, u.node[T].index, D[T]) = b
    BY <1>4, <2>1
  <2>5. u.node[T].child[b] # Null
    BY <2>3, <2>4
  <2> QED  BY <1>5, <2>5
<1>7. n \in NodeType
  BY <1>5, NewNodeType DEF i
<1>8. /\ n.size = s /\ n.index = i /\ n.fd = x /\ n.bk = x /\ n.parent = T /\ IsLeaf(n)
  BY DEF NewNode, IsLeaf
<1> HIDE DEF n
<1>9. /\ BinsType(w) /\ w.map = u.map /\ w.root = u.root
      /\ DOMAIN w.node = DOMAIN u.node \cup {x}
      /\ w.node[x] = n /\ \A y \in DOMAIN u.node : w.node[y] = u.node[y]
  BY <1>2, <1>7, WithNodeIs
<1> HIDE DEF w
<1>10. /\ BinsType(v) /\ v.map = w.map /\ v.root = w.root /\ DOMAIN v.node = DOMAIN w.node
       /\ v.node[T].child[b] = x /\ \A a \in {0, 1} : a # b => v.node[T].child[a] = w.node[T].child[a]
       /\ v.node[T].size = w.node[T].size /\ v.node[T].index = w.node[T].index
       /\ v.node[T].fd = w.node[T].fd /\ v.node[T].bk = w.node[T].bk
       /\ v.node[T].parent = w.node[T].parent
       /\ \A y \in DOMAIN w.node : y # T => v.node[y] = w.node[y]
  <2>1. T \in DOMAIN w.node /\ x \in Chunks \cup {Null} /\ b \in {0, 1} /\ BinsType(w)
    BY <1>4, <1>5, <1>9
  <2> QED  BY <2>1, ChangedChild, SMTT(30)
<1> HIDE DEF v
<1>11. /\ DOMAIN v.node = DOMAIN u.node \cup {x} /\ v.map = u.map /\ v.root = u.root
       /\ v.node[x] = n /\ \A y \in DOMAIN u.node : y # T => v.node[y] = u.node[y]
       /\ \A a \in {0, 1} : a # b => v.node[T].child[a] = u.node[T].child[a]
       /\ v.node[T].size = u.node[T].size /\ v.node[T].index = u.node[T].index
       /\ v.node[T].fd = u.node[T].fd /\ v.node[T].bk = u.node[T].bk
       /\ v.node[T].parent = u.node[T].parent
  BY <1>5, <1>9, <1>10
<1>12. Lists(v, [q EXCEPT ![s] = Append(@, x)]) /\ Heads(v) = Heads(u) \cup {x}
  <2>1. \A y \in DOMAIN u.node : SameList(u, v, y)
    <3>1. \A y \in DOMAIN u.node : y # T => SameList(u, v, y)
      BY <1>11 DEF SameList
    <3>2. SameList(u, v, T)
      BY <1>4, <1>11 DEF SameList, Heads
    <3> QED  BY <3>1, <3>2
  <2>2. v.node[x].size = s /\ v.node[x].fd = x /\ v.node[x].bk = x /\ v.node[x].parent # Null
    BY <1>5, <1>8, <1>11
  <2>3. BinsType(v) /\ DOMAIN v.node = DOMAIN u.node \cup {x}
    BY <1>10, <1>11
  <2> QED  BY <1>6, <2>1, <2>2, <2>3, NewSize, SMTT(30)
<1>13. Forest(v, [D EXCEPT ![x] = D[T] + 1], Heads(u) \cup {x})
  <2> DEFINE S == Heads(u)
  <2>1. x \notin S /\ S \cup {x} \subseteq DOMAIN v.node
    BY <1>11 DEF Heads
  <2>2. v.node[x].index = u.node[T].index /\ v.node[x].parent = T /\ IsLeaf(v.node[x])
    BY <1>4, <1>8, <1>11
  <2>3. \A y \in DOMAIN v.node : RightBin(v, y)
    <3>1. RightBin(v, x)
      BY <1>8, <1>11 DEF RightBin, i
    <3>2. \A y \in DOMAIN u.node : RightBin(v, y)
      BY <1>2, <1>11 DEF RightBin
    <3> QED  BY <1>11, <3>1, <3>2
  <2>4. \A y \in S \ {T} : SameLinks(u, v, y)
    BY <1>11 DEF Heads, SameLinks
  <2>5. /\ D[T] < Bits(u.node[T].index)
        /\ Prefix(v.node[x].size, u.node[T].index, D[T]) = Prefix(u.node[T].size, u.node[T].index, D[T])
        /\ Branch(v.node[x].size, u.node[T].index, D[T]) = b
    BY <1>4, <1>5, <1>8, <1>11
  <2>6. Forest(u, D, S) /\ BinsType(v) /\ x \in Chunks /\ T \in S /\ b \in {0, 1}
    BY <1>2, <1>4, <1>10
  <2>7. \A j \in TreeIndices : v.root[j] = u.root[j]
    BY <1>11
  <2>8. u.node[T].child[b] = Null /\ v.node[T].child[b] = x
    BY <1>5, <1>10
  <2>9. /\ \A a \in {0, 1} : a # b => v.node[T].child[a] = u.node[T].child[a]
        /\ v.node[T].size = u.node[T].size /\ v.node[T].index = u.node[T].index
        /\ v.node[T].parent = u.node[T].parent
    BY <1>11
  <2> HIDE DEF S
  <2>10. Forest(v, [D EXCEPT ![x] = D[T] + 1], S \cup {x})
    <3>1. NewLeaf(u, D, S, v, x, T, b)
      BY <2>1, <2>2, <2>3, <2>4, <2>5, <2>7, <2>8, <2>9 DEF NewLeaf
    <3> QED  BY <2>6, <3>1, ForestNewLeaf
  <2> QED  BY <2>10 DEF S
<1>14. Marked(v)
  BY <1>11 DEF Bins, Marked
<1> QED  BY <1>1, <1>12, <1>13, <1>14 DEF Bins

LEMMA InsertIntoList ==
  ASSUME NEW u, NEW D, NEW q, Bins(u, D, q), NEW x \in Chunks, x \notin DOMAIN u.node,
         NEW s \in LargeSizes, TreeIndex(s) \in u.map,
         NEW T, T = InsertionPoint(u, s, TreeIndex(s)).node, u.node[T].size = s
  PROVE  Bins(InsertLarge(u, x, s), D, [q EXCEPT ![s] = Append(@, x)])
<1> DEFINE i == TreeIndex(s)
           F == u.node[T].fd
           m == NewNode(x, s, i, Null)
           n == [m EXCEPT !.fd = F, !.bk = T]
           w == WithNode(u, x, n)
           v == WithFdBk(w, T, F, x, x)
           l == q[s]
           r == [q EXCEPT ![s] = Append(l, x)]
<1>1. InsertLarge(u, x, s) = v
  BY DEF InsertLarge, WithFdBk
<1>2. /\ Forest(u, D, Heads(u)) /\ BinsType(u) /\ i \in TreeIndices /\ s \in Sizes /\ x # Null
      /\ \A y \in DOMAIN u.node : RightBin(u, y)
  BY ForestHas, BinOfSize, ConstantTypes DEF Bins
<1>3. u.root[i] # Null
  BY <1>2 DEF Bins, Marked
<1> HIDE DEF i
<1>4. T \in Heads(u) /\ T \in DOMAIN u.node /\ T \in Chunks
  <2>1. T \in Heads(u)
    BY <1>2, <1>3, InsertionPointIs DEF i
  <2> QED  BY <1>2, <2>1, ForestNode
<1>5. IsList(u, s, l) /\ l \in Seq(Chunks) /\ Len(l) \in Nat /\ Len(l) # 0 /\ T = l[1]
  BY <1>4, HeadOfList
<1>6. F \in DOMAIN u.node /\ F \in Chunks /\ u.node[F].size = s
  <2>1. Listed(u, s, l, 1) /\ 1 \in 1 .. Len(l)
    BY <1>5 DEF IsList
  <2>2. PlaceBefore(1, Len(l)) \in 1 .. Len(l)
    BY <1>5, <2>1, Places
  <2>3. F = l[PlaceBefore(1, Len(l))]
    BY <1>5, <2>1 DEF Listed
  <2>4. F \in DOMAIN u.node /\ u.node[F].size = s
    BY <2>2, <2>3, HeadOfList
  <2> QED  BY <1>2, <2>4, NodeTypes
<1> HIDE DEF F
<1>7. m \in NodeType
  BY NewNodeType DEF i
<1>8. m.size = s /\ m.index = i /\ m.parent = Null /\ IsLeaf(m)
  BY DEF NewNode, IsLeaf
<1> HIDE DEF m
<1>9. n \in NodeType /\ n.size = s /\ n.index = i /\ n.parent = Null /\ IsLeaf(n) /\ n.fd = F /\ n.bk = T
  BY <1>4, <1>6, <1>7, <1>8 DEF NodeType, IsLeaf
<1> HIDE DEF n
<1>10. /\ BinsType(w) /\ w.map = u.map /\ w.root = u.root
       /\ DOMAIN w.node = DOMAIN u.node \cup {x}
       /\ w.node[x] = n /\ \A y \in DOMAIN u.node : w.node[y] = u.node[y]
  BY <1>2, <1>9, WithNodeIs
<1> HIDE DEF w
<1>11. /\ BinsType(v) /\ v.map = w.map /\ v.root = w.root /\ DOMAIN v.node = DOMAIN w.node
       /\ \A z \in DOMAIN w.node : SameLinks(w, v, z)
       /\ \A z \in DOMAIN w.node : v.node[z].fd = IF z = T THEN x ELSE w.node[z].fd
       /\ \A z \in DOMAIN w.node : v.node[z].bk = IF z = F THEN x ELSE w.node[z].bk
  <2>1. T \in DOMAIN w.node /\ F \in DOMAIN w.node
    BY <1>4, <1>6, <1>10
  <2>2. BinsType(w) /\ T \in DOMAIN w.node /\ F \in DOMAIN w.node /\ x \in Chunks
    BY <1>10, <2>1
  <2> QED  BY <2>2, ChangedFdBk
<1> HIDE DEF v
<1>12. /\ DOMAIN v.node = DOMAIN u.node \cup {x} /\ v.map = u.map /\ v.root = u.root /\ x # T /\ x # F
       /\ \A y \in DOMAIN u.node : SameLinks(u, v, y)
       /\ \A y \in DOMAIN u.node : v.node[y].fd = IF y = T THEN x ELSE u.node[y].fd
       /\ \A y \in DOMAIN u.node : v.node[y].bk = IF y = F THEN x ELSE u.node[y].bk
       /\ v.node[x].size = s /\ v.node[x].index = i /\ v.node[x].parent = Null /\ v.node[x].child = n.child
       /\ v.node[x].fd = F /\ v.node[x].bk = T
  BY <1>4, <1>6, <1>9, <1>10, <1>11 DEF SameLinks
<1>13. Heads(v) = Heads(u)
  BY <1>12 DEF Heads, SameLinks
<1>14. IsList(v, s, Append(l, x))
  <2>1. IsLeaf(v.node[x])
    BY <1>9, <1>12 DEF IsLeaf
  <2>2. v.node[x].bk = l[1] /\ v.node[x].fd = u.node[l[1]].fd
    BY <1>5, <1>12 DEF F
  <2>3. \A y \in DOMAIN u.node :
           /\ v.node[y].size = u.node[y].size /\ v.node[y].parent = u.node[y].parent
           /\ v.node[y].child = u.node[y].child
           /\ v.node[y].bk = IF y = u.node[l[1]].fd THEN x ELSE u.node[y].bk
           /\ v.node[y].fd = IF y = l[1] THEN x ELSE u.node[y].fd
    BY <1>5, <1>12 DEF SameLinks, F
  <2> HIDE DEF l
  <2> QED  BY <1>5, <1>12, <2>1, <2>2, <2>3, ListAppended
<1>15. Lists(v, r)
  <2>1. \A y \in DOMAIN u.node : u.node[y].size # s => y \in DOMAIN v.node /\ SameList(u, v, y)
    <3>1. u.node[T].size = s
      BY <1>5
    <3> QED  BY <1>6, <1>12, <3>1 DEF SameLinks, SameList, IsLeaf
  <2> DEFINE a == Append(l, x)
  <2>2. a \in Seq(Chunks) /\ Len(a) = Len(l) + 1 /\ a[Len(l) + 1] = x /\ \A k \in 1 .. Len(l) : a[k] = l[k]
    BY <1>5
  <2>3. r \in [LargeSizes -> Seq(Chunks)] /\ r[s] = a /\ \A z \in LargeSizes : z # s => r[z] = q[z]
    BY <2>2 DEF Bins, Lists
  <2>l. Lists(u, q) /\ \A y \in DOMAIN u.node : u.node[y].size = s => \E k \in 1 .. Len(l) : l[k] = y
    BY DEF Bins, Lists
  <2> HIDE DEF a, l, r
  <2>4. \A y \in DOMAIN v.node : (v.node[y].size = s /\ InList(a, y)) \/ (y \in DOMAIN u.node /\ u.node[y].size # s)
    <3>1. InList(a, x)
      BY <1>5, <2>2 DEF InList
    <3>2. ASSUME NEW y \in DOMAIN u.node, u.node[y].size = s PROVE v.node[y].size = s /\ InList(a, y)
      <4>1. PICK k \in 1 .. Len(l) : l[k] = y
        BY <2>l, <3>2
      <4>2. k \in 1 .. Len(a) /\ a[k] = y
        BY <1>5, <2>2, <4>1
      <4> QED  BY <1>12, <3>2, <4>2 DEF SameLinks, InList
    <3> QED  BY <1>12, <3>1, <3>2
  <2>5. ListChange(u, v, q, r, s, a)
    BY <2>1, <2>3, <2>4 DEF ListChange
  <2>6. IsList(v, s, a)
    BY <1>14 DEF a
  <2> QED  BY <1>2, <1>11, <2>l, <2>5, <2>6, ListsChange
<1>16. Forest(v, D, Heads(v))
  <2>1. \A y \in DOMAIN v.node : RightBin(v, y)
    <3>1. RightBin(v, x)
      BY <1>12 DEF RightBin, i
    <3>2. \A y \in DOMAIN u.node : RightBin(v, y)
      BY <1>2, <1>12 DEF RightBin, SameLinks
    <3> QED  BY <1>12, <3>1, <3>2
  <2>2. Heads(u) \subseteq DOMAIN v.node /\ (\A y \in Heads(u) : SameLinks(u, v, y))
        /\ \A j \in TreeIndices : v.root[j] = u.root[j]
    BY <1>12 DEF Heads
  <2>3. Forest(v, D, Heads(u))
    BY <1>2, <1>11, <2>1, <2>2, ForestSame
  <2> QED  BY <1>13, <2>3
<1>17. Marked(v)
  BY <1>12 DEF Bins, Marked
<1> QED  BY <1>1, <1>15, <1>16, <1>17 DEF Bins

LEMMA InsertKeeps ==
  ASSUME NEW u, NEW D, NEW q, Bins(u, D, q), NEW x \in Chunks, x \notin DOMAIN u.node, NEW s \in LargeSizes
  PROVE  \E E : Bins(InsertLarge(u, x, s), E, [q EXCEPT ![s] = Append(@, x)])
<1>1. CASE TreeIndex(s) \notin u.map
  BY <1>1, InsertNewRoot
<1>2. CASE TreeIndex(s) \in u.map
  <2> DEFINE T == InsertionPoint(u, s, TreeIndex(s)).node
  <2>1. CASE u.node[T].size = s
    BY <1>2, <2>1, InsertIntoList
  <2>2. CASE u.node[T].size # s
    BY <1>2, <2>2, InsertNewLeaf
  <2> QED  BY <2>1, <2>2
<1> QED  BY <1>1, <1>2

-----------------------------------------------------------------------------
(* Removal: the steps of unlink_large_chunk.                               *)

LEMMA WithoutIs ==
  ASSUME NEW u, BinsType(u), NEW x
  PROVE  LET v == Without(u, x)
         IN  /\ BinsType(v) /\ v.map = u.map /\ v.root = u.root /\ DOMAIN v.node = DOMAIN u.node \ {x}
             /\ \A y \in DOMAIN u.node \ {x} : v.node[y] = u.node[y]
<1> DEFINE N == DOMAIN u.node \ {x}
           K == [y \in N |-> u.node[y]]
           v == Without(u, x)
<1>1. DOMAIN u.node \subseteq Chunks /\ u.node \in [DOMAIN u.node -> NodeType]
  BY NodeTypes
<1>2. K \in [N -> NodeType] /\ N \in SUBSET Chunks
  BY <1>1
<1>3. DOMAIN K = N /\ \A y \in N : K[y] = u.node[y]
  OBVIOUS
<1>4. v = [u EXCEPT !.node = K]
  BY DEF Without
<1> HIDE DEF v, K, N
<1>5. K \in UNION {[M -> NodeType] : M \in SUBSET Chunks}
  BY <1>2
<1>6. BinsType(v) /\ v.map = u.map /\ v.root = u.root /\ v.node = K
  BY <1>4, <1>5 DEF BinsType
<1> QED  BY <1>3, <1>6 DEF v, N

SameListing(m, n) ==
  /\ n.size = m.size /\ n.index = m.index /\ n.fd = m.fd /\ n.bk = m.bk

LEMMA AdoptedIs ==
  ASSUME NEW u, BinsType(u), NEW x \in DOMAIN u.node, NEW r \in DOMAIN u.node, IsLeaf(u.node[r])
  PROVE  LET v == Adopted(u, x, r)
             n == u.node[x]
         IN  /\ BinsType(v) /\ v.map = u.map /\ v.root = u.root /\ DOMAIN v.node = DOMAIN u.node
             /\ \A y \in DOMAIN u.node : SameListing(u.node[y], v.node[y])
             /\ v.node[r].parent = n.parent /\ \A a \in {0, 1} : v.node[r].child[a] = n.child[a]
             /\ \A y \in DOMAIN u.node \ {r} :
                  /\ v.node[y].child = u.node[y].child
                  /\ v.node[y].parent = IF y \in {n.child[0], n.child[1]} THEN r ELSE u.node[y].parent
<1> DEFINE N == DOMAIN u.node
           n == u.node[x]
           k == u.node[r]
           C == [b \in {0, 1} |-> IF n.child[b] # Null THEN n.child[b] ELSE k.child[b]]
           m == [k EXCEPT !.parent = n.parent, !.child = C]
           p(y) == [u.node[y] EXCEPT !.parent = r]
           v == Adopted(u, x, r)
           K == v.node
<1>1. /\ N \subseteq Chunks /\ u.node \in [N -> NodeType] /\ n \in NodeType /\ k \in NodeType
      /\ n.child \in [{0, 1} -> Chunks \cup {Null}] /\ k.child \in [{0, 1} -> Chunks \cup {Null}]
      /\ n.parent \in Chunks \cup {Null, Root} /\ r \in Chunks
  BY NodeTypes
<1>2. v = [u EXCEPT !.node = K]
  BY DEF Adopted, BinsType
<1>3. DOMAIN K = N
  BY DEF Adopted, BinsType
<1>4. K[r] = m
  BY DEF Adopted, BinsType
<1>5. \A y \in N \ {r} : K[y] = IF y \in {n.child[0], n.child[1]} THEN p(y) ELSE u.node[y]
  BY DEF Adopted, BinsType
<1>6. C \in [{0, 1} -> Chunks \cup {Null}] /\ \A b \in {0, 1} : C[b] = n.child[b]
  BY <1>1 DEF IsLeaf
<1> HIDE DEF C, v
<1>7. m \in NodeType /\ SameListing(k, m) /\ m.parent = n.parent /\ m.child = C
  BY <1>1, <1>6 DEF NodeType, SameListing
<1>8. \A y \in N : /\ p(y) \in NodeType /\ SameListing(u.node[y], p(y))
                   /\ p(y).parent = r /\ p(y).child = u.node[y].child
  BY <1>1 DEF NodeType, SameListing
<1>9. \A y \in N : u.node[y] \in NodeType /\ SameListing(u.node[y], u.node[y])
  BY <1>1 DEF SameListing
<1> HIDE DEF m, p
<1>10. \A y \in N : K[y] \in NodeType
  BY <1>4, <1>5, <1>7, <1>8, <1>9
<1>f. K = [y \in N |-> K[y]]
  BY DEF Adopted, BinsType, v
<1> HIDE DEF K
<1>11. K \in [N -> NodeType]
  BY <1>f, <1>10
<1>12. BinsType(v) /\ v.map = u.map /\ v.root = u.root /\ v.node = K
  BY <1>2, <1>11, ChangedNodes
<1>13. \A y \in N : SameListing(u.node[y], K[y])
  BY <1>4, <1>5, <1>7, <1>8, <1>9
<1>14. K[r].parent = n.parent /\ \A a \in {0, 1} : K[r].child[a] = n.child[a]
  BY <1>4, <1>6, <1>7
<1>15. \A y \in N \ {r} : K[y].child = u.node[y].child
  BY <1>5, <1>8
<1>16. \A y \in N \ {r} : K[y].parent = IF y \in {n.child[0], n.child[1]} THEN r ELSE u.node[y].parent
  BY <1>5, <1>8
<1> QED  BY <1>3, <1>12, <1>13, <1>14, <1>15, <1>16 DEF v

(* A chunk has one link from above.                                        *)
LEMMA LinkFromAbove ==
  ASSUME NEW u, NEW D, NEW S, Forest(u, D, S), NEW x \in S
  PROVE  /\ \A j \in TreeIndices : u.root[j] = x =>
              j = u.node[x].index /\ AtRoot(u, D, x)
         /\ AtRoot(u, D, x) => \A y \in S, a \in {0, 1} : u.node[y].child[a] # x
         /\ \A y \in S, a, b \in {0, 1} : u.node[y].child[a] = x /\ u.node[y].child[b] = x => a = b
         /\ \A y \in S, a \in {0, 1} : u.node[y].child[a] = x => y = u.node[x].parent /\ y # x
         /\ ~ AtRoot(u, D, x) =>
              /\ u.node[x].parent \in S /\ \A j \in TreeIndices : u.root[j] # x
              /\ \E b \in {0, 1} : u.node[u.node[x].parent].child[b] = x
<1>1. x # Null /\ x \in Chunks /\ Root \notin S
  BY ForestNode, ConstantTypes
<1>2. ASSUME NEW j \in TreeIndices, u.root[j] = x PROVE j = u.node[x].index /\ AtRoot(u, D, x)
  BY <1>1, <1>2, RootAtRoot
<1>3. ASSUME NEW y \in S, NEW a \in {0, 1}, u.node[y].child[a] = x
      PROVE  /\ u.node[x].parent = y /\ D[x] = D[y] + 1 /\ D[y] \in Nat
             /\ Branch(u.node[x].size, u.node[y].index, D[y]) = a
  BY <1>1, <1>3, ForestNode, SMTT(30) DEF Link
<1>4. AtRoot(u, D, x) => \A y \in S, a \in {0, 1} : u.node[y].child[a] # x
  BY <1>1, <1>3 DEF AtRoot
<1>5. \A y \in S, a, b \in {0, 1} : u.node[y].child[a] = x /\ u.node[y].child[b] = x => a = b
  BY <1>3
<1>6. \A y \in S, a \in {0, 1} : u.node[y].child[a] = x => y = u.node[x].parent /\ y # x
  BY <1>3
<1>7. ASSUME ~ AtRoot(u, D, x)
      PROVE  /\ u.node[x].parent \in S /\ \A j \in TreeIndices : u.root[j] # x
             /\ \E b \in {0, 1} : u.node[u.node[x].parent].child[b] = x
  BY <1>2, <1>7, ParentLink
<1> QED  BY <1>2, <1>4, <1>5, <1>6, <1>7

SameButChildren(m, n) ==
  SameListing(m, n) /\ n.parent = m.parent

RelinkedTo(u, D, S, x, r, v) ==
  /\ BinsType(v) /\ DOMAIN v.node = DOMAIN u.node
  /\ v.map = IF AtRoot(u, D, x) /\ r = Null THEN u.map \ {u.node[x].index} ELSE u.map
  /\ \A j \in TreeIndices : v.root[j] = IF u.root[j] = x THEN r ELSE u.root[j]
  /\ \A y \in DOMAIN u.node : SameButChildren(u.node[y], v.node[y])
  /\ \A y \in S, a \in {0, 1} :
       v.node[y].child[a] = IF u.node[y].child[a] = x THEN r ELSE u.node[y].child[a]
  /\ \A y \in DOMAIN u.node \ S : v.node[y] = u.node[y]

LEMMA RelinkedIs ==
  ASSUME NEW u, NEW D, NEW S, Forest(u, D, S), NEW x \in S, NEW r \in Chunks \cup {Null}
  PROVE  RelinkedTo(u, D, S, x, r, Relinked(u, x, r))
<1> DEFINE i == u.node[x].index
           p == u.node[x].parent
           b == IF u.node[p].child[0] = x THEN 0 ELSE 1
           v == Relinked(u, x, r)
<1>1. /\ BinsType(u) /\ i \in TreeIndices /\ x \in DOMAIN u.node /\ S \subseteq DOMAIN u.node
      /\ u.root \in [TreeIndices -> Chunks \cup {Null}] /\ u.map \subseteq TreeIndices
  BY ForestHas, ForestNode, NodeTypes
<1>2. ASSUME AtRoot(u, D, x)
      PROVE  /\ BinsType(v) /\ DOMAIN v.node = DOMAIN u.node
             /\ v.map = IF AtRoot(u, D, x) /\ r = Null THEN u.map \ {u.node[x].index} ELSE u.map
             /\ \A j \in TreeIndices : v.root[j] = IF u.root[j] = x THEN r ELSE u.root[j]
             /\ \A y \in DOMAIN u.node : SameButChildren(u.node[y], v.node[y])
             /\ \A y \in S, a \in {0, 1} :
                  v.node[y].child[a] = IF u.node[y].child[a] = x THEN r ELSE u.node[y].child[a]
             /\ \A y \in DOMAIN u.node \ S : v.node[y] = u.node[y]
  <2> DEFINE M == IF r = Null THEN u.map \ {i} ELSE u.map
             R == [u.root EXCEPT ![i] = r]
  <2>1. u.root[i] = x
    BY <1>2 DEF AtRoot
  <2>2. v = [u EXCEPT !.map = M, !.root = R]
    BY <2>1 DEF Relinked
  <2>3. R \in [TreeIndices -> Chunks \cup {Null}] /\ M \in SUBSET TreeIndices
    BY <1>1
  <2>4. \A j \in TreeIndices : R[j] = IF u.root[j] = x THEN r ELSE u.root[j]
    <3>1. \A j \in TreeIndices : u.root[j] = x => j = i
      BY LinkFromAbove
    <3>2. R[i] = r /\ \A j \in TreeIndices : j # i => R[j] = u.root[j]
      BY <1>1
    <3> QED  BY <2>1, <3>1, <3>2
  <2>5. M = IF AtRoot(u, D, x) /\ r = Null THEN u.map \ {u.node[x].index} ELSE u.map
    BY <1>2
  <2> HIDE DEF M, R, v
  <2>6. BinsType(v) /\ v.map = M /\ v.root = R /\ v.node = u.node
    BY <1>1, <2>2, <2>3 DEF BinsType
  <2>7. \A y \in S, a \in {0, 1} : u.node[y].child[a] # x
    BY <1>2, LinkFromAbove
  <2>8. \A y \in DOMAIN u.node : SameButChildren(u.node[y], v.node[y])
    BY <2>6 DEF SameButChildren, SameListing
  <2> QED  BY <2>4, <2>5, <2>6, <2>7, <2>8
<1>3. ASSUME ~ AtRoot(u, D, x)
      PROVE  /\ BinsType(v) /\ DOMAIN v.node = DOMAIN u.node
             /\ v.map = IF AtRoot(u, D, x) /\ r = Null THEN u.map \ {u.node[x].index} ELSE u.map
             /\ \A j \in TreeIndices : v.root[j] = IF u.root[j] = x THEN r ELSE u.root[j]
             /\ \A y \in DOMAIN u.node : SameButChildren(u.node[y], v.node[y])
             /\ \A y \in S, a \in {0, 1} :
                  v.node[y].child[a] = IF u.node[y].child[a] = x THEN r ELSE u.node[y].child[a]
             /\ \A y \in DOMAIN u.node \ S : v.node[y] = u.node[y]
  <2>1. /\ p \in S /\ \A j \in TreeIndices : u.root[j] # x
        /\ \E c \in {0, 1} : u.node[p].child[c] = x
    BY <1>3, LinkFromAbove
  <2>2. v = WithChild(u, p, b, r)
    BY <1>1, <2>1 DEF Relinked, WithChild
  <2>3. b \in {0, 1} /\ u.node[p].child[b] = x
    BY <2>1
  <2> HIDE DEF b, v
  <2>4. p \in DOMAIN u.node
    BY <1>1, <2>1
  <2> HIDE DEF p
  <2>5. /\ BinsType(v) /\ v.map = u.map /\ v.root = u.root /\ DOMAIN v.node = DOMAIN u.node
        /\ v.node[p].child[b] = r /\ \A a \in {0, 1} : a # b => v.node[p].child[a] = u.node[p].child[a]
        /\ v.node[p].size = u.node[p].size /\ v.node[p].index = u.node[p].index
        /\ v.node[p].fd = u.node[p].fd /\ v.node[p].bk = u.node[p].bk
        /\ v.node[p].parent = u.node[p].parent
        /\ \A y \in DOMAIN u.node : y # p => v.node[y] = u.node[y]
    BY <1>1, <2>2, <2>3, <2>4, ChangedChild
  <2>6. \A y \in DOMAIN u.node : SameButChildren(u.node[y], v.node[y])
    <3>1. SameButChildren(u.node[p], v.node[p])
      BY <2>5 DEF SameButChildren, SameListing
    <3>2. \A y \in DOMAIN u.node : y # p => SameButChildren(u.node[y], v.node[y])
      BY <2>5 DEF SameButChildren, SameListing
    <3> QED  BY <3>1, <3>2
  <2>7. ASSUME NEW y \in S, NEW a \in {0, 1}
        PROVE  v.node[y].child[a] = IF u.node[y].child[a] = x THEN r ELSE u.node[y].child[a]
    <3>1. CASE y # p
      <4>1. u.node[y].child[a] # x
        BY <3>1, LinkFromAbove DEF p
      <4> QED  BY <1>1, <2>5, <3>1, <4>1
    <3>2. CASE y = p
      <4>1. u.node[y].child[a] = x => a = b
        BY <2>3, <3>2, LinkFromAbove
      <4> QED  BY <2>3, <2>5, <3>2, <4>1
    <3> QED  BY <3>1, <3>2
  <2>8. \A y \in DOMAIN u.node \ S : v.node[y] = u.node[y]
    BY <2>1, <2>5
  <2> QED  BY <1>3, <2>1, <2>5, <2>6, <2>7, <2>8
<1> QED  BY <1>2, <1>3 DEF RelinkedTo

(* The lists of u without the k-th chunk of size s.                        *)
Less(q, s, k) == [q EXCEPT ![s] = Removed(@, k)]

LEMMA LessIs ==
  ASSUME NEW q \in [LargeSizes -> Seq(Chunks)], NEW s \in LargeSizes, NEW k \in 1 .. Len(q[s])
  PROVE  LET r == Less(q, s, k)
         IN  /\ r \in [LargeSizes -> Seq(Chunks)] /\ r[s] = Removed(q[s], k)
             /\ \A z \in LargeSizes : z # s => r[z] = q[z]
<1> DEFINE m == Removed(q[s], k)
           r == [q EXCEPT ![s] = m]
<1>1. q[s] \in Seq(Chunks)
  OBVIOUS
<1>2. m \in Seq(Chunks)
  BY <1>1, RemovedIs
<1> HIDE DEF m
<1>3. r \in [LargeSizes -> Seq(Chunks)] /\ r[s] = m /\ \A z \in LargeSizes : z # s => r[z] = q[z]
  BY <1>2
<1>4. Less(q, s, k) = r
  BY DEF Less, m
<1> HIDE DEF r
<1> QED  BY <1>3, <1>4 DEF m

LEMMA UnlinkedLists ==
  ASSUME NEW u, BinsType(u), NEW v, BinsType(v), NEW q, Lists(u, q), NEW s \in LargeSizes,
         NEW k \in 1 .. Len(q[s]), UnlinkedFrom(u, v, q[s][k])
  PROVE  Lists(v, Less(q, s, k))
<1> DEFINE l == q[s]
           n == Len(l)
           x == l[k]
           r == Less(q, s, k)
           m == Removed(l, k)
<1>1. /\ q \in [LargeSizes -> Seq(Chunks)] /\ IsList(u, s, l) /\ l \in Seq(Chunks) /\ n \in Nat
      /\ \A i, j \in 1 .. n : l[i] = l[j] => i = j
      /\ \A j \in 1 .. n : Listed(u, s, l, j)
  BY DEF Lists, IsList
<1>2. r \in [LargeSizes -> Seq(Chunks)] /\ r[s] = m /\ \A z \in LargeSizes : z # s => r[z] = q[z]
  BY <1>1, LessIs
<1>3. /\ Len(m) = n - 1 /\ (\A j \in 1 .. n - 1 : m[j] = l[Kept(j, k)])
      /\ \A i \in 1 .. n : i # k => \E j \in 1 .. n - 1 : Kept(j, k) = i
  BY <1>1, RemovedIs
<1>l. \A y \in DOMAIN u.node : u.node[y].size = s => \E j \in 1 .. n : l[j] = y
  BY DEF Lists
<1>d. /\ DOMAIN v.node = DOMAIN u.node \ {x}
      /\ \A y \in DOMAIN u.node \ {x} : UnlinkedAt(u, v, x, y)
  BY DEF UnlinkedFrom
<1>x. /\ x \in DOMAIN u.node /\ u.node[x].size = s
      /\ u.node[x].bk = l[PlaceAfter(k, n)] /\ u.node[x].fd = l[PlaceBefore(k, n)]
  BY <1>1 DEF Listed
<1>b. /\ u.node[x].fd \in DOMAIN u.node /\ u.node[u.node[x].fd].size = s
      /\ u.node[x].bk \in DOMAIN u.node /\ u.node[u.node[x].bk].size = s
  <2>1. PlaceBefore(k, n) \in 1 .. n /\ PlaceAfter(k, n) \in 1 .. n
    BY <1>1, Places
  <2> QED  BY <1>1, <1>x, <2>1 DEF Listed
<1> HIDE DEF r, m, x, n
<1>4. IsList(v, s, m)
  <2>1. IsList(u, s, l) /\ k \in 1 .. Len(l) /\ x = l[k] /\ UnlinkedFrom(u, v, x)
    BY <1>1 DEF x, n
  <2> HIDE DEF l
  <2>2. IsList(v, s, Removed(l, k))
    BY <2>1, ListRemoved
  <2> QED  BY <2>2 DEF m
<1>5. \A y \in DOMAIN u.node : u.node[y].size # s => y \in DOMAIN v.node /\ SameList(u, v, y)
  BY <1>d, <1>x, <1>b DEF UnlinkedAt, SameList
<1>6. ASSUME NEW y \in DOMAIN v.node
      PROVE  (v.node[y].size = s /\ InList(m, y)) \/ (y \in DOMAIN u.node /\ u.node[y].size # s)
  <2>1. y \in DOMAIN u.node /\ y # x /\ v.node[y].size = u.node[y].size
    BY <1>d DEF UnlinkedAt
  <2>2. ASSUME u.node[y].size = s PROVE InList(m, y)
    <3>1. PICK i \in 1 .. n : l[i] = y
      BY <1>l, <2>1, <2>2
    <3>2. i # k
      BY <2>1, <3>1 DEF x
    <3>3. PICK j \in 1 .. n - 1 : Kept(j, k) = i
      BY <1>3, <3>1, <3>2
    <3>4. j \in 1 .. Len(m) /\ m[j] = y
      BY <1>3, <3>1, <3>3
    <3> QED  BY <3>4 DEF InList
  <2> QED  BY <2>1, <2>2
<1>7. ListChange(u, v, q, r, s, m)
  BY <1>2, <1>5, <1>6 DEF ListChange
<1>8. Lists(v, r)
  BY <1>4, <1>7, ListsChange
<1> QED  BY <1>8 DEF r

(* Chunk r, cut off from the trees, takes the place of x.                  *)
Replaced(w, x, r) == Without(Adopted(Relinked(w, x, r), x, r), x)

TakesPlace(w, v, x, r) ==
  /\ BinsType(v) /\ v.map = w.map /\ DOMAIN v.node = DOMAIN w.node \ {x}
  /\ \A j \in TreeIndices : v.root[j] = Null <=> w.root[j] = Null
  /\ \A y \in DOMAIN w.node \ {x} :
       /\ SameListing(w.node[y], v.node[y])
       /\ v.node[y].parent # Null <=> (w.node[y].parent # Null \/ y = r)
       /\ v.node[y].parent = Null => (IsLeaf(w.node[y]) => IsLeaf(v.node[y]))

LEMMA ReplacedIs ==
  ASSUME NEW w, NEW D, NEW x \in Heads(w), NEW r \in DOMAIN w.node, r # x, Forest(w, D, Heads(w) \ {r}),
         IsLeaf(w.node[r]), w.node[r].index = w.node[x].index,
         Prefix(w.node[r].size, w.node[x].index, D[x]) = Prefix(w.node[x].size, w.node[x].index, D[x])
  PROVE  LET v == Replaced(w, x, r)
         IN  TakesPlace(w, v, x, r) /\ Forest(v, [D EXCEPT ![r] = D[x]], Heads(v))
<1> DEFINE S == Heads(w) \ {r}
           N == DOMAIN w.node
           a1 == Relinked(w, x, r)
           a2 == Adopted(a1, x, r)
           v == Without(a2, x)
           n == w.node[x]
<1>1. /\ Forest(w, D, S) /\ x \in S /\ r \in Chunks \cup {Null} /\ r \in Chunks /\ r # Null
      /\ BinsType(w) /\ N \subseteq Chunks
      /\ x \in N /\ x # Null /\ r \notin S /\ S \subseteq N /\ Null \notin N /\ Root \notin N
      /\ \A y \in N : RightBin(w, y)
  <2>1. Forest(w, D, S) /\ x \in S
    OBVIOUS
  <2>2. BinsType(w) /\ S \subseteq N /\ \A y \in N : RightBin(w, y)
    BY <2>1, ForestHas
  <2>3. N \subseteq Chunks
    BY <2>2, NodeTypes
  <2>4. Null \notin Chunks /\ Root \notin Chunks
    BY ConstantTypes
  <2>5. r \in N /\ x \in N /\ r \notin S
    BY DEF Heads
  <2> HIDE DEF S, N
  <2> QED  BY <2>1, <2>2, <2>3, <2>4, <2>5
<1>h. \A y \in N : y \notin S /\ y # r => w.node[y].parent = Null
  BY DEF Heads
<1>i. \A y \in S : w.node[y].parent # Null
  BY DEF Heads
<1> HIDE DEF S
<1>2. /\ BinsType(a1) /\ DOMAIN a1.node = N /\ a1.map = w.map
      /\ \A j \in TreeIndices : a1.root[j] = IF w.root[j] = x THEN r ELSE w.root[j]
      /\ \A y \in N : SameButChildren(w.node[y], a1.node[y])
      /\ \A y \in S, a \in {0, 1} : a1.node[y].child[a] = IF w.node[y].child[a] = x THEN r ELSE w.node[y].child[a]
      /\ \A y \in N \ S : a1.node[y] = w.node[y]
  <2>1. Forest(w, D, S) /\ x \in S /\ r \in Chunks \cup {Null}
    BY <1>1
  <2>2. /\ BinsType(a1) /\ DOMAIN a1.node = DOMAIN w.node
        /\ a1.map = IF AtRoot(w, D, x) /\ r = Null THEN w.map \ {w.node[x].index} ELSE w.map
        /\ \A j \in TreeIndices : a1.root[j] = IF w.root[j] = x THEN r ELSE w.root[j]
        /\ \A y \in DOMAIN w.node : SameButChildren(w.node[y], a1.node[y])
        /\ \A y \in S, a \in {0, 1} :
             a1.node[y].child[a] = IF w.node[y].child[a] = x THEN r ELSE w.node[y].child[a]
        /\ \A y \in DOMAIN w.node \ S : a1.node[y] = w.node[y]
    <3>1. RelinkedTo(w, D, S, x, r, a1)
      BY <2>1, RelinkedIs
    <3> HIDE DEF a1
    <3> QED  BY <3>1 DEF RelinkedTo
  <2> HIDE DEF a1
  <2> QED  BY <1>1, <2>2
<1> HIDE DEF a1
<1>3. \A a \in {0, 1} : n.child[a] # x /\ a1.node[x].child[a] = n.child[a]
  <2>1. \A a \in {0, 1} : n.child[a] # x
    BY <1>1, LinkFromAbove
  <2> QED  BY <1>1, <1>2, <2>1
<1>4. a1.node[x].parent = n.parent /\ a1.node[r] = w.node[r] /\ IsLeaf(a1.node[r])
  BY <1>1, <1>2 DEF SameButChildren
<1>5. /\ BinsType(a2) /\ a2.map = a1.map /\ a2.root = a1.root /\ DOMAIN a2.node = DOMAIN a1.node
      /\ \A y \in DOMAIN a1.node : SameListing(a1.node[y], a2.node[y])
      /\ a2.node[r].parent = a1.node[x].parent
      /\ \A a \in {0, 1} : a2.node[r].child[a] = a1.node[x].child[a]
      /\ \A y \in DOMAIN a1.node \ {r} :
           /\ a2.node[y].child = a1.node[y].child
           /\ a2.node[y].parent = IF y \in {a1.node[x].child[0], a1.node[x].child[1]} THEN r ELSE a1.node[y].parent
  <2>1. BinsType(a1) /\ x \in DOMAIN a1.node /\ r \in DOMAIN a1.node /\ IsLeaf(a1.node[r])
    BY <1>1, <1>2, <1>4
  <2> QED  BY <2>1, AdoptedIs
<1> HIDE DEF a2
<1>6. /\ BinsType(v) /\ v.map = a2.map /\ v.root = a2.root /\ DOMAIN v.node = DOMAIN a2.node \ {x}
      /\ \A y \in DOMAIN a2.node \ {x} : v.node[y] = a2.node[y]
  BY <1>5, WithoutIs
<1> HIDE DEF v
<1>7. /\ v.map = w.map /\ DOMAIN v.node = N \ {x}
      /\ \A j \in TreeIndices : v.root[j] = IF w.root[j] = x THEN r ELSE w.root[j]
      /\ v.node[r].parent = n.parent /\ \A a \in {0, 1} : v.node[r].child[a] = n.child[a]
  BY <1>1, <1>2, <1>3, <1>4, <1>5, <1>6, SMTT(30)
<1>8. \A y \in N \ {x} : SameListing(w.node[y], v.node[y])
  BY <1>2, <1>5, <1>6, SMTT(30) DEF SameButChildren, SameListing
<1>9. \A y \in N : y \in {n.child[0], n.child[1]} <=> y \in S /\ w.node[y].parent = x
  <2>1. ASSUME NEW a \in {0, 1}, n.child[a] \in N PROVE n.child[a] \in S /\ w.node[n.child[a]].parent = x
    <3>1. n.child[a] # Null
      BY <1>1, <2>1
    <3> QED  BY <1>1, <3>1, ForestNode, SMTT(30) DEF Link
  <2>2. ASSUME NEW y \in S, w.node[y].parent = x PROVE \E a \in {0, 1} : n.child[a] = y
    <3>1. ~ AtRoot(w, D, y)
      BY <1>1, <2>2 DEF AtRoot
    <3> QED  BY <1>1, <2>2, <3>1, LinkFromAbove
  <2> QED  BY <2>1, <2>2
<1>10. ASSUME NEW y \in S \ {x}
       PROVE  /\ v.node[y].size = w.node[y].size /\ v.node[y].index = w.node[y].index
              /\ v.node[y].parent = IF w.node[y].parent = x THEN r ELSE w.node[y].parent
              /\ \A a \in {0, 1} : v.node[y].child[a] = IF w.node[y].child[a] = x THEN r ELSE w.node[y].child[a]
  <2>1. y \in N /\ y # x /\ y # r
    BY <1>1
  <2>2. v.node[y] = a2.node[y] /\ a1.node[y].parent = w.node[y].parent
    BY <1>2, <1>5, <1>6, <2>1 DEF SameButChildren
  <2>3. v.node[y].parent = IF y \in {n.child[0], n.child[1]} THEN r ELSE w.node[y].parent
    BY <1>2, <1>3, <1>5, <2>1, <2>2
  <2>4. v.node[y].child = a1.node[y].child
    BY <1>2, <1>5, <2>1, <2>2
  <2> QED  BY <1>2, <1>8, <1>9, <2>1, <2>3, <2>4 DEF SameListing
<1>11. ASSUME NEW y \in N, y \notin S, y # r PROVE v.node[y].parent = Null /\ v.node[y].child = w.node[y].child
  <2>1. y # x /\ y \notin {n.child[0], n.child[1]} /\ a1.node[y] = w.node[y] /\ w.node[y].parent = Null
    BY <1>1, <1>2, <1>9, <1>11, <1>h
  <2>2. y \in DOMAIN a1.node \ {r} /\ y \in DOMAIN a2.node \ {x} /\ y \notin {a1.node[x].child[0], a1.node[x].child[1]}
    BY <1>2, <1>3, <1>5, <1>11, <2>1
  <2> QED  BY <1>5, <1>6, <2>1, <2>2
<1>12. \A y \in N \ {x} : v.node[y].parent # Null <=> (w.node[y].parent # Null \/ y = r)
  <2> SUFFICES ASSUME NEW y \in N \ {x} PROVE v.node[y].parent # Null <=> (w.node[y].parent # Null \/ y = r)
    OBVIOUS
  <2>1. CASE y = r
    BY <1>1, <1>7, <1>i, <2>1
  <2>2. CASE y \in S
    BY <1>1, <1>10, <1>i, <2>2
  <2>3. CASE y \notin S /\ y # r
    BY <1>11, <1>h, <2>3
  <2> QED  BY <2>1, <2>2, <2>3
<1>13. Heads(v) = (S \ {x}) \cup {r}
  BY <1>1, <1>7, <1>12, <1>i, <1>h DEF Heads
<1>14. \A y \in N \ {x} : v.node[y].parent = Null => (IsLeaf(w.node[y]) => IsLeaf(v.node[y]))
  BY <1>1, <1>11, <1>12, <1>i DEF IsLeaf
<1>15. TakesPlace(w, v, x, r)
  BY <1>1, <1>6, <1>7, <1>8, <1>12, <1>14 DEF TakesPlace
<1>16. \A y \in DOMAIN v.node : RightBin(v, y)
  BY <1>1, <1>7, <1>8 DEF RightBin, SameListing
<1>17. /\ v.node[r].index = n.index
       /\ Prefix(v.node[r].size, n.index, D[x]) = Prefix(n.size, n.index, D[x])
  BY <1>8 DEF SameListing
<1>18. Forest(v, [D EXCEPT ![r] = D[x]], (S \ {x}) \cup {r})
  <2>1. (S \ {x}) \cup {r} \subseteq DOMAIN v.node /\ r \in Chunks \ S
    BY <1>1, <1>7
  <2>2. \A y \in S \ {x} : /\ v.node[y].size = w.node[y].size /\ v.node[y].index = w.node[y].index
                           /\ v.node[y].parent = IF w.node[y].parent = x THEN r ELSE w.node[y].parent
    BY <1>10
  <2>3. \A y \in S \ {x}, a \in {0, 1} :
           v.node[y].child[a] = IF w.node[y].child[a] = x THEN r ELSE w.node[y].child[a]
    BY <1>10
  <2>4. InPlace(w, D, S, v, x, r)
    BY <1>7, <1>16, <1>17, <2>1, <2>2, <2>3 DEF InPlace
  <2> HIDE DEF S
  <2> QED  BY <1>1, <1>6, <2>1, <2>4, ForestReplace
<1> QED  BY <1>13, <1>15, <1>18 DEF Replaced, v, a1, a2

(* unlink_large_chunk, case by case: a chunk that is not in the tree; one  *)
(* with another of its size; a leaf; a chunk with children.                *)
LEMMA UnlinkCases ==
  ASSUME NEW u, NEW x
  PROVE  LET n == u.node[x]
             w == WithBkFd(u, n.fd, n.bk, n.bk, n.fd)
             l == LinkToLeaf(u, x)
             r == u.node[l[1]].child[l[2]]
         IN  /\ n.parent = Null /\ n.bk # x => UnlinkLarge(u, x) = Without(w, x)
             /\ n.parent # Null /\ n.bk # x /\ n.bk # Null => UnlinkLarge(u, x) = Replaced(w, x, n.bk)
             /\ n.parent # Null /\ n.bk = x /\ IsLeaf(n) => UnlinkLarge(u, x) = Without(Relinked(u, x, Null), x)
             /\ n.parent # Null /\ n.bk = x /\ ~ IsLeaf(n) /\ r # Null =>
                  UnlinkLarge(u, x) = Replaced(WithChild(u, l[1], l[2], Null), x, r)
<1> DEFINE n == u.node[x]
           w == WithBkFd(u, n.fd, n.bk, n.bk, n.fd)
           l == LinkToLeaf(u, x)
           r == u.node[l[1]].child[l[2]]
           s == Replacement(u, x)
<1>1. n.bk # x => s.chunk = n.bk /\ s.u = w
  BY DEF Replacement, WithBkFd
<1>2. n.bk = x /\ IsLeaf(n) => s.chunk = Null /\ s.u = u
  BY DEF Replacement
<1>3. n.bk = x /\ ~ IsLeaf(n) => s.chunk = r /\ s.u = WithChild(u, l[1], l[2], Null)
  BY DEF Replacement, WithChild
<1>4. UnlinkLarge(u, x) =
        LET v == IF n.parent = Null THEN s.u ELSE Relinked(s.u, x, s.chunk)
        IN  Without(IF n.parent = Null \/ s.chunk = Null THEN v ELSE Adopted(v, x, s.chunk), x)
  BY DEF UnlinkLarge
<1> HIDE DEF s, w, l, r
<1>5. n.parent = Null /\ n.bk # x => UnlinkLarge(u, x) = Without(w, x)
  BY <1>1, <1>4
<1>6. n.parent # Null /\ n.bk # x /\ n.bk # Null => UnlinkLarge(u, x) = Replaced(w, x, n.bk)
  BY <1>1, <1>4 DEF Replaced
<1>7. n.parent # Null /\ n.bk = x /\ IsLeaf(n) => UnlinkLarge(u, x) = Without(Relinked(u, x, Null), x)
  BY <1>2, <1>4
<1>8. n.parent # Null /\ n.bk = x /\ ~ IsLeaf(n) /\ r # Null =>
        UnlinkLarge(u, x) = Replaced(WithChild(u, l[1], l[2], Null), x, r)
  BY <1>3, <1>4 DEF Replaced
<1> QED  BY <1>5, <1>6, <1>7, <1>8 DEF w, l, r

(* A chunk and its neighbours in its list.                                 *)
NextTo(u, s, k, x) ==
  LET n == u.node[x]
  IN  /\ x \in DOMAIN u.node /\ n.size = s
      /\ n.fd \in DOMAIN u.node /\ n.bk \in DOMAIN u.node
      /\ u.node[n.fd].size = s /\ u.node[n.bk].size = s
      /\ n.parent # Null <=> k = 1
      /\ k # 1 => n.bk # x
      /\ n.bk = x => n.fd = x
      /\ k = 1 /\ n.bk # x => u.node[n.bk].parent = Null /\ IsLeaf(u.node[n.bk])

LEMMA Neighbours ==
  ASSUME NEW u, NEW D, NEW q, Bins(u, D, q), NEW s \in LargeSizes, NEW k \in 1 .. Len(q[s])
  PROVE  NextTo(u, s, k, q[s][k])
<1> DEFINE l == q[s]
           m == Len(l)
           x == l[k]
           n == u.node[x]
           a == PlaceAfter(k, m)
           c == PlaceBefore(k, m)
<1>1. m \in Nat /\ (\A i, j \in 1 .. m : l[i] = l[j] => i = j) /\ \A j \in 1 .. m : Listed(u, s, l, j)
  BY HeadOfList DEF IsList
<1>2. a \in 1 .. m /\ c \in 1 .. m
  BY <1>1, Places
<1>3. /\ x \in DOMAIN u.node /\ n.size = s /\ n.bk = l[a] /\ n.fd = l[c]
      /\ n.parent # Null <=> k = 1
  BY <1>1 DEF Listed
<1>4. /\ l[a] \in DOMAIN u.node /\ u.node[l[a]].size = s /\ l[c] \in DOMAIN u.node /\ u.node[l[c]].size = s
      /\ a # 1 => u.node[l[a]].parent = Null /\ IsLeaf(u.node[l[a]])
  BY <1>1, <1>2 DEF Listed
<1>5. n.bk = x <=> a = k
  BY <1>1, <1>2, <1>3
<1>6. /\ k # 1 => a # k
      /\ a = k => c = k
      /\ k = 1 /\ a # k => a # 1
  BY <1>1 DEF PlaceAfter, PlaceBefore
<1> HIDE DEF a, c
<1> QED  BY <1>3, <1>4, <1>5, <1>6 DEF NextTo

LEMMA AloneInList ==
  ASSUME NEW u, NEW D, NEW q, Bins(u, D, q), NEW s \in LargeSizes, NEW k \in 1 .. Len(q[s]), k = 1
  PROVE  /\ q[s][k] \in DOMAIN u.node /\ u.node[q[s][k]].parent # Null
         /\ u.node[q[s][k]].bk = q[s][k] => u.node[q[s][k]].fd = q[s][k]
<1>1. NextTo(u, s, k, q[s][k])
  BY Neighbours
<1> QED  BY <1>1 DEF NextTo

(* The chunk is not in the tree.                                           *)
LEMMA UnlinkFromList ==
  ASSUME NEW u, NEW D, NEW q, Bins(u, D, q), NEW s \in LargeSizes, NEW k \in 1 .. Len(q[s]), k # 1
  PROVE  Bins(UnlinkLarge(u, q[s][k]), D, Less(q, s, k))
<1> DEFINE x == q[s][k]
           f == u.node[x].fd
           b == u.node[x].bk
           w == WithBkFd(u, f, b, b, f)
           v == Without(w, x)
<1>1. /\ x \in DOMAIN u.node /\ f \in DOMAIN u.node /\ b \in DOMAIN u.node
      /\ u.node[x].parent = Null /\ b # x
  <2>1. NextTo(u, s, k, q[s][k])
    BY Neighbours
  <2> QED  BY <2>1 DEF NextTo
<1>2. UnlinkLarge(u, x) = v
  BY <1>1, UnlinkCases
<1>3. /\ Forest(u, D, Heads(u)) /\ BinsType(u) /\ \A y \in DOMAIN u.node : RightBin(u, y)
  BY ForestHas DEF Bins
<1>4. f \in Chunks /\ b \in Chunks
  BY <1>1, <1>3, NodeTypes
<1> HIDE DEF x
<1>x. u.node[x].fd = f /\ u.node[x].bk = b
  OBVIOUS
<1> HIDE DEF f, b
<1>5. /\ BinsType(w) /\ w.map = u.map /\ w.root = u.root /\ DOMAIN w.node = DOMAIN u.node
      /\ \A z \in DOMAIN u.node : SameLinks(u, w, z)
      /\ \A z \in DOMAIN u.node : w.node[z].bk = IF z = f THEN b ELSE u.node[z].bk
      /\ \A z \in DOMAIN u.node : w.node[z].fd = IF z = b THEN f ELSE u.node[z].fd
  BY <1>1, <1>3, <1>4, ChangedBkFd
<1> HIDE DEF w
<1>6. /\ BinsType(v) /\ v.map = w.map /\ v.root = w.root /\ DOMAIN v.node = DOMAIN w.node \ {x}
      /\ \A y \in DOMAIN w.node \ {x} : v.node[y] = w.node[y]
  BY <1>5, WithoutIs
<1> HIDE DEF v
<1>7. /\ v.map = u.map /\ v.root = u.root /\ DOMAIN v.node = DOMAIN u.node \ {x}
      /\ \A y \in DOMAIN u.node \ {x} : SameLinks(u, v, y)
  BY <1>5, <1>6 DEF SameLinks
<1>8. UnlinkedFrom(u, v, x)
  <2>1. \A y \in DOMAIN u.node \ {x} :
           /\ v.node[y].bk = IF y = f THEN b ELSE u.node[y].bk
           /\ v.node[y].fd = IF y = b THEN f ELSE u.node[y].fd
    BY <1>5, <1>6
  <2>2. \A y \in DOMAIN u.node \ {x} : UnlinkedAt(u, v, x, y)
    BY <1>1, <1>7, <1>x, <2>1 DEF UnlinkedAt, SameLinks, IsLeaf
  <2> QED  BY <1>7, <2>2 DEF UnlinkedFrom
<1>9. Lists(v, Less(q, s, k))
  BY <1>3, <1>6, <1>8, UnlinkedLists DEF Bins, x
<1>10. Heads(v) = Heads(u)
  BY <1>1, <1>7 DEF Heads, SameLinks
<1>11. Forest(v, D, Heads(v))
  <2> DEFINE S == Heads(u)
  <2>1. S \subseteq DOMAIN v.node /\ \A y \in S : SameLinks(u, v, y)
    BY <1>1, <1>7 DEF Heads
  <2>2. \A y \in DOMAIN v.node : RightBin(v, y)
    BY <1>3, <1>7 DEF RightBin, SameLinks
  <2>3. \A i \in TreeIndices : v.root[i] = u.root[i]
    BY <1>7
  <2> HIDE DEF S
  <2>4. Forest(u, D, S)
    BY <1>3 DEF S
  <2>5. Forest(v, D, S)
    BY <1>6, <2>1, <2>2, <2>3, <2>4, ForestSame
  <2> QED  BY <1>10, <2>5 DEF S
<1>12. Marked(v)
  BY <1>7 DEF Bins, Marked
<1> QED  BY <1>2, <1>9, <1>11, <1>12 DEF Bins, x

(* The next older chunk of its size takes its place in the tree.           *)
LEMMA UnlinkForOlder ==
  ASSUME NEW u, NEW D, NEW q, Bins(u, D, q), NEW s \in LargeSizes, NEW k \in 1 .. Len(q[s]), k = 1,
         u.node[q[s][k]].bk # q[s][k]
  PROVE  Bins(UnlinkLarge(u, q[s][k]), [D EXCEPT ![u.node[q[s][k]].bk] = D[q[s][k]]], Less(q, s, k))
<1> DEFINE x == q[s][k]
           f == u.node[x].fd
           b == u.node[x].bk
           w == WithBkFd(u, f, b, b, f)
           v == Replaced(w, x, b)
<1>1. /\ x \in DOMAIN u.node /\ f \in DOMAIN u.node /\ b \in DOMAIN u.node
      /\ u.node[x].size = s /\ u.node[b].size = s
      /\ u.node[x].parent # Null /\ b # x /\ u.node[b].parent = Null /\ IsLeaf(u.node[b])
  <2>1. NextTo(u, s, k, q[s][k])
    BY Neighbours, Zenon
  <2> QED  BY <2>1 DEF NextTo
<1>3. /\ Forest(u, D, Heads(u)) /\ BinsType(u) /\ \A y \in DOMAIN u.node : RightBin(u, y)
  BY ForestHas DEF Bins
<1>4. f \in Chunks /\ b \in Chunks /\ b # Null
  <2>1. f \in Chunks /\ b \in Chunks
    BY <1>1, <1>3, NodeTypes
  <2> QED  BY <2>1, ConstantTypes
<1>2. UnlinkLarge(u, x) = v
  BY <1>1, <1>4, UnlinkCases
<1> HIDE DEF x
<1>x. u.node[x].fd = f /\ u.node[x].bk = b
  OBVIOUS
<1> HIDE DEF f, b
<1>5. /\ BinsType(w) /\ w.map = u.map /\ w.root = u.root /\ DOMAIN w.node = DOMAIN u.node
      /\ \A z \in DOMAIN u.node : SameLinks(u, w, z)
      /\ \A z \in DOMAIN u.node : w.node[z].bk = IF z = f THEN b ELSE u.node[z].bk
      /\ \A z \in DOMAIN u.node : w.node[z].fd = IF z = b THEN f ELSE u.node[z].fd
  BY <1>1, <1>3, <1>4, ChangedBkFd
<1> HIDE DEF w
<1>6. Heads(w) = Heads(u) /\ x \in Heads(w) /\ Heads(w) \ {b} = Heads(u)
  BY <1>1, <1>5 DEF Heads, SameLinks
<1>7. Forest(w, D, Heads(w) \ {b})
  <2> DEFINE S == Heads(u)
  <2>1. S \subseteq DOMAIN w.node /\ \A y \in S : SameLinks(u, w, y)
    BY <1>5 DEF Heads
  <2>2. \A y \in DOMAIN w.node : RightBin(w, y)
    BY <1>3, <1>5 DEF RightBin, SameLinks
  <2>3. \A i \in TreeIndices : w.root[i] = u.root[i]
    BY <1>5
  <2> HIDE DEF S
  <2>4. Forest(u, D, S)
    BY <1>3 DEF S
  <2>5. Forest(w, D, S)
    BY <1>5, <2>1, <2>2, <2>3, <2>4, ForestSame
  <2> QED  BY <1>6, <2>5 DEF S
<1>8. TakesPlace(w, v, x, b) /\ Forest(v, [D EXCEPT ![b] = D[x]], Heads(v))
  <2>1. w.node[b].size = w.node[x].size /\ b \in DOMAIN w.node /\ IsLeaf(w.node[b])
    BY <1>1, <1>5 DEF SameLinks, IsLeaf
  <2>2. w.node[b].index = w.node[x].index
    BY <1>1, <1>3, <1>5 DEF RightBin, SameLinks
  <2>3. Prefix(w.node[b].size, w.node[x].index, D[x]) = Prefix(w.node[x].size, w.node[x].index, D[x])
    BY <2>1
  <2> QED  BY <1>1, <1>6, <1>7, <2>1, <2>2, <2>3, ReplacedIs
<1> HIDE DEF v
<1>9. /\ BinsType(v) /\ v.map = u.map /\ DOMAIN v.node = DOMAIN u.node \ {x}
      /\ \A j \in TreeIndices : v.root[j] = Null <=> u.root[j] = Null
      /\ \A y \in DOMAIN u.node \ {x} :
           /\ SameListing(w.node[y], v.node[y])
           /\ v.node[y].parent # Null <=> (w.node[y].parent # Null \/ y = b)
           /\ v.node[y].parent = Null => (IsLeaf(w.node[y]) => IsLeaf(v.node[y]))
  BY <1>5, <1>8 DEF TakesPlace
<1>10. UnlinkedFrom(u, v, x)
  <2>1. ASSUME NEW y \in DOMAIN u.node \ {x} PROVE UnlinkedAt(u, v, x, y)
    <3>1. v.node[y].size = u.node[y].size
      BY <1>5, <1>9 DEF SameListing, SameLinks
    <3>2. /\ v.node[y].bk = IF y = f THEN b ELSE u.node[y].bk
          /\ v.node[y].fd = IF y = b THEN f ELSE u.node[y].fd
      BY <1>5, <1>9 DEF SameListing
    <3>3. v.node[y].parent # Null <=> (u.node[y].parent # Null \/ y = b)
      BY <1>5, <1>9 DEF SameLinks
    <3>4. v.node[y].parent = Null => (IsLeaf(u.node[y]) => IsLeaf(v.node[y]))
      BY <1>5, <1>9 DEF SameLinks, IsLeaf
    <3> QED  BY <1>1, <1>x, <3>1, <3>2, <3>3, <3>4 DEF UnlinkedAt
  <2> QED  BY <1>9, <2>1 DEF UnlinkedFrom
<1>11. Lists(v, Less(q, s, k))
  BY <1>3, <1>9, <1>10, UnlinkedLists DEF Bins, x
<1>12. Marked(v)
  BY <1>9 DEF Bins, Marked
<1> QED  BY <1>2, <1>8, <1>11, <1>12 DEF Bins, x, b

(* A leaf without another chunk of its size.                               *)
LEMMA UnlinkLeaf ==
  ASSUME NEW u, NEW D, NEW q, Bins(u, D, q), NEW s \in LargeSizes, NEW k \in 1 .. Len(q[s]), k = 1,
         u.node[q[s][k]].bk = q[s][k], IsLeaf(u.node[q[s][k]])
  PROVE  Bins(UnlinkLarge(u, q[s][k]), D, Less(q, s, k))
<1> DEFINE x == q[s][k]
           i == u.node[x].index
           w == Relinked(u, x, Null)
           v == Without(w, x)
           S == Heads(u)
<1>1. /\ x \in DOMAIN u.node /\ u.node[x].parent # Null /\ u.node[x].bk = x /\ u.node[x].fd = x
      /\ IsLeaf(u.node[x])
  <2>1. u.node[x].bk = x /\ IsLeaf(u.node[x])
    OBVIOUS
  <2>2. /\ x \in DOMAIN u.node /\ u.node[x].parent # Null
        /\ u.node[x].bk = x => u.node[x].fd = x
    BY AloneInList
  <2> QED  BY <2>1, <2>2
<1>2. UnlinkLarge(u, x) = v
  BY <1>1, UnlinkCases
<1>3. /\ Forest(u, D, S) /\ BinsType(u) /\ (\A y \in DOMAIN u.node : RightBin(u, y))
      /\ S \subseteq DOMAIN u.node
  BY ForestHas DEF Bins
<1>4. x \in S /\ x # Null /\ x \in Chunks
  <2>1. x \in Chunks
    BY <1>1, <1>3, NodeTypes
  <2> QED  BY <1>1, <2>1, ConstantTypes DEF Heads
<1>h. \A y \in DOMAIN u.node : y \in S <=> u.node[y].parent # Null
  BY DEF Heads
<1> HIDE DEF x, S
<1>5. RelinkedTo(u, D, S, x, Null, w)
  BY <1>3, <1>4, RelinkedIs
<1> HIDE DEF w
<1>6. /\ BinsType(w) /\ DOMAIN w.node = DOMAIN u.node
      /\ w.map = IF AtRoot(u, D, x) THEN u.map \ {u.node[x].index} ELSE u.map
      /\ \A j \in TreeIndices : w.root[j] = IF u.root[j] = x THEN Null ELSE u.root[j]
      /\ \A y \in DOMAIN u.node : SameButChildren(u.node[y], w.node[y])
      /\ \A y \in S, a \in {0, 1} :
           w.node[y].child[a] = IF u.node[y].child[a] = x THEN Null ELSE u.node[y].child[a]
      /\ \A y \in DOMAIN u.node \ S : w.node[y] = u.node[y]
  BY <1>5 DEF RelinkedTo
<1>7. /\ BinsType(v) /\ v.map = w.map /\ v.root = w.root /\ DOMAIN v.node = DOMAIN w.node \ {x}
      /\ \A y \in DOMAIN w.node \ {x} : v.node[y] = w.node[y]
  BY <1>6, WithoutIs
<1> HIDE DEF v
<1>8. \A y \in DOMAIN u.node \ {x} : SameButChildren(u.node[y], v.node[y])
  BY <1>6, <1>7
<1>9. UnlinkedFrom(u, v, x)
  <2>1. ASSUME NEW y \in DOMAIN u.node \ {x} PROVE UnlinkedAt(u, v, x, y)
    <3>1. v.node[y].parent = Null => v.node[y] = u.node[y]
      BY <1>6, <1>7, <1>8, <1>h DEF SameButChildren
    <3> QED  BY <1>1, <1>8, <3>1 DEF UnlinkedAt, SameButChildren, SameListing
  <2> QED  BY <1>6, <1>7, <2>1 DEF UnlinkedFrom
<1>10. Lists(v, Less(q, s, k))
  BY <1>3, <1>7, <1>9, UnlinkedLists DEF Bins, x
<1>11. Heads(v) = S \ {x}
  BY <1>3, <1>6, <1>7, <1>8, <1>h DEF Heads, SameButChildren
<1>12. \A y \in DOMAIN v.node : RightBin(v, y)
  BY <1>3, <1>6, <1>7, <1>8 DEF RightBin, SameButChildren, SameListing
<1>13. \A y \in S : w.node[y].child \in [{0, 1} -> Chunks \cup {Null}] /\ u.node[y].child \in [{0, 1} -> Chunks \cup {Null}]
  BY <1>3, <1>6, NodeTypes
<1>14. ASSUME NEW y \in S \ {x}, \A a \in {0, 1} : u.node[y].child[a] # x PROVE SameLinks(u, v, y)
  <2>1. \A a \in {0, 1} : w.node[y].child[a] = u.node[y].child[a]
    BY <1>6, <1>14
  <2>2. w.node[y].child = u.node[y].child
    BY <1>13, <2>1
  <2>3. v.node[y] = w.node[y] /\ y \in DOMAIN u.node
    BY <1>3, <1>6, <1>7
  <2> QED  BY <1>6, <2>2, <2>3 DEF SameLinks, SameButChildren, SameListing
<1>15. CASE AtRoot(u, D, x)
  <2>1. i \in TreeIndices /\ u.root[i] = x
    <3>1. i \in TreeIndices
      BY <1>1, <1>3, NodeTypes
    <3> QED  BY <1>15, <3>1 DEF AtRoot
  <2>2. \A j \in TreeIndices : j # i => u.root[j] # x
    BY <1>3, <1>4, LinkFromAbove, SMTT(30)
  <2> HIDE DEF i
  <2>3. v.root[i] = Null /\ \A j \in TreeIndices : j # i => v.root[j] = u.root[j]
    BY <1>6, <1>7, <2>1, <2>2
  <2>4. \A y \in S \ {x} : SameLinks(u, v, y)
    <3>1. \A y \in S, a \in {0, 1} : u.node[y].child[a] # x
      BY <1>3, <1>4, <1>15, LinkFromAbove
    <3> QED  BY <1>14, <3>1
  <2>5. S \ {x} \subseteq DOMAIN v.node
    BY <1>3, <1>6, <1>7
  <2>6. Forest(v, D, S \ {x})
    BY <1>1, <1>3, <1>4, <1>7, <1>12, <2>1, <2>3, <2>4, <2>5, ForestCutRoot
  <2>7. Marked(v)
    <3>1. v.map = u.map \ {i}
      BY <1>6, <1>7, <1>15 DEF i
    <3> QED  BY <2>1, <2>3, <3>1 DEF Bins, Marked
  <2> QED  BY <1>2, <1>10, <1>11, <2>6, <2>7 DEF Bins, x
<1>16. CASE ~ AtRoot(u, D, x)
  <2> DEFINE p == u.node[x].parent
  <2>1. /\ p \in S /\ (\A j \in TreeIndices : u.root[j] # x)
        /\ \E b \in {0, 1} : u.node[p].child[b] = x
    BY <1>3, <1>4, <1>16, LinkFromAbove
  <2>2. PICK b \in {0, 1} : u.node[p].child[b] = x
    BY <2>1
  <2>3. \A y \in S, a \in {0, 1} : u.node[y].child[a] = x => y = p /\ y # x
    BY <1>3, <1>4, LinkFromAbove, SMTT(30)
  <2>4. \A a \in {0, 1} : u.node[p].child[a] = x => a = b
    BY <1>3, <1>4, <2>1, <2>2, LinkFromAbove, SMTT(30)
  <2> HIDE DEF p
  <2>5. p # x /\ p \in DOMAIN u.node /\ p \in DOMAIN v.node /\ v.node[p] = w.node[p]
    BY <1>3, <1>6, <1>7, <2>1, <2>2, <2>3
  <2>6. v.node[p].child[b] = Null /\ \A a \in {0, 1} : a # b => v.node[p].child[a] = u.node[p].child[a]
    BY <1>6, <2>1, <2>2, <2>4, <2>5
  <2>7. v.node[p].size = u.node[p].size /\ v.node[p].index = u.node[p].index /\ v.node[p].parent = u.node[p].parent
    BY <1>8, <2>5 DEF SameButChildren, SameListing
  <2>8. \A y \in S \ {p, x} : SameLinks(u, v, y)
    BY <1>14, <2>3
  <2>9. \A j \in TreeIndices : v.root[j] = u.root[j]
    BY <1>6, <1>7, <2>1
  <2>10. S \ {x} \subseteq DOMAIN v.node
    BY <1>3, <1>6, <1>7
  <2>11. Forest(v, D, S \ {x})
    BY <1>1, <1>3, <1>4, <1>7, <1>12, <2>1, <2>2, <2>6, <2>7, <2>8, <2>9, <2>10, ForestCutChild, SMTT(30)
  <2>12. Marked(v)
    BY <1>6, <1>7, <1>16, <2>9 DEF Bins, Marked
  <2> QED  BY <1>2, <1>10, <1>11, <2>11, <2>12 DEF Bins, x
<1> QED  BY <1>15, <1>16

(* A chunk with children and without another of its size: the leaf below   *)
(* it takes its place.                                                     *)
LEMMA UnlinkForLeaf ==
  ASSUME NEW u, NEW D, NEW q, Bins(u, D, q), NEW s \in LargeSizes, NEW k \in 1 .. Len(q[s]), k = 1,
         u.node[q[s][k]].bk = q[s][k], ~ IsLeaf(u.node[q[s][k]])
  PROVE  \E E : Bins(UnlinkLarge(u, q[s][k]), E, Less(q, s, k))
<1> DEFINE x == q[s][k]
           S == Heads(u)
           l == LinkToLeaf(u, x)
           p == l[1]
           b == l[2]
           r == u.node[p].child[b]
           w == WithChild(u, p, b, Null)
           v == Replaced(w, x, r)
           i == u.node[x].index
<1>1. /\ x \in DOMAIN u.node /\ u.node[x].parent # Null /\ u.node[x].bk = x /\ u.node[x].fd = x
      /\ ~ IsLeaf(u.node[x])
  <2>1. u.node[x].bk = x /\ ~ IsLeaf(u.node[x])
    OBVIOUS
  <2>2. /\ x \in DOMAIN u.node /\ u.node[x].parent # Null
        /\ u.node[x].bk = x => u.node[x].fd = x
    BY AloneInList
  <2> QED  BY <2>1, <2>2
<1>3. /\ Forest(u, D, S) /\ BinsType(u) /\ (\A y \in DOMAIN u.node : RightBin(u, y))
      /\ S \subseteq DOMAIN u.node
  BY ForestHas DEF Bins
<1>4. x \in S
  BY <1>1 DEF Heads
<1>h. \A y \in DOMAIN u.node : y \in S <=> u.node[y].parent # Null
  BY DEF Heads
<1> HIDE DEF x, S
<1>5. p \in Below(u, D, S, x) /\ b \in {0, 1} /\ r # Null /\ IsLeaf(u.node[r])
  BY <1>1, <1>3, <1>4, LinkToLeafIs, SMTT(30)
<1>2. UnlinkLarge(u, x) = v
  BY <1>1, <1>5, UnlinkCases
<1> HIDE DEF l
<1>6. p \in S /\ D[x] <= D[p]
  BY <1>5 DEF Below
<1>r. u.node[p].child[b] = r
  OBVIOUS
<1> HIDE DEF p, b
<1>7. r \in S /\ r \in Below(u, D, S, x) /\ r # x /\ r # p
  <2>1. r \in S /\ D[r] = D[p] + 1 /\ r \in Below(u, D, S, p)
    BY <1>3, <1>5, <1>6, ChildBelow
  <2>2. r \in Below(u, D, S, x)
    BY <1>3, <1>4, <1>5, <2>1, BelowBelow
  <2>3. D[p] \in Nat /\ D[x] \in Nat
    BY <1>3, <1>4, <1>6, ForestNode
  <2> QED  BY <1>6, <2>1, <2>2, <2>3
<1>8. /\ u.node[r].index = i
      /\ Prefix(u.node[r].size, i, D[x]) = Prefix(u.node[x].size, i, D[x])
  BY <1>7 DEF Below
<1> HIDE DEF r
<1>9. /\ BinsType(w) /\ w.map = u.map /\ w.root = u.root /\ DOMAIN w.node = DOMAIN u.node
      /\ w.node[p].child[b] = Null /\ (\A a \in {0, 1} : a # b => w.node[p].child[a] = u.node[p].child[a])
      /\ w.node[p].size = u.node[p].size /\ w.node[p].index = u.node[p].index
      /\ w.node[p].fd = u.node[p].fd /\ w.node[p].bk = u.node[p].bk
      /\ w.node[p].parent = u.node[p].parent
      /\ \A y \in DOMAIN u.node : y # p => w.node[y] = u.node[y]
  <2>1. BinsType(u) /\ p \in DOMAIN u.node /\ b \in {0, 1} /\ Null \in Chunks \cup {Null}
    BY <1>3, <1>5, <1>6
  <2> QED  BY <2>1, ChangedChild
<1> HIDE DEF w
<1>10. \A y \in DOMAIN u.node : SameButChildren(u.node[y], w.node[y])
  <2>1. SameButChildren(u.node[p], w.node[p])
    BY <1>9 DEF SameButChildren, SameListing
  <2>2. \A y \in DOMAIN u.node : y # p => SameButChildren(u.node[y], w.node[y])
    BY <1>9 DEF SameButChildren, SameListing
  <2> QED  BY <2>1, <2>2
<1>11. Heads(w) = S
  BY <1>3, <1>9, <1>10, <1>h DEF Heads, SameButChildren
<1>12. \A y \in DOMAIN w.node : RightBin(w, y)
  BY <1>3, <1>9, <1>10 DEF RightBin, SameButChildren, SameListing
<1>13. Forest(w, D, S \ {r})
  <2>1. \A j \in TreeIndices : w.root[j] = u.root[j]
    BY <1>9
  <2>2. S \ {r} \subseteq DOMAIN w.node
    BY <1>3, <1>9
  <2>3. \A y \in S \ {p, r} : SameLinks(u, w, y)
    BY <1>3, <1>9 DEF SameLinks
  <2> QED  BY <1>3, <1>5, <1>6, <1>9, <1>12, <1>r, <2>1, <2>2, <2>3, ForestCutChild
<1>14. TakesPlace(w, v, x, r) /\ Forest(v, [D EXCEPT ![r] = D[x]], Heads(v))
  <2>1. w.node[r] = u.node[r] /\ r \in DOMAIN w.node /\ IsLeaf(w.node[r])
    BY <1>3, <1>5, <1>7, <1>9
  <2>2. w.node[x].index = i /\ w.node[x].size = u.node[x].size
    BY <1>1, <1>10 DEF SameButChildren, SameListing
  <2>3. /\ w.node[r].index = w.node[x].index
        /\ Prefix(w.node[r].size, w.node[x].index, D[x]) = Prefix(w.node[x].size, w.node[x].index, D[x])
    BY <1>8, <2>1, <2>2
  <2>4. x \in Heads(w) /\ r # x /\ Forest(w, D, Heads(w) \ {r})
    BY <1>4, <1>7, <1>11, <1>13
  <2> QED  BY <2>1, <2>3, <2>4, ReplacedIs
<1> HIDE DEF v
<1>15. /\ BinsType(v) /\ v.map = u.map /\ DOMAIN v.node = DOMAIN u.node \ {x}
       /\ \A j \in TreeIndices : v.root[j] = Null <=> u.root[j] = Null
       /\ \A y \in DOMAIN u.node \ {x} :
            /\ SameListing(w.node[y], v.node[y])
            /\ v.node[y].parent # Null <=> (w.node[y].parent # Null \/ y = r)
            /\ v.node[y].parent = Null => (IsLeaf(w.node[y]) => IsLeaf(v.node[y]))
  BY <1>9, <1>14 DEF TakesPlace
<1>16. UnlinkedFrom(u, v, x)
  <2>1. ASSUME NEW y \in DOMAIN u.node \ {x} PROVE UnlinkedAt(u, v, x, y)
    <3>1. v.node[y].size = u.node[y].size /\ v.node[y].bk = u.node[y].bk /\ v.node[y].fd = u.node[y].fd
      BY <1>10, <1>15 DEF SameButChildren, SameListing
    <3>2. v.node[y].parent # Null <=> u.node[y].parent # Null
      BY <1>3, <1>7, <1>10, <1>15, <1>h DEF SameButChildren
    <3>3. v.node[y].parent = Null => (IsLeaf(u.node[y]) => IsLeaf(v.node[y]))
      <4>1. v.node[y].parent = Null => y # p
        BY <1>6, <1>h, <3>2
      <4> QED  BY <1>9, <1>15, <4>1
    <3> QED  BY <1>1, <3>1, <3>2, <3>3 DEF UnlinkedAt
  <2> QED  BY <1>15, <2>1 DEF UnlinkedFrom
<1>17. Lists(v, Less(q, s, k))
  BY <1>3, <1>15, <1>16, UnlinkedLists DEF Bins, x
<1>18. Marked(v)
  BY <1>15 DEF Bins, Marked
<1> QED  BY <1>2, <1>14, <1>17, <1>18 DEF Bins, x

(* The list that unlink_large_chunk shortens.                              *)
LEMMA UnlinkKeeps ==
  ASSUME NEW u, NEW D, NEW q, Bins(u, D, q), NEW s \in LargeSizes, NEW k \in 1 .. Len(q[s])
  PROVE  \E E : Bins(UnlinkLarge(u, q[s][k]), E, Less(q, s, k))
<1>1. CASE k # 1
  BY <1>1, UnlinkFromList
<1>2. CASE k = 1 /\ u.node[q[s][k]].bk # q[s][k]
  BY <1>2, UnlinkForOlder
<1>3. CASE k = 1 /\ u.node[q[s][k]].bk = q[s][k] /\ IsLeaf(u.node[q[s][k]])
  BY <1>3, UnlinkLeaf
<1>4. CASE k = 1 /\ u.node[q[s][k]].bk = q[s][k] /\ ~ IsLeaf(u.node[q[s][k]])
  BY <1>4, UnlinkForLeaf
<1> QED  BY <1>1, <1>2, <1>3, <1>4

-----------------------------------------------------------------------------
(* The invariant is all that the checks of the source ask.                 *)

LEMMA CheckedNode ==
  ASSUME NEW D, NEW q, Bins(t, D, q), NEW x \in DOMAIN t.node
  PROVE  CheckNode(x)
<1> DEFINE n == t.node[x]
           S == Heads(t)
           s == n.size
           i == n.index
           l == q[s]
           m == Len(l)
<1>1. /\ Forest(t, D, S) /\ BinsType(t) /\ RightBin(t, x) /\ Lists(t, q)
      /\ S \subseteq DOMAIN t.node /\ S \subseteq Chunks
  BY ForestHas DEF Bins
<1>2. /\ n.size \in LargeSizes /\ n.size \in Sizes /\ n.index \in TreeIndices
      /\ n.parent \in Chunks \cup {Null, Root} /\ n.child \in [{0, 1} -> Chunks \cup {Null}]
  BY <1>1, NodeTypes
<1>3. n.index = TreeIndex(n.size)
  BY <1>1 DEF RightBin
<1>4. n.size >= MinSizeForTreeIndex(n.index) /\ (n.index = NTreeBins - 1 \/ n.size < MinSizeForTreeIndex(n.index + 1))
  <2>1. /\ MinSizeForTreeIndex(TreeIndex(n.size)) <= n.size
        /\ TreeIndex(n.size) = NTreeBins - 1 \/ n.size < MinSizeForTreeIndex(TreeIndex(n.size) + 1)
    BY <1>2, BinOfSize
  <2> QED  BY <1>3, <2>1
<1>5. PICK k \in 1 .. m : l[k] = x
  BY <1>1 DEF Lists
<1>6. /\ m \in Nat /\ (\A a, b \in 1 .. m : l[a] = l[b] => a = b) /\ \A j \in 1 .. m : Listed(t, s, l, j)
  BY <1>2, HeadOfList DEF IsList
<1> HIDE DEF l, m
<1>7. /\ n.bk = l[PlaceAfter(k, m)] /\ n.fd = l[PlaceBefore(k, m)] /\ (n.parent # Null <=> k = 1)
      /\ (k # 1 => IsLeaf(n))
  BY <1>5, <1>6 DEF Listed, m
<1>8. PlaceAfter(k, m) \in 1 .. m /\ PlaceBefore(k, m) \in 1 .. m
  BY <1>5, <1>6, Places
<1>9. PlaceAfter(PlaceBefore(k, m), m) = k /\ PlaceBefore(PlaceAfter(k, m), m) = k
  BY <1>5, <1>6 DEF PlaceAfter, PlaceBefore
<1>10. t.node[n.fd].bk = x /\ t.node[n.fd].size = n.size
  <2> DEFINE j == PlaceBefore(k, m)
  <2>1. Listed(t, s, l, j)
    BY <1>6, <1>8
  <2> HIDE DEF j
  <2>2. t.node[l[j]].bk = l[PlaceAfter(j, m)] /\ t.node[l[j]].size = s
    BY <2>1 DEF Listed, m
  <2> QED  BY <1>5, <1>7, <1>9, <2>2 DEF j
<1>11. t.node[n.bk].fd = x
  <2> DEFINE j == PlaceAfter(k, m)
  <2>1. Listed(t, s, l, j)
    BY <1>6, <1>8
  <2> HIDE DEF j
  <2>2. t.node[l[j]].fd = l[PlaceBefore(j, m)]
    BY <2>1 DEF Listed, m
  <2> QED  BY <1>5, <1>7, <1>9, <2>2 DEF j
<1>12. n.parent = Null => n.child[0] = Null /\ n.child[1] = Null
  BY <1>7 DEF IsLeaf
<1>13. Root \notin Chunks /\ Null \notin Chunks /\ Null # Root
  BY ConstantTypes
<1>14. x \in S <=> n.parent # Null
  BY DEF Heads
<1> HIDE DEF S
<1>15. ASSUME x \in S
       PROVE  /\ AtRoot(t, D, x) \/ BelowParent(t, S, x)
              /\ \A b \in {0, 1} : n.child[b] # Null => Link(t, D, S, x, b)
  BY <1>1, <1>15, ForestNode
<1>16. n.parent = Root => t.root[n.index] = x
  BY <1>1, <1>13, <1>14, <1>15 DEF AtRoot, BelowParent
<1>17. n.parent \in Chunks => \E b \in {0, 1} : t.node[n.parent].child[b] = x
  BY <1>13, <1>14, <1>15 DEF AtRoot, BelowParent
<1>18. \A b \in {0, 1} : n.child[b] # Null => t.node[n.child[b]].parent = x
  BY <1>12, <1>14, <1>15 DEF Link
<1>19. (n.child[0] # Null /\ n.child[1] # Null) => t.node[n.child[0]].size < t.node[n.child[1]].size
  <2> SUFFICES ASSUME n.child[0] # Null, n.child[1] # Null
               PROVE  t.node[n.child[0]].size < t.node[n.child[1]].size
    OBVIOUS
  <2> DEFINE y == n.child[0]
             z == n.child[1]
  <2>1. Link(t, D, S, x, 0) /\ Link(t, D, S, x, 1) /\ x \in S
    BY <1>12, <1>14, <1>15
  <2>2. /\ y \in S /\ z \in S /\ D[x] < Bits(i)
        /\ Prefix(t.node[y].size, i, D[x]) = Prefix(n.size, i, D[x]) /\ Branch(t.node[y].size, i, D[x]) = 0
        /\ Prefix(t.node[z].size, i, D[x]) = Prefix(n.size, i, D[x]) /\ Branch(t.node[z].size, i, D[x]) = 1
    BY <2>1 DEF Link
  <2> HIDE DEF y, z
  <2>3. t.node[y].size \in Sizes /\ t.node[z].size \in Sizes /\ D[x] \in Nat /\ i \in TreeIndices
    BY <1>1, <1>2, <2>1, <2>2, ForestNode
  <2>4. t.node[y].size < t.node[z].size
    BY <2>2, <2>3, LeftIsSmaller
  <2> QED  BY <2>4 DEF y, z
<1> QED  BY <1>3, <1>4, <1>10, <1>11, <1>12, <1>16, <1>17, <1>18, <1>19 DEF CheckNode

LEMMA BinsChecked ==
  ASSUME NEW D, NEW q, Bins(t, D, q)
  PROVE  TreesChecked
<1>1. \A x \in DOMAIN t.node : CheckNode(x)
  BY CheckedNode
<1>2. ASSUME NEW x \in DOMAIN t.node
      PROVE  Cardinality({y \in InTree : t.node[y].size = t.node[x].size}) = 1
  <2> DEFINE s == t.node[x].size
             h == q[s][1]
  <2>1. s \in LargeSizes /\ InTree = Heads(t)
    BY ForestHas, NodeTypes DEF Bins, InTree, Heads
  <2>2. PICK k \in 1 .. Len(q[s]) : q[s][k] = x
    BY DEF Bins, Lists
  <2>3. 1 \in 1 .. Len(q[s]) /\ Len(q[s]) # 0
    BY <2>1, <2>2, HeadOfList
  <2>4. h \in Heads(t) /\ t.node[h].size = s /\ \A y \in Heads(t) : t.node[y].size = s => y = h
    BY <2>1, <2>3, HeadOfList
  <2> HIDE DEF h
  <2>5. {y \in InTree : t.node[y].size = s} = {h}
    BY <2>1, <2>4
  <2> QED  BY <2>5, FS_Singleton
<1> QED  BY <1>1, <1>2 DEF TreesChecked, Bins, Marked

-----------------------------------------------------------------------------
(* The searches.                                                           *)

LEMMA MaxSize ==
  Max(LargeSizes) \in LargeSizes /\ \A s \in LargeSizes : s <= Max(LargeSizes)
<1> DEFINE P == Pow2(WordBits)
           T == {n \in Nat : \E s \in LargeSizes : n = P - s}
<1>1. P \in Nat /\ LargeSizes # {} /\ \A s \in LargeSizes : s \in Nat /\ P - s \in Nat
  BY ConstantTypes DEF Sizes
<1> HIDE DEF P
<1>2. T # {} /\ T \in SUBSET Nat
  BY <1>1
<1>3. Min(T) \in T /\ \A n \in T : Min(T) <= n
  BY <1>2, LeastNat
<1>4. PICK m \in LargeSizes : Min(T) = P - m
  BY <1>3
<1>5. \A s \in LargeSizes : s <= m
  <2> SUFFICES ASSUME NEW s \in LargeSizes PROVE s <= m
    OBVIOUS
  <2>1. P - s \in T
    BY <1>1
  <2>2. P - m <= P - s
    BY <1>3, <1>4, <2>1
  <2> QED  BY <1>1, <2>2
<1>6. \E x \in LargeSizes : \A y \in LargeSizes : x >= y
  BY <1>1, <1>5
<1>7. Max(LargeSizes) \in LargeSizes /\ \A y \in LargeSizes : Max(LargeSizes) >= y
  BY <1>6 DEF Max
<1> QED  BY <1>1, <1>7

(* The least remainders of a number that is at most one modulus away.      *)
LEMMA ModIs ==
  ASSUME NEW p \in Nat \ {0}, NEW r \in 0 .. p - 1
  PROVE  r % p = r /\ (r - p) % p = r
<1>1. r % p = r
  BY SMT
<1>2. (r - p) % p = r
  BY SMT
<1> QED  BY <1>1, <1>2

(* Requests: what the searches are asked for.                              *)
Requests == 1 .. Pow2(WordBits) - 1

LEMMA RemainderIs ==
  ASSUME NEW u, NEW x, u.node[x].size \in Sizes, NEW nb \in Requests
  PROVE  Remainder(u, x, nb) = IF nb <= u.node[x].size THEN u.node[x].size - nb
                               ELSE u.node[x].size - nb + Pow2(WordBits)
<1> DEFINE P == Pow2(WordBits)
           s == u.node[x].size
<1>1. P \in Nat \ {0} /\ s \in Nat /\ s < P /\ nb \in Nat /\ nb # 0 /\ nb < P
  BY ConstantTypes DEF Sizes, Requests
<1>2. Remainder(u, x, nb) = (s - nb) % P
  BY DEF Remainder
<1> HIDE DEF P, s
<1>3. CASE nb <= s
  <2>1. s - nb \in 0 .. P - 1
    BY <1>1, <1>3
  <2>2. (s - nb) % P = s - nb
    BY <1>1, <2>1, ModIs
  <2> QED  BY <1>2, <1>3, <2>2 DEF P, s
<1>4. CASE ~ (nb <= s)
  <2>1. s - nb + P \in 0 .. P - 1 /\ (s - nb + P) - P = s - nb
    BY <1>1, <1>4
  <2>2. ((s - nb + P) - P) % P = s - nb + P
    BY <1>1, <2>1, ModIs
  <2> QED  BY <1>2, <1>4, <2>1, <2>2 DEF P, s
<1> QED  BY <1>3, <1>4

(* The comparison of remainders finds the smaller of the chunks that fit.  *)
LEMMA BetterIs ==
  ASSUME NEW u, NEW x, u.node[x].size \in Sizes, NEW nb \in Requests,
         NEW best, best # Null => u.node[best].size \in Sizes /\ nb <= u.node[best].size
  PROVE  Better(u, best, x, nb) =
           IF nb <= u.node[x].size /\ (best = Null \/ u.node[x].size < u.node[best].size) THEN x ELSE best
<1> DEFINE P == Pow2(WordBits)
           s == u.node[x].size
           m == u.node[best].size
           bound == IF best = Null THEN (0 - nb) % P ELSE Remainder(u, best, nb)
           r == Remainder(u, x, nb)
<1>1. P \in Nat \ {0} /\ s \in Nat /\ s < P /\ nb \in Nat /\ nb # 0 /\ nb < P
  BY ConstantTypes DEF Sizes, Requests
<1>2. r = IF nb <= s THEN s - nb ELSE s - nb + P
  BY RemainderIs
<1>3. (0 - nb) % P = P - nb
  <2>1. P - nb \in 0 .. P - 1 /\ (P - nb) - P = 0 - nb
    BY <1>1
  <2> HIDE DEF P
  <2>2. ((P - nb) - P) % P = P - nb
    BY <1>1, <2>1, ModIs
  <2> QED  BY <2>1, <2>2
<1>4. Better(u, best, x, nb) = IF r < bound THEN x ELSE best
  BY DEF Better
<1>5. CASE best = Null
  <2>1. bound = P - nb
    BY <1>3, <1>5
  <2> HIDE DEF P, r, s, bound
  <2>2. r < bound <=> nb <= s
    BY <1>1, <1>2, <2>1
  <2> QED  BY <1>4, <1>5, <2>2 DEF s
<1>6. CASE best # Null
  <2>1. m \in Sizes /\ nb <= m
    BY <1>6
  <2>2. bound = m - nb
    BY <1>6, <2>1, RemainderIs
  <2>3. m \in Nat /\ m < P
    BY <2>1, ConstantTypes DEF Sizes
  <2> HIDE DEF P, r, s, bound, m
  <2>4. r < bound <=> (nb <= s /\ s < m)
    BY <1>1, <1>2, <2>1, <2>2, <2>3
  <2> QED  BY <1>4, <1>6, <2>4 DEF s, m
<1> QED  BY <1>5, <1>6

(* The chunks below x and the leftmost child of x.                         *)
LEMMA LeftmostIs ==
  ASSUME NEW u, NEW D, NEW S, Forest(u, D, S), NEW x \in S
  PROVE  LET c == LeftmostChild(u.node[x])
         IN  /\ c # Null => c \in S /\ c \in Below(u, D, S, x) /\ D[c] = D[x] + 1
             /\ c = Null => Below(u, D, S, x) = {x}
             /\ \A y \in Below(u, D, S, x) : y # x =>
                  \E z \in Below(u, D, S, c) : u.node[z].size <= u.node[y].size
<1> DEFINE a == u.node[x].child[0]
           b == u.node[x].child[1]
           c == LeftmostChild(u.node[x])
           i == u.node[x].index
<1>1. c = IF a # Null THEN a ELSE b
  BY DEF LeftmostChild
<1>2. c # Null => c \in S /\ c \in Below(u, D, S, x) /\ D[c] = D[x] + 1
  <2>1. a # Null => a \in S /\ a \in Below(u, D, S, x) /\ D[a] = D[x] + 1
    BY ChildBelow
  <2>2. b # Null => b \in S /\ b \in Below(u, D, S, x) /\ D[b] = D[x] + 1
    BY ChildBelow
  <2> HIDE DEF a, b
  <2> QED  BY <1>1, <2>1, <2>2
<1> HIDE DEF c
<1>3. x \in Below(u, D, S, x)
  BY BelowItself
<1>4. ASSUME NEW y \in Below(u, D, S, x), y # x
      PROVE  c # Null /\ \E z \in Below(u, D, S, c) : u.node[z].size <= u.node[y].size
  <2> DEFINE e == Branch(u.node[y].size, i, D[x])
  <2>1. e \in {0, 1} /\ u.node[x].child[e] # Null /\ y \in Below(u, D, S, u.node[x].child[e])
    BY <1>4, BelowSplits
  <2>2. y \in S /\ u.node[y].size \in Nat /\ u.node[y].size \in Sizes
    <3>1. y \in S
      BY DEF Below
    <3> QED  BY <3>1, ForestNode
  <2>3. CASE c = u.node[x].child[e]
    BY <2>1, <2>2, <2>3
  <2>4. CASE c # u.node[x].child[e]
    <3> DEFINE n == u.node[x].child
    <3>1. e = 1 /\ n[0] # Null /\ c = n[0]
      BY <1>1, <2>1, <2>4
    <3>2. n[0] \in S /\ n[0] \in Below(u, D, S, n[0]) /\ n[0] \in Below(u, D, S, x) /\ Branch(u.node[n[0]].size, i, D[x]) = 0
      <4>1. n[0] \in S /\ n[0] \in Below(u, D, S, x)
        BY <3>1, ChildBelow
      <4>2. n[0] \in Below(u, D, S, n[0])
        BY <4>1, BelowItself
      <4>3. Link(u, D, S, x, 0)
        BY <3>1, ForestNode
      <4> QED  BY <4>1, <4>2, <4>3 DEF Link
    <3>3. Link(u, D, S, x, 0) /\ D[x] \in Nat /\ i \in TreeIndices
      BY <3>1, ForestNode
    <3>4. D[x] < Bits(i)
      BY <3>3 DEF Link
    <3>5. Prefix(u.node[n[0]].size, i, D[x]) = Prefix(u.node[y].size, i, D[x])
      BY <1>4, <3>2 DEF Below
    <3>6. u.node[n[0]].size \in Sizes /\ u.node[n[0]].size \in Nat
      BY <3>2, ForestNode, SMTT(30)
    <3> HIDE DEF n
    <3>7. u.node[n[0]].size < u.node[y].size
      BY <2>2, <3>1, <3>2, <3>3, <3>4, <3>5, <3>6, LeftIsSmaller
    <3> QED  BY <2>2, <2>4, <3>1, <3>2, <3>6, <3>7
  <2> QED  BY <2>3, <2>4
<1>5. c = Null => Below(u, D, S, x) = {x}
  BY <1>3, <1>4
<1> QED  BY <1>2, <1>4, <1>5 DEF c

(* The walk along the leftmost children.                                   *)
BestWalk(u, x, best, nb) ==
  CHOOSE walk : walk = [n \in 0 .. Cardinality(Chunks) |->
    IF n = 0 THEN [at |-> x, best |-> best]
    ELSE LET w == walk[n - 1] IN
         IF w.at = Null THEN w
         ELSE [at |-> LeftmostChild(u.node[w.at]), best |-> Better(u, w.best, w.at, nb)]]

LEMMA BestWalkIs ==
  ASSUME NEW u, NEW D, NEW S, Forest(u, D, S), NEW x \in S \cup {Null}, NEW best \in S \cup {Null},
         NEW nb \in Requests
  PROVE  LET walk == BestWalk(u, x, best, nb)
         IN  /\ walk[0] = [at |-> x, best |-> best]
             /\ \A n \in 1 .. Cardinality(Chunks) :
                  walk[n] = IF walk[n - 1].at = Null THEN walk[n - 1]
                            ELSE [at |-> LeftmostChild(u.node[walk[n - 1].at]),
                                  best |-> Better(u, walk[n - 1].best, walk[n - 1].at, nb)]
             /\ BestBelow(u, x, best, nb) = walk[Cardinality(Chunks)].best
<1> DEFINE m == Cardinality(Chunks)
           W == [at : S \cup {Null}, best : S \cup {Null}]
           w0 == [at |-> x, best |-> best]
           Step(w, n) ==
             IF w.at = Null THEN w
             ELSE [at |-> LeftmostChild(u.node[w.at]), best |-> Better(u, w.best, w.at, nb)]
           f == [n \in Nat |-> [w \in W |-> Step(w, n + 1)]]
           walk == BestWalk(u, x, best, nb)
<1>1. w0 \in W
  OBVIOUS
<1>2. \A y \in S : LeftmostChild(u.node[y]) \in S \cup {Null}
  BY LeftmostIs
<1>3. \A y, b : Better(u, b, y, nb) \in {y, b}
  BY DEF Better
<1>4. \A w \in W, n \in Nat : Step(w, n + 1) \in W
  <2> SUFFICES ASSUME NEW w \in W, NEW n \in Nat PROVE Step(w, n + 1) \in W
    OBVIOUS
  <2>1. CASE w.at = Null
    BY <2>1
  <2>2. CASE w.at # Null
    <3>1. LeftmostChild(u.node[w.at]) \in S \cup {Null}
      BY <1>2, <2>2
    <3>2. Better(u, w.best, w.at, nb) \in S \cup {Null}
      BY <1>3
    <3> QED  BY <2>2, <3>1, <3>2
  <2> QED  BY <2>1, <2>2
<1> HIDE DEF Step, W
<1>5. f \in [Nat -> [W -> W]]
  BY <1>4
<1>6. m \in Nat
  BY ConstantTypes, FS_CardinalityType
<1> HIDE DEF f, w0
<1>i. PICK g : IsLoop(g, W, w0, f, m)
  BY <1>1, <1>5, <1>6, LoopExists
<1>7. g \in [0 .. m -> W] /\ g[0] = w0 /\ \A n \in 1 .. m : g[n] = f[n - 1][g[n - 1]]
  BY <1>i DEF IsLoop
<1>8. \A n \in 1 .. m : g[n] = Step(g[n - 1], n)
  <2> SUFFICES ASSUME NEW n \in 1 .. m PROVE g[n] = Step(g[n - 1], n)
    OBVIOUS
  <2>1. n - 1 \in Nat /\ n - 1 \in 0 .. m /\ (n - 1) + 1 = n
    BY <1>6
  <2>2. g[n - 1] \in W
    BY <1>7, <2>1
  <2>3. f[n - 1][g[n - 1]] = Step(g[n - 1], (n - 1) + 1)
    BY <2>1, <2>2 DEF f
  <2> QED  BY <1>7, <2>1, <2>3
<1>9. g = [n \in 0 .. m |-> IF n = 0 THEN w0 ELSE Step(g[n - 1], n)]
  <2>1. \A n \in 0 .. m : n = 0 \/ n \in 1 .. m
    BY <1>6
  <2>2. \A n \in 0 .. m : g[n] = IF n = 0 THEN w0 ELSE Step(g[n - 1], n)
    BY <1>7, <1>8, <2>1
  <2> QED  BY <1>7, <2>2
<1>10. \E y : y = [n \in 0 .. m |-> IF n = 0 THEN w0 ELSE Step(y[n - 1], n)]
  BY <1>9
<1>11. walk = [n \in 0 .. m |-> IF n = 0 THEN w0 ELSE Step(walk[n - 1], n)]
  BY <1>10, Zenon DEF BestWalk, Step, w0
<1> HIDE DEF walk
<1>12. walk[0] = w0 /\ \A n \in 1 .. m : walk[n] = Step(walk[n - 1], n)
  BY <1>6, <1>11
<1>13. BestBelow(u, x, best, nb) = walk[m].best
  BY Zenon DEF BestBelow, BestWalk, walk
<1> QED  BY <1>12, <1>13 DEF walk, w0, Step

(* The best fit below x, all of whose chunks are large enough, and best.   *)
Under(u, D, S, x) == IF x = Null THEN {} ELSE Below(u, D, S, x)

AllFit(u, B, nb) == \A y \in B : nb <= u.node[y].size

BestOf(u, S, B, best, r) ==
  /\ r \in S \cup {Null} /\ r \in B \cup {best}
  /\ best # Null => r # Null /\ u.node[r].size <= u.node[best].size
  /\ \A y \in B : r # Null /\ u.node[r].size <= u.node[y].size

LEMMA BestBelowIs ==
  ASSUME NEW u, NEW D, NEW S, Forest(u, D, S), NEW x \in S \cup {Null}, NEW best \in S \cup {Null},
         NEW nb \in Requests,
         best # Null => nb <= u.node[best].size,
         AllFit(u, Under(u, D, S, x), nb)
  PROVE  BestOf(u, S, Under(u, D, S, x), best, BestBelow(u, x, best, nb))
<1> DEFINE B == Under(u, D, S, x)
           m == Cardinality(Chunks)
           walk == BestWalk(u, x, best, nb)
           at(n) == walk[n].at
           b(n) == walk[n].best
           size(y) == u.node[y].size
           Good(n) == /\ at(n) \in S \cup {Null} /\ b(n) \in S \cup {Null}
                      /\ b(n) \in B \cup {best}
                      /\ b(n) # Null => nb <= size(b(n))
                      /\ best # Null => b(n) # Null /\ size(b(n)) <= size(best)
                      /\ at(n) # Null => at(n) \in B /\ n <= D[at(n)]
                      /\ \A y \in B : \/ b(n) # Null /\ size(b(n)) <= size(y)
                                      \/ at(n) # Null /\ \E z \in Below(u, D, S, at(n)) : size(z) <= size(y)
           T == {n \in 0 .. m : ~ Good(n)}
<1>1. /\ walk[0] = [at |-> x, best |-> best]
      /\ \A n \in 1 .. m :
           walk[n] = IF walk[n - 1].at = Null THEN walk[n - 1]
                     ELSE [at |-> LeftmostChild(u.node[walk[n - 1].at]),
                           best |-> Better(u, walk[n - 1].best, walk[n - 1].at, nb)]
      /\ BestBelow(u, x, best, nb) = walk[m].best
  BY BestWalkIs
<1>2. m \in Nat
  BY ConstantTypes, FS_CardinalityType
<1>3. \A y \in S : size(y) \in Nat /\ size(y) \in Sizes /\ D[y] \in Nat /\ y # Null
  BY ForestNode, ConstantTypes
<1>4. nb \in Nat
  BY ConstantTypes DEF Requests
<1>5. B \subseteq S
  BY DEF Below, Under
<1>6. Null \notin S
  BY <1>3
<1>b. x # Null => B = Below(u, D, S, x) /\ x \in S /\ x \in B
  BY BelowItself DEF Under
<1>c. x = Null => B = {}
  BY DEF Under
<1>d. \A y \in B : nb <= u.node[y].size
  BY DEF AllFit
<1> HIDE DEF walk, m, size, B
<1>7. Good(0)
  <2>1. at(0) = x /\ b(0) = best
    BY <1>1
  <2>2. \A y \in B : x # Null /\ \E z \in Below(u, D, S, x) : size(z) <= size(y)
    BY <1>3, <1>5, <1>b, <1>c
  <2>3. best # Null => nb <= size(best)
    BY DEF size
  <2> HIDE DEF at, b
  <2>4. x # Null => x \in B /\ 0 <= D[x]
    BY <1>3, <1>b
  <2>5. best # Null => size(best) <= size(best)
    BY <1>3
  <2> QED  BY <2>1, <2>2, <2>3, <2>4, <2>5
<1>8. ASSUME NEW n \in 1 .. m, Good(n - 1) PROVE Good(n)
  <2> DEFINE a == at(n - 1)
             e == b(n - 1)
  <2>1. CASE a = Null
    <3>1. at(n) = a /\ b(n) = e
      BY <1>1, <2>1
    <3> QED  BY <1>8, <2>1, <3>1
  <2>2. CASE a # Null
    <3> DEFINE c == LeftmostChild(u.node[a])
    <3>1. at(n) = c /\ b(n) = Better(u, e, a, nb)
      <4>1. walk[n - 1].at # Null
        BY <2>2
      <4>2. walk[n] = [at |-> LeftmostChild(u.node[walk[n - 1].at]),
                       best |-> Better(u, walk[n - 1].best, walk[n - 1].at, nb)]
        BY <1>1, <4>1, Zenon
      <4>3. walk[n].at = LeftmostChild(u.node[walk[n - 1].at])
        BY <4>2
      <4>4. walk[n].best = Better(u, walk[n - 1].best, walk[n - 1].at, nb)
        BY <4>2
      <4> QED  BY <4>3, <4>4
    <3>2. /\ a \in S /\ e \in S \cup {Null} /\ e \in B \cup {best}
          /\ (e # Null => nb <= size(e))
          /\ (best # Null => e # Null /\ size(e) <= size(best))
          /\ a \in B /\ n - 1 <= D[a]
          /\ \A y \in B : \/ e # Null /\ size(e) <= size(y)
                          \/ \E z \in Below(u, D, S, a) : size(z) <= size(y)
      BY <1>8, <2>2
    <3>3. nb <= size(a) /\ size(a) \in Nat /\ size(a) \in Sizes
      BY <1>3, <1>d, <3>2 DEF size
    <3>4. b(n) = IF nb <= size(a) /\ (e = Null \/ size(a) < size(e)) THEN a ELSE e
      <4>1. u.node[a].size \in Sizes /\ (e # Null => u.node[e].size \in Sizes /\ nb <= u.node[e].size)
        BY <1>3, <3>2 DEF size
      <4> HIDE DEF a, e
      <4>2. Better(u, e, a, nb) =
              IF nb <= u.node[a].size /\ (e = Null \/ u.node[a].size < u.node[e].size) THEN a ELSE e
        BY <4>1, BetterIs
      <4> QED  BY <3>1, <4>2 DEF size
    <3>5. b(n) = IF e = Null \/ size(a) < size(e) THEN a ELSE e
      BY <3>3, <3>4
    <3>6. /\ c # Null => c \in S /\ c \in Below(u, D, S, a) /\ D[c] = D[a] + 1
          /\ c = Null => Below(u, D, S, a) = {a}
          /\ \A y \in Below(u, D, S, a) : y # a =>
               \E z \in Below(u, D, S, c) : u.node[z].size <= u.node[y].size
      BY <3>2, LeftmostIs
    <3> HIDE DEF c, a, e
    <3>p. \A y \in Below(u, D, S, a) : y # a => c # Null /\ \E z \in Below(u, D, S, c) : size(z) <= size(y)
      BY <3>6 DEF size
    <3>7. at(n) # Null => at(n) \in B /\ n <= D[at(n)]
      <4>1. ASSUME c # Null PROVE c \in B /\ n <= D[c]
        <5>1. x # Null /\ x \in S /\ B = Below(u, D, S, x)
          BY <1>b, <1>c, <3>2
        <5>2. c \in B
          BY <3>2, <3>6, <4>1, <5>1, BelowBelow
        <5>3. D[c] = D[a] + 1 /\ D[a] \in Nat
          BY <1>3, <3>2, <3>6, <4>1
        <5> QED  BY <1>2, <3>2, <5>2, <5>3
      <4> QED  BY <3>1, <4>1
    <3>8. b(n) # Null /\ b(n) \in S /\ b(n) \in B \cup {best} /\ nb <= size(b(n))
      BY <1>3, <3>2, <3>3, <3>5
    <3>9. size(b(n)) <= size(a) /\ (e # Null => size(b(n)) <= size(e))
      BY <1>3, <3>2, <3>5
    <3>10. best # Null => size(b(n)) <= size(best)
      BY <1>3, <3>2, <3>8, <3>9
    <3>11. ASSUME NEW y \in B
           PROVE  \/ b(n) # Null /\ size(b(n)) <= size(y)
                  \/ at(n) # Null /\ \E z \in Below(u, D, S, at(n)) : size(z) <= size(y)
      <4>0. size(y) \in Nat
        BY <1>3, <1>5
      <4>1. CASE e # Null /\ size(e) <= size(y)
        BY <1>3, <3>2, <3>8, <3>9, <4>0, <4>1
      <4>2. CASE \E z \in Below(u, D, S, a) : size(z) <= size(y)
        <5>1. PICK z \in Below(u, D, S, a) : size(z) <= size(y)
          BY <4>2
        <5>2. CASE z = a
          BY <1>3, <3>2, <3>8, <3>9, <4>0, <5>1, <5>2
        <5>3. CASE z # a
          <6>1. PICK v \in Below(u, D, S, c) : size(v) <= size(z)
            BY <3>p, <5>3
          <6>2. c # Null /\ size(v) \in Nat /\ size(z) \in Nat
            BY <1>3, <3>p, <5>3 DEF Below
          <6>3. size(v) <= size(y)
            BY <4>0, <5>1, <6>1, <6>2
          <6> QED  BY <3>1, <6>1, <6>2, <6>3
        <5> QED  BY <5>2, <5>3
      <4> QED  BY <3>2, <4>1, <4>2
    <3>12. at(n) \in S \cup {Null}
      BY <3>1, <3>6
    <3> HIDE DEF at, b
    <3> QED  BY <3>7, <3>8, <3>10, <3>11, <3>12
  <2> QED  BY <2>1, <2>2
<1> HIDE DEF Good
<1>9. T = {}
  <2> SUFFICES ASSUME T # {} PROVE FALSE
    OBVIOUS
  <2>1. T \in SUBSET Nat
    BY <1>2
  <2> DEFINE k == Min(T)
  <2>2. k \in T /\ \A j \in T : k <= j
    BY <2>1, LeastNat
  <2> HIDE DEF k
  <2>3. k \in 0 .. m /\ ~ Good(k)
    BY <2>2
  <2>4. k # 0 /\ k \in 1 .. m /\ k - 1 \in 0 .. m /\ ~ (k <= k - 1)
    BY <1>2, <1>7, <2>3
  <2>5. Good(k - 1)
    BY <2>2, <2>4
  <2> QED  BY <1>8, <2>3, <2>4, <2>5
<1>10. Good(m)
  BY <1>2, <1>9
<1>11. at(m) = Null
  <2>1. at(m) # Null => at(m) \in B /\ m <= D[at(m)]
    BY <1>10 DEF Good
  <2>2. \A y \in S : D[y] < m
    BY FewLevels DEF m
  <2> HIDE DEF at
  <2> QED  BY <1>2, <1>3, <1>5, <2>1, <2>2
<1>12. BestBelow(u, x, best, nb) = b(m)
  BY <1>1
<1>13. BestOf(u, S, B, best, b(m))
  BY <1>10, <1>11 DEF Good, size, BestOf
<1> QED  BY <1>12, <1>13 DEF B

(* The walk along the bits of the request.                                 *)
SizeWalk(u, nb) ==
  CHOOSE walk : walk = [d \in 0 .. WordBits + 1 |->
    IF d = 0 THEN [at |-> u.root[TreeIndex(nb)], best |-> Null, right |-> Null, found |-> FALSE]
    ELSE LET w == walk[d - 1] IN
         IF w.at = Null \/ w.found THEN w
         ELSE LET n == u.node[w.at]
                  c == n.child[Branch(nb, TreeIndex(nb), d - 1)]
                  best == Better(u, w.best, w.at, nb)
              IN  [at    |-> c,
                   best  |-> best,
                   right |-> IF n.child[1] \notin {Null, c} THEN n.child[1] ELSE w.right,
                   found |-> n.size = nb]]

NextOnPath(u, nb, w, d) ==
  [at    |-> u.node[w.at].child[Branch(nb, TreeIndex(nb), d - 1)],
   best  |-> Better(u, w.best, w.at, nb),
   right |-> IF u.node[w.at].child[1] \notin {Null, u.node[w.at].child[Branch(nb, TreeIndex(nb), d - 1)]}
             THEN u.node[w.at].child[1] ELSE w.right,
   found |-> u.node[w.at].size = nb]

LEMMA SizeWalkIs ==
  ASSUME NEW u, NEW D, NEW S, Forest(u, D, S), NEW nb \in Sizes
  PROVE  LET walk == SizeWalk(u, nb)
         IN  /\ walk[0] = [at |-> u.root[TreeIndex(nb)], best |-> Null, right |-> Null, found |-> FALSE]
             /\ \A d \in 1 .. WordBits + 1 :
                  walk[d] = IF walk[d - 1].at = Null \/ walk[d - 1].found THEN walk[d - 1]
                            ELSE NextOnPath(u, nb, walk[d - 1], d)
             /\ WalkForSize(u, nb) = walk[WordBits + 1]
<1> DEFINE m == WordBits + 1
           i == TreeIndex(nb)
           W == [at : S \cup {Null}, best : S \cup {Null}, right : S \cup {Null}, found : BOOLEAN]
           w0 == [at |-> u.root[i], best |-> Null, right |-> Null, found |-> FALSE]
           Step(w, d) == IF w.at = Null \/ w.found THEN w ELSE NextOnPath(u, nb, w, d)
           f == [n \in Nat |-> [w \in W |-> Step(w, n + 1)]]
           walk == SizeWalk(u, nb)
<1>0. i \in TreeIndices
  BY BinOfSize
<1>1. w0 \in W
  <2>1. u.root[i] \in S \cup {Null}
    BY <1>0, RootAtRoot
  <2> QED  BY <2>1
<1> HIDE DEF i
<1>2. \A x \in S, a \in {0, 1} : u.node[x].child[a] \in S \cup {Null}
  BY ForestNode DEF Link
<1>3. \A y, b : Better(u, b, y, nb) \in {y, b}
  BY DEF Better
<1>4. \A w \in W, n \in Nat : Step(w, n + 1) \in W
  <2> SUFFICES ASSUME NEW w \in W, NEW n \in Nat PROVE Step(w, n + 1) \in W
    OBVIOUS
  <2>1. CASE w.at = Null \/ w.found
    BY <2>1
  <2>2. CASE ~ (w.at = Null \/ w.found)
    <3> DEFINE b == Branch(nb, i, (n + 1) - 1)
    <3>0. b \in {0, 1}
      <4>1. (n + 1) - 1 \in Nat
        OBVIOUS
      <4> QED  BY <1>0, <4>1, BranchType
    <3> HIDE DEF b
    <3>1. w.at \in S /\ u.node[w.at].child[b] \in S \cup {Null} /\ u.node[w.at].child[1] \in S \cup {Null}
      BY <1>2, <2>2, <3>0
    <3>2. Better(u, w.best, w.at, nb) \in S \cup {Null}
      BY <1>3, <3>1
    <3>3. NextOnPath(u, nb, w, n + 1) \in W
      BY <3>1, <3>2 DEF NextOnPath, b, i
    <3> QED  BY <2>2, <3>3
  <2> QED  BY <2>1, <2>2
<1> HIDE DEF Step, W
<1>5. f \in [Nat -> [W -> W]]
  BY <1>4
<1>6. m \in Nat
  BY ConstantTypes
<1> HIDE DEF f, w0, m
<1>i. PICK g : IsLoop(g, W, w0, f, m)
  BY <1>1, <1>5, <1>6, LoopExists
<1>7. g \in [0 .. m -> W] /\ g[0] = w0 /\ \A n \in 1 .. m : g[n] = f[n - 1][g[n - 1]]
  BY <1>i DEF IsLoop
<1>8. \A n \in 1 .. m : g[n] = Step(g[n - 1], n)
  <2> SUFFICES ASSUME NEW n \in 1 .. m PROVE g[n] = Step(g[n - 1], n)
    OBVIOUS
  <2>1. n - 1 \in Nat /\ n - 1 \in 0 .. m /\ (n - 1) + 1 = n
    BY <1>6
  <2>2. g[n - 1] \in W
    BY <1>7, <2>1
  <2>3. f[n - 1][g[n - 1]] = Step(g[n - 1], (n - 1) + 1)
    BY <2>1, <2>2 DEF f
  <2> QED  BY <1>7, <2>1, <2>3
<1>9. g = [n \in 0 .. m |-> IF n = 0 THEN w0 ELSE Step(g[n - 1], n)]
  <2>1. \A n \in 0 .. m : n = 0 \/ n \in 1 .. m
    BY <1>6
  <2>2. \A n \in 0 .. m : g[n] = IF n = 0 THEN w0 ELSE Step(g[n - 1], n)
    BY <1>7, <1>8, <2>1
  <2> QED  BY <1>7, <2>2
<1>10. \E y : y = [n \in 0 .. m |-> IF n = 0 THEN w0 ELSE Step(y[n - 1], n)]
  BY <1>9
<1>11. walk = [n \in 0 .. m |-> IF n = 0 THEN w0 ELSE Step(walk[n - 1], n)]
  BY <1>10, Zenon DEF SizeWalk, Step, NextOnPath, w0, m, i
<1> HIDE DEF walk
<1>12. walk[0] = w0 /\ \A n \in 1 .. m : walk[n] = Step(walk[n - 1], n)
  BY <1>6, <1>11
<1>13. WalkForSize(u, nb) = walk[m]
  BY Zenon DEF WalkForSize, SizeWalk, walk, m
<1> QED  BY <1>12, <1>13 DEF walk, w0, Step, m, i

(* A chunk that the bits of nb lead to.                                    *)
OnWay(u, D, S, nb, a) ==
  /\ a \in S /\ u.node[a].index = TreeIndex(nb)
  /\ Prefix(u.node[a].size, TreeIndex(nb), D[a]) = Prefix(nb, TreeIndex(nb), D[a])

(* Below a chunk of another size, the bit of nb tells on which side its    *)
(* best fit is.                                                            *)
LEMMA TwoWays ==
  ASSUME NEW u, NEW D, NEW S, Forest(u, D, S), NEW nb \in Sizes, NEW a, OnWay(u, D, S, nb, a),
         u.node[a].size # nb,
         NEW b, b = Branch(nb, TreeIndex(nb), D[a])
  PROVE  /\ b \in {0, 1}
         /\ u.node[a].child[b] # Null =>
              OnWay(u, D, S, nb, u.node[a].child[b]) /\ D[u.node[a].child[b]] = D[a] + 1
         /\ u.node[a].child[1] \notin {Null, u.node[a].child[b]} <=> b = 0 /\ u.node[a].child[1] # Null
         /\ b = 0 /\ u.node[a].child[1] # Null =>
              \A y \in Below(u, D, S, u.node[a].child[1]) :
                /\ nb <= u.node[y].size
                /\ u.node[a].child[0] # Null =>
                     \A z \in Below(u, D, S, u.node[a].child[0]) : u.node[z].size < u.node[y].size
         /\ b = 1 /\ u.node[a].child[0] # Null =>
              \A y \in Below(u, D, S, u.node[a].child[0]) : u.node[y].size < nb
<1> DEFINE i == TreeIndex(nb)
           e == D[a]
           n == u.node[a].child
           size(y) == u.node[y].size
<1>1. /\ a \in S /\ u.node[a].index = i /\ i \in TreeIndices /\ e \in 0 .. Bits(i) /\ Bits(i) \in Nat
      /\ size(a) \in Sizes /\ Prefix(size(a), i, e) = Prefix(nb, i, e)
  <2>1. a \in S /\ u.node[a].index = i /\ Prefix(size(a), i, e) = Prefix(nb, i, e)
    BY DEF OnWay
  <2>2. size(a) \in Sizes /\ u.node[a].index \in TreeIndices
    BY <2>1, ForestNode
  <2>3. D[a] \in 0 .. Bits(u.node[a].index) /\ Bits(u.node[a].index) \in Nat
    BY <2>1, DepthBound
  <2> QED  BY <2>1, <2>2, <2>3
<1>2. size(a) # nb
  OBVIOUS
<1>3. e \in Nat /\ e < Bits(i)
  <2>1. e # Bits(i)
    <3> SUFFICES ASSUME e = Bits(i) PROVE FALSE
      OBVIOUS
    <3>1. Prefix(size(a), i, Bits(i)) = size(a)
      BY <1>1, PrefixAll
    <3>2. Prefix(nb, i, Bits(i)) = nb
      BY <1>1, PrefixAll
    <3> HIDE DEF e, size, i
    <3> QED  BY <1>1, <1>2, <3>1, <3>2
  <2> HIDE DEF e, i
  <2> QED  BY <1>1, <2>1
<1>4. b = Branch(nb, i, e)
  OBVIOUS
<1>5. b \in {0, 1} /\ Prefix(nb, i, e + 1) = 2 * Prefix(nb, i, e) + b
  BY <1>1, <1>3, <1>4, PrefixNext
<1>6. ASSUME NEW g \in {0, 1}, n[g] # Null
      PROVE  /\ n[g] \in S /\ u.node[n[g]].index = i /\ D[n[g]] = e + 1 /\ Branch(size(n[g]), i, e) = g
             /\ Prefix(size(n[g]), i, e) = Prefix(nb, i, e) /\ size(n[g]) \in Sizes
             /\ \A y \in Below(u, D, S, n[g]) :
                  /\ Branch(size(y), i, e) = g /\ Prefix(size(y), i, e) = Prefix(nb, i, e)
                  /\ size(y) \in Sizes
  <2>1. Link(u, D, S, a, g)
    BY <1>1, <1>6, ForestNode
  <2>2. n[g] \in S /\ u.node[n[g]].index = i /\ D[n[g]] = e + 1 /\ Branch(size(n[g]), i, e) = g
        /\ Prefix(size(n[g]), i, e) = Prefix(size(a), i, e)
    BY <1>1, <2>1 DEF Link
  <2>3. size(n[g]) \in Sizes
    BY <2>2, ForestNode
  <2>4. ASSUME NEW y \in Below(u, D, S, n[g])
        PROVE  /\ Branch(size(y), i, e) = g /\ Prefix(size(y), i, e) = Prefix(nb, i, e)
               /\ size(y) \in Sizes
    <3>1. Branch(u.node[y].size, u.node[a].index, D[a]) = g
      BY <1>1, <1>6, BelowChild
    <3>2. y \in Below(u, D, S, a)
      BY <1>1, <1>6, BelowChild
    <3>3. y \in S /\ Prefix(u.node[y].size, u.node[a].index, D[a]) = Prefix(u.node[a].size, u.node[a].index, D[a])
      BY <3>2 DEF Below
    <3>4. size(y) \in Sizes
      BY <3>3, ForestNode
    <3> QED  BY <1>1, <3>1, <3>3, <3>4
  <2> QED  BY <1>1, <2>2, <2>3, <2>4
<1>7. u.node[a].child[b] # Null =>
        OnWay(u, D, S, nb, u.node[a].child[b]) /\ D[u.node[a].child[b]] = D[a] + 1
  <2> SUFFICES ASSUME n[b] # Null
               PROVE  OnWay(u, D, S, nb, n[b]) /\ D[n[b]] = e + 1
    OBVIOUS
  <2>1. /\ n[b] \in S /\ u.node[n[b]].index = i /\ D[n[b]] = e + 1 /\ Branch(size(n[b]), i, e) = b
        /\ Prefix(size(n[b]), i, e) = Prefix(nb, i, e) /\ size(n[b]) \in Sizes
    BY <1>5, <1>6
  <2>2. Prefix(size(n[b]), i, e + 1) = 2 * Prefix(size(n[b]), i, e) + Branch(size(n[b]), i, e)
    BY <1>1, <1>3, <2>1, PrefixNext
  <2>3. Prefix(size(n[b]), i, D[n[b]]) = Prefix(nb, i, D[n[b]])
    BY <1>5, <2>1, <2>2
  <2> QED  BY <2>1, <2>3 DEF OnWay
<1>8. n[1] \notin {Null, n[b]} <=> b = 0 /\ n[1] # Null
  <2>1. n[0] # Null /\ n[1] # Null => n[0] # n[1]
    <3> SUFFICES ASSUME n[0] # Null, n[1] # Null PROVE n[0] # n[1]
      OBVIOUS
    <3>1. Branch(size(n[0]), i, e) = 0
      BY <1>6
    <3>2. Branch(size(n[1]), i, e) = 1
      BY <1>6
    <3> HIDE DEF n, size, e, i
    <3> QED  BY <3>1, <3>2
  <2> HIDE DEF n
  <2> QED  BY <1>5, <2>1
<1>9. ASSUME b = 0, n[1] # Null, NEW y \in Below(u, D, S, n[1])
      PROVE  nb <= size(y) /\ (n[0] # Null => \A z \in Below(u, D, S, n[0]) : size(z) < size(y))
  <2>1. Branch(size(y), i, e) = 1 /\ Prefix(size(y), i, e) = Prefix(nb, i, e) /\ size(y) \in Sizes
    BY <1>6, <1>9
  <2>2. Branch(nb, i, e) = 0
    BY <1>4, <1>9
  <2> HIDE DEF size, e, i
  <2>3. nb < size(y)
    BY <1>1, <1>3, <2>1, <2>2, LeftIsSmaller
  <2>4. ASSUME n[0] # Null, NEW z \in Below(u, D, S, n[0]) PROVE size(z) < size(y)
    <3>1. Branch(size(z), i, e) = 0 /\ Prefix(size(z), i, e) = Prefix(nb, i, e) /\ size(z) \in Sizes
      BY <1>6, <2>4
    <3>2. Prefix(size(z), i, e) = Prefix(size(y), i, e)
      BY <2>1, <3>1
    <3> QED  BY <1>1, <1>3, <2>1, <3>1, <3>2, LeftIsSmaller
  <2>5. nb \in Nat /\ size(y) \in Nat
    BY <2>1, ConstantTypes
  <2> QED  BY <2>3, <2>4, <2>5
<1>10. ASSUME b = 1, n[0] # Null, NEW y \in Below(u, D, S, n[0])
       PROVE  size(y) < nb
  <2>1. Branch(size(y), i, e) = 0 /\ Prefix(size(y), i, e) = Prefix(nb, i, e) /\ size(y) \in Sizes
    BY <1>6, <1>10
  <2>2. Branch(nb, i, e) = 1
    BY <1>4, <1>10
  <2> HIDE DEF size, e, i
  <2> QED  BY <1>1, <1>3, <2>1, <2>2, LeftIsSmaller
<1> QED  BY <1>5, <1>7, <1>8, <1>9, <1>10

(* What the walk for nb knows at depth d: where it is, that what it leaves *)
(* to the right fits and is larger than what it goes on to, and that one   *)
(* of the three places it knows has a best fit.                            *)
Covered(u, D, S, nb, w, y) ==
  \/ w.best # Null /\ u.node[w.best].size <= u.node[y].size
  \/ w.at # Null /\ y \in Below(u, D, S, w.at)
  \/ w.right # Null /\ \E z \in Below(u, D, S, w.right) : u.node[z].size <= u.node[y].size

RightFits(u, D, S, nb, w) ==
  w.right # Null =>
    /\ u.node[w.right].index = TreeIndex(nb)
    /\ \A y \in Below(u, D, S, w.right) :
         /\ nb <= u.node[y].size
         /\ w.at # Null => \A z \in Below(u, D, S, w.at) : u.node[z].size < u.node[y].size

OnPath(u, D, S, nb, w, d) ==
  /\ w.at \in S \cup {Null} /\ w.best \in S \cup {Null} /\ w.right \in S \cup {Null}
  /\ w.best # Null => nb <= u.node[w.best].size /\ u.node[w.best].index = TreeIndex(nb)
  /\ w.found => w.best # Null /\ u.node[w.best].size = nb
  /\ ~ w.found =>
       /\ w.at # Null => OnWay(u, D, S, nb, w.at) /\ D[w.at] = d
       /\ RightFits(u, D, S, nb, w)
       /\ \A y \in S : u.node[y].index = TreeIndex(nb) /\ nb <= u.node[y].size =>
            Covered(u, D, S, nb, w, y)

LEMMA SizesAreRequests == Sizes \subseteq Requests
<1>1. Pow2(TreeShift) \in Nat \ {0} /\ Pow2(WordBits) \in Nat
  BY ConstantTypes
<1> QED  BY <1>1 DEF Sizes, Requests

LEMMA OnPathStart ==
  ASSUME NEW u, NEW D, NEW S, Forest(u, D, S), NEW nb \in Sizes, NEW w,
         w.at = u.root[TreeIndex(nb)], w.best = Null, w.right = Null, w.found = FALSE
  PROVE  OnPath(u, D, S, nb, w, 0)
<1> DEFINE i == TreeIndex(nb)
<1>0. i \in TreeIndices
  BY BinOfSize
<1>1. ASSUME u.root[i] # Null
      PROVE  u.root[i] \in S /\ OnWay(u, D, S, nb, u.root[i]) /\ D[u.root[i]] = 0
  <2> DEFINE r == u.root[i]
  <2>1. r \in S /\ u.node[r].index = i /\ D[r] = 0
    BY <1>0, <1>1, RootAtRoot
  <2>2. u.node[r].size \in Sizes /\ u.node[r].index = TreeIndex(u.node[r].size)
    BY <2>1, ForestNode
  <2>3. Prefix(u.node[r].size, i, 0) = Prefix(nb, i, 0)
    <3>1. TreeIndex(u.node[r].size) = TreeIndex(nb)
      BY <2>1, <2>2
    <3> HIDE DEF r
    <3> QED  BY <2>2, <3>1, PrefixAtRoot
  <2> QED  BY <2>1, <2>3 DEF OnWay
<1>2. ASSUME NEW y \in S, u.node[y].index = i
      PROVE  u.root[i] # Null /\ y \in Below(u, D, S, u.root[i])
  BY <1>2, BelowRoot
<1>3. w.at \in S \cup {Null}
  BY <1>1
<1>4. RightFits(u, D, S, nb, w)
  BY DEF RightFits
<1>5. \A y \in S : u.node[y].index = TreeIndex(nb) => Covered(u, D, S, nb, w, y)
  BY <1>2 DEF Covered
<1> QED  BY <1>1, <1>3, <1>4, <1>5 DEF OnPath

LEMMA OnPathNext ==
  ASSUME NEW u, NEW D, NEW S, Forest(u, D, S), NEW nb \in Sizes, NEW d \in Nat,
         NEW w, OnPath(u, D, S, nb, w, d), w.at # Null, ~ w.found
  PROVE  OnPath(u, D, S, nb, NextOnPath(u, nb, w, d + 1), d + 1)
<1> DEFINE i == TreeIndex(nb)
           a == w.at
           b == Branch(nb, i, d)
           n == u.node[a].child
           c == n[b]
           size(y) == u.node[y].size
           v == NextOnPath(u, nb, w, d + 1)
<1>1. /\ a \in S /\ OnWay(u, D, S, nb, a) /\ D[a] = d
      /\ w.best \in S \cup {Null} /\ w.right \in S \cup {Null}
      /\ (w.best # Null => nb <= size(w.best) /\ u.node[w.best].index = i)
      /\ RightFits(u, D, S, nb, w)
      /\ \A y \in S : u.node[y].index = i /\ nb <= size(y) => Covered(u, D, S, nb, w, y)
  BY DEF OnPath
<1>2. \A y \in S : size(y) \in Nat /\ size(y) \in Sizes /\ y # Null
  BY ForestNode, ConstantTypes
<1>3. nb \in Nat
  BY ConstantTypes
<1>4. /\ v.at = c /\ v.best = Better(u, w.best, a, nb)
      /\ v.right = (IF n[1] \notin {Null, c} THEN n[1] ELSE w.right)
      /\ v.found = (size(a) = nb)
  <2>1. (d + 1) - 1 = d
    OBVIOUS
  <2> QED  BY <2>1 DEF NextOnPath
<1>5. v.best = IF nb <= size(a) /\ (w.best = Null \/ size(a) < size(w.best)) THEN a ELSE w.best
  <2>1. u.node[a].size \in Sizes /\ (w.best # Null => u.node[w.best].size \in Sizes /\ nb <= u.node[w.best].size)
    BY <1>1, <1>2
  <2>2. nb \in Requests
    BY SizesAreRequests
  <2> HIDE DEF a
  <2>3. Better(u, w.best, a, nb) =
          IF nb <= u.node[a].size /\ (w.best = Null \/ u.node[a].size < u.node[w.best].size) THEN a ELSE w.best
    BY <2>1, <2>2, BetterIs
  <2> QED  BY <1>4, <2>3
<1>6. /\ v.best \in S \cup {Null} /\ (v.best # Null => nb <= size(v.best) /\ u.node[v.best].index = i)
      /\ (nb <= size(a) => v.best # Null /\ size(v.best) <= size(a))
      /\ (w.best # Null => v.best # Null /\ size(v.best) <= size(w.best))
  <2>1. u.node[a].index = i
    BY <1>1 DEF OnWay
  <2> HIDE DEF a, size, v, i
  <2> QED  BY <1>1, <1>2, <1>3, <1>5, <2>1
<1>7. v.at \in S \cup {Null} /\ v.right \in S \cup {Null}
  <2>1. b \in {0, 1}
    BY BinOfSize, BranchType
  <2>2. \A g \in {0, 1} : n[g] \in S \cup {Null}
    BY <1>1, ForestNode, SMTT(30) DEF Link
  <2> HIDE DEF n, b, v
  <2> QED  BY <1>1, <1>4, <2>1, <2>2
<1>f. v.found <=> size(a) = nb
  <2> HIDE DEF a, size, v, c, n
  <2>1. v.found = (size(a) = nb)
    BY <1>4
  <2>2. CASE size(a) = nb
    <3>1. (size(a) = nb) = TRUE
      BY <2>2
    <3>2. v.found = TRUE
      BY <2>1, <3>1, Zenon
    <3> QED  BY <2>2, <3>2
  <2>3. CASE size(a) # nb
    <3>1. (size(a) = nb) = FALSE
      BY <2>3
    <3>2. v.found = FALSE
      BY <2>1, <3>1, Zenon
    <3> QED  BY <2>3, <3>2
  <2> QED  BY <2>2, <2>3
<1>8. v.found => v.best # Null /\ size(v.best) = nb
  <2> HIDE DEF a, size, v, c, n
  <2>1. ASSUME size(a) = nb PROVE v.best # Null /\ size(v.best) = nb
    <3>1. a \in S /\ nb <= size(a)
      BY <1>1, <1>3, <2>1
    <3>2. v.best # Null /\ size(v.best) <= nb /\ v.best \in S /\ nb <= size(v.best)
      BY <1>6, <2>1, <3>1
    <3> QED  BY <1>2, <1>3, <3>2
  <2> QED  BY <1>f, <2>1
<1>9. ASSUME size(a) # nb
      PROVE  /\ v.at # Null => OnWay(u, D, S, nb, v.at) /\ D[v.at] = d + 1
             /\ RightFits(u, D, S, nb, v)
             /\ \A y \in S : u.node[y].index = TreeIndex(nb) /\ nb <= u.node[y].size =>
                  Covered(u, D, S, nb, v, y)
  <2>1. /\ b \in {0, 1}
        /\ c # Null => OnWay(u, D, S, nb, c) /\ D[c] = D[a] + 1
        /\ n[1] \notin {Null, c} <=> b = 0 /\ n[1] # Null
        /\ b = 0 /\ n[1] # Null =>
             \A y \in Below(u, D, S, n[1]) :
               /\ nb <= u.node[y].size
               /\ n[0] # Null => \A z \in Below(u, D, S, n[0]) : u.node[z].size < u.node[y].size
        /\ b = 1 /\ n[0] # Null => \A y \in Below(u, D, S, n[0]) : u.node[y].size < nb
    <3>1. OnWay(u, D, S, nb, a) /\ u.node[a].size # nb
      BY <1>1, <1>9
    <3>2. b = Branch(nb, TreeIndex(nb), D[a])
      BY <1>1
    <3> HIDE DEF a, b
    <3> QED  BY <3>1, <3>2, TwoWays
  <2>2. v.right = IF b = 0 /\ n[1] # Null THEN n[1] ELSE w.right
    BY <1>4, <2>1
  <2>3. v.at # Null => OnWay(u, D, S, nb, v.at) /\ D[v.at] = d + 1
    BY <1>1, <1>4, <2>1
  <2>b. \A g \in {0, 1} : n[g] # Null =>
          /\ n[g] \in S /\ n[g] \in Below(u, D, S, n[g]) /\ u.node[n[g]].index = i
          /\ Below(u, D, S, n[g]) \subseteq Below(u, D, S, a) /\ Below(u, D, S, n[g]) \subseteq S
    <3> SUFFICES ASSUME NEW g \in {0, 1}, n[g] # Null
                 PROVE  /\ n[g] \in S /\ n[g] \in Below(u, D, S, n[g]) /\ u.node[n[g]].index = i
                        /\ Below(u, D, S, n[g]) \subseteq Below(u, D, S, a) /\ Below(u, D, S, n[g]) \subseteq S
      OBVIOUS
    <3>0. u.node[n[g]].index = i
      <4>1. Link(u, D, S, a, g) /\ u.node[a].index = i
        BY <1>1, ForestNode DEF OnWay
      <4> QED  BY <4>1 DEF Link
    <3>1. n[g] \in Below(u, D, S, n[g]) /\ Below(u, D, S, n[g]) \subseteq Below(u, D, S, a)
      BY <1>1, BelowChild
    <3>2. Below(u, D, S, n[g]) \subseteq S
      BY DEF Below
    <3> QED  BY <3>0, <3>1, <3>2
  <2>4. RightFits(u, D, S, nb, v)
    <3>1. CASE b = 0 /\ n[1] # Null
      <4>1. v.right = n[1] /\ v.at = n[0]
        BY <1>4, <2>2, <3>1
      <4>2. \A y \in Below(u, D, S, n[1]) :
               /\ nb <= u.node[y].size
               /\ n[0] # Null => \A z \in Below(u, D, S, n[0]) : u.node[z].size < u.node[y].size
        BY <2>1, <3>1
      <4>3. u.node[n[1]].index = i
        BY <2>b, <3>1
      <4> HIDE DEF n, v
      <4> QED  BY <4>1, <4>2, <4>3 DEF RightFits
    <3>2. CASE ~ (b = 0 /\ n[1] # Null)
      <4>1. v.right = w.right /\ v.at = c
        BY <1>4, <2>2, <3>2
      <4>2. w.right # Null =>
               /\ u.node[w.right].index = i
               /\ \A y \in Below(u, D, S, w.right) :
                    nb <= u.node[y].size /\ \A z \in Below(u, D, S, a) : u.node[z].size < u.node[y].size
        BY <1>1 DEF RightFits
      <4>3. c # Null => Below(u, D, S, c) \subseteq Below(u, D, S, a)
        BY <2>1, <2>b
      <4> HIDE DEF c, v, a
      <4> QED  BY <4>1, <4>2, <4>3 DEF RightFits
    <3> QED  BY <3>1, <3>2
  <2>5. ASSUME NEW y \in S, u.node[y].index = i, nb <= size(y)
        PROVE  Covered(u, D, S, nb, v, y)
    <3>0. size(y) \in Nat
      BY <1>2
    <3>c. Covered(u, D, S, nb, w, y)
      BY <1>1, <2>5
    <3>1. CASE w.best # Null /\ size(w.best) <= size(y)
      <4>1. v.best # Null /\ size(v.best) <= size(y)
        <5> HIDE DEF v, size
        <5> QED  BY <1>1, <1>2, <1>6, <3>0, <3>1
      <4> QED  BY <4>1 DEF Covered
    <3>2. CASE y \in Below(u, D, S, a)
      <4>1. CASE y = a
        <5>1. v.best # Null /\ size(v.best) <= size(y)
          BY <1>6, <2>5, <4>1
        <5> QED  BY <5>1 DEF Covered
      <4>2. CASE y # a
        <5> DEFINE g == Branch(size(y), u.node[a].index, D[a])
        <5>1. g \in {0, 1} /\ n[g] # Null /\ y \in Below(u, D, S, n[g])
          BY <1>1, <3>2, <4>2, BelowSplits
        <5> HIDE DEF g
        <5>2. CASE g = b
          <6>1. v.at = n[g]
            BY <1>4, <5>2
          <6> HIDE DEF v, n
          <6> QED  BY <5>1, <6>1 DEF Covered
        <5>3. CASE g # b /\ b = 1
          <6>1. g = 0
            BY <5>1, <5>3
          <6>2. u.node[y].size < nb
            BY <2>1, <5>1, <5>3, <6>1
          <6> QED  BY <1>3, <2>5, <3>0, <6>2
        <5>4. CASE g # b /\ b = 0
          <6>1. g = 1
            BY <5>1, <5>4
          <6>2. v.right = n[1]
            BY <2>2, <5>1, <5>4, <6>1
          <6>3. size(y) <= size(y)
            BY <3>0
          <6> HIDE DEF v, n
          <6> QED  BY <5>1, <6>1, <6>2, <6>3 DEF Covered
        <5> QED  BY <2>1, <5>2, <5>3, <5>4
      <4> QED  BY <4>1, <4>2
    <3>3. CASE w.right # Null /\ \E z \in Below(u, D, S, w.right) : size(z) <= size(y)
      <4>1. PICK z \in Below(u, D, S, w.right) : size(z) <= size(y)
        BY <3>3
      <4>2. CASE b = 0 /\ n[1] # Null
        <5>1. v.right = n[1] /\ n[1] \in Below(u, D, S, a) /\ n[1] \in Below(u, D, S, n[1]) /\ n[1] \in S
          BY <2>2, <2>b, <4>2
        <5>2. size(n[1]) < size(z)
          BY <1>1, <3>3, <5>1 DEF RightFits
        <5>3. size(z) \in Nat
          BY <1>2 DEF Below
        <5>4. size(n[1]) <= size(y)
          BY <1>2, <3>0, <4>1, <5>1, <5>2, <5>3
        <5> HIDE DEF v, n
        <5> QED  BY <4>2, <5>1, <5>4 DEF Covered
      <4>3. CASE ~ (b = 0 /\ n[1] # Null)
        <5>1. v.right = w.right
          BY <2>2, <4>3
        <5> HIDE DEF v
        <5> QED  BY <3>3, <5>1 DEF Covered
      <4> QED  BY <4>2, <4>3
    <3> QED  BY <3>c, <3>1, <3>2, <3>3 DEF Covered
  <2> QED  BY <2>3, <2>4, <2>5
<1>10. ~ v.found => size(a) # nb
  BY <1>f
<1> HIDE DEF v
<1>11. /\ v.at \in S \cup {Null} /\ v.best \in S \cup {Null} /\ v.right \in S \cup {Null}
       /\ v.best # Null => nb <= u.node[v.best].size /\ u.node[v.best].index = i
       /\ v.found => v.best # Null /\ u.node[v.best].size = nb
  BY <1>6, <1>7, <1>8
<1> HIDE DEF a, size
<1>12. OnPath(u, D, S, nb, v, d + 1)
  BY <1>9, <1>10, <1>11 DEF OnPath
<1> QED  BY <1>12 DEF v

(* Where the walk for nb ends.                                             *)
PathEnd(u, D, S, nb, w) ==
  /\ w.best \in S \cup {Null} /\ w.right \in S \cup {Null}
  /\ w.best # Null => nb <= u.node[w.best].size /\ u.node[w.best].index = TreeIndex(nb)
  /\ w.found => w.best # Null /\ u.node[w.best].size = nb
  /\ ~ w.found =>
       /\ w.right # Null => /\ u.node[w.right].index = TreeIndex(nb)
                            /\ \A y \in Below(u, D, S, w.right) : nb <= u.node[y].size
       /\ \A y \in S : u.node[y].index = TreeIndex(nb) /\ nb <= u.node[y].size =>
            \/ w.best # Null /\ u.node[w.best].size <= u.node[y].size
            \/ w.right # Null /\ \E z \in Below(u, D, S, w.right) : u.node[z].size <= u.node[y].size

LEMMA PathIs ==
  ASSUME NEW u, NEW D, NEW S, Forest(u, D, S), NEW nb \in Sizes
  PROVE  PathEnd(u, D, S, nb, WalkForSize(u, nb))
<1> DEFINE m == WordBits + 1
           walk == SizeWalk(u, nb)
           Good(d) == OnPath(u, D, S, nb, walk[d], d)
           T == {d \in 0 .. m : ~ Good(d)}
<1>1. /\ walk[0] = [at |-> u.root[TreeIndex(nb)], best |-> Null, right |-> Null, found |-> FALSE]
      /\ \A d \in 1 .. m :
           walk[d] = IF walk[d - 1].at = Null \/ walk[d - 1].found THEN walk[d - 1]
                     ELSE NextOnPath(u, nb, walk[d - 1], d)
      /\ WalkForSize(u, nb) = walk[m]
  BY SizeWalkIs
<1>2. m \in Nat
  BY ConstantTypes
<1> HIDE DEF walk
<1>3. Good(0)
  <2> DEFINE w == walk[0]
  <2>1. w.at = u.root[TreeIndex(nb)] /\ w.best = Null /\ w.right = Null /\ w.found = FALSE
    BY <1>1
  <2> HIDE DEF w
  <2>2. OnPath(u, D, S, nb, w, 0)
    BY <2>1, OnPathStart
  <2> QED  BY <2>2 DEF w
<1>4. ASSUME NEW d \in 1 .. m, Good(d - 1) PROVE Good(d)
  <2> DEFINE w == walk[d - 1]
  <2>1. CASE w.at = Null \/ w.found
    <3>1. walk[d] = w
      BY <1>1, <2>1
    <3>2. OnPath(u, D, S, nb, w, d - 1)
      BY <1>4
    <3> HIDE DEF w
    <3>3. OnPath(u, D, S, nb, w, d)
      BY <2>1, <3>2 DEF OnPath
    <3> QED  BY <3>1, <3>3
  <2>2. CASE ~ (w.at = Null \/ w.found)
    <3>1. walk[d] = NextOnPath(u, nb, w, d)
      BY <1>1, <2>2, Zenon
    <3>2. OnPath(u, D, S, nb, w, d - 1)
      BY <1>4
    <3>3. d - 1 \in Nat /\ (d - 1) + 1 = d
      OBVIOUS
    <3> HIDE DEF w
    <3>4. OnPath(u, D, S, nb, NextOnPath(u, nb, w, (d - 1) + 1), (d - 1) + 1)
      BY <2>2, <3>2, <3>3, OnPathNext
    <3> QED  BY <3>1, <3>3, <3>4
  <2> QED  BY <2>1, <2>2
<1> HIDE DEF Good
<1>5. T = {}
  <2> SUFFICES ASSUME T # {} PROVE FALSE
    OBVIOUS
  <2>1. T \in SUBSET Nat
    BY <1>2
  <2> DEFINE k == Min(T)
  <2>2. k \in T /\ \A j \in T : k <= j
    BY <2>1, LeastNat
  <2> HIDE DEF k
  <2>3. k \in 0 .. m /\ ~ Good(k)
    BY <2>2
  <2>4. k # 0 /\ k \in 1 .. m /\ k - 1 \in 0 .. m /\ ~ (k <= k - 1)
    BY <1>2, <1>3, <2>3
  <2>5. Good(k - 1)
    BY <2>2, <2>4
  <2> QED  BY <1>4, <2>3, <2>4, <2>5
<1> DEFINE w == WalkForSize(u, nb)
<1>6. OnPath(u, D, S, nb, w, m)
  <2>1. Good(m)
    BY <1>2, <1>5
  <2> QED  BY <1>1, <2>1 DEF Good
<1> HIDE DEF w
<1>7. ~ w.found => w.at = Null
  <2> SUFFICES ASSUME ~ w.found, w.at # Null PROVE FALSE
    OBVIOUS
  <2>1. OnWay(u, D, S, nb, w.at) /\ D[w.at] = m
    BY <1>6 DEF OnPath
  <2>2. w.at \in S
    BY <2>1 DEF OnWay
  <2>3. D[w.at] \in 0 .. Bits(u.node[w.at].index) /\ Bits(u.node[w.at].index) \in Nat
        /\ Bits(u.node[w.at].index) <= WordBits
    BY <2>2, DepthBound
  <2>4. WordBits \in Nat
    BY ConstantTypes
  <2> QED  BY <2>1, <2>3, <2>4
<1>8. PathEnd(u, D, S, nb, w)
  <2>1. /\ w.best \in S \cup {Null} /\ w.right \in S \cup {Null}
        /\ w.best # Null => nb <= u.node[w.best].size /\ u.node[w.best].index = TreeIndex(nb)
        /\ w.found => w.best # Null /\ u.node[w.best].size = nb
    BY <1>6 DEF OnPath
  <2>2. ASSUME ~ w.found
        PROVE  /\ w.right # Null => /\ u.node[w.right].index = TreeIndex(nb)
                                    /\ \A y \in Below(u, D, S, w.right) : nb <= u.node[y].size
               /\ \A y \in S : u.node[y].index = TreeIndex(nb) /\ nb <= u.node[y].size =>
                    \/ w.best # Null /\ u.node[w.best].size <= u.node[y].size
                    \/ w.right # Null /\ \E z \in Below(u, D, S, w.right) : u.node[z].size <= u.node[y].size
    BY <1>6, <1>7, <2>2 DEF OnPath, RightFits, Covered
  <2> QED  BY <2>1, <2>2 DEF PathEnd
<1> QED  BY <1>8 DEF w

(* What a search for nb units returns: a smallest chunk of those that are  *)
(* large enough, or none if there is none.                                 *)
BestFitIn(u, S, nb, r) ==
  /\ r \in S \cup {Null}
  /\ r # Null => nb <= u.node[r].size
  /\ \A y \in S : nb <= u.node[y].size => r # Null /\ u.node[r].size <= u.node[y].size

LEMMA FindLargeIs ==
  ASSUME NEW u, NEW D, NEW S, Forest(u, D, S), Marked(u), NEW nb \in Sizes
  PROVE  BestFitIn(u, S, nb, FindLarge(u, nb))
<1> DEFINE w == WalkForSize(u, nb)
           i == TreeIndex(nb)
           later == {j \in u.map : j > i}
           r == FindLarge(u, nb)
           start == IF w.right # Null THEN w.right
                    ELSE IF w.best = Null /\ later # {} THEN u.root[Min(later)]
                    ELSE Null
           B == IF start = Null THEN {} ELSE Below(u, D, S, start)
           size(y) == u.node[y].size
<1>1. r = IF w.found THEN w.best ELSE BestBelow(u, start, w.best, nb)
  BY DEF FindLarge
<1>2. PathEnd(u, D, S, nb, w)
  BY PathIs
<1> HIDE DEF w, r
<1>3. \A y \in S : /\ size(y) \in Nat /\ size(y) \in Sizes /\ y # Null
                   /\ u.node[y].index = TreeIndex(size(y)) /\ u.node[y].index \in TreeIndices
  BY ForestNode, ConstantTypes
<1>4. nb \in Nat /\ nb \in Requests /\ i \in TreeIndices
  BY ConstantTypes, SizesAreRequests, BinOfSize
<1>5. u.map \subseteq TreeIndices /\ TreeIndices \subseteq Nat
  <2>1. BinsType(u)
    BY DEF Forest
  <2> QED  BY <2>1, NodeTypes, ConstantTypes DEF TreeIndices
<1>s. /\ w.best \in S \cup {Null} /\ w.right \in S \cup {Null}
      /\ w.best # Null => nb <= size(w.best) /\ u.node[w.best].index = i
      /\ w.found => w.best # Null /\ size(w.best) = nb
      /\ ~ w.found =>
           /\ w.right # Null => /\ u.node[w.right].index = i
                                /\ \A y \in Below(u, D, S, w.right) : nb <= size(y)
           /\ \A y \in S : u.node[y].index = i /\ nb <= size(y) =>
                \/ w.best # Null /\ size(w.best) <= size(y)
                \/ w.right # Null /\ \E z \in Below(u, D, S, w.right) : size(z) <= size(y)
  BY <1>2 DEF PathEnd
<1>6. CASE w.found
  <2>1. r = w.best /\ r # Null /\ r \in S /\ size(r) = nb
    BY <1>1, <1>6, <1>s
  <2>2. \A y \in S : nb <= size(y) => size(r) <= size(y)
    BY <2>1
  <2>3. BestFitIn(u, S, nb, r)
    BY <1>4, <2>1, <2>2 DEF BestFitIn
  <2> QED  BY <2>3 DEF r
<1>7. CASE ~ w.found
  <2> DEFINE k == Min(later)
  <2>1. later # {} => k \in later /\ \A j \in later : k <= j
    <3>1. later \in SUBSET Nat
      BY <1>5
    <3> HIDE DEF later
    <3> QED  BY <3>1, LeastNat
  <2> HIDE DEF k
  <2>2. later # {} => /\ k \in TreeIndices /\ k > i /\ u.root[k] # Null /\ u.root[k] \in S
                      /\ u.node[u.root[k]].index = k
    <3> SUFFICES ASSUME later # {}
                 PROVE  /\ k \in TreeIndices /\ k > i /\ u.root[k] # Null /\ u.root[k] \in S
                        /\ u.node[u.root[k]].index = k
      OBVIOUS
    <3>1. k \in u.map /\ k > i /\ k \in TreeIndices
      BY <1>5, <2>1
    <3>2. u.root[k] # Null
      BY <3>1 DEF Marked
    <3> QED  BY <3>1, <3>2, RootAtRoot
  <2>3. start \in S \cup {Null}
    BY <1>s, <2>2 DEF k
  <2>4. ASSUME NEW y \in B PROVE nb <= size(y)
    <3>1. CASE w.right # Null
      BY <1>7, <1>s, <2>4, <3>1
    <3>2. CASE w.right = Null
      <4>1. w.best = Null /\ later # {} /\ start = u.root[k]
        BY <2>4, <3>2 DEF k
      <4>2. y \in S /\ u.node[y].index = k
        BY <2>2, <2>4, <4>1 DEF Below
      <4>3. i < TreeIndex(size(y)) /\ size(y) \in Sizes
        BY <1>3, <2>2, <4>1, <4>2
      <4> HIDE DEF size
      <4>4. nb < size(y)
        BY <4>3, BinsOrdered
      <4> QED  BY <1>3, <1>4, <4>2, <4>4
    <3> QED  BY <3>1, <3>2
  <2> DEFINE g == BestBelow(u, start, w.best, nb)
  <2>5. /\ g \in S \cup {Null} /\ g \in B \cup {w.best}
        /\ w.best # Null => g # Null /\ u.node[g].size <= u.node[w.best].size
        /\ \A y \in B : g # Null /\ u.node[g].size <= u.node[y].size
    <3>1. w.best # Null => nb <= u.node[w.best].size
      BY <1>s
    <3>2. B = Under(u, D, S, start)
      BY DEF Under
    <3>3. AllFit(u, B, nb)
      BY <2>4 DEF AllFit
    <3> DEFINE e == w.best
    <3>4. e \in S \cup {Null} /\ (e # Null => nb <= u.node[e].size)
      BY <1>s, <3>1
    <3> HIDE DEF start, B, e
    <3>5. BestOf(u, S, B, e, BestBelow(u, start, e, nb))
      BY <1>4, <2>3, <3>2, <3>3, <3>4, BestBelowIs
    <3> QED  BY <3>5 DEF e, BestOf
  <2> HIDE DEF g
  <2>6. r = g
    BY <1>1, <1>7 DEF g
  <2>7. g # Null => nb <= size(g)
    BY <1>s, <2>4, <2>5
  <2>8. ASSUME NEW y \in S, nb <= size(y) PROVE g # Null /\ size(g) <= size(y)
    <3>0. size(y) \in Nat
      BY <1>3
    <3>1. CASE u.node[y].index = i
      <4>1. CASE w.best # Null /\ size(w.best) <= size(y)
        <5>1. g # Null /\ size(g) <= size(w.best) /\ g \in S /\ w.best \in S
          BY <1>s, <2>5, <4>1
        <5> QED  BY <1>3, <3>0, <4>1, <5>1
      <4>2. CASE w.right # Null /\ \E z \in Below(u, D, S, w.right) : size(z) <= size(y)
        <5>1. PICK z \in Below(u, D, S, w.right) : size(z) <= size(y)
          BY <4>2
        <5>2. z \in B
          BY <4>2
        <5>3. g # Null /\ size(g) <= size(z) /\ g \in S /\ z \in S
          BY <2>5, <5>2 DEF Below
        <5> QED  BY <1>3, <3>0, <5>1, <5>3
      <4> QED  BY <1>7, <1>s, <2>8, <3>1, <4>1, <4>2
    <3>2. CASE u.node[y].index # i
      <4> DEFINE j == u.node[y].index
      <4>1. j \in TreeIndices /\ j = TreeIndex(size(y)) /\ size(y) \in Sizes
        BY <1>3
      <4>2. j > i
        <5>1. ~ (TreeIndex(size(y)) < TreeIndex(nb))
          <6> SUFFICES ASSUME TreeIndex(size(y)) < TreeIndex(nb) PROVE FALSE
            OBVIOUS
          <6> DEFINE s == size(y)
          <6> HIDE DEF s
          <6>1. s < nb
            BY <4>1, BinsOrdered DEF s
          <6> QED  BY <1>4, <2>8, <3>0, <6>1 DEF s
        <5>2. j \in Nat /\ i \in Nat
          BY <1>4, <1>5, <4>1
        <5> HIDE DEF size
        <5> QED  BY <3>2, <4>1, <5>1, <5>2
      <4>3. u.root[j] # Null /\ y \in Below(u, D, S, u.root[j])
        BY BelowRoot
      <4>4. j \in later
        BY <4>1, <4>2, <4>3 DEF Marked
      <4>5. k <= j /\ later # {}
        BY <2>1, <4>4
      <4>6. ASSUME g \in S, nb <= size(g), u.node[g].index < j PROVE g # Null /\ size(g) <= size(y)
        <5>1. g # Null /\ size(g) \in Sizes /\ size(g) \in Nat /\ u.node[g].index = TreeIndex(size(g))
          BY <1>3, <4>6
        <5>2. TreeIndex(size(g)) < TreeIndex(size(y))
          BY <4>1, <4>6, <5>1
        <5> HIDE DEF size
        <5>3. size(g) < size(y)
          BY <4>1, <5>1, <5>2, BinsOrdered
        <5> QED  BY <3>0, <5>1, <5>3
      <4>7. CASE w.right # Null
        <5>1. w.right \in S /\ start = w.right /\ u.node[w.right].index = i
          BY <1>7, <1>s, <4>7
        <5>2. B = Below(u, D, S, w.right) /\ w.right \in B
          BY <4>7, <5>1, BelowItself
        <5>3. g # Null /\ (g \in B \/ g = w.best)
          BY <2>5, <5>2
        <5>4. g \in S /\ u.node[g].index = i
          BY <1>s, <2>5, <5>1, <5>2, <5>3 DEF Below
        <5> QED  BY <2>7, <4>2, <4>6, <5>3, <5>4
      <4>8. CASE w.right = Null /\ w.best # Null
        <5>1. B = {}
          BY <4>8
        <5>2. g = w.best
          BY <2>5, <5>1
        <5> QED  BY <1>3, <1>s, <2>7, <4>2, <4>6, <4>8, <5>2
      <4>9. CASE w.right = Null /\ w.best = Null
        <5>1. start = u.root[k] /\ u.root[k] # Null /\ u.root[k] \in S /\ u.node[u.root[k]].index = k
              /\ k \in TreeIndices
          BY <2>2, <4>5, <4>9 DEF k
        <5>2. B = Below(u, D, S, u.root[k]) /\ u.root[k] \in B
          BY <5>1, BelowItself
        <5>3. g # Null /\ g \in B
          BY <2>5, <4>9, <5>2
        <5>4. g \in S /\ u.node[g].index = k
          BY <5>1, <5>2, <5>3 DEF Below
        <5>5. CASE k = j
          <6>1. y \in B
            BY <4>3, <5>2, <5>5
          <6> QED  BY <2>5, <6>1
        <5>6. CASE k # j
          <6>1. k < j
            <7>1. k \in Nat /\ j \in Nat /\ k <= j
              BY <1>5, <4>1, <4>5, <5>1
            <7> HIDE DEF j
            <7> QED  BY <5>6, <7>1
          <6> QED  BY <2>7, <4>6, <5>3, <5>4, <6>1
        <5> QED  BY <5>5, <5>6
      <4> QED  BY <4>7, <4>8, <4>9
    <3> QED  BY <3>1, <3>2
  <2>9. BestFitIn(u, S, nb, r)
    BY <2>5, <2>6, <2>7, <2>8 DEF BestFitIn
  <2> QED  BY <2>9 DEF r
<1> QED  BY <1>6, <1>7

LEMMA FindSmallIs ==
  ASSUME NEW u, NEW D, NEW S, Forest(u, D, S), Marked(u), u.map # {},
         NEW nb \in Requests, nb < Pow2(TreeShift)
  PROVE  BestFitIn(u, S, nb, FindSmall(u, nb)) /\ FindSmall(u, nb) \in S
<1> DEFINE k == Min(u.map)
           x == u.root[k]
           c == LeftmostChild(u.node[x])
           B == Under(u, D, S, c)
           r == BestBelow(u, c, x, nb)
           size(y) == u.node[y].size
<1>1. FindSmall(u, nb) = r
  BY DEF FindSmall
<1>2. u.map \subseteq TreeIndices /\ TreeIndices \subseteq Nat
  <2>1. BinsType(u)
    BY DEF Forest
  <2> QED  BY <2>1, NodeTypes, ConstantTypes DEF TreeIndices
<1>3. k \in u.map /\ \A j \in u.map : k <= j
  BY <1>2, LeastNat
<1> HIDE DEF k
<1>4. \A y \in S : /\ size(y) \in Nat /\ size(y) \in Sizes /\ y # Null
                   /\ u.node[y].index = TreeIndex(size(y)) /\ u.node[y].index \in TreeIndices
  BY ForestNode, ConstantTypes
<1>5. \A y \in S : nb <= size(y)
  <2> SUFFICES ASSUME NEW y \in S PROVE nb <= size(y)
    OBVIOUS
  <2>1. size(y) \in Nat /\ size(y) \in Sizes
    BY <1>4
  <2>2. Pow2(TreeShift) \in Nat /\ Pow2(WordBits) \in Nat /\ nb \in Nat
    BY ConstantTypes DEF Requests
  <2> HIDE DEF size
  <2> QED  BY <2>1, <2>2 DEF Sizes
<1>6. x # Null /\ x \in S /\ u.node[x].index = k /\ k \in TreeIndices
  <2>1. x # Null /\ k \in TreeIndices
    BY <1>2, <1>3 DEF Marked
  <2> QED  BY <2>1, RootAtRoot
<1> HIDE DEF x
<1>7. /\ c # Null => c \in S /\ c \in Below(u, D, S, x) /\ D[c] = D[x] + 1
      /\ c = Null => Below(u, D, S, x) = {x}
      /\ \A y \in Below(u, D, S, x) : y # x =>
           \E z \in Below(u, D, S, c) : u.node[z].size <= u.node[y].size
  BY <1>6, LeftmostIs
<1> HIDE DEF c
<1>8. B \subseteq S
  BY DEF Under, Below
<1>9. BestOf(u, S, B, x, r)
  <2>1. AllFit(u, B, nb)
    BY <1>5, <1>8 DEF AllFit
  <2>2. c \in S \cup {Null} /\ x \in S \cup {Null} /\ nb <= u.node[x].size
    BY <1>5, <1>6, <1>7
  <2> QED  BY <2>1, <2>2, BestBelowIs
<1> HIDE DEF r
<1>10. /\ r \in S /\ size(r) <= size(x) /\ \A y \in B : size(r) <= size(y)
  BY <1>6, <1>9 DEF BestOf
<1>11. ASSUME NEW y \in S PROVE size(r) <= size(y)
  <2>1. CASE u.node[y].index = k
    <3>1. y \in Below(u, D, S, x)
      BY <2>1, BelowRoot DEF x
    <3>2. CASE y # x
      <4>1. PICK z \in Below(u, D, S, c) : size(z) <= size(y)
        BY <1>7, <3>1, <3>2
      <4>2. z \in B
        BY <1>7, <3>1, <3>2 DEF Under
      <4>3. size(r) <= size(z) /\ z \in S
        BY <1>8, <1>10, <4>2
      <4> QED  BY <1>4, <1>10, <4>1, <4>3
    <3> QED  BY <1>10, <3>2
  <2>2. CASE u.node[y].index # k
    <3> DEFINE j == u.node[y].index
    <3>1. j \in TreeIndices /\ u.root[j] # Null
      BY <1>4, BelowRoot
    <3>2. j \in u.map
      BY <3>1 DEF Marked
    <3>3. k <= j /\ k \in Nat /\ j \in Nat
      BY <1>2, <1>3, <3>2
    <3>4. k < j
      <4> HIDE DEF j
      <4> QED  BY <2>2, <3>3 DEF j
    <3>5. size(x) \in Sizes /\ size(y) \in Sizes /\ TreeIndex(size(x)) < TreeIndex(size(y))
      BY <1>4, <1>6, <3>4
    <3> HIDE DEF size
    <3>6. size(x) < size(y)
      BY <3>5, BinsOrdered
    <3> QED  BY <1>4, <1>6, <1>10, <3>6
  <2> QED  BY <2>1, <2>2
<1>12. BestFitIn(u, S, nb, r)
  BY <1>4, <1>5, <1>10, <1>11 DEF BestFitIn
<1> QED  BY <1>1, <1>10, <1>12

(***************************************************************************)
(* The invariant: the trees are a forest of the oldest chunks of each      *)
(* size, the lists are queues, and the map marks the bins with a tree.     *)
(***************************************************************************)

BinsInv == \E D, q : Bins(t, D, q)

LEMMA UnlinkAny ==
  ASSUME BinsInv, NEW x \in DOMAIN t.node
  PROVE  \E D, q : Bins(UnlinkLarge(t, x), D, q)
<1>1. PICK D, q : Bins(t, D, q)
  BY DEF BinsInv
<1>2. Lists(t, q) /\ BinsType(t)
  BY <1>1 DEF Bins, Forest
<1> DEFINE s == t.node[x].size
<1>3. s \in LargeSizes
  BY <1>2, NodeTypes
<1>4. PICK k \in 1 .. Len(q[s]) : q[s][k] = x
  BY <1>2 DEF Lists
<1> HIDE DEF s
<1>5. \E E : Bins(UnlinkLarge(t, q[s][k]), E, Less(q, s, k))
  BY <1>1, <1>3, UnlinkKeeps
<1> QED  BY <1>4, <1>5

LEMMA RequestsAre ==
  ASSUME NEW nb \in 2 .. Max(LargeSizes)
  PROVE  nb \in Nat /\ nb \in Requests /\ (nb >= Pow2(TreeShift) => nb \in Sizes)
<1>1. Max(LargeSizes) \in Sizes
  BY MaxSize, ConstantTypes
<1>2. Pow2(TreeShift) \in Nat /\ Pow2(WordBits) \in Nat
  BY ConstantTypes
<1> QED  BY <1>1, <1>2 DEF Sizes, Requests

LEMMA BinsInvNext ==
  BinsInv /\ [Next]_t => BinsInv'
<1> SUFFICES ASSUME BinsInv, [Next]_t PROVE BinsInv'
  OBVIOUS
<1>0. PICK D, q : Bins(t, D, q)
  BY DEF BinsInv
<1> DEFINE S == Heads(t)
<1>1. Forest(t, D, S) /\ Marked(t) /\ S \subseteq DOMAIN t.node /\ Null \notin S
  <2>1. Forest(t, D, S) /\ Marked(t)
    BY <1>0 DEF Bins
  <2>2. BinsType(t)
    BY <2>1 DEF Forest
  <2> QED  BY <2>1, <2>2, NodeTypes, ConstantTypes DEF Heads
<1> HIDE DEF S
<1>2. ASSUME NEW x \in Chunks, NEW s \in LargeSizes, Insert(x, s) PROVE BinsInv'
  <2>1. x \notin DOMAIN t.node /\ t' = InsertLarge(t, x, s)
    BY <1>2 DEF Insert
  <2>2. \E E : Bins(InsertLarge(t, x, s), E, [q EXCEPT ![s] = Append(@, x)])
    BY <1>0, <2>1, InsertKeeps
  <2>3. \E E, p : Bins(t', E, p)
    BY <2>1, <2>2
  <2> QED  BY <2>3 DEF BinsInv
<1>3. ASSUME NEW x \in DOMAIN t.node, t' = UnlinkLarge(t, x) PROVE BinsInv'
  <2>1. \E E, p : Bins(UnlinkLarge(t, x), E, p)
    BY <1>3, UnlinkAny
  <2>2. \E E, p : Bins(t', E, p)
    BY <1>3, <2>1
  <2> QED  BY <2>2 DEF BinsInv
<1>4. ASSUME NEW nb \in 2 .. Max(LargeSizes) PROVE nb \in Requests /\ (nb >= Pow2(TreeShift) => nb \in Sizes)
  BY RequestsAre
<1>5. ASSUME NEW nb \in 2 .. Max(LargeSizes), TakeLarge(nb) PROVE BinsInv'
  <2>1. nb \in Sizes /\ FindLarge(t, nb) # Null /\ t' = UnlinkLarge(t, FindLarge(t, nb))
    BY <1>4, <1>5 DEF TakeLarge
  <2>2. BestFitIn(t, S, nb, FindLarge(t, nb))
    BY <1>1, <2>1, FindLargeIs
  <2>3. FindLarge(t, nb) \in DOMAIN t.node
    BY <1>1, <2>1, <2>2 DEF BestFitIn
  <2> QED  BY <1>3, <2>1, <2>3
<1>6. ASSUME NEW nb \in 2 .. Max(LargeSizes), TakeSmall(nb) PROVE BinsInv'
  <2>1. nb \in Requests /\ nb < Pow2(TreeShift) /\ t.map # {} /\ t' = UnlinkLarge(t, FindSmall(t, nb))
    BY <1>4, <1>6 DEF TakeSmall
  <2>2. FindSmall(t, nb) \in S
    BY <1>1, <2>1, FindSmallIs
  <2> QED  BY <1>1, <1>3, <2>1, <2>2
<1>7. CASE UNCHANGED t
  BY <1>0, <1>7 DEF BinsInv
<1>8. ASSUME NEW x \in Chunks, Unlink(x) PROVE BinsInv'
  BY <1>3, <1>8 DEF Unlink
<1> QED  BY <1>2, <1>5, <1>6, <1>7, <1>8 DEF Next

LEMMA BinsInvHolds == Spec => []BinsInv
<1>1. Init => BinsInv
  BY InitBins DEF BinsInv
<1> QED  BY <1>1, BinsInvNext, PTL DEF Spec

(* The links, roots and map of the trees always pass the checks that       *)
(* do_check_tree and do_check_treebin make of them.                        *)
THEOREM TreesAreChecked == Spec => []TreesChecked
<1>1. BinsInv => TreesChecked
  BY BinsChecked DEF BinsInv
<1> QED  BY <1>1, BinsInvHolds, PTL

-----------------------------------------------------------------------------
(* The lists of the trees are the queues.                                  *)

(* Along bk from x.                                                        *)
ListWalk(x) ==
  CHOOSE at : at = [n \in 0 .. Cardinality(Chunks) |-> IF n = 0 THEN x ELSE t.node[at[n - 1]].bk]

ListLength(at, x) ==
  Min({n \in 1 .. Cardinality(Chunks) : at[n] = x} \cup {Cardinality(Chunks)})

LEMMA ListWalkIs ==
  ASSUME NEW W \in SUBSET Chunks, \A y \in W : t.node[y].bk \in W, NEW x \in W
  PROVE  LET at == ListWalk(x)
         IN  /\ at[0] = x
             /\ \A n \in 1 .. Cardinality(Chunks) : at[n] = t.node[at[n - 1]].bk
             /\ ListFrom(x) = [n \in 1 .. ListLength(at, x) |-> at[n - 1]]
<1> DEFINE N == Cardinality(Chunks)
           Step(w) == t.node[w].bk
           f == [d \in Nat |-> [w \in W |-> Step(w)]]
           at == ListWalk(x)
<1>1. N \in Nat
  BY ConstantTypes, FS_CardinalityType
<1>2. \A w \in W : Step(w) \in W
  OBVIOUS
<1> HIDE DEF Step
<1>5. f \in [Nat -> [W -> W]]
  BY <1>2
<1> HIDE DEF f
<1>i. PICK g : IsLoop(g, W, x, f, N)
  BY <1>1, <1>5, LoopExists
<1> HIDE DEF N
<1>7. g \in [0 .. N -> W] /\ g[0] = x /\ \A n \in 1 .. N : g[n] = f[n - 1][g[n - 1]]
  BY <1>i DEF IsLoop
<1>8. \A n \in 1 .. N : g[n] = Step(g[n - 1])
  <2> SUFFICES ASSUME NEW n \in 1 .. N PROVE g[n] = Step(g[n - 1])
    OBVIOUS
  <2>1. n - 1 \in Nat /\ n - 1 \in 0 .. N
    BY <1>1
  <2>2. g[n - 1] \in W
    BY <1>7, <2>1
  <2>3. f[n - 1][g[n - 1]] = Step(g[n - 1])
    BY <2>1, <2>2 DEF f
  <2> QED  BY <1>7, <2>1, <2>3
<1>9. g = [n \in 0 .. N |-> IF n = 0 THEN x ELSE Step(g[n - 1])]
  <2>1. \A n \in 0 .. N : n = 0 \/ n \in 1 .. N
    BY <1>1
  <2>2. \A n \in 0 .. N : g[n] = IF n = 0 THEN x ELSE Step(g[n - 1])
    BY <1>7, <1>8, <2>1
  <2> QED  BY <1>7, <2>2
<1>10. \E h : h = [n \in 0 .. N |-> IF n = 0 THEN x ELSE Step(h[n - 1])]
  BY <1>9
<1>11. at = [n \in 0 .. N |-> IF n = 0 THEN x ELSE Step(at[n - 1])]
  BY <1>10, Zenon DEF ListWalk, Step, N
<1>13. ListFrom(x) = [n \in 1 .. ListLength(at, x) |-> at[n - 1]]
  BY Zenon DEF ListFrom, ListLength, ListWalk
<1> HIDE DEF at
<1>12. at[0] = x /\ \A n \in 1 .. N : at[n] = Step(at[n - 1])
  BY <1>1, <1>11
<1> QED  BY <1>12, <1>13 DEF at, Step, N

(* A list of distinct chunks is not longer than there are chunks.          *)
LEMMA ListIsShort ==
  ASSUME NEW l \in Seq(Chunks), \A j, k \in 1 .. Len(l) : l[j] = l[k] => j = k
  PROVE  Len(l) \in Nat /\ Cardinality(Chunks) \in Nat /\ Len(l) <= Cardinality(Chunks)
<1>1. Len(l) \in Nat /\ l \in [1 .. Len(l) -> Chunks]
  BY LenProperties
<1>2. l \in Injection(1 .. Len(l), Chunks)
  BY <1>1 DEF Injection, IsInjective
<1>3. Cardinality(1 .. Len(l)) <= Cardinality(Chunks)
  BY <1>2, ConstantTypes, FS_Injection
<1>4. Cardinality(1 .. Len(l)) = Len(l)
  BY <1>1, FS_Interval
<1> QED  BY <1>1, <1>3, <1>4, ConstantTypes, FS_CardinalityType

LEMMA ListFromIs ==
  ASSUME NEW s, NEW l, IsList(t, s, l), l # <<>>
  PROVE  ListFrom(l[1]) = l
<1> DEFINE L == Len(l)
           N == Cardinality(Chunks)
           W == {l[k] : k \in 1 .. L}
           x == l[1]
           at == ListWalk(x)
<1>1. l \in Seq(Chunks) /\ \A j, k \in 1 .. L : l[j] = l[k] => j = k
  BY DEF IsList
<1>2. L \in Nat /\ N \in Nat /\ L <= N
  BY <1>1, ListIsShort
<1>3. L # 0 /\ l \in [1 .. L -> Chunks] /\ DOMAIN l = 1 .. L
  BY <1>1, EmptySeq, LenProperties
<1>4. \A k \in 1 .. L : PlaceAfter(k, L) \in 1 .. L /\ t.node[l[k]].bk = l[PlaceAfter(k, L)]
  BY <1>2, Places DEF IsList, Listed
<1>5. x \in W /\ W \in SUBSET Chunks /\ \A y \in W : t.node[y].bk \in W
  <2>1. 1 \in 1 .. L
    BY <1>2, <1>3
  <2> QED  BY <1>3, <1>4, <2>1
<1>6. /\ at[0] = x
      /\ \A n \in 1 .. N : at[n] = t.node[at[n - 1]].bk
      /\ ListFrom(x) = [n \in 1 .. ListLength(at, x) |-> at[n - 1]]
  <2> HIDE DEF x, W
  <2> QED  BY <1>5, ListWalkIs
<1> HIDE DEF at, N
<1>7. \A n \in 0 .. L - 1 : at[n] = l[n + 1]
  <2> DEFINE T == {n \in 0 .. L - 1 : at[n] # l[n + 1]}
  <2> SUFFICES ASSUME T # {} PROVE FALSE
    OBVIOUS
  <2>1. T \in SUBSET Nat
    BY <1>2
  <2> DEFINE k == Min(T)
  <2>2. k \in T /\ \A j \in T : k <= j
    BY <2>1, LeastNat
  <2> HIDE DEF k
  <2>3. k \in 0 .. L - 1 /\ at[k] # l[k + 1]
    BY <2>2
  <2>4. k # 0
    BY <1>6, <2>3
  <2>5. k - 1 \in 0 .. L - 1 /\ ~ (k <= k - 1) /\ k \in 1 .. N /\ k \in 1 .. L /\ k # L /\ (k - 1) + 1 = k
    BY <1>2, <2>3, <2>4
  <2>6. at[k - 1] = l[k]
    BY <2>2, <2>5
  <2>7. t.node[l[k]].bk = l[k + 1]
    BY <1>4, <2>5 DEF PlaceAfter
  <2> QED  BY <1>6, <2>3, <2>5, <2>6, <2>7
<1>8. at[L] = x
  <2>1. L - 1 \in 0 .. L - 1 /\ (L - 1) + 1 = L /\ L \in 1 .. L /\ L \in 1 .. N
    BY <1>2, <1>3
  <2>2. at[L - 1] = l[L]
    BY <1>7, <2>1
  <2>3. t.node[l[L]].bk = l[1]
    BY <1>4, <2>1 DEF PlaceAfter
  <2> QED  BY <1>6, <2>1, <2>2, <2>3
<1>9. \A n \in 1 .. L - 1 : at[n] # x
  <2> SUFFICES ASSUME NEW n \in 1 .. L - 1, at[n] = x PROVE FALSE
    OBVIOUS
  <2>1. n \in 0 .. L - 1 /\ n + 1 \in 1 .. L /\ 1 \in 1 .. L /\ n + 1 # 1
    BY <1>2
  <2>2. l[n + 1] = l[1]
    BY <1>7, <2>1
  <2> QED  BY <1>1, <2>1, <2>2
<1>10. ListLength(at, x) = L
  <2> DEFINE T == {n \in 1 .. N : at[n] = x} \cup {N}
             k == Min(T)
  <2>1. T \in SUBSET Nat /\ T # {}
    BY <1>2
  <2>2. k \in T /\ \A j \in T : k <= j
    BY <2>1, LeastNat
  <2>3. ListLength(at, x) = k
    BY DEF ListLength, N
  <2>4. L \in T
    <3>1. L \in 1 .. N
      BY <1>2, <1>3
    <3> HIDE DEF L, x
    <3> QED  BY <1>8, <3>1
  <2>5. \A n \in T : n \in 1 .. N /\ ~ (n \in 1 .. L - 1)
    BY <1>2, <1>3, <1>9
  <2> HIDE DEF T, k
  <2>6. k <= L /\ k \in 1 .. N /\ ~ (k \in 1 .. L - 1)
    BY <2>2, <2>4, <2>5
  <2>7. k = L
    BY <1>2, <2>6
  <2> QED  BY <2>3, <2>7
<1>11. ListFrom(x) = [n \in 1 .. L |-> at[n - 1]]
  BY <1>6, <1>10
<1>12. \A n \in 1 .. L : at[n - 1] = l[n]
  <2> SUFFICES ASSUME NEW n \in 1 .. L PROVE at[n - 1] = l[n]
    OBVIOUS
  <2>1. n - 1 \in 0 .. L - 1 /\ (n - 1) + 1 = n
    BY <1>2
  <2> QED  BY <1>7, <2>1
<1>13. [n \in 1 .. L |-> at[n - 1]] = [n \in 1 .. L |-> l[n]]
  BY <1>12
<1>14. [n \in 1 .. L |-> l[n]] = l
  BY <1>3
<1> QED  BY <1>11, <1>13, <1>14

LEMMA QueuesIs ==
  ASSUME NEW D, NEW q, Bins(t, D, q)
  PROVE  QueuesOfTrees = q
<1>1. q \in [LargeSizes -> Seq(Chunks)]
  BY DEF Bins, Lists
<1>2. InTree = Heads(t)
  BY DEF InTree, Heads
<1>3. ASSUME NEW s \in LargeSizes
      PROVE  LET heads == {x \in InTree : t.node[x].size = s}
             IN  (IF heads = {} THEN <<>> ELSE ListFrom(CHOOSE x \in heads : TRUE)) = q[s]
  <2> DEFINE heads == {x \in InTree : t.node[x].size = s}
             l == q[s]
  <2>1. /\ IsList(t, s, l) /\ l \in Seq(Chunks) /\ Len(l) \in Nat
        /\ \A k \in 1 .. Len(l) : l[k] \in DOMAIN t.node /\ t.node[l[k]].size = s
        /\ Len(l) # 0 => l[1] \in Heads(t)
        /\ \A x \in Heads(t) : t.node[x].size = s => Len(l) # 0 /\ x = l[1]
    BY HeadOfList
  <2> HIDE DEF l
  <2>2. CASE Len(l) = 0
    <3>1. l = <<>>
      BY <2>1, <2>2, EmptySeq
    <3>2. heads = {}
      BY <1>2, <2>1, <2>2
    <3> QED  BY <3>1, <3>2 DEF l
  <2>3. CASE Len(l) # 0
    <3>1. l[1] \in heads
      BY <1>2, <2>1, <2>3
    <3>2. \A x \in heads : x = l[1]
      BY <1>2, <2>1
    <3>3. (CHOOSE x \in heads : TRUE) = l[1]
      BY <3>1, <3>2
    <3>4. l # <<>>
      BY <2>3, EmptySeq
    <3>5. ListFrom(l[1]) = l
      BY <2>1, <3>4, ListFromIs
    <3> QED  BY <3>1, <3>3, <3>5 DEF l
  <2> QED  BY <2>2, <2>3
<1>4. QueuesOfTrees = [s \in LargeSizes |-> q[s]]
  BY <1>3 DEF QueuesOfTrees
<1>5. [s \in LargeSizes |-> q[s]] = q
  BY <1>1
<1> QED  BY <1>4, <1>5

-----------------------------------------------------------------------------
(* The searches find what the queues promise.                              *)

LEMMA FitsIs ==
  ASSUME NEW D, NEW q, Bins(t, D, q), NEW nb
  PROVE  Q!Fits(nb) = {s \in LargeSizes : q[s] # <<>> /\ s >= nb}
<1>1. QueuesOfTrees = q /\ q \in [LargeSizes -> Seq(Chunks)]
  BY QueuesIs DEF Bins, Lists
<1>2. Q!Fits(nb) = {s \in DOMAIN QueuesOfTrees : QueuesOfTrees[s] # <<>> /\ s >= nb /\ ~ (s < Pow2(TreeShift))}
  BY DEF Q!Fits, Q!LargeFits, Q!IsSmall
<1>3. \A s \in LargeSizes : ~ (s < Pow2(TreeShift))
  <2>1. Pow2(TreeShift) \in Nat /\ Pow2(WordBits) \in Nat /\ LargeSizes \subseteq Sizes
    BY ConstantTypes
  <2> QED  BY <2>1 DEF Sizes
<1>4. DOMAIN QueuesOfTrees = LargeSizes
  BY <1>1
<1> HIDE DEF QueuesOfTrees
<1> QED  BY <1>1, <1>2, <1>3, <1>4

(* A best fit is the head of the queue of the smallest size that fits.     *)
LEMMA BestFitIs ==
  ASSUME NEW D, NEW q, Bins(t, D, q), NEW nb \in Nat, NEW r, BestFitIn(t, Heads(t), nb, r)
  PROVE  /\ Q!Fits(nb) = {} <=> r = Null
         /\ Q!Fits(nb) # {} =>
              LET m == Min(Q!Fits(nb))
              IN  /\ m \in LargeSizes /\ Len(q[m]) # 0 /\ r = q[m][1] /\ r = Q!BestFit(nb)
<1> DEFINE S == Heads(t)
           F == Q!Fits(nb)
           m == Min(F)
           size(x) == t.node[x].size
<1>1. F = {s \in LargeSizes : q[s] # <<>> /\ s >= nb}
  BY FitsIs
<1>2. QueuesOfTrees = q /\ q \in [LargeSizes -> Seq(Chunks)]
  BY QueuesIs DEF Bins, Lists
<1>3. \A s \in LargeSizes :
        /\ q[s] \in Seq(Chunks) /\ Len(q[s]) \in Nat
        /\ \A k \in 1 .. Len(q[s]) : size(q[s][k]) = s
        /\ Len(q[s]) # 0 => q[s][1] \in S
        /\ \A x \in S : size(x) = s => Len(q[s]) # 0 /\ x = q[s][1]
  <2> SUFFICES ASSUME NEW s \in LargeSizes
               PROVE  /\ q[s] \in Seq(Chunks) /\ Len(q[s]) \in Nat
                      /\ \A k \in 1 .. Len(q[s]) : size(q[s][k]) = s
                      /\ Len(q[s]) # 0 => q[s][1] \in S
                      /\ \A x \in S : size(x) = s => Len(q[s]) # 0 /\ x = q[s][1]
    OBVIOUS
  <2> QED  BY HeadOfList
<1>4. \A s \in LargeSizes : (q[s] # <<>> <=> Len(q[s]) # 0) /\ s \in Nat
  BY <1>3, EmptySeq, ConstantTypes
<1>5. Null \notin S /\ \A x \in S : size(x) \in LargeSizes
  <2>1. BinsType(t)
    BY DEF Bins, Forest
  <2> QED  BY <2>1, NodeTypes, ConstantTypes DEF Heads
<1> HIDE DEF S, F, size
<1>6. /\ r \in S \cup {Null}
      /\ r # Null => nb <= size(r)
      /\ \A y \in S : nb <= size(y) => r # Null /\ size(r) <= size(y)
  BY DEF BestFitIn, S, size
<1>7. ASSUME NEW s \in F PROVE s \in LargeSizes /\ Len(q[s]) # 0 /\ q[s][1] \in S /\ size(q[s][1]) = s /\ nb <= s
  <2>1. s \in LargeSizes /\ Len(q[s]) # 0 /\ nb <= s
    BY <1>1, <1>4
  <2>2. 1 \in 1 .. Len(q[s])
    BY <1>3, <2>1
  <2> QED  BY <1>3, <2>1, <2>2
<1>8. r # Null => r \in S /\ size(r) \in F
  <2> SUFFICES ASSUME r # Null PROVE r \in S /\ size(r) \in F
    OBVIOUS
  <2>1. r \in S /\ size(r) \in LargeSizes /\ nb <= size(r)
    BY <1>5, <1>6
  <2>2. q[size(r)] # <<>>
    BY <1>3, <1>4, <2>1
  <2> QED  BY <1>1, <1>4, <2>1, <2>2
<1>9. F # {} => r # Null
  BY <1>6, <1>7
<1>10. F # {} => m \in LargeSizes /\ Len(q[m]) # 0 /\ r = q[m][1]
  <2> SUFFICES ASSUME F # {} PROVE m \in LargeSizes /\ Len(q[m]) # 0 /\ r = q[m][1]
    OBVIOUS
  <2>1. F \in SUBSET Nat
    BY <1>4, <1>7
  <2>2. m \in F /\ \A s \in F : m <= s
    BY <2>1, LeastNat
  <2> HIDE DEF m
  <2>3. m \in LargeSizes /\ Len(q[m]) # 0 /\ q[m][1] \in S /\ size(q[m][1]) = m /\ nb <= m
    BY <1>7, <2>2
  <2>4. size(r) <= m /\ m <= size(r) /\ r \in S
    BY <1>6, <1>8, <1>9, <2>2, <2>3
  <2>5. size(r) = m
    BY <1>4, <1>5, <2>3, <2>4
  <2> QED  BY <1>3, <2>3, <2>4, <2>5
<1>11. F # {} => Q!BestFit(nb) = q[m][1]
  <2> SUFFICES ASSUME F # {} PROVE Q!BestFit(nb) = q[m][1]
    OBVIOUS
  <2>0. Q!Min(F) = Min(F)
    BY Zenon DEF Q!Min, Min
  <2>1. Q!BestFit(nb) = Head(QueuesOfTrees[m])
    BY <2>0 DEF Q!BestFit, F
  <2>2. q[m] \in Seq(Chunks) /\ q[m] # <<>>
    BY <1>2, <1>4, <1>10
  <2>3. Head(q[m]) = q[m][1]
    <3> DEFINE l == q[m]
    <3> HIDE DEF l
    <3>1. l \in Seq(Chunks) /\ l # <<>>
      BY <2>2 DEF l
    <3>2. Head(l) = l[1]
      BY <3>1
    <3> QED  BY <3>2 DEF l
  <2> QED  BY <1>2, <2>1, <2>3
<1> QED  BY <1>8, <1>9, <1>10, <1>11 DEF F

(* A state of the trees in which both searches find what the queues        *)
(* promise.                                                                *)
LEMMA SearchesAreBest ==
  ASSUME NEW D, NEW q, Bins(t, D, q)
  PROVE  FindsBestFit
<1> DEFINE S == Heads(t)
<1>1. Forest(t, D, S) /\ Marked(t)
  BY DEF Bins
<1>2. ASSUME NEW nb \in 2 .. Max(LargeSizes) PROVE nb \in Nat /\ nb \in Requests /\ (nb >= Pow2(TreeShift) => nb \in Sizes)
  BY RequestsAre
<1>3. Pow2(TreeShift) \in Nat
  BY ConstantTypes
<1>4. ASSUME NEW nb \in 2 .. Max(LargeSizes), nb >= Pow2(TreeShift)
      PROVE  FindLarge(t, nb) = IF Q!Fits(nb) = {} THEN Null ELSE Q!BestFit(nb)
  <2> DEFINE r == FindLarge(t, nb)
  <2>1. nb \in Sizes /\ nb \in Nat
    BY <1>2, <1>4
  <2>2. BestFitIn(t, S, nb, r)
    BY <1>1, <2>1, FindLargeIs
  <2> HIDE DEF r
  <2>3. /\ Q!Fits(nb) = {} <=> r = Null
        /\ Q!Fits(nb) # {} => r = Q!BestFit(nb)
    BY <2>1, <2>2, BestFitIs
  <2> QED  BY <2>3 DEF r
<1>5. ASSUME NEW nb \in 2 .. Max(LargeSizes), nb < Pow2(TreeShift), t.map # {}
      PROVE  FindSmall(t, nb) = Q!BestFit(nb)
  <2> DEFINE r == FindSmall(t, nb)
  <2>1. nb \in Requests /\ nb \in Nat
    BY <1>2
  <2>2. BestFitIn(t, S, nb, r) /\ r \in S
    BY <1>1, <1>5, <2>1, FindSmallIs
  <2> HIDE DEF r
  <2>3. Null \notin S
    <3>1. BinsType(t)
      BY <1>1 DEF Forest
    <3> QED  BY <3>1, NodeTypes, ConstantTypes DEF Heads
  <2>4. /\ Q!Fits(nb) = {} <=> r = Null
        /\ Q!Fits(nb) # {} => r = Q!BestFit(nb)
    BY <2>1, <2>2, BestFitIs
  <2> QED  BY <2>2, <2>3, <2>4 DEF r
<1>6. \A nb \in 2 .. Max(LargeSizes) : nb \in Nat /\ Pow2(TreeShift) \in Nat
  BY <1>2, <1>3
<1> QED  BY <1>4, <1>5, <1>6 DEF FindsBestFit

(* Both searches always return the oldest of the smallest chunks that are  *)
(* large enough; tmalloc_large returns none only when there is none.       *)
THEOREM SearchesFindBestFit == Spec => []FindsBestFit
<1>1. BinsInv => FindsBestFit
  BY SearchesAreBest DEF BinsInv
<1> QED  BY <1>1, BinsInvHolds, PTL

-----------------------------------------------------------------------------
(* Every step of the trees is one of the queues.                           *)

LEMMA RemoveAtIs ==
  ASSUME NEW l \in Seq(Chunks), NEW k \in 1 .. Len(l)
  PROVE  Q!RemoveAt(l, k) = Removed(l, k)
<1> DEFINE L == Len(l)
           A == SubSeq(l, 1, k - 1)
           B == SubSeq(l, k + 1, L)
           R == Removed(l, k)
<1>1. L \in Nat /\ k \in Nat /\ 1 <= k /\ k <= L
  BY LenProperties
<1>2. l \in [1 .. L -> Chunks]
  BY LenProperties
<1> HIDE DEF L
<1>3. A \in Seq(Chunks) /\ Len(A) = k - 1 /\ \A i \in 1 .. k - 1 : A[i] = l[i]
  <2>1. \A i \in 1 .. k - 1 : l[i] \in Chunks
    BY <1>1, <1>2
  <2>2. /\ A \in Seq(Chunks) /\ Len(A) = IF 1 <= k - 1 THEN (k - 1) - 1 + 1 ELSE 0
        /\ \A i \in 1 .. (k - 1) - 1 + 1 : A[i] = l[1 + i - 1]
    BY <1>1, <2>1, SubSeqProperties
  <2> HIDE DEF A
  <2>3. Len(A) = k - 1 /\ (k - 1) - 1 + 1 = k - 1
    BY <1>1, <2>2
  <2>4. \A i \in 1 .. k - 1 : 1 + i - 1 = i
    BY <1>1
  <2> QED  BY <2>2, <2>3, <2>4
<1>4. B \in Seq(Chunks) /\ Len(B) = L - k /\ \A i \in 1 .. L - k : B[i] = l[k + i]
  <2>1. \A i \in k + 1 .. L : l[i] \in Chunks
    BY <1>1, <1>2
  <2>2. /\ B \in Seq(Chunks) /\ Len(B) = IF k + 1 <= L THEN L - (k + 1) + 1 ELSE 0
        /\ \A i \in 1 .. L - (k + 1) + 1 : B[i] = l[(k + 1) + i - 1]
    BY <1>1, <2>1, SubSeqProperties
  <2> HIDE DEF B
  <2>3. Len(B) = L - k /\ L - (k + 1) + 1 = L - k
    BY <1>1, <2>2
  <2>4. \A i \in 1 .. L - k : (k + 1) + i - 1 = k + i
    BY <1>1
  <2> QED  BY <2>2, <2>3, <2>4
<1>5. Q!RemoveAt(l, k) = A \o B
  BY DEF Q!RemoveAt, L
<1> HIDE DEF A, B, R
<1>6. /\ A \o B \in Seq(Chunks) /\ Len(A \o B) = Len(A) + Len(B)
      /\ \A i \in 1 .. Len(A) + Len(B) : (A \o B)[i] = IF i <= Len(A) THEN A[i] ELSE B[i - Len(A)]
  BY <1>3, <1>4, ConcatProperties
<1>7. Len(A) + Len(B) = L - 1
  BY <1>1, <1>3, <1>4
<1>8. R \in Seq(Chunks) /\ Len(R) = L - 1 /\ \A j \in 1 .. L - 1 : R[j] = l[Kept(j, k)]
  BY RemovedIs DEF R, L
<1>9. \A i \in 1 .. L - 1 : (A \o B)[i] = R[i]
  <2> SUFFICES ASSUME NEW i \in 1 .. L - 1 PROVE (A \o B)[i] = R[i]
    OBVIOUS
  <2>1. (A \o B)[i] = IF i <= k - 1 THEN A[i] ELSE B[i - (k - 1)]
    BY <1>3, <1>6, <1>7
  <2>2. CASE i <= k - 1
    <3>1. i \in 1 .. k - 1 /\ Kept(i, k) = i
      BY <1>1, <2>2 DEF Kept
    <3> QED  BY <1>3, <1>8, <2>1, <2>2, <3>1
  <2>3. CASE ~ (i <= k - 1)
    <3>1. i - (k - 1) \in 1 .. L - k /\ k + (i - (k - 1)) = i + 1 /\ Kept(i, k) = i + 1
      BY <1>1, <2>3 DEF Kept
    <3> QED  BY <1>4, <1>8, <2>1, <2>3, <3>1
  <2> QED  BY <2>2, <2>3
<1>10. A \o B = R
  BY <1>6, <1>7, <1>8, <1>9, SeqEqual
<1> QED  BY <1>5, <1>10 DEF R

LEMMA TailIs ==
  ASSUME NEW l \in Seq(Chunks), Len(l) # 0
  PROVE  1 \in 1 .. Len(l) /\ Removed(l, 1) = Tail(l)
<1> DEFINE R == Removed(l, 1)
           T == Tail(l)
<1>1. Len(l) \in Nat /\ 1 \in 1 .. Len(l) /\ l # <<>>
  BY EmptySeq, LenProperties
<1>2. R \in Seq(Chunks) /\ Len(R) = Len(l) - 1 /\ \A j \in 1 .. Len(l) - 1 : R[j] = l[Kept(j, 1)]
  BY <1>1, RemovedIs
<1>3. T \in Seq(Chunks) /\ Len(T) = Len(l) - 1 /\ \A i \in 1 .. Len(T) : T[i] = l[i + 1]
  BY <1>1, HeadTailProperties
<1> HIDE DEF R, T
<1>4. \A j \in 1 .. Len(l) - 1 : Kept(j, 1) = j + 1
  BY <1>1 DEF Kept
<1>5. \A i \in 1 .. Len(R) : R[i] = T[i]
  BY <1>2, <1>3, <1>4
<1>6. R = T
  BY <1>2, <1>3, <1>5, SeqEqual
<1> QED  BY <1>1, <1>6 DEF R, T

LEMMA QueuesAre ==
  \A q : (\E D : Bins(t, D, q)) => QueuesOfTrees = q
BY QueuesIs

LEMMA QueuesAreNext ==
  (\A q : (\E D : Bins(t, D, q)) => QueuesOfTrees = q)'
BY QueuesAre, PTL

LEMMA QueuesStep ==
  BinsInv /\ [Next]_t => [Q!Next]_QueuesOfTrees
<1> SUFFICES ASSUME BinsInv, [Next]_t PROVE [Q!Next]_QueuesOfTrees
  OBVIOUS
<1>0. PICK D, q : Bins(t, D, q)
  BY DEF BinsInv
<1>1. QueuesOfTrees = q /\ q \in [LargeSizes -> Seq(Chunks)]
  BY <1>0, QueuesIs DEF Bins, Lists
<1>2. ASSUME NEW r, \E E : Bins(t', E, r) PROVE QueuesOfTrees' = r
  <2>1. \A p : (\E E : Bins(t', E, p)) => QueuesOfTrees' = p
    BY QueuesAreNext
  <2> QED  BY <1>2, <2>1
<1> DEFINE S == Heads(t)
<1>3. Forest(t, D, S) /\ Marked(t) /\ Lists(t, q)
  BY <1>0 DEF Bins
<1>m. Q!Max(LargeSizes) = Max(LargeSizes)
  BY Zenon DEF Q!Max, Max
<1>4. ASSUME NEW x \in Chunks, NEW s \in LargeSizes, Insert(x, s) PROVE Q!Next
  <2>1. x \notin DOMAIN t.node /\ t' = InsertLarge(t, x, s)
    BY <1>4 DEF Insert
  <2>2. \E E : Bins(InsertLarge(t, x, s), E, [q EXCEPT ![s] = Append(@, x)])
    BY <1>0, <2>1, InsertKeeps
  <2>3. QueuesOfTrees' = [q EXCEPT ![s] = Append(@, x)]
    BY <1>2, <2>1, <2>2
  <2>4. ~ Q!Binned(QueuesOfTrees, x)
    <3> SUFFICES ASSUME Q!Binned(QueuesOfTrees, x) PROVE FALSE
      OBVIOUS
    <3>1. PICK z \in LargeSizes : \E i \in DOMAIN q[z] : q[z][i] = x
      BY <1>1 DEF Q!Binned
    <3>2. q[z] \in Seq(Chunks)
      BY <1>1
    <3>3. DOMAIN q[z] = 1 .. Len(q[z])
      BY <3>2, LenProperties
    <3>4. \A k \in 1 .. Len(q[z]) : q[z][k] \in DOMAIN t.node
      BY <1>3 DEF Lists, IsList, Listed
    <3> QED  BY <2>1, <3>1, <3>3, <3>4
  <2>5. ~ (s < Pow2(TreeShift))
    <3>1. Pow2(TreeShift) \in Nat /\ Pow2(WordBits) \in Nat /\ s \in Sizes
      BY ConstantTypes
    <3> QED  BY <3>1 DEF Sizes
  <2>6. Q!Inserted(q, x, s) = [q EXCEPT ![s] = Append(@, x)]
    BY <2>5 DEF Q!Inserted, Q!IsSmall
  <2>7. QueuesOfTrees' = Q!Inserted(QueuesOfTrees, x, s)
    BY <1>1, <2>3, <2>6
  <2>8. Q!Insert(x, s)
    BY <2>4, <2>7 DEF Q!Insert
  <2> QED  BY <2>8 DEF Q!Next
<1>5. ASSUME NEW x \in Chunks, Unlink(x) PROVE Q!Next
  <2> DEFINE s == t.node[x].size
  <2>1. x \in DOMAIN t.node /\ t' = UnlinkLarge(t, x)
    BY <1>5 DEF Unlink
  <2>2. s \in LargeSizes
    <3>1. BinsType(t)
      BY <1>3 DEF Forest
    <3> QED  BY <2>1, <3>1, NodeTypes
  <2>3. PICK k \in 1 .. Len(q[s]) : q[s][k] = x
    BY <1>3, <2>1 DEF Lists
  <2> HIDE DEF s
  <2>4. \E E : Bins(UnlinkLarge(t, q[s][k]), E, Less(q, s, k))
    BY <1>0, <2>2, UnlinkKeeps
  <2>5. QueuesOfTrees' = Less(q, s, k)
    BY <1>2, <2>1, <2>3, <2>4
  <2>6. q[s] \in Seq(Chunks) /\ DOMAIN q[s] = 1 .. Len(q[s])
    BY <1>1, <2>2, LenProperties
  <2>7. Q!RemoveAt(q[s], k) = Removed(q[s], k)
    BY <2>6, RemoveAtIs
  <2>8. QueuesOfTrees' = [QueuesOfTrees EXCEPT ![s] = Q!RemoveAt(@, k)]
    BY <1>1, <2>5, <2>7 DEF Less
  <2>9. k \in DOMAIN QueuesOfTrees[s] /\ QueuesOfTrees[s][k] = x
    BY <1>1, <2>3, <2>6
  <2>10. Q!Unlink(x, s)
    BY <2>8, <2>9 DEF Q!Unlink
  <2> QED  BY <2>2, <2>10 DEF Q!Next
<1>6. ASSUME NEW nb \in 2 .. Max(LargeSizes), NEW r, BestFitIn(t, S, nb, r), r # Null,
             t' = UnlinkLarge(t, r)
      PROVE  Q!Next
  <2> DEFINE F == Q!Fits(nb)
             m == Min(F)
  <2>0. nb \in Nat /\ nb \in 1 .. Max(LargeSizes)
    <3>1. nb \in Nat
      BY RequestsAre
    <3>2. Max(LargeSizes) \in Nat
      BY MaxSize, ConstantTypes
    <3> QED  BY <3>1, <3>2
  <2>1. F # {} /\ m \in LargeSizes /\ Len(q[m]) # 0 /\ r = q[m][1]
    <3>1. /\ Q!Fits(nb) = {} <=> r = Null
          /\ Q!Fits(nb) # {} =>
               LET n == Min(Q!Fits(nb))
               IN  /\ n \in LargeSizes /\ Len(q[n]) # 0 /\ r = q[n][1] /\ r = Q!BestFit(nb)
      BY <1>0, <1>6, <2>0, BestFitIs
    <3> QED  BY <1>6, <3>1
  <2>2. Q!Min(F) = m
    BY Zenon DEF Q!Min, Min
  <2> HIDE DEF m
  <2>3. q[m] \in Seq(Chunks)
    BY <1>1, <2>1
  <2>4. 1 \in 1 .. Len(q[m]) /\ Removed(q[m], 1) = Tail(q[m])
    BY <2>1, <2>3, TailIs
  <2>5. \E E : Bins(UnlinkLarge(t, q[m][1]), E, Less(q, m, 1))
    BY <1>0, <2>1, <2>4, UnlinkKeeps
  <2>6. QueuesOfTrees' = Less(q, m, 1)
    BY <1>2, <1>6, <2>1, <2>5
  <2>7. QueuesOfTrees' = [QueuesOfTrees EXCEPT ![m] = Tail(@)]
    BY <1>1, <2>4, <2>6 DEF Less
  <2>8. Q!Take(nb)
    BY <2>1, <2>2, <2>7 DEF Q!Take
  <2> QED  BY <1>m, <2>0, <2>8 DEF Q!Next
<1>7. ASSUME NEW nb \in 2 .. Max(LargeSizes), TakeLarge(nb) PROVE Q!Next
  <2>1. nb \in Sizes /\ FindLarge(t, nb) # Null /\ t' = UnlinkLarge(t, FindLarge(t, nb))
    BY <1>7, RequestsAre DEF TakeLarge
  <2>2. BestFitIn(t, S, nb, FindLarge(t, nb))
    BY <1>3, <2>1, FindLargeIs
  <2> QED  BY <1>6, <2>1, <2>2
<1>8. ASSUME NEW nb \in 2 .. Max(LargeSizes), TakeSmall(nb) PROVE Q!Next
  <2>1. nb \in Requests /\ nb < Pow2(TreeShift) /\ t.map # {} /\ t' = UnlinkLarge(t, FindSmall(t, nb))
    BY <1>8, RequestsAre DEF TakeSmall
  <2>2. BestFitIn(t, S, nb, FindSmall(t, nb)) /\ FindSmall(t, nb) \in S
    BY <1>3, <2>1, FindSmallIs
  <2>3. Null \notin S
    <3>1. BinsType(t)
      BY <1>3 DEF Forest
    <3> QED  BY <3>1, NodeTypes, ConstantTypes DEF Heads
  <2> QED  BY <1>6, <2>1, <2>2, <2>3
<1>9. CASE UNCHANGED t
  <2>1. Bins(t', D, q)
    BY <1>0, <1>9
  <2> QED  BY <1>1, <1>2, <2>1
<1> QED  BY <1>4, <1>5, <1>7, <1>8, <1>9 DEF Next

(* The trees, with all their relinking, implement queues of chunks, one    *)
(* for each size: nothing is lost, and each size is used in the order in   *)
(* which its chunks were freed.                                            *)
THEOREM TreesAreQueues == Spec => ImplementsQueues
<1>1. Init => Q!Init
  <2> SUFFICES ASSUME Init PROVE Q!Init
    OBVIOUS
  <2>1. QueuesOfTrees = [s \in LargeSizes |-> <<>>]
    BY InitBins, QueuesIs
  <2> QED  BY <2>1 DEF Q!Init
<1> QED  BY <1>1, BinsInvHolds, QueuesStep, PTL DEF Spec, ImplementsQueues, Q!Spec
=============================================================================
