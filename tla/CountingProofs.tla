--------------------------- MODULE CountingProofs ---------------------------
(* What the proofs about the components need to know of sums and counts.    *)
EXTENDS Counting, Integers, FiniteSetTheorems, TLAPS

\* Pairing a set with one key does not change its size.
LEMMA PairCount ==
  ASSUME NEW S, IsFiniteSet(S), NEW k
  PROVE  IsFiniteSet({k} \X S) /\ Cardinality({k} \X S) = Cardinality(S)
  <1>1. /\ IsFiniteSet({k} \X S)
        /\ Cardinality({k} \X S) = Cardinality({k}) * Cardinality(S)
    BY FS_Product, FS_Singleton
  <1>2. Cardinality({k}) = 1 /\ Cardinality(S) \in Nat
    BY FS_Singleton, FS_CardinalityType
  <1>3. QED
    BY <1>1, <1>2

\* A set that grows by pairs under a new key grows by their number.
LEMMA CountGrows ==
  ASSUME NEW A, IsFiniteSet(A), NEW S, IsFiniteSet(S), NEW k,
         A \cap ({k} \X S) = {}
  PROVE  /\ IsFiniteSet(A \cup ({k} \X S))
         /\ Cardinality(A \cup ({k} \X S)) = Cardinality(A) + Cardinality(S)
         /\ Cardinality(A) \in Nat /\ Cardinality(S) \in Nat
  <1>1. IsFiniteSet({k} \X S) /\ Cardinality({k} \X S) = Cardinality(S)
    BY PairCount
  <1>2. /\ IsFiniteSet(A \cup ({k} \X S))
        /\ Cardinality(A \cup ({k} \X S)) =
             Cardinality(A) + Cardinality({k} \X S) - Cardinality(A \cap ({k} \X S))
    BY <1>1, FS_Union
  <1>3. Cardinality(A) \in Nat /\ Cardinality(S) \in Nat
    BY FS_CardinalityType
  <1>4. Cardinality(A \cap ({k} \X S)) = 0
    BY FS_EmptySet
  <1>5. QED
    BY <1>1, <1>2, <1>3, <1>4

\* Finitely many places with finitely many pairs each have finitely many pairs.
LEMMA PairsFinite ==
  ASSUME NEW D, IsFiniteSet(D), NEW n, \A x \in D : n[x] \in Nat
  PROVE  IsFiniteSet(UNION {{x} \X (1..n[x]) : x \in D})
  <1> DEFINE f == [x \in D |-> {x} \X (1..n[x])]
             U == {f[x] : x \in D}
  <1>1. \A x \in D : IsFiniteSet(f[x])
    <2>1. \A x \in D : IsFiniteSet(1..n[x])
      BY FS_Interval
    <2>2. QED
      BY <2>1, PairCount
  <1>2. IsFiniteSet(U)
    <2>1. f \in Surjection(D, U)
      BY DEF Surjection
    <2> HIDE DEF f, U
    <2>2. QED
      BY <2>1, FS_Surjection
  <1>3. \A T \in U : IsFiniteSet(T)
    <2> HIDE DEF f
    <2> QED BY <1>1
  <1>4. IsFiniteSet(UNION U)
    <2> HIDE DEF U
    <2> QED BY <1>2, <1>3, FS_UNION
  <1>5. U = {{x} \X (1..n[x]) : x \in D}
    OBVIOUS
  <1>6. QED
    BY <1>4, <1>5

-----------------------------------------------------------------------------
(* Sums *)

\* The units of a function are those of each of its places.
LEMMA UnitsFacts ==
  ASSUME NEW f
  PROVE  \A e : e \in Units(f) <=>
                  \E x \in DOMAIN f : \E n \in 1..f[x] : e = <<x, n>>
  BY DEF Units

\* A sum is a natural number.
LEMMA SumType ==
  ASSUME NEW S, IsFiniteSet(S), NEW f \in [S -> Nat]
  PROVE  IsFiniteSet(Units(f)) /\ Sum(f) \in Nat
  <1>1. DOMAIN f = S /\ \A x \in S : f[x] \in Nat
    OBVIOUS
  <1>2. IsFiniteSet(UNION {{x} \X (1..f[x]) : x \in S})
    BY <1>1, PairsFinite
  <1>3. IsFiniteSet(Units(f))
    BY <1>1, <1>2 DEF Units
  <1>4. QED
    BY <1>3, FS_CardinalityType DEF Sum

\* Nothing adds up to nothing.
LEMMA SumZero ==
  ASSUME NEW f, \A x \in DOMAIN f : f[x] = 0
  PROVE  Sum(f) = 0
  <1>1. Units(f) = {}
    BY UnitsFacts
  <1>2. QED
    BY <1>1, FS_EmptySet DEF Sum

\* A sum of less is at most the sum of more.
LEMMA SumMonotone ==
  ASSUME NEW S, IsFiniteSet(S), NEW f \in [S -> Nat], NEW g \in [S -> Nat],
         \A x \in S : f[x] <= g[x]
  PROVE  Sum(f) <= Sum(g)
  <1>1. Units(f) \subseteq Units(g)
    <2>1. \A x \in S : \A n \in 1..f[x] : n \in 1..g[x]
      OBVIOUS
    <2>2. DOMAIN f = S /\ DOMAIN g = S
      OBVIOUS
    <2>3. QED
      BY <2>1, <2>2, UnitsFacts
  <1>2. IsFiniteSet(Units(g))
    BY SumType
  <1>3. QED
    BY <1>1, <1>2, FS_Subset DEF Sum

\* A sum without one of its places.
LEMMA SumWithout ==
  ASSUME NEW S, IsFiniteSet(S), NEW f \in [S -> Nat], NEW x \in S
  PROVE  LET rest == {e \in Units(f) : e[1] # x}
         IN  /\ Sum(f) = Cardinality(rest) + f[x]
             /\ Cardinality(rest) \in Nat
  <1> DEFINE rest == {e \in Units(f) : e[1] # x}
  <1>1. Units(f) = rest \cup ({x} \X (1..f[x]))
    <2>1. \A e \in Units(f) : e[1] = x => e \in {x} \X (1..f[x])
      BY UnitsFacts
    <2>2. \A e \in {x} \X (1..f[x]) : e \in Units(f)
      <3>1. \A e \in {x} \X (1..f[x]) : e = <<x, e[2]>> /\ e[2] \in 1..f[x]
        OBVIOUS
      <3>2. x \in DOMAIN f
        OBVIOUS
      <3>3. QED
        BY <3>1, <3>2, UnitsFacts
    <2>3. QED
      BY <2>1, <2>2
  <1>2. rest \cap ({x} \X (1..f[x])) = {}
    OBVIOUS
  <1>3. f[x] \in Nat /\ IsFiniteSet(1..f[x]) /\ Cardinality(1..f[x]) = f[x]
    <2>1. f[x] \in Nat
      OBVIOUS
    <2>2. QED
      BY <2>1, FS_Interval
  <1>4. IsFiniteSet(rest)
    <2>1. rest \subseteq Units(f) /\ IsFiniteSet(Units(f))
      BY SumType
    <2> HIDE DEF rest
    <2>2. QED
      BY <2>1, FS_Subset
  <1> DEFINE N == 1..f[x]
  <1> HIDE DEF rest, N
  <1>5. /\ Cardinality(rest \cup ({x} \X N)) = Cardinality(rest) + Cardinality(N)
        /\ Cardinality(rest) \in Nat
    BY <1>2, <1>3, <1>4, CountGrows DEF N
  <1>6. Sum(f) = Cardinality(rest \cup ({x} \X N))
    BY <1>1 DEF Sum, N
  <1>7. Sum(f) = Cardinality(rest) + f[x]
    BY <1>3, <1>5, <1>6 DEF N
  <1>8. QED
    BY <1>5, <1>7 DEF rest

\* A sum changes by what one of its values changes by.
LEMMA SumChanges ==
  ASSUME NEW S, IsFiniteSet(S), NEW f \in [S -> Nat], NEW g \in [S -> Nat],
         NEW x \in S, \A y \in S : y # x => g[y] = f[y]
  PROVE  /\ Sum(g) = Sum(f) - f[x] + g[x]
         /\ Sum(f) \in Nat /\ Sum(g) \in Nat
  <1> DEFINE rest == {e \in Units(f) : e[1] # x}
             left == {e \in Units(g) : e[1] # x}
  <1>1. rest = left
    <2>1. \A e : e \in Units(f) /\ e[1] # x <=> e \in Units(g) /\ e[1] # x
      <3>1. DOMAIN f = S /\ DOMAIN g = S
        OBVIOUS
      <3>2. QED
        BY <3>1, UnitsFacts
    <2>2. QED
      BY <2>1
  <1>2. Sum(f) = Cardinality(rest) + f[x] /\ Cardinality(rest) \in Nat
    BY SumWithout
  <1>3. Sum(g) = Cardinality(left) + g[x]
    BY SumWithout
  <1>4. f[x] \in Nat /\ g[x] \in Nat
    OBVIOUS
  <1> HIDE DEF rest, left
  <1>5. QED
    BY <1>1, <1>2, <1>3, <1>4
=============================================================================
