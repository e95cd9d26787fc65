-------------------------- MODULE MicroSumTheorems --------------------------
(***************************************************************************)
(* The laws of Total that the accounting proofs of the ledgers rest on.    *)
(***************************************************************************)
EXTENDS MicroSum, FiniteSetTheorems, TLAPS

\* The units of a finite set of reservations are a finite set.
LEMMA UnitsFinite ==
  ASSUME NEW S, IsFiniteSet(S), NEW f, \A i \in S : f[i] \in Nat
  PROVE  IsFiniteSet(Units(f, S))
<1> DEFINE block(i) == {i} \X (1..f[i])
           blocks   == {block(i) : i \in S}
           g        == [i \in S |-> block(i)]
<1>1. \A i \in S : IsFiniteSet(block(i))
  <2> TAKE i \in S
  <2>1. IsFiniteSet({i})
    BY FS_Singleton
  <2>2. IsFiniteSet(1..f[i])
    BY FS_Interval
  <2> QED
    BY <2>1, <2>2, FS_Product
<1>2. g \in Surjection(S, blocks)
  BY DEF Surjection
<1>3. IsFiniteSet(blocks)
  BY <1>2, FS_Surjection, Zenon
<1>4. \A T \in blocks : IsFiniteSet(T)
  BY <1>1
<1>5. IsFiniteSet(UNION blocks)
  BY <1>3, <1>4, FS_UNION, Zenon
<1> QED
  BY <1>5, Zenon DEF Units

\* A total is a natural number.
LEMMA TotalNat ==
  ASSUME NEW S, IsFiniteSet(S), NEW f, \A i \in S : f[i] \in Nat
  PROVE  Total(f, S) \in Nat
BY UnitsFinite, FS_CardinalityType, Zenon DEF Total

\* Nothing sums to zero.
LEMMA TotalEmpty ==
  ASSUME NEW f
  PROVE  Total(f, {}) = 0
<1>1. Units(f, {}) = {}
  BY DEF Units
<1> QED
  BY <1>1, FS_EmptySet DEF Total

\* The total of one reservation is its amount.
LEMMA TotalSingleton ==
  ASSUME NEW f, NEW i, f[i] \in Nat
  PROVE  Total(f, {i}) = f[i]
<1>1. Units(f, {i}) = {i} \X (1..f[i])
  BY DEF Units
<1>2. IsFiniteSet({i}) /\ Cardinality({i}) = 1
  BY FS_Singleton
<1>3. IsFiniteSet(1..f[i]) /\ Cardinality(1..f[i]) = f[i]
  <2>1. IsFiniteSet(1..f[i]) /\ Cardinality(1..f[i]) = IF 1 > f[i] THEN 0 ELSE f[i] - 1 + 1
    BY FS_Interval
  <2> QED
    BY <2>1
<1>4. Cardinality({i} \X (1..f[i])) = Cardinality({i}) * Cardinality(1..f[i])
  BY <1>2, <1>3, FS_Product, Zenon
<1>5. Cardinality({i} \X (1..f[i])) = 1 * f[i]
  BY <1>2, <1>3, <1>4, Zenon
<1>6. 1 * f[i] = f[i]
  OBVIOUS
<1> QED
  BY <1>1, <1>5, <1>6, Zenon DEF Total

\* The total over two disjoint sets is the sum of their totals.
LEMMA TotalUnion ==
  ASSUME NEW S, NEW T, IsFiniteSet(S), IsFiniteSet(T), S \cap T = {},
         NEW f, \A i \in S \cup T : f[i] \in Nat
  PROVE  Total(f, S \cup T) = Total(f, S) + Total(f, T)
<1>1. Units(f, S \cup T) = Units(f, S) \cup Units(f, T)
  BY DEF Units
<1>2. Units(f, S) \cap Units(f, T) = {}
  <2>1. \A u \in Units(f, S) : u[1] \in S
    BY DEF Units
  <2>2. \A u \in Units(f, T) : u[1] \in T
    BY DEF Units
  <2> QED
    BY <2>1, <2>2
<1>3. IsFiniteSet(Units(f, S)) /\ IsFiniteSet(Units(f, T))
  BY UnitsFinite
<1>4. Cardinality(Units(f, S) \cup Units(f, T))
        = Cardinality(Units(f, S)) + Cardinality(Units(f, T)) - Cardinality({})
  BY <1>2, <1>3, FS_Union
<1>5. Cardinality(Units(f, S)) \in Nat /\ Cardinality(Units(f, T)) \in Nat
  BY <1>3, FS_CardinalityType
<1> QED
  BY <1>1, <1>4, <1>5, FS_EmptySet DEF Total

\* Adding a reservation adds its amount.
LEMMA TotalAdd ==
  ASSUME NEW S, IsFiniteSet(S), NEW i, i \notin S,
         NEW f, \A j \in S \cup {i} : f[j] \in Nat
  PROVE  Total(f, S \cup {i}) = Total(f, S) + f[i]
<1>1. IsFiniteSet({i})
  BY FS_Singleton
<1>2. Total(f, S \cup {i}) = Total(f, S) + Total(f, {i})
  BY <1>1, TotalUnion
<1> QED
  BY <1>2, TotalSingleton

\* Removing a reservation removes its amount, which is part of the total.
LEMMA TotalRemove ==
  ASSUME NEW S, IsFiniteSet(S), NEW i \in S,
         NEW f, \A j \in S : f[j] \in Nat
  PROVE  /\ Total(f, S \ {i}) = Total(f, S) - f[i]
         /\ f[i] <= Total(f, S)
<1>1. IsFiniteSet(S \ {i})
  BY FS_RemoveElement
<1>2. (S \ {i}) \cup {i} = S
  OBVIOUS
<1>3. Total(f, S) = Total(f, S \ {i}) + f[i]
  BY <1>1, <1>2, TotalAdd
<1>4. Total(f, S \ {i}) \in Nat /\ f[i] \in Nat
  BY <1>1, TotalNat
<1> QED
  BY <1>3, <1>4

\* A total depends only on the amounts of the set it ranges over.
LEMMA TotalCong ==
  ASSUME NEW S, NEW f, NEW g, \A i \in S : f[i] = g[i]
  PROVE  Total(f, S) = Total(g, S)
<1>1. Units(f, S) = Units(g, S)
  BY DEF Units
<1> QED
  BY <1>1 DEF Total

\* A part of a set has no more than the total of the set.
LEMMA TotalSubset ==
  ASSUME NEW S, IsFiniteSet(S), NEW T \in SUBSET S,
         NEW f, \A i \in S : f[i] \in Nat
  PROVE  Total(f, T) <= Total(f, S)
<1>1. Units(f, T) \in SUBSET Units(f, S)
  BY DEF Units
<1>2. IsFiniteSet(Units(f, S))
  BY UnitsFinite
<1> QED
  BY <1>1, <1>2, FS_Subset DEF Total

\* The total follows the change of one amount.
LEMMA TotalChange ==
  ASSUME NEW S, IsFiniteSet(S), NEW i \in S,
         NEW f, NEW g, \A j \in S : f[j] \in Nat /\ g[j] \in Nat,
         \A j \in S \ {i} : g[j] = f[j]
  PROVE  Total(g, S) = Total(f, S) - f[i] + g[i]
<1>1. Total(f, S \ {i}) = Total(f, S) - f[i] /\ Total(g, S \ {i}) = Total(g, S) - g[i]
  BY TotalRemove
<1>2. Total(g, S \ {i}) = Total(f, S \ {i})
  BY TotalCong
<1>3. Total(f, S) \in Nat /\ Total(g, S) \in Nat /\ f[i] \in Nat /\ g[i] \in Nat
  BY TotalNat
<1> QED
  BY <1>1, <1>2, <1>3
\* A total over an interval grows with it.
LEMMA TotalUpTo ==
  ASSUME NEW f, NEW n \in Nat, \A i \in 1..n : f[i] \in Nat
  PROVE  /\ Total(f, 1..n) \in Nat
         /\ f[n + 1] \in Nat => Total(f, 1..(n + 1)) = Total(f, 1..n) + f[n + 1]
<1> DEFINE S == 1..n
           j == n + 1
<1>1. IsFiniteSet(S)
  BY FS_Interval
<1>2. 1..(n + 1) = S \cup {j} /\ j \notin S
  OBVIOUS
<1> HIDE DEF S, j
<1>3. \A i \in S : f[i] \in Nat
  BY DEF S
<1>4. Total(f, S) \in Nat
  BY <1>1, <1>3, TotalNat
<1>5. ASSUME f[j] \in Nat PROVE Total(f, S \cup {j}) = Total(f, S) + f[j]
  <2>1. \A i \in S \cup {j} : f[i] \in Nat
    BY <1>3, <1>5
  <2> QED
    BY <1>1, <1>2, <2>1, TotalAdd
<1> QED
  BY <1>2, <1>4, <1>5 DEF S, j

\* Induction over the natural numbers, for a set.
LEMMA SetInduction ==
  ASSUME NEW S, 0 \in S, \A n \in Nat : n \in S => n + 1 \in S,
         NEW n \in Nat
  PROVE  n \in S
<1> SUFFICES ASSUME n \notin S PROVE FALSE
  OBVIOUS
<1> DEFINE T == {i \in 0..n : i \in S}
           g == [i \in T |-> i + 1]
<1>1. IsFiniteSet(T)
  <2>1. IsFiniteSet(0..n)
    BY FS_Interval
  <2> QED
    BY <2>1, FS_Subset
<1>2. 0 \in T
  OBVIOUS
<1>3. \A i \in T : i + 1 \in T \ {0}
  OBVIOUS
<1>4. g \in Injection(T, T \ {0})
  <2>1. g \in [T -> T \ {0}]
    BY <1>3
  <2>2. \A i, j \in T : g[i] = g[j] => i = j
    OBVIOUS
  <2> QED
    BY <2>1, <2>2 DEF Injection, IsInjective
<1>5. IsFiniteSet(T \ {0}) /\ Cardinality(T \ {0}) = Cardinality(T) - 1
  BY <1>1, <1>2, FS_RemoveElement
<1>6. Cardinality(T) \in Nat
  BY <1>1, FS_CardinalityType
<1>7. Cardinality(T) <= Cardinality(T \ {0})
  BY <1>4, <1>5, FS_Injection
<1> QED
  BY <1>5, <1>6, <1>7
=============================================================================
