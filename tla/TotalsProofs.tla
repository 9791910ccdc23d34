----------------------------- MODULE TotalsProofs -----------------------------
(***************************************************************************)
(* What the proofs about sums rest on: a total is a natural number, it     *)
(* changes with one summand by as much as that summand changes, and it is  *)
(* bounded by (number of summands that count) * (their bound).             *)
(***************************************************************************)
EXTENDS Totals, FiniteSetTheorems, TLAPS

\* The units of one summand are as many as its value.
LEMMA UnitsOfCardinality ==
  ASSUME NEW x, NEW n \in Nat
  PROVE  IsFiniteSet(UnitsOf(x, n)) /\ Cardinality(UnitsOf(x, n)) = n
<1>1. IsFiniteSet({x}) /\ Cardinality({x}) = 1
  BY FS_Singleton
<1>2. IsFiniteSet(1 .. n) /\ Cardinality(1 .. n) = n
  BY FS_Interval
<1>3. IsFiniteSet({x} \X (1 .. n)) /\ Cardinality({x} \X (1 .. n)) = 1 * n
  BY <1>1, <1>2, FS_Product
<1> QED
  BY <1>3 DEF UnitsOf

\* Membership in the units of a family.
LEMMA UnitsMember ==
  ASSUME NEW f, NEW S, NEW p
  PROVE  p \in Units(f, S) <=> \E x \in S : p \in UnitsOf(x, f[x])
BY Zenon DEF Units

\* Finitely many natural summands have a natural total.
LEMMA TotalType ==
  ASSUME NEW S, IsFiniteSet(S), NEW f \in [S -> Nat], NEW T \in SUBSET S
  PROVE  IsFiniteSet(Units(f, T)) /\ Total(f, T) \in Nat
<1> DEFINE F == [x \in S |-> UnitsOf(x, f[x])]
           I == {UnitsOf(x, f[x]) : x \in T}
<1>1. IsFiniteSet(T)
  BY FS_Subset
<1>2. IsFiniteSet(I)
  <2> DEFINE G == [x \in T |-> UnitsOf(x, f[x])]
  <2>1. G \in Surjection(T, I)
    BY DEF Surjection
  <2> QED
    BY <1>1, <2>1, FS_Surjection
<1>3. \A U \in I : IsFiniteSet(U)
  BY UnitsOfCardinality
<1>4. IsFiniteSet(Units(f, T))
  BY <1>2, <1>3, FS_UNION DEF Units
<1> QED
  BY <1>4, FS_CardinalityType DEF Total

\* One summand taken apart from the others.
LEMMA TotalSplit ==
  ASSUME NEW S, IsFiniteSet(S), NEW f \in [S -> Nat], NEW x \in S
  PROVE  Total(f, S) = Total(f, S \ {x}) + f[x]
<1> DEFINE A == Units(f, S \ {x})
           B == UnitsOf(x, f[x])
<1>1. Units(f, S) = A \cup B
  <2>1. ASSUME NEW p PROVE p \in Units(f, S) <=> p \in A \cup B
    BY UnitsMember, Zenon
  <2> QED
    BY <2>1
<1>2. A \cap B = {}
  BY UnitsMember DEF UnitsOf
<1>3. IsFiniteSet(A)
  BY TotalType
<1>4. IsFiniteSet(B) /\ Cardinality(B) = f[x]
  BY UnitsOfCardinality
<1>5. Cardinality(A \cup B) = Cardinality(A) + Cardinality(B) - Cardinality(A \cap B)
  BY <1>3, <1>4, FS_Union
<1>6. Cardinality(A \cap B) = 0
  BY <1>2, FS_EmptySet
<1>7. Cardinality(A) \in Nat
  BY <1>3, FS_CardinalityType
<1> QED
  BY <1>1, <1>4, <1>5, <1>6, <1>7 DEF Total

\* Two families that agree on S have the same total over S.
LEMMA TotalCongruence ==
  ASSUME NEW S, NEW f, NEW g, \A x \in S : f[x] = g[x]
  PROVE  Total(f, S) = Total(g, S)
<1>1. \A p : p \in Units(f, S) <=> p \in Units(g, S)
  BY UnitsMember
<1> QED
  BY <1>1 DEF Total

\* A total changes with one summand by as much as that summand changes.
LEMMA TotalUpdate ==
  ASSUME NEW S, IsFiniteSet(S), NEW f \in [S -> Nat], NEW g \in [S -> Nat],
         NEW x \in S, \A y \in S \ {x} : g[y] = f[y]
  PROVE  /\ Total(f, S) \in Nat
         /\ Total(g, S) \in Nat
         /\ Total(g, S) = Total(f, S) - f[x] + g[x]
<1>1. Total(f, S \ {x}) = Total(g, S \ {x})
  BY TotalCongruence
<1>2. Total(f, S \ {x}) \in Nat /\ Total(f, S) \in Nat /\ Total(g, S) \in Nat
  BY TotalType
<1> QED
  BY <1>1, <1>2, TotalSplit

\* A total grows with its summands.
LEMMA TotalMonotone ==
  ASSUME NEW S, IsFiniteSet(S), NEW f \in [S -> Nat], NEW g \in [S -> Nat],
         \A x \in S : f[x] <= g[x]
  PROVE  /\ Total(f, S) \in Nat /\ Total(g, S) \in Nat
         /\ Total(f, S) <= Total(g, S)
<1>1. Units(f, S) \subseteq Units(g, S)
  <2> SUFFICES ASSUME NEW x \in S, NEW i \in 1 .. f[x]
               PROVE  i \in 1 .. g[x]
    BY UnitsMember DEF UnitsOf
  <2>1. f[x] \in Nat /\ g[x] \in Nat /\ f[x] <= g[x]
    OBVIOUS
  <2> QED
    BY <2>1
<1>2. IsFiniteSet(Units(g, S)) /\ Total(f, S) \in Nat /\ Total(g, S) \in Nat
  BY TotalType
<1> QED
  BY <1>1, <1>2, FS_Subset DEF Total

\* The total of a family of zeros.
LEMMA TotalZero ==
  ASSUME NEW S, NEW f, \A x \in S : f[x] = 0
  PROVE  Total(f, S) = 0
<1>1. Units(f, S) = {}
  <2>1. \A p : p \notin Units(f, S)
    BY UnitsMember DEF UnitsOf
  <2> QED
    BY <2>1
<1> QED
  BY <1>1, FS_EmptySet DEF Total

\* Summands of at most m, none outside P, total at most |P| * m.
LEMMA TotalBound ==
  ASSUME NEW S, IsFiniteSet(S), NEW f \in [S -> Nat], NEW m \in Nat,
         NEW P \in SUBSET S, NEW k \in Nat, Cardinality(P) <= k,
         \A x \in S : f[x] <= m, \A x \in S \ P : f[x] = 0
  PROVE  Total(f, S) <= k * m
<1>1. IsFiniteSet(P)
  BY FS_Subset
<1>2. IsFiniteSet(1 .. m) /\ Cardinality(1 .. m) = m
  BY FS_Interval
<1>3. IsFiniteSet(P \X (1 .. m)) /\ Cardinality(P \X (1 .. m)) = Cardinality(P) * m
  BY <1>1, <1>2, FS_Product
<1>4. Units(f, S) \subseteq P \X (1 .. m)
  BY UnitsMember DEF UnitsOf
<1>5. Cardinality(Units(f, S)) <= Cardinality(P) * m
  BY <1>3, <1>4, FS_Subset
<1>6. Cardinality(P) \in Nat
  BY <1>1, FS_CardinalityType
<1>7. Cardinality(P) * m <= k * m
  BY <1>6
<1>8. Total(f, S) \in Nat /\ Cardinality(P) * m \in Nat /\ k * m \in Nat
  BY <1>6, TotalType
<1> QED
  BY <1>5, <1>7, <1>8 DEF Total
===============================================================================
