------------------------------ MODULE SumTheorems ------------------------------
(* What the proofs need of Sum: it is a natural number, a change at one     *)
(* point changes it by the difference, and it is monotone.                  *)
EXTENDS Sums, FiniteSetTheorems, TLAPS

\* One row of units: f[x] of them.
LEMMA RowSize ==
  ASSUME NEW x, NEW n \in Nat
  PROVE  IsFiniteSet({x} \X (1 .. n)) /\ Cardinality({x} \X (1 .. n)) = n
<1>1. IsFiniteSet({x}) /\ Cardinality({x}) = 1
  BY FS_Singleton
<1>2. IsFiniteSet(1 .. n) /\ Cardinality(1 .. n) = n
  BY FS_Interval
<1>3. /\ IsFiniteSet({x} \X (1 .. n))
      /\ Cardinality({x} \X (1 .. n)) = Cardinality({x}) * Cardinality(1 .. n)
  BY <1>1, <1>2, FS_Product
<1> QED
  BY <1>1, <1>2, <1>3

\* A natural function on a finite set has finitely many units.
LEMMA UnitsFinite ==
  ASSUME NEW S, IsFiniteSet(S), NEW f \in [S -> Nat]
  PROVE  IsFiniteSet(Units(f))
<1> DEFINE Row(x) == {x} \X (1 .. f[x])
           rows == {Row(x) : x \in S}
<1>1. IsFiniteSet(rows)
  <2> DEFINE g == [x \in S |-> Row(x)]
  <2>1. g \in Surjection(S, rows)
    BY DEF Surjection
  <2> QED
    BY <2>1, FS_Surjection
<1>2. \A r \in rows : IsFiniteSet(r)
  <2>1. ASSUME NEW x \in S PROVE IsFiniteSet(Row(x))
    <3>1. f[x] \in Nat
      OBVIOUS
    <3> QED
      BY <3>1, RowSize
  <2> QED
    BY <2>1
<1>3. Units(f) = UNION rows
  BY DEF Units
<1> QED
  BY <1>1, <1>2, <1>3, FS_UNION

\* A sum is a natural number.
LEMMA SumType ==
  ASSUME NEW S, IsFiniteSet(S), NEW f \in [S -> Nat]
  PROVE  Sum(f) \in Nat
BY UnitsFinite, FS_CardinalityType DEF Sum

\* The units of f are the row of y and the units of the others.
LEMMA SumSplit ==
  ASSUME NEW S, IsFiniteSet(S), NEW f \in [S -> Nat], NEW y \in S
  PROVE  /\ IsFiniteSet(Units(f) \ ({y} \X Nat))
         /\ Cardinality(Units(f) \ ({y} \X Nat)) \in Nat
         /\ Sum(f) = Cardinality(Units(f) \ ({y} \X Nat)) + f[y]
<1> DEFINE row == {y} \X (1 .. f[y])
           rest == Units(f) \ ({y} \X Nat)
<1>1. IsFiniteSet(rest)
  BY UnitsFinite, FS_Subset
<1>2. IsFiniteSet(row) /\ Cardinality(row) = f[y]
  BY RowSize
<1>3. Units(f) = rest \cup row
  BY DEF Units
<1>4. rest \cap row = {}
  OBVIOUS
<1>5. Cardinality(rest \cup row) = Cardinality(rest) + Cardinality(row) - Cardinality(rest \cap row)
  BY <1>1, <1>2, FS_Union
<1>6. Cardinality(rest) \in Nat /\ Cardinality({}) = 0
  BY <1>1, FS_CardinalityType, FS_EmptySet
<1> HIDE DEF rest, row
<1>7. Sum(f) = Cardinality(rest) + f[y]
  <2>1. Sum(f) = Cardinality(rest \cup row)
    BY <1>3 DEF Sum
  <2>2. Sum(f) = Cardinality(rest) + f[y] - 0
    BY <2>1, <1>2, <1>4, <1>5, <1>6
  <2>3. f[y] \in Nat
    OBVIOUS
  <2> QED
    BY <2>2, <2>3, <1>6
<1> QED
  BY <1>1, <1>6, <1>7 DEF rest

\* A change at one point.
LEMMA SumUpdate ==
  ASSUME NEW S, IsFiniteSet(S), NEW f \in [S -> Nat], NEW g \in [S -> Nat], NEW y \in S,
         \A x \in S \ {y} : g[x] = f[x]
  PROVE  Sum(g) = Sum(f) - f[y] + g[y]
<1>1. Units(f) \ ({y} \X Nat) = Units(g) \ ({y} \X Nat)
  BY DEF Units
<1>2. /\ Cardinality(Units(f) \ ({y} \X Nat)) \in Nat
      /\ Sum(f) = Cardinality(Units(f) \ ({y} \X Nat)) + f[y]
  BY SumSplit
<1>3. Sum(g) = Cardinality(Units(g) \ ({y} \X Nat)) + g[y]
  BY SumSplit
<1>4. Sum(g) = Cardinality(Units(f) \ ({y} \X Nat)) + g[y]
  BY <1>1, <1>3
<1>5. f[y] \in Nat /\ g[y] \in Nat
  OBVIOUS
<1> QED
  BY <1>2, <1>4, <1>5

\* The sum of the zero function is zero.
LEMMA SumZero ==
  ASSUME NEW S
  PROVE  Sum([x \in S |-> 0]) = 0
<1>1. Units([x \in S |-> 0]) = {}
  BY DEF Units
<1> QED
  BY <1>1, FS_EmptySet DEF Sum

\* A pointwise smaller function has a smaller sum.
LEMMA SumMonotone ==
  ASSUME NEW S, IsFiniteSet(S), NEW f \in [S -> Nat], NEW g \in [S -> Nat],
         \A x \in S : f[x] <= g[x]
  PROVE  Sum(f) <= Sum(g)
<1>1. Units(f) \subseteq Units(g)
  BY DEF Units
<1> QED
  BY <1>1, UnitsFinite, FS_Subset DEF Sum
================================================================================
