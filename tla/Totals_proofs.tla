---------------------------- MODULE Totals_proofs ----------------------------
(***************************************************************************)
(* What crediting or debiting one account does to a total, and that an     *)
(* amount shifted right by more halvings never grows.                      *)
(***************************************************************************)
EXTENDS Totals, FiniteSetTheorems, Functions, FunctionTheorems, TLAPS

\* The seeds of finitely many accounts are finitely many.
LEMMA UnitsFinite ==
  ASSUME NEW S, IsFiniteSet(S), NEW f \in [S -> Nat]
  PROVE  IsFiniteSet(Units(f, S))
<1> DEFINE block == [a \in S |-> {a} \X (1..f[a])]
           Blocks == {{a} \X (1..f[a]) : a \in S}
<1>1. block \in Surjection(S, Blocks)
  <2>1. block \in [S -> Blocks]
    OBVIOUS
  <2>2. \A t \in Blocks : \E a \in S : block[a] = t
    OBVIOUS
  <2> QED BY <2>1, <2>2, Fun_IsSurj
<1>2. IsFiniteSet(Blocks)
  <2> HIDE DEF block, Blocks
  <2> QED BY <1>1, FS_Surjection
<1>3. ASSUME NEW T \in Blocks PROVE IsFiniteSet(T)
  <2>1. PICK a \in S : T = {a} \X (1..f[a])
    OBVIOUS
  <2>2. IsFiniteSet({a})
    BY FS_Singleton
  <2>3. 1 \in Int /\ f[a] \in Int
    OBVIOUS
  <2>4. IsFiniteSet(1..f[a])
    BY <2>3, FS_Interval
  <2> QED BY <2>1, <2>2, <2>4, FS_Product
<1> HIDE DEF Blocks
<1>4. IsFiniteSet(UNION Blocks)
  BY <1>2, <1>3, FS_UNION
<1> QED BY <1>4 DEF Units, Blocks

\* A total is a natural number.
LEMMA TotalNat ==
  ASSUME NEW S, IsFiniteSet(S), NEW f \in [S -> Nat]
  PROVE  Total(f, S) \in Nat
BY UnitsFinite, FS_CardinalityType DEF Total

\* A total splits into one account and the others.
LEMMA TotalSplit ==
  ASSUME NEW S, IsFiniteSet(S), NEW f \in [S -> Nat], NEW a \in S
  PROVE  Total(f, S) = Total(f, S \ {a}) + f[a]
<1> DEFINE R == Units(f, S \ {a})
           A == {a} \X (1..f[a])
<1>1. Units(f, S) = R \cup A
  BY DEF Units
<1>2. R \cap A = {}
  BY DEF Units
<1>3. IsFiniteSet(A) /\ Cardinality(A) = f[a]
  <2>1. IsFiniteSet({a}) /\ Cardinality({a}) = 1
    BY FS_Singleton
  <2>2. IsFiniteSet(1..f[a]) /\ Cardinality(1..f[a]) = f[a]
    BY FS_Interval
  <2> DEFINE U == {a}
             I == 1..f[a]
  <2>3. IsFiniteSet(U \X I) /\ Cardinality(U \X I) = Cardinality(U) * Cardinality(I)
    <3> HIDE DEF U, I
    <3>1. IsFiniteSet(U) /\ IsFiniteSet(I)
      BY <2>1, <2>2 DEF U, I
    <3> QED BY <3>1, FS_Product
  <2>4. f[a] \in Nat /\ Cardinality(U) = 1 /\ Cardinality(I) = f[a]
    BY <2>1, <2>2
  <2> HIDE DEF U, I
  <2>5. IsFiniteSet(U \X I) /\ Cardinality(U \X I) = f[a]
    BY <2>3, <2>4
  <2> QED BY <2>5 DEF U, I
<1>4. IsFiniteSet(R)
  <2>1. IsFiniteSet(Units(f, S))
    BY UnitsFinite
  <2> QED BY <1>1, <2>1, FS_Subset
<1>5. Cardinality(R \cup A)
        = Cardinality(R) + Cardinality(A) - Cardinality(R \cap A)
  <2> HIDE DEF R, A
  <2> QED BY <1>3, <1>4, FS_Union
<1>6. Cardinality(R \cap A) = 0
  BY <1>2, FS_EmptySet
<1>7. Cardinality(R) \in Nat
  BY <1>4, FS_CardinalityType
<1> QED BY <1>1, <1>3, <1>5, <1>6, <1>7 DEF Total

\* The total of the others is a natural number too.
LEMMA RestNat ==
  ASSUME NEW S, IsFiniteSet(S), NEW f \in [S -> Nat], NEW a \in S
  PROVE  Total(f, S \ {a}) \in Nat
<1>1. IsFiniteSet(Units(f, S))
  BY UnitsFinite
<1>2. Units(f, S \ {a}) \subseteq Units(f, S)
  BY DEF Units
<1>3. IsFiniteSet(Units(f, S \ {a}))
  BY <1>1, <1>2, FS_Subset
<1> QED BY <1>3, FS_CardinalityType DEF Total

\* Changing one account changes the total by what that account gained.
LEMMA TotalUpdate ==
  ASSUME NEW S, IsFiniteSet(S), NEW f \in [S -> Nat], NEW g \in [S -> Nat],
         NEW a \in S, \A x \in S \ {a} : g[x] = f[x]
  PROVE  Total(g, S) = Total(f, S) - f[a] + g[a]
<1>1. Units(g, S \ {a}) = Units(f, S \ {a})
  BY DEF Units
<1>2. Total(g, S) = Total(g, S \ {a}) + g[a]
  BY TotalSplit
<1>3. Total(f, S) = Total(f, S \ {a}) + f[a]
  BY TotalSplit
<1>4. Total(g, S \ {a}) = Total(f, S \ {a})
  BY <1>1 DEF Total
<1>5. Total(f, S \ {a}) \in Nat
  BY RestNat
<1> QED BY <1>2, <1>3, <1>4, <1>5

\* Who holds no more anywhere holds no more in total.
LEMMA TotalMonotone ==
  ASSUME NEW S, IsFiniteSet(S), NEW f \in [S -> Nat], NEW g \in [S -> Nat],
         \A a \in S : f[a] <= g[a]
  PROVE  Total(f, S) <= Total(g, S)
<1>1. IsFiniteSet(Units(g, S))
  BY UnitsFinite
<1>2. ASSUME NEW a \in S PROVE 1..f[a] \subseteq 1..g[a]
  <2>1. f[a] \in Nat /\ g[a] \in Nat /\ f[a] <= g[a]
    OBVIOUS
  <2> QED BY <2>1
<1>3. Units(f, S) \subseteq Units(g, S)
  BY <1>2 DEF Units
<1> QED BY <1>1, <1>3, FS_Subset DEF Total

\* One seed more somewhere and no less anywhere is at least one more in total.
LEMMA TotalStrict ==
  ASSUME NEW S, IsFiniteSet(S), NEW f \in [S -> Nat], NEW g \in [S -> Nat],
         \A x \in S : f[x] <= g[x], NEW a \in S, f[a] + 1 <= g[a]
  PROVE  Total(f, S) + 1 <= Total(g, S)
<1> DEFINE h == [g EXCEPT ![a] = f[a]]
<1>1. h \in [S -> Nat] /\ h[a] = f[a] /\ \A x \in S \ {a} : h[x] = g[x]
  OBVIOUS
<1>2. \A x \in S : f[x] <= h[x]
  OBVIOUS
<1> HIDE DEF h
<1>3. Total(h, S) = Total(g, S) - g[a] + h[a]
  BY <1>1, TotalUpdate
<1>4. Total(f, S) <= Total(h, S)
  BY <1>1, <1>2, TotalMonotone
<1>5. Total(f, S) \in Nat /\ Total(g, S) \in Nat /\ f[a] \in Nat /\ g[a] \in Nat
  BY TotalNat
<1>6. Total(h, S) + 1 <= Total(g, S) /\ Total(h, S) \in Int
  BY <1>1, <1>3, <1>5
<1> QED BY <1>4, <1>5, <1>6

\* One account holds no more than all of them together.
LEMMA TotalBound ==
  ASSUME NEW S, IsFiniteSet(S), NEW f \in [S -> Nat], NEW a \in S
  PROVE  f[a] <= Total(f, S)
<1>1. Total(f, S) = Total(f, S \ {a}) + f[a]
  BY TotalSplit
<1>2. Total(f, S \ {a}) \in Nat
  BY RestNat
<1> QED BY <1>1, <1>2

\* Nobody holds anything: the total is zero.
LEMMA TotalZero ==
  ASSUME NEW S, NEW f, \A a \in S : f[a] = 0
  PROVE  Total(f, S) = 0
<1>1. Units(f, S) = {}
  BY DEF Units
<1> QED BY <1>1, FS_EmptySet DEF Total

\* Shifting right never leaves the naturals and never grows the value.
LEMMA ShiftRightBound ==
  ASSUME NEW x \in Nat, NEW k
  PROVE  ShiftRight(x, k) \in 0..x
<1> DEFINE M == {i \in 1..x : i * 2^k <= x}
<1>1. IsFiniteSet(1..x) /\ Cardinality(1..x) = x
  BY FS_Interval
<1>2. IsFiniteSet(M) /\ Cardinality(M) <= Cardinality(1..x)
  BY <1>1, FS_Subset
<1>3. Cardinality(M) \in Nat
  BY <1>2, FS_CardinalityType
<1> QED BY <1>1, <1>2, <1>3 DEF ShiftRight

\* A sum over fewer entries is no larger.
LEMMA TotalSubset ==
  ASSUME NEW S, IsFiniteSet(S), NEW f \in [S -> Nat], NEW R \in SUBSET S
  PROVE  Total(f, R) \in Nat /\ Total(f, R) <= Total(f, S)
<1>1. IsFiniteSet(Units(f, S))
  BY UnitsFinite
<1>2. Units(f, R) \subseteq Units(f, S)
  BY DEF Units
<1>3. IsFiniteSet(Units(f, R))
  BY <1>1, <1>2, FS_Subset
<1> QED BY <1>1, <1>2, <1>3, FS_Subset, FS_CardinalityType DEF Total

\* 2^k is a number and grows with k, as the subsets of 1..k do.
LEMMA PowerGrows ==
  ASSUME NEW j \in Nat, NEW k \in Nat, j <= k
  PROVE  2^j \in Nat /\ 2^k \in Nat /\ 2^j <= 2^k
<1>1. /\ IsFiniteSet(1..j) /\ Cardinality(1..j) = j
      /\ IsFiniteSet(1..k) /\ Cardinality(1..k) = k
  BY FS_Interval
<1>2. /\ IsFiniteSet(SUBSET (1..j)) /\ Cardinality(SUBSET (1..j)) = 2^j
      /\ IsFiniteSet(SUBSET (1..k)) /\ Cardinality(SUBSET (1..k)) = 2^k
  BY <1>1, FS_SUBSET
<1>3. SUBSET (1..j) \subseteq SUBSET (1..k)
  <2>1. 1..j \subseteq 1..k
    OBVIOUS
  <2> QED BY <2>1
<1> QED BY <1>2, <1>3, FS_Subset, FS_CardinalityType

\* What is halved more often is no larger.
LEMMA ShiftRightFalls ==
  ASSUME NEW x \in Nat, NEW j \in Nat, NEW k \in Nat, j <= k
  PROVE  ShiftRight(x, k) <= ShiftRight(x, j)
<1> DEFINE p == 2^j
           q == 2^k
           P == {i \in 1..x : i * p <= x}
           Q == {i \in 1..x : i * q <= x}
<1>1. p \in Nat /\ q \in Nat /\ p <= q
  BY PowerGrows
<1>2. ASSUME NEW i \in Q PROVE i \in P
  <2>1. i \in 1..x /\ i * q <= x
    BY DEF Q
  <2> HIDE DEF p, q
  <2>2. i * p <= i * q
    <3>1. PICK d \in Nat : q = p + d
      <4>1. q - p \in Nat /\ q = p + (q - p)
        BY <1>1
      <4> QED BY <4>1
    <3>2. i * q = i * p + i * d /\ i * d \in Nat /\ i * p \in Nat
      BY <1>1, <2>1, <3>1
    <3> QED BY <3>2
  <2>3. i * p \in Int /\ i * q \in Int
    BY <1>1, <2>1
  <2> QED BY <2>1, <2>2, <2>3 DEF P
<1>3. IsFiniteSet(P)
  <2>1. IsFiniteSet(1..x)
    BY FS_Interval
  <2> QED BY <2>1, FS_Subset
<1>4. Cardinality(Q) <= Cardinality(P)
  <2> HIDE DEF P, Q
  <2> QED BY <1>2, <1>3, FS_Subset
<1> QED BY <1>4 DEF ShiftRight

\* Dividing keeps the order.
LEMMA DivGrows ==
  ASSUME NEW n \in Nat, NEW m \in Nat, n <= m, NEW d \in Nat \ {0}
  PROVE  n \div d \in Nat /\ m \div d \in Nat /\ n \div d <= m \div d
<1> DEFINE a == n \div d
           b == m \div d
<1>1. /\ a \in Nat /\ b \in Nat
      /\ a * d <= n /\ m < b * d + d
  OBVIOUS
<1> HIDE DEF a, b
<1>2. ASSUME b + 1 <= a PROVE FALSE
  <2>1. PICK e \in Nat : a = b + 1 + e
    <3>1. a - (b + 1) \in Nat /\ a = b + 1 + (a - (b + 1))
      BY <1>1, <1>2
    <3> QED BY <3>1
  <2>2. a * d = b * d + d + e * d /\ e * d \in Nat /\ b * d \in Nat
    BY <1>1, <2>1
  <2> QED BY <1>1, <2>2
<1> QED BY <1>1, <1>2 DEF a, b
=============================================================================
