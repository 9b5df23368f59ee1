--------------------------- MODULE OrderingProofs ---------------------------
(***************************************************************************)
(* Upwards lists each number of a finite set once, and nothing else, in    *)
(* their order; and it is the only such list.  And a set of numbers has a  *)
(* least one.                                                              *)
(***************************************************************************)
EXTENDS Ordering, FiniteSetTheorems, WellFoundedInduction, TLAPS

(* Numbers have a least one: what fails for any of them fails first for    *)
(* one, which is how a proof by induction is done here.                    *)
LEMMA LeastOfNats ==
    ASSUME NEW T \in SUBSET Nat, T # {}
    PROVE  \E n \in T : \A m \in T : n <= m
<1>1. PICK n \in T : \A m \in T : ~ (<<m, n>> \in OpToRel(<, Nat))
    BY NatLessThanWellFounded, WFMin
<1>2. \A m \in T : ~(m < n)
    BY <1>1 DEF OpToRel
<1>3. QED BY <1>2

-----------------------------------------------------------------------------
(* A greater element has a greater rank.                                   *)
LEMMA RankGrows ==
    ASSUME NEW S \in SUBSET Int, IsFiniteSet(S), NEW i \in S, NEW j \in S
    PROVE  /\ Rank(S, i) \in 1..Cardinality(S)
           /\ i < j => Rank(S, i) < Rank(S, j)
<1> DEFINE upTo(k) == {m \in S : m <= k}
<1>1. \A k \in S : IsFiniteSet(upTo(k)) /\ Cardinality(upTo(k)) \in Nat /\ Cardinality(upTo(k)) <= Cardinality(S)
    BY FS_Subset, FS_CardinalityType
<1>2. Cardinality(S) \in Nat
    BY FS_CardinalityType
<1>3. upTo(i) # {}
    OBVIOUS
<1>4. Cardinality(upTo(i)) # 0
    BY <1>1, <1>3, FS_EmptySet
<1>5. ASSUME i < j PROVE Cardinality(upTo(i)) < Cardinality(upTo(j))
  <2>1. \A m \in S : m <= i => m <= j
    <3>1. ASSUME NEW m \in S PROVE m <= i => m <= j
      <4>1. m \in Int /\ i \in Int /\ j \in Int
          OBVIOUS
      <4>2. QED BY <1>5, <4>1
    <3>2. QED BY <3>1
  <2>2. i \in Int /\ j \in Int /\ ~(j <= i) /\ j <= j
      BY <1>5
  <2>3. upTo(i) \in SUBSET upTo(j) /\ upTo(i) # upTo(j)
      BY <2>1, <2>2
  <2>4. QED BY <1>1, <2>3, FS_Subset
<1>6. QED BY <1>1, <1>2, <1>4, <1>5 DEF Rank

(* Every rank is that of some element.                                     *)
LEMMA EachHasItsRank ==
    ASSUME NEW S \in SUBSET Int, IsFiniteSet(S), NEW k \in 1..Cardinality(S)
    PROVE  \E i \in S : Rank(S, i) = k
<1> DEFINE n == Cardinality(S)
           f == [i \in S |-> Rank(S, i)]
<1>1. n \in Nat
    BY FS_CardinalityType
<1>2. f \in [S -> 1..n]
    BY RankGrows
<1>3. \A i, j \in S : f[i] = f[j] => i = j
  <2>1. ASSUME NEW i \in S, NEW j \in S, f[i] = f[j], i # j PROVE FALSE
    <3>1. i < j \/ j < i
        BY <2>1
    <3>2. Rank(S, i) < Rank(S, j) \/ Rank(S, j) < Rank(S, i)
        BY <3>1, RankGrows
    <3>3. Rank(S, i) \in Int /\ Rank(S, j) \in Int
        BY <1>1, RankGrows
    <3>4. QED BY <2>1, <3>2, <3>3
  <2>2. QED BY <2>1
<1>4. f \in Injection(S, 1..n)
    BY <1>2, <1>3 DEF Injection, IsInjective
<1>5. IsFiniteSet(1..n) /\ Cardinality(1..n) = n
    BY <1>1, FS_Interval
<1>6. f \in Surjection(S, 1..n)
    BY <1>4, <1>5, FS_Injection
<1>7. QED BY <1>6 DEF Surjection

(* Upwards lists the set upwards.                                          *)
LEMMA OrderIsUp ==
    ASSUME NEW S \in SUBSET Int, IsFiniteSet(S)
    PROVE  /\ Cardinality(S) \in Nat
           /\ Upwards(S) \in [1..Cardinality(S) -> S]
           /\ \A k \in 1..Cardinality(S) : Rank(S, Upwards(S)[k]) = k
           /\ \A i \in S : Rank(S, i) \in 1..Cardinality(S) /\ Upwards(S)[Rank(S, i)] = i
<1>1. Cardinality(S) \in Nat
    BY FS_CardinalityType
<1>2. ASSUME NEW k \in 1..Cardinality(S)
      PROVE  Upwards(S)[k] \in S /\ Rank(S, Upwards(S)[k]) = k
    BY EachHasItsRank DEF Upwards
<1>3. ASSUME NEW i \in S, NEW j \in S, Rank(S, i) = Rank(S, j) PROVE i = j
  <2>1. Rank(S, i) \in Int /\ Rank(S, j) \in Int
      BY <1>1, RankGrows
  <2>2. ~(i < j) /\ ~(j < i)
      BY <1>3, <2>1, RankGrows
  <2>3. QED BY <2>2
<1>4. ASSUME NEW i \in S
      PROVE  Rank(S, i) \in 1..Cardinality(S) /\ Upwards(S)[Rank(S, i)] = i
  <2>1. Rank(S, i) \in 1..Cardinality(S)
      BY RankGrows
  <2>2. QED BY <1>2, <1>3, <2>1
<1>5. Upwards(S) \in [1..Cardinality(S) -> S]
    BY <1>2 DEF Upwards
<1>6. QED BY <1>1, <1>2, <1>4, <1>5

(* The order is strict.                                                    *)
LEMMA OrderGrows ==
    ASSUME NEW S \in SUBSET Int, IsFiniteSet(S),
           NEW k \in 1..Cardinality(S), NEW l \in 1..Cardinality(S), k < l
    PROVE  Upwards(S)[k] < Upwards(S)[l]
<1> DEFINE a == Upwards(S)[k]
           b == Upwards(S)[l]
<1>1. a \in S /\ b \in S /\ Rank(S, a) = k /\ Rank(S, b) = l
    BY OrderIsUp
<1>2. a = b => k = l
    BY <1>1
<1>3. b < a => l < k
    BY <1>1, RankGrows
<1>4. a \in Int /\ b \in Int
    BY <1>1
<1> HIDE DEF a, b
<1>5. a < b
    BY <1>2, <1>3, <1>4
<1>6. QED BY <1>5 DEF a, b

(* Whatever lists the set upwards is that order.                           *)
LEMMA OrderIsUnique ==
    ASSUME NEW S \in SUBSET Int, NEW n \in Nat, NEW f \in [1..n -> S],
           \A i \in S : \E k \in 1..n : f[k] = i,
           \A k, l \in 1..n : k < l => f[k] < f[l]
    PROVE  IsFiniteSet(S) /\ Cardinality(S) = n /\ Upwards(S) = f
<1>1. \A k, l \in 1..n : f[k] = f[l] => k = l
  <2>1. ASSUME NEW k \in 1..n, NEW l \in 1..n, f[k] = f[l], k # l PROVE FALSE
    <3>1. k < l \/ l < k
        BY <2>1
    <3>2. f[k] < f[l] \/ f[l] < f[k]
        BY <3>1
    <3>3. f[k] \in Int /\ f[l] \in Int
        OBVIOUS
    <3>4. QED BY <2>1, <3>2, <3>3
  <2>2. QED BY <2>1
<1>2. f \in Bijection(1..n, S)
    BY <1>1 DEF Bijection, Injection, Surjection, IsInjective
<1>3. ExistsBijection(1..n, S)
    BY <1>2 DEF ExistsBijection
<1>4. IsFiniteSet(S) /\ Cardinality(S) = n
    BY <1>3, FS_CountingElements, FS_NatBijection
<1>5. ASSUME NEW k \in 1..n PROVE Rank(S, f[k]) = k
  <2> DEFINE T == {j \in S : j <= f[k]}
             g == [l \in 1..k |-> f[l]]
  <2>1. \A l \in 1..k : l \in 1..n /\ f[l] <= f[k]
    <3>1. ASSUME NEW l \in 1..k PROVE l \in 1..n /\ f[l] <= f[k]
      <4>1. l \in 1..n /\ (l < k \/ l = k)
          BY <1>5
      <4>2. f[l] \in Int /\ f[k] \in Int
          BY <4>1
      <4>3. l < k => f[l] < f[k]
          BY <4>1
      <4>4. QED BY <4>1, <4>2, <4>3
    <3>2. QED BY <3>1
  <2>2. g \in [1..k -> T]
      BY <2>1
  <2>3. \A i \in T : \E l \in 1..k : g[l] = i
    <3>1. ASSUME NEW i \in T PROVE \E l \in 1..k : g[l] = i
      <4>1. PICK l \in 1..n : f[l] = i
          OBVIOUS
      <4>2. ~(k < l)
        <5>1. k < l => f[k] < f[l]
            BY <4>1
        <5>2. f[k] \in Int /\ f[l] \in Int /\ f[l] <= f[k]
            BY <4>1
        <5>3. QED BY <5>1, <5>2
      <4>3. l \in 1..k
          BY <4>2
      <4>4. QED BY <4>1, <4>3
    <3>2. QED BY <3>1
  <2>4. \A l, m \in 1..k : g[l] = g[m] => l = m
      BY <1>1, <2>1
  <2>5. g \in Bijection(1..k, T)
      BY <2>2, <2>3, <2>4 DEF Bijection, Injection, Surjection, IsInjective
  <2>6. ExistsBijection(1..k, T)
      BY <2>5 DEF ExistsBijection
  <2>7. k \in Nat
      OBVIOUS
  <2>8. QED BY <2>6, <2>7, FS_CountingElements DEF Rank
<1>6. ASSUME NEW k \in 1..n PROVE Upwards(S)[k] = f[k]
  <2>1. f[k] \in S /\ Upwards(S)[Rank(S, f[k])] = f[k]
      BY <1>4, OrderIsUp
  <2>2. QED BY <1>5, <2>1
<1>7. Upwards(S) \in [1..n -> S]
    BY <1>4, OrderIsUp
<1>8. QED BY <1>4, <1>6, <1>7
=============================================================================
