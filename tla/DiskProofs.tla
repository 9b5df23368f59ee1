----------------------------- MODULE DiskProofs -----------------------------
(***************************************************************************)
(* Theorems about what a run leaves on disk: PerceptionStore, for any      *)
(* kinds, readers, size of the caches and number of appends, errors and    *)
(* crashes, RunArtifacts, for any number of runs and any limit, and the    *)
(* captures of ModelCalls, for any loops, prompts and retention.           *)
(*                                                                         *)
(* That a cursor reads the log as it was written rests on where it stops:  *)
(* at the end of a line, so that what it reads next joins what it has      *)
(* read.  The caches are compared with the log up to the line that is      *)
(* being written.  Each acknowledged perception that cannot be read has a  *)
(* torn line right before its own, and no two have the same.  Pruning      *)
(* spares every run whose agent may still write.  A file is removed only   *)
(* when enough calls have ended after its own, and the search of the       *)
(* longest prompt that fits ends with it.                                  *)
(***************************************************************************)
EXTENDS PerceptionStore, RunArtifacts, ModelCalls, OrderingProofs, SequenceTheorems

-----------------------------------------------------------------------------
(* At each place of S, s holds a member of X.                              *)
Holds(s, S, X) == \A i \in S : s[i] \in X

(* Picked lists what s holds at the places in their order.                 *)
LEMMA PickedInOrder ==
    ASSUME NEW S \in SUBSET Int, IsFiniteSet(S), NEW X, NEW s, Holds(s, S, X)
    PROVE  /\ Cardinality(S) \in Nat
           /\ Picked(s, S) \in Seq(X)
           /\ Len(Picked(s, S)) = Cardinality(S)
           /\ \A k \in 1..Cardinality(S) : Picked(s, S)[k] = s[Upwards(S)[k]]
           /\ \A i \in S : \E k \in 1..Cardinality(S) : Picked(s, S)[k] = s[i]
<1> DEFINE n == Cardinality(S)
<1>1. n \in Nat /\ Upwards(S) \in [1..n -> S] /\ \A i \in S : \E k \in 1..n : Upwards(S)[k] = i
    BY OrderIsUp
<1>2. Picked(s, S) = [k \in 1..n |-> s[Upwards(S)[k]]]
    BY <1>1 DEF Picked
<1>3. \A k \in 1..n : s[Upwards(S)[k]] \in X
    BY <1>1 DEF Holds
<1>4. Picked(s, S) \in Seq(X) /\ Len(Picked(s, S)) = n
    BY <1>1, <1>2, <1>3
<1>5. QED BY <1>1, <1>2, <1>4

(* U is S and then T.                                                      *)
IsJoinOf(U, S, T) == U = S \cup T /\ \A i \in S, j \in T : i < j

(* What is picked of the one and then of the other.                        *)
LEMMA PickedJoins ==
    ASSUME NEW S \in SUBSET Int, IsFiniteSet(S), NEW T \in SUBSET Int, IsFiniteSet(T),
           NEW U, IsJoinOf(U, S, T),
           NEW X, NEW s, Holds(s, U, X)
    PROVE  Picked(s, U) = Picked(s, S) \o Picked(s, T)
<1> DEFINE m == Cardinality(S)
           n == Cardinality(T)
           f == [k \in 1..(m + n) |-> IF k <= m THEN Upwards(S)[k] ELSE Upwards(T)[k - m]]
<1>1. /\ m \in Nat /\ Upwards(S) \in [1..m -> S]
      /\ \A i \in S : \E k \in 1..m : Upwards(S)[k] = i
    BY OrderIsUp
<1>2. /\ n \in Nat /\ Upwards(T) \in [1..n -> T]
      /\ \A i \in T : \E k \in 1..n : Upwards(T)[k] = i
    BY OrderIsUp
<1>3. \A k \in 1..(m + n) : (k <= m => k \in 1..m) /\ (~(k <= m) => k - m \in 1..n)
    BY <1>1, <1>2
<1>4. m + n \in Nat /\ f \in [1..(m + n) -> U]
    BY <1>1, <1>2, <1>3 DEF IsJoinOf
<1>5. \A i \in U : \E k \in 1..(m + n) : f[k] = i
  <2>1. ASSUME NEW i \in S PROVE \E k \in 1..(m + n) : f[k] = i
    <3>1. PICK k \in 1..m : Upwards(S)[k] = i
        BY <1>1
    <3>2. k \in 1..(m + n) /\ k <= m
        BY <1>1, <1>2
    <3>3. QED BY <3>1, <3>2
  <2>2. ASSUME NEW i \in T PROVE \E k \in 1..(m + n) : f[k] = i
    <3>1. PICK k \in 1..n : Upwards(T)[k] = i
        BY <1>2
    <3>2. k + m \in 1..(m + n) /\ ~(k + m <= m) /\ (k + m) - m = k
        BY <1>1, <1>2
    <3>3. f[k + m] = i
        BY <3>1, <3>2
    <3>4. QED BY <3>2, <3>3
  <2>3. QED BY <2>1, <2>2 DEF IsJoinOf
<1>6. \A k, l \in 1..(m + n) : k < l => f[k] < f[l]
  <2>1. ASSUME NEW k \in 1..(m + n), NEW l \in 1..(m + n), k < l PROVE f[k] < f[l]
    <3>1. CASE l <= m
      <4>1. k \in 1..m /\ l \in 1..m /\ f[k] = Upwards(S)[k] /\ f[l] = Upwards(S)[l]
          BY <1>1, <1>2, <2>1, <3>1
      <4>2. QED BY <2>1, <4>1, OrderGrows
    <3>2. CASE k <= m /\ ~(l <= m)
      <4>1. k \in 1..m /\ l - m \in 1..n /\ f[k] = Upwards(S)[k] /\ f[l] = Upwards(T)[l - m]
          BY <1>1, <1>2, <1>3, <3>2
      <4>2. f[k] \in S /\ f[l] \in T
          BY <1>1, <1>2, <4>1
      <4>3. QED BY <4>2 DEF IsJoinOf
    <3>3. CASE ~(k <= m)
      <4>1. k - m \in 1..n /\ l - m \in 1..n /\ k - m < l - m
          BY <1>1, <1>2, <2>1, <3>3
      <4>2. f[k] = Upwards(T)[k - m] /\ f[l] = Upwards(T)[l - m]
          BY <1>1, <2>1, <3>3
      <4>3. QED BY <4>1, <4>2, OrderGrows
    <3>4. QED BY <1>1, <2>1, <3>1, <3>2, <3>3
  <2>2. QED BY <2>1
<1>7. IsFiniteSet(U) /\ Cardinality(U) = m + n /\ Upwards(U) = f
  <2>1. U \in SUBSET Int
      BY DEF IsJoinOf
  <2>2. QED BY <1>4, <1>5, <1>6, <2>1, OrderIsUnique
<1>8. /\ Picked(s, U) \in Seq(X) /\ Len(Picked(s, U)) = m + n
      /\ \A k \in 1..(m + n) : Picked(s, U)[k] = s[f[k]]
  <2> U \in SUBSET Int /\ Holds(s, U, X)
      BY DEF IsJoinOf
  <2> HIDE DEF f, m, n
  <2>1. /\ Picked(s, U) \in Seq(X) /\ Len(Picked(s, U)) = Cardinality(U)
        /\ \A k \in 1..Cardinality(U) : Picked(s, U)[k] = s[Upwards(U)[k]]
      BY <1>7, PickedInOrder
  <2>2. QED BY <1>7, <2>1
<1>9. /\ Picked(s, S) \in Seq(X) /\ Len(Picked(s, S)) = m
      /\ \A k \in 1..m : Picked(s, S)[k] = s[Upwards(S)[k]]
  <2>1. Holds(s, S, X) /\ S \in SUBSET Int /\ IsFiniteSet(S)
      BY DEF Holds, IsJoinOf
  <2>2. /\ Picked(s, S) \in Seq(X) /\ Len(Picked(s, S)) = Cardinality(S)
        /\ \A k \in 1..Cardinality(S) : Picked(s, S)[k] = s[Upwards(S)[k]]
      BY <2>1, PickedInOrder
  <2>3. QED BY <2>2
<1>10. /\ Picked(s, T) \in Seq(X) /\ Len(Picked(s, T)) = n
       /\ \A k \in 1..n : Picked(s, T)[k] = s[Upwards(T)[k]]
  <2>1. Holds(s, T, X) /\ T \in SUBSET Int /\ IsFiniteSet(T)
      BY DEF Holds, IsJoinOf
  <2>2. /\ Picked(s, T) \in Seq(X) /\ Len(Picked(s, T)) = Cardinality(T)
        /\ \A k \in 1..Cardinality(T) : Picked(s, T)[k] = s[Upwards(T)[k]]
      BY <2>1, PickedInOrder
  <2>3. QED BY <2>2
<1> DEFINE both == Picked(s, S) \o Picked(s, T)
<1>11. /\ both \in Seq(X) /\ Len(both) = m + n
       /\ \A k \in 1..(m + n) : both[k] = IF k <= m THEN Picked(s, S)[k] ELSE Picked(s, T)[k - m]
  <2> HIDE DEF m, n
  <2>1. Picked(s, S) \in Seq(X) /\ Picked(s, T) \in Seq(X) /\ Len(Picked(s, S)) = m /\ Len(Picked(s, T)) = n
      BY <1>9, <1>10
  <2>2. QED BY <2>1, ConcatProperties
<1>12. \A k \in 1..(m + n) : both[k] = Picked(s, U)[k]
    BY <1>3, <1>8, <1>9, <1>10, <1>11
<1> HIDE DEF both
<1>13. Picked(s, U) = both
    BY <1>4, <1>8, <1>11, <1>12, SeqEqual
<1>14. QED BY <1>13 DEF both

(* The same elements at places moved by d.                                 *)
Moved(S, d) == {i + d : i \in S}

(* Picked from another sequence that holds the same there.                 *)
LEMMA PickedElsewhere ==
    ASSUME NEW S \in SUBSET Int, IsFiniteSet(S), NEW d \in Int, NEW T, T = Moved(S, d),
           NEW X, NEW s, NEW t, Holds(s, S, X), \A i \in S : s[i] = t[i + d]
    PROVE  Picked(s, S) = Picked(t, T)
<1> DEFINE n == Cardinality(S)
           f == [k \in 1..n |-> Upwards(S)[k] + d]
<1>1. /\ n \in Nat /\ Upwards(S) \in [1..n -> S]
      /\ \A i \in S : \E k \in 1..n : Upwards(S)[k] = i
    BY OrderIsUp
<1>2. f \in [1..n -> T] /\ T \in SUBSET Int
  <2>1. \A i \in S : i \in Int /\ i + d \in Int /\ i + d \in T
    <3>1. \A i \in S : i + d \in Moved(S, d)
        BY Zenon DEF Moved
    <3>2. QED BY <3>1
  <2>2. ASSUME NEW j \in T PROVE j \in Int
    <3>1. PICK i \in S : j = i + d
        BY DEF Moved
    <3>2. QED BY <2>1, <3>1
  <2>3. \A k \in 1..n : f[k] \in T
      BY <1>1, <2>1
  <2>4. QED BY <2>2, <2>3
<1>3. \A i \in T : \E k \in 1..n : f[k] = i
  <2>1. ASSUME NEW i \in T PROVE \E k \in 1..n : f[k] = i
    <3>1. PICK j \in S : i = j + d
        BY DEF Moved
    <3>2. PICK k \in 1..n : Upwards(S)[k] = j
        BY <1>1
    <3>3. f[k] = i
        BY <3>1, <3>2
    <3>4. QED BY <3>3
  <2>2. QED BY <2>1
<1>4. \A k, l \in 1..n : k < l => f[k] < f[l]
  <2>1. ASSUME NEW k \in 1..n, NEW l \in 1..n, k < l PROVE f[k] < f[l]
    <3>1. Upwards(S)[k] < Upwards(S)[l]
        BY <2>1, OrderGrows
    <3>2. Upwards(S)[k] \in Int /\ Upwards(S)[l] \in Int
        BY <1>1
    <3>3. QED BY <3>1, <3>2
  <2>2. QED BY <2>1
<1>5. IsFiniteSet(T) /\ Cardinality(T) = n /\ Upwards(T) = f
    BY <1>1, <1>2, <1>3, <1>4, OrderIsUnique
<1>6. /\ Picked(s, S) \in Seq(X) /\ Len(Picked(s, S)) = n
      /\ \A k \in 1..n : Picked(s, S)[k] = s[Upwards(S)[k]]
    BY PickedInOrder
<1>7. Holds(t, T, X)
    BY DEF Holds, Moved
<1>8. /\ Picked(t, T) \in Seq(X) /\ Len(Picked(t, T)) = n
      /\ \A k \in 1..n : Picked(t, T)[k] = t[f[k]]
  <2> HIDE DEF f, n
  <2> IsFiniteSet(T) /\ T \in SUBSET Int /\ Holds(t, T, X)
      BY <1>2, <1>5, <1>7
  <2>1. /\ Picked(t, T) \in Seq(X) /\ Len(Picked(t, T)) = Cardinality(T)
        /\ \A k \in 1..Cardinality(T) : Picked(t, T)[k] = t[Upwards(T)[k]]
      BY PickedInOrder
  <2>2. QED BY <1>5, <2>1
<1>9. \A k \in 1..n : Picked(t, T)[k] = Picked(s, S)[k]
    BY <1>1, <1>6, <1>8
<1>10. QED BY <1>6, <1>8, <1>9, SeqEqual

-----------------------------------------------------------------------------
(* The end of a sequence, place by place.                                  *)
LEMMA EndOfSeq ==
    ASSUME NEW X, NEW s \in Seq(X), NEW n \in Nat
    PROVE  LET e == LastN(s, n) IN
           /\ e \in Seq(X)
           /\ Len(e) = IF n >= Len(s) THEN Len(s) ELSE n
           /\ \A k \in 1..Len(e) : e[k] = s[Len(s) - Len(e) + k]
<1> DEFINE e == LastN(s, n)
<1>1. Len(s) \in Nat
    OBVIOUS
<1>2. CASE n >= Len(s)
  <2>1. e = s
      BY <1>2 DEF LastN
  <2>2. QED BY <1>1, <1>2, <2>1
<1>3. CASE ~(n >= Len(s))
  <2> DEFINE m == Len(s) - n + 1
  <2>1. e = SubSeq(s, m, Len(s)) /\ m \in 1..(Len(s) + 1)
      BY <1>1, <1>3 DEF LastN
  <2>2. \A i \in m..Len(s) : s[i] \in X
      BY <1>1, <2>1
  <2>3. /\ e \in Seq(X)
        /\ Len(e) = IF m <= Len(s) THEN Len(s) - m + 1 ELSE 0
        /\ \A i \in 1..(Len(s) - m + 1) : e[i] = s[m + i - 1]
    <3> HIDE DEF e
    <3> m \in Int /\ Len(s) \in Int
        BY <1>1
    <3> HIDE DEF m
    <3> QED BY <2>1, <2>2, SubSeqProperties
  <2>4. Len(e) = n
      BY <1>1, <1>3, <2>3
  <2>5. ASSUME NEW k \in 1..n PROVE e[k] = s[Len(s) - n + k]
    <3>1. k \in 1..(Len(s) - m + 1) /\ m + k - 1 = Len(s) - n + k
        BY <1>1
    <3> HIDE DEF e, m
    <3>2. e[k] = s[m + k - 1]
        BY <2>3, <3>1
    <3>3. QED BY <3>1, <3>2
  <2>6. QED BY <1>3, <2>3, <2>4, <2>5
<1>4. QED BY <1>2, <1>3

(* What precedes the end.                                                  *)
LEMMA EndAndRest ==
    ASSUME NEW X, NEW s \in Seq(X), NEW n \in Nat
    PROVE  \E r \in Seq(X) : s = r \o LastN(s, n)
<1> DEFINE e == LastN(s, n)
           m == Len(s) - Len(e)
           r == SubSeq(s, 1, m)
<1>1. /\ e \in Seq(X) /\ Len(s) \in Nat /\ Len(e) \in Nat /\ Len(e) <= Len(s)
      /\ \A k \in 1..Len(e) : e[k] = s[m + k]
    BY EndOfSeq
<1>2. m \in Nat /\ m <= Len(s) /\ Len(s) = m + Len(e)
    BY <1>1
<1>3. r \in Seq(X) /\ Len(r) = m /\ \A k \in 1..m : r[k] = s[k]
    BY <1>2
<1> HIDE DEF e, m, r
<1>4. /\ r \o e \in Seq(X) /\ Len(r \o e) = m + Len(e)
      /\ \A k \in 1..(m + Len(e)) : (r \o e)[k] = IF k <= m THEN r[k] ELSE e[k - m]
    BY <1>1, <1>3, ConcatProperties
<1>5. \A k \in 1..Len(s) : (r \o e)[k] = s[k]
  <2>1. ASSUME NEW k \in 1..Len(s) PROVE (r \o e)[k] = s[k]
    <3>1. CASE k <= m
        BY <1>2, <1>3, <1>4, <3>1
    <3>2. CASE ~(k <= m)
      <4>1. k - m \in 1..Len(e) /\ m + (k - m) = k
          BY <1>1, <1>2, <3>2
      <4>2. e[k - m] = s[k]
          BY <1>1, <4>1
      <4>3. QED BY <1>2, <1>4, <3>2, <4>2
    <3>3. QED BY <3>1, <3>2
  <2>2. QED BY <2>1
<1>6. s = r \o e
    BY <1>2, <1>4, <1>5, SeqEqual
<1>7. QED BY <1>3, <1>6 DEF e

(* Nothing before a part that is long enough belongs to the end.           *)
LEMMA EndOfLastPart ==
    ASSUME NEW X, NEW r \in Seq(X), NEW s \in Seq(X), NEW n \in Nat, n <= Len(s)
    PROVE  LastN(r \o s, n) = LastN(s, n)
<1> DEFINE t == r \o s
           a == LastN(t, n)
           b == LastN(s, n)
<1>1. /\ t \in Seq(X) /\ Len(t) = Len(r) + Len(s) /\ Len(r) \in Nat /\ Len(s) \in Nat
      /\ \A k \in 1..(Len(r) + Len(s)) : t[k] = IF k <= Len(r) THEN r[k] ELSE s[k - Len(r)]
    BY ConcatProperties
<1> HIDE DEF t
<1>2. a \in Seq(X) /\ Len(a) = n /\ \A k \in 1..n : a[k] = t[Len(t) - n + k]
  <2>1. /\ a \in Seq(X) /\ Len(a) = IF n >= Len(t) THEN Len(t) ELSE n
        /\ \A k \in 1..Len(a) : a[k] = t[Len(t) - Len(a) + k]
      BY <1>1, EndOfSeq
  <2> HIDE DEF a
  <2>2. Len(a) = n
      BY <1>1, <2>1
  <2>3. QED BY <2>1, <2>2
<1>3. b \in Seq(X) /\ Len(b) = n /\ \A k \in 1..n : b[k] = s[Len(s) - n + k]
  <2>1. /\ b \in Seq(X) /\ Len(b) = IF n >= Len(s) THEN Len(s) ELSE n
        /\ \A k \in 1..Len(b) : b[k] = s[Len(s) - Len(b) + k]
      BY EndOfSeq
  <2> HIDE DEF b
  <2>2. Len(b) = n
      BY <1>1, <2>1
  <2>3. QED BY <2>1, <2>2
<1> HIDE DEF a, b
<1>4. ASSUME NEW k \in 1..n PROVE a[k] = b[k]
  <2>1. /\ Len(t) - n + k \in 1..(Len(r) + Len(s)) /\ ~(Len(t) - n + k <= Len(r))
        /\ (Len(t) - n + k) - Len(r) = Len(s) - n + k
      BY <1>1
  <2>2. t[Len(t) - n + k] = s[Len(s) - n + k]
      BY <1>1, <2>1
  <2>3. QED BY <1>2, <1>3, <2>2
<1>5. a = b
    BY <1>2, <1>3, <1>4, SeqEqual
<1>6. QED BY <1>5 DEF a, b, t

(* The end of the end.                                                     *)
LEMMA EndOfEnd ==
    ASSUME NEW X, NEW s \in Seq(X), NEW n \in Nat, NEW c \in Nat, n <= c
    PROVE  LastN(LastN(s, c), n) = LastN(s, n)
<1> DEFINE e == LastN(s, c)
<1>1. PICK r \in Seq(X) : s = r \o e
    BY EndAndRest
<1>2. e \in Seq(X) /\ Len(e) = IF c >= Len(s) THEN Len(s) ELSE c
    BY EndOfSeq
<1>3. CASE c >= Len(s)
  <2>1. e = s
      BY <1>3 DEF LastN
  <2>2. QED BY <2>1
<1>4. CASE ~(c >= Len(s))
  <2>1. n <= Len(e)
      BY <1>2, <1>4
  <2> HIDE DEF e
  <2>2. LastN(r \o e, n) = LastN(e, n)
      BY <1>1, <1>2, <2>1, EndOfLastPart
  <2>3. QED BY <1>1, <2>2 DEF e
<1>5. QED BY <1>3, <1>4

(* A cache that takes one more is the end of what it is a cache of.        *)
LEMMA CacheTakesOne ==
    ASSUME NEW X, NEW s \in Seq(X), NEW x \in X, NEW c \in Nat \ {0}
    PROVE  LastN(Append(LastN(s, c), x), c) = LastN(Append(s, x), c)
<1> DEFINE e == LastN(s, c)
<1>1. PICK r \in Seq(X) : s = r \o e
    BY EndAndRest
<1>2. e \in Seq(X) /\ Len(e) = IF c >= Len(s) THEN Len(s) ELSE c
    BY EndOfSeq
<1>3. CASE c >= Len(s)
  <2>1. e = s
      BY <1>3 DEF LastN
  <2>2. QED BY <2>1
<1>4. CASE ~(c >= Len(s))
  <2>1. c <= Len(e) + 1 /\ c \in Nat
      BY <1>2, <1>4
  <2> HIDE DEF e
  <2>2. Append(e, x) \in Seq(X) /\ Len(Append(e, x)) = Len(e) + 1
      BY <1>2
  <2>3. Append(r \o e, x) = r \o Append(e, x)
    <3>1. Append(r \o e, x) = (r \o e) \o <<x>> /\ Append(e, x) = e \o <<x>>
        BY <1>2, AppendIsConcat, ConcatProperties
    <3>2. <<x>> \in Seq(X)
        OBVIOUS
    <3>3. QED BY <1>2, <3>1, <3>2, ConcatAssociative
  <2>4. LastN(r \o Append(e, x), c) = LastN(Append(e, x), c)
      BY <2>1, <2>2, EndOfLastPart
  <2>5. QED BY <1>1, <2>3, <2>4 DEF e
<1>5. QED BY <1>3, <1>4

-----------------------------------------------------------------------------
(* Nothing picked, and one thing.                                          *)
LEMMA PickedNone == \A s : Picked(s, {}) = <<>>
<1>1. Cardinality({}) = 0
    BY FS_EmptySet
<1>2. TAKE s
<1>3. Picked(s, {}) = [k \in 1..0 |-> s[Upwards({})[k]]]
    BY <1>1 DEF Picked, Upwards
<1>4. QED BY <1>3

LEMMA PickedOne ==
    ASSUME NEW X, NEW s, NEW i \in Int, s[i] \in X
    PROVE  Picked(s, {i}) = <<s[i]>>
<1> DEFINE S == {i}
<1>1. S \in SUBSET Int /\ IsFiniteSet(S) /\ Cardinality(S) = 1 /\ Holds(s, S, X)
    BY FS_Singleton DEF Holds
<1>2. Upwards(S) \in [1..1 -> S]
    BY <1>1, OrderIsUp
<1>3. Upwards(S)[1] = i
    BY <1>2
<1> HIDE DEF S
<1>4. /\ Picked(s, S) \in Seq(X) /\ Len(Picked(s, S)) = Cardinality(S)
      /\ \A k \in 1..Cardinality(S) : Picked(s, S)[k] = s[Upwards(S)[k]]
  <2>1. S \in SUBSET Int /\ IsFiniteSet(S) /\ Holds(s, S, X)
      BY <1>1
  <2>2. QED BY <2>1, PickedInOrder
<1>5. Picked(s, S) \in Seq(X) /\ Len(Picked(s, S)) = 1 /\ Picked(s, S)[1] = s[i]
    BY <1>1, <1>3, <1>4
<1> DEFINE one == <<s[i]>>
<1>6. one \in Seq(X) /\ Len(one) = 1 /\ one[1] = s[i]
    OBVIOUS
<1> HIDE DEF one
<1>7. \A k \in 1..1 : Picked(s, S)[k] = one[k]
    BY <1>5, <1>6
<1>8. Picked(s, S) = one
    BY <1>5, <1>6, <1>7, SeqEqual
<1>9. QED BY <1>8 DEF S, one

(* Where a sequence holds perceptions of a kind.                           *)
PlacesOf(s, kind) == {i \in 1..Len(s) : s[i].kind = kind}

(* They are finitely many.                                                 *)
LEMMA PlacesAreFinite ==
    ASSUME NEW X, NEW s \in Seq(X), NEW kind
    PROVE  /\ PlacesOf(s, kind) \in SUBSET Int
           /\ IsFiniteSet(PlacesOf(s, kind))
           /\ Holds(s, PlacesOf(s, kind), X)
<1>1. Len(s) \in Nat /\ PlacesOf(s, kind) \in SUBSET (1..Len(s))
    BY DEF PlacesOf
<1>2. IsFiniteSet(1..Len(s))
    BY <1>1, FS_Interval
<1>3. QED BY <1>1, <1>2, FS_Subset DEF Holds

(* Of one kind, what two parts hold is what their concatenation holds.     *)
LEMMA OfKindJoins ==
    ASSUME NEW s \in Seq(Perceptions), NEW t \in Seq(Perceptions), NEW kind
    PROVE  /\ OfKind(s, kind) \in Seq(Perceptions)
           /\ OfKind(s \o t, kind) = OfKind(s, kind) \o OfKind(t, kind)
<1> DEFINE u == s \o t
           n == Len(s)
           S == PlacesOf(s, kind)
           T == Moved(PlacesOf(t, kind), n)
<1>1. /\ u \in Seq(Perceptions) /\ n \in Nat /\ Len(t) \in Nat /\ Len(u) = n + Len(t)
      /\ \A i \in 1..(n + Len(t)) : u[i] = IF i <= n THEN s[i] ELSE t[i - n]
    BY ConcatProperties
<1> HIDE DEF u
<1>2. \A i \in 1..n : u[i] = s[i]
    BY <1>1
<1>3. \A i \in 1..Len(t) : i + n \in 1..Len(u) /\ u[i + n] = t[i]
  <2>1. ASSUME NEW i \in 1..Len(t) PROVE i + n \in 1..Len(u) /\ u[i + n] = t[i]
    <3>1. i + n \in 1..(n + Len(t)) /\ ~(i + n <= n) /\ (i + n) - n = i
        BY <1>1
    <3>2. QED BY <1>1, <3>1
  <2>2. QED BY <2>1
<1>4. PlacesOf(u, kind) = S \cup T
  <2>1. ASSUME NEW i \in PlacesOf(u, kind) PROVE i \in S \cup T
    <3>1. i \in 1..Len(u) /\ u[i].kind = kind
        BY <2>1 DEF PlacesOf
    <3>2. CASE i <= n
      <4>1. i \in 1..n
          BY <1>1, <3>1, <3>2
      <4>2. QED BY <1>2, <3>1, <4>1 DEF PlacesOf
    <3>3. CASE ~(i <= n)
      <4>1. i - n \in 1..Len(t) /\ (i - n) + n = i
          BY <1>1, <3>1, <3>3
      <4>2. t[i - n].kind = kind
          BY <1>3, <3>1, <4>1
      <4>3. i - n \in PlacesOf(t, kind)
          BY <4>1, <4>2 DEF PlacesOf
      <4>4. QED BY <4>1, <4>3 DEF Moved
    <3>4. QED BY <3>2, <3>3
  <2>2. ASSUME NEW i \in S PROVE i \in PlacesOf(u, kind)
    <3>1. i \in 1..n /\ s[i].kind = kind
        BY <2>2 DEF PlacesOf
    <3>2. i \in 1..Len(u) /\ u[i].kind = kind
        BY <1>1, <1>2, <3>1
    <3>3. QED BY <3>2 DEF PlacesOf
  <2>3. ASSUME NEW i \in T PROVE i \in PlacesOf(u, kind)
    <3>1. PICK j \in PlacesOf(t, kind) : i = j + n
        BY <2>3 DEF Moved
    <3>2. j \in 1..Len(t) /\ t[j].kind = kind
        BY <3>1 DEF PlacesOf
    <3>3. i \in 1..Len(u) /\ u[i].kind = kind
        BY <1>3, <3>1, <3>2
    <3>4. QED BY <3>3 DEF PlacesOf
  <2>4. QED BY <2>1, <2>2, <2>3
<1>5. /\ S \in SUBSET Int /\ IsFiniteSet(S) /\ Holds(s, S, Perceptions)
      /\ PlacesOf(t, kind) \in SUBSET Int /\ IsFiniteSet(PlacesOf(t, kind))
      /\ Holds(t, PlacesOf(t, kind), Perceptions)
      /\ PlacesOf(u, kind) \in SUBSET Int /\ IsFiniteSet(PlacesOf(u, kind))
      /\ Holds(u, PlacesOf(u, kind), Perceptions)
    BY <1>1, PlacesAreFinite
<1>6. T \in SUBSET Int /\ IsFiniteSet(T) /\ \A i \in S, j \in T : i < j
  <2>1. IsFiniteSet(T) /\ T \in SUBSET Int
      BY <1>4, <1>5, FS_Subset
  <2>2. ASSUME NEW i \in S, NEW j \in T PROVE i < j
    <3>1. i \in 1..n
        BY DEF PlacesOf
    <3>2. PICK k \in PlacesOf(t, kind) : j = k + n
        BY DEF Moved
    <3>3. k \in 1..Len(t)
        BY DEF PlacesOf
    <3>4. QED BY <1>1, <3>1, <3>2, <3>3
  <2>3. QED BY <2>1, <2>2
<1>7. Picked(s, S) = Picked(u, S)
  <2>1. S = Moved(S, 0)
    <3>1. \A i \in S : i + 0 = i
        BY <1>5
    <3>2. QED BY <3>1 DEF Moved
  <2>2. \A i \in S : s[i] = u[i + 0]
    <3>1. ASSUME NEW i \in S PROVE s[i] = u[i + 0]
      <4>1. i \in 1..n /\ i + 0 = i
          BY DEF PlacesOf
      <4>2. QED BY <1>2, <4>1
    <3>2. QED BY <3>1
  <2> HIDE DEF S
  <2>3. QED BY <1>5, <2>1, <2>2, PickedElsewhere
<1>8. Picked(t, PlacesOf(t, kind)) = Picked(u, T)
  <2>1. \A i \in PlacesOf(t, kind) : t[i] = u[i + n]
      BY <1>3 DEF PlacesOf
  <2> n \in Int
      BY <1>1
  <2> HIDE DEF n
  <2>2. QED BY <1>5, <2>1, PickedElsewhere
<1> DEFINE U == PlacesOf(u, kind)
<1>9. Holds(u, U, Perceptions)
    BY <1>4, <1>5
<1>10. Picked(u, U) = Picked(u, S) \o Picked(u, T)
  <2>1. S \in SUBSET Int /\ IsFiniteSet(S) /\ T \in SUBSET Int /\ IsFiniteSet(T)
      BY <1>5, <1>6
  <2>2. IsJoinOf(U, S, T)
      BY <1>4, <1>6 DEF IsJoinOf
  <2> HIDE DEF S, T, U
  <2>3. QED BY <1>9, <2>1, <2>2, PickedJoins
<1>11. Picked(s, S) \in Seq(Perceptions)
    BY <1>5, PickedInOrder
<1>12. OfKind(u, kind) = Picked(u, U) /\ OfKind(s, kind) = Picked(s, S) /\ OfKind(t, kind) = Picked(t, PlacesOf(t, kind))
  <2>1. \A v : OfKind(v, kind) = Picked(v, PlacesOf(v, kind))
      BY DEF OfKind, PlacesOf
  <2>2. QED BY <1>4, <2>1
<1>13. QED BY <1>7, <1>8, <1>10, <1>11, <1>12 DEF u

(* One perception is of its kind and of no other.                          *)
LEMMA OfKindOfOne ==
    ASSUME NEW p \in Perceptions, NEW kind
    PROVE  OfKind(<<p>>, kind) = IF p.kind = kind THEN <<p>> ELSE <<>>
<1> DEFINE s == <<p>>
<1>1. s[1] = p /\ Len(s) = 1 /\ s \in Seq(Perceptions)
    OBVIOUS
<1> HIDE DEF s
<1>2. OfKind(s, kind) = Picked(s, PlacesOf(s, kind))
    BY DEF OfKind, PlacesOf
<1>3. CASE p.kind = kind
  <2>1. PlacesOf(s, kind) = {1}
      BY <1>1, <1>3 DEF PlacesOf
  <2>2. Picked(s, {1}) = <<s[1]>>
      BY <1>1, PickedOne
  <2>3. QED BY <1>1, <1>2, <1>3, <2>1, <2>2 DEF s
<1>4. CASE p.kind # kind
  <2>1. PlacesOf(s, kind) = {}
      BY <1>1, <1>4 DEF PlacesOf
  <2>2. QED BY <1>2, <1>4, <2>1, PickedNone DEF s
<1>5. QED BY <1>3, <1>4

-----------------------------------------------------------------------------
(* The newlines of the lines that parse; the perceptions of pieces; and an *)
(* offset at which a line ends.                                            *)
Ends(log, from, to) == {i \in (from + 3)..to : WholeLine(log, i)}
Heads(q) == [k \in 1..Len(q) |-> q[k][1]]
AtLine(log, n) == n = 0 \/ log[n][2] = 3

(* The lines are the perceptions whose newlines were picked.               *)
LEMMA LinesAreHeads ==
    ASSUME NEW log, NEW from, NEW to
    PROVE  Lines(log, from, to) = Heads(Picked(log, Ends(log, from, to)))
BY DEF Lines, Heads, Ends

(* They are perceptions, piece by piece.                                   *)
LEMMA HeadsJoin ==
    ASSUME NEW q \in Seq(Pieces), NEW r \in Seq(Pieces)
    PROVE  /\ Heads(q) \in Seq(Perceptions) /\ Len(Heads(q)) = Len(q)
           /\ Heads(q \o r) = Heads(q) \o Heads(r)
<1>1. \A p \in Pieces : p[1] \in Perceptions
    BY DEF Pieces
<1>2. ASSUME NEW p \in Seq(Pieces)
      PROVE  /\ Heads(p) \in Seq(Perceptions) /\ Len(Heads(p)) = Len(p)
             /\ \A k \in 1..Len(p) : Heads(p)[k] = p[k][1]
  <2>1. Len(p) \in Nat /\ \A k \in 1..Len(p) : p[k] \in Pieces
      OBVIOUS
  <2>2. \A k \in 1..Len(p) : p[k][1] \in Perceptions
      BY <1>1, <2>1
  <2>3. QED BY <2>1, <2>2 DEF Heads
<1> DEFINE b == q \o r
           h == Heads(q) \o Heads(r)
<1>3. /\ b \in Seq(Pieces) /\ Len(b) = Len(q) + Len(r)
      /\ \A k \in 1..(Len(q) + Len(r)) : b[k] = IF k <= Len(q) THEN q[k] ELSE r[k - Len(q)]
    BY ConcatProperties
<1>4. /\ h \in Seq(Perceptions) /\ Len(h) = Len(q) + Len(r)
      /\ \A k \in 1..(Len(q) + Len(r)) :
            h[k] = IF k <= Len(q) THEN Heads(q)[k] ELSE Heads(r)[k - Len(q)]
  <2>1. Heads(q) \in Seq(Perceptions) /\ Heads(r) \in Seq(Perceptions)
        /\ Len(Heads(q)) = Len(q) /\ Len(Heads(r)) = Len(r)
      BY <1>2
  <2>2. /\ h \in Seq(Perceptions) /\ Len(h) = Len(Heads(q)) + Len(Heads(r))
        /\ \A k \in 1..(Len(Heads(q)) + Len(Heads(r))) :
            h[k] = IF k <= Len(Heads(q)) THEN Heads(q)[k] ELSE Heads(r)[k - Len(Heads(q))]
      BY <2>1, ConcatProperties
  <2> HIDE DEF h
  <2>3. QED BY <2>1, <2>2
<1> HIDE DEF b, h
<1>5. ASSUME NEW k \in 1..(Len(q) + Len(r)) PROVE Heads(b)[k] = h[k]
  <2>1. Heads(b)[k] = b[k][1]
      BY <1>2, <1>3
  <2>2. CASE k <= Len(q)
    <3>1. k \in 1..Len(q)
        BY <2>2
    <3>2. b[k] = q[k] /\ h[k] = Heads(q)[k] /\ Heads(q)[k] = q[k][1]
        BY <1>2, <1>3, <1>4, <2>2, <3>1
    <3>3. QED BY <2>1, <3>2
  <2>3. CASE ~(k <= Len(q))
    <3>1. k - Len(q) \in 1..Len(r)
        BY <2>3
    <3>2. b[k] = r[k - Len(q)] /\ h[k] = Heads(r)[k - Len(q)]
        BY <1>3, <1>4, <2>3
    <3>3. Heads(r)[k - Len(q)] = r[k - Len(q)][1]
        BY <1>2, <3>1
    <3>4. QED BY <2>1, <3>2, <3>3
  <2>4. QED BY <2>2, <2>3
<1>6. Heads(b) = h
  <2>1. Heads(b) \in Seq(Perceptions) /\ Len(Heads(b)) = Len(q) + Len(r)
      BY <1>2, <1>3
  <2>2. QED BY <1>4, <1>5, <2>1, SeqEqual
<1>7. QED BY <1>2, <1>6 DEF b, h

(* The newlines are finitely many pieces of the log.                       *)
LEMMA EndsAreFinite ==
    ASSUME NEW log \in Seq(Pieces), NEW from \in Nat, NEW to \in 0..Len(log)
    PROVE  /\ Ends(log, from, to) \in SUBSET (1..to)
           /\ Ends(log, from, to) \in SUBSET Int
           /\ IsFiniteSet(Ends(log, from, to))
           /\ Holds(log, Ends(log, from, to), Pieces)
<1>1. Ends(log, from, to) \in SUBSET (1..to)
    BY DEF Ends
<1>2. to \in Int /\ Len(log) \in Nat /\ \A i \in 1..to : i \in Int /\ log[i] \in Pieces
    OBVIOUS
<1>3. IsFiniteSet(1..to)
    BY <1>2, FS_Interval
<1>4. QED BY <1>1, <1>2, <1>3, FS_Subset DEF Holds

(* The lines are perceptions.                                              *)
LEMMA LinesType ==
    ASSUME NEW log \in Seq(Pieces), NEW from \in Nat, NEW to \in 0..Len(log)
    PROVE  Lines(log, from, to) \in Seq(Perceptions)
<1>1. Picked(log, Ends(log, from, to)) \in Seq(Pieces)
    BY EndsAreFinite, PickedInOrder
<1>2. QED BY <1>1, HeadsJoin, LinesAreHeads

(* What is read up to a newline and what is read from it on.               *)
LEMMA LinesJoin ==
    ASSUME NEW log \in Seq(Pieces), NEW to \in 0..Len(log), NEW from \in 0..to, AtLine(log, from)
    PROVE  Lines(log, 0, to) = Lines(log, 0, from) \o Lines(log, from, to)
<1> DEFINE S == Ends(log, 0, from)
           T == Ends(log, from, to)
           U == Ends(log, 0, to)
<1>1. from \in Nat /\ from \in 0..Len(log) /\ 0 \in Nat /\ Len(log) \in Nat
    OBVIOUS
<1>2. /\ S \in SUBSET (1..from) /\ S \in SUBSET Int /\ IsFiniteSet(S) /\ Holds(log, S, Pieces)
      /\ T \in SUBSET Int /\ IsFiniteSet(T) /\ Holds(log, T, Pieces)
      /\ Holds(log, Ends(log, 0, to), Pieces)
    BY <1>1, EndsAreFinite
<1>3. Ends(log, 0, to) = S \cup T
  <2>1. ASSUME NEW i \in Ends(log, 0, to), i \notin S PROVE i \in T
    <3>1. i \in 3..to /\ WholeLine(log, i) /\ ~(i <= from)
        BY <1>1, <2>1 DEF Ends
    <3>2. /\ log[i - 1] = <<log[i][1], 2>> /\ log[i - 2] = <<log[i][1], 1>>
        BY <3>1 DEF WholeLine
    <3>3. from # 0 => i # from + 1 /\ i # from + 2
      <4>1. ASSUME from # 0, i = from + 1 PROVE FALSE
        <5>1. i - 1 = from
            BY <1>1, <4>1
        <5>2. log[from][2] = 2
            BY <3>2, <5>1
        <5>3. QED BY <4>1, <5>2 DEF AtLine
      <4>2. ASSUME from # 0, i = from + 2 PROVE FALSE
        <5>1. i - 2 = from
            BY <1>1, <4>2
        <5>2. log[from][2] = 1
            BY <3>2, <5>1
        <5>3. QED BY <4>2, <5>2 DEF AtLine
      <4>3. QED BY <4>1, <4>2
    <3>4. i \in (from + 3)..to
        BY <1>1, <3>1, <3>3
    <3>5. QED BY <3>1, <3>4 DEF Ends
  <2>2. ASSUME NEW i \in S \cup T PROVE i \in Ends(log, 0, to)
      BY <1>1, <2>2 DEF Ends
  <2>3. QED BY <2>1, <2>2
<1>4. \A i \in S, j \in T : i < j
  <2>1. ASSUME NEW i \in S, NEW j \in T PROVE i < j
    <3>1. i \in 1..from
        BY <1>2
    <3>2. j \in (from + 3)..to
        BY DEF Ends
    <3>3. QED BY <1>1, <3>1, <3>2
  <2>2. QED BY <2>1
<1>5. Holds(log, U, Pieces)
    BY <1>2, <1>3
<1>6. Picked(log, U) = Picked(log, S) \o Picked(log, T)
  <2>1. S \in SUBSET Int /\ IsFiniteSet(S) /\ T \in SUBSET Int /\ IsFiniteSet(T)
      BY <1>2
  <2>2. IsJoinOf(U, S, T)
      BY <1>3, <1>4 DEF IsJoinOf
  <2> HIDE DEF S, T, U
  <2>3. QED BY <1>5, <2>1, <2>2, PickedJoins
<1>7. Picked(log, S) \in Seq(Pieces) /\ Picked(log, T) \in Seq(Pieces)
    BY <1>2, PickedInOrder
<1>8. Heads(Picked(log, S) \o Picked(log, T)) = Heads(Picked(log, S)) \o Heads(Picked(log, T))
    BY <1>7, HeadsJoin
<1>9. QED BY <1>3, <1>6, <1>8, LinesAreHeads

(* What is read of a part of the log depends on that part alone.           *)
LEMMA LinesKept ==
    ASSUME NEW log \in Seq(Pieces), NEW more \in Seq(Pieces), NEW from \in Nat, NEW to \in 0..Len(log),
           to <= Len(more), \A i \in 1..to : more[i] = log[i]
    PROVE  Lines(more, from, to) = Lines(log, from, to)
<1> DEFINE S == Ends(log, from, to)
<1>1. S \in SUBSET (1..to) /\ S \in SUBSET Int /\ IsFiniteSet(S) /\ Holds(log, S, Pieces)
    BY EndsAreFinite
<1>2. \A i \in (from + 3)..to : WholeLine(more, i) = WholeLine(log, i)
  <2>1. ASSUME NEW i \in (from + 3)..to PROVE WholeLine(more, i) <=> WholeLine(log, i)
    <3>1. i \in 1..to /\ i - 1 \in 1..to /\ i - 2 \in 1..to /\ (i > 3 => i - 3 \in 1..to)
        OBVIOUS
    <3>2. /\ more[i] = log[i] /\ more[i - 1] = log[i - 1] /\ more[i - 2] = log[i - 2]
          /\ i > 3 => more[i - 3] = log[i - 3]
        BY <3>1
    <3>3. QED BY <3>2 DEF WholeLine
  <2>2. WholeLine(log, 3) \in BOOLEAN /\ \A i : WholeLine(log, i) \in BOOLEAN /\ WholeLine(more, i) \in BOOLEAN
      BY DEF WholeLine
  <2>3. QED BY <2>1, <2>2
<1>3. Ends(more, from, to) = S
    BY <1>2 DEF Ends
<1>4. S = Moved(S, 0)
  <2>1. \A i \in S : i + 0 = i
      BY <1>1
  <2>2. QED BY <2>1 DEF Moved
<1>5. \A i \in S : log[i] = more[i + 0]
  <2>1. ASSUME NEW i \in S PROVE log[i] = more[i + 0]
    <3>1. i \in 1..to /\ i + 0 = i
        BY <1>1
    <3>2. QED BY <3>1
  <2>2. QED BY <2>1
<1>6. Picked(log, S) = Picked(more, S)
  <2> HIDE DEF S
  <2>1. QED BY <1>1, <1>4, <1>5, PickedElsewhere
<1>7. Lines(more, from, to) = Heads(Picked(more, Ends(more, from, to)))
    BY DEF Lines, Heads, Ends
<1>8. QED BY <1>3, <1>6, <1>7, LinesAreHeads

(* Between an offset and itself there is nothing to read.                  *)
LEMMA NothingToReadThere == \A log : \A n \in Nat : Lines(log, n, n) = <<>>
<1> TAKE log
<1> TAKE n \in Nat
<1>1. Ends(log, n, n) = {}
    BY DEF Ends
<1>2. Picked(log, {}) = <<>>
    BY PickedNone
<1>3. Len(<<>>) = 0
    OBVIOUS
<1>4. Heads(<<>>) = <<>>
    BY <1>3 DEF Heads
<1>5. QED BY <1>1, <1>2, <1>4, LinesAreHeads

(* A line that was written at the end of another is one more.              *)
LEMMA OneLineMore ==
    ASSUME NEW log \in Seq(Pieces), NEW n \in Nat, n + 3 = Len(log), WholeLine(log, n + 3)
    PROVE  /\ AtLine(log, n)
           /\ Lines(log, 0, n + 3) = Append(Lines(log, 0, n), log[n + 3][1])
<1>1. Len(log) \in Nat /\ n + 3 \in 1..Len(log) /\ n + 3 \in 0..Len(log) /\ n \in 0..(n + 3) /\ n \in 0..Len(log)
      /\ n + 3 \in Int
    OBVIOUS
<1>2. AtLine(log, n)
  <2>1. n > 0 => n + 3 > 3 /\ (n + 3) - 3 = n
      OBVIOUS
  <2>2. n > 0 => log[n][2] = 3
      BY <2>1 DEF WholeLine
  <2>3. QED BY <2>2 DEF AtLine
<1>3. Ends(log, n, n + 3) = {n + 3}
  <2>1. (n + 3)..(n + 3) = {n + 3}
      OBVIOUS
  <2>2. QED BY <2>1 DEF Ends
<1>4. log[n + 3] \in Pieces
    BY <1>1
<1>5. Picked(log, {n + 3}) = <<log[n + 3]>>
    BY <1>1, <1>4, PickedOne
<1>6. Heads(<<log[n + 3]>>) = <<log[n + 3][1]>>
  <2> DEFINE one == <<log[n + 3]>>
  <2>1. Len(one) = 1 /\ one[1] = log[n + 3]
      OBVIOUS
  <2> HIDE DEF one
  <2>2. Heads(one) = [k \in 1..1 |-> one[k][1]]
      BY <2>1 DEF Heads
  <2>3. [k \in 1..1 |-> one[k][1]] = <<one[1][1]>>
      OBVIOUS
  <2>4. QED BY <2>1, <2>2, <2>3 DEF one
<1>7. Lines(log, n, n + 3) = <<log[n + 3][1]>>
    BY <1>3, <1>5, <1>6, LinesAreHeads
<1>8. Lines(log, 0, n + 3) = Lines(log, 0, n) \o Lines(log, n, n + 3)
    BY <1>1, <1>2, LinesJoin
<1>9. Lines(log, 0, n) \in Seq(Perceptions) /\ log[n + 3][1] \in Perceptions
    BY <1>1, <1>4, LinesType DEF Pieces
<1>10. QED BY <1>2, <1>7, <1>8, <1>9, AppendIsConcat

(* Each whole line is among those that are read.                           *)
LEMMA WholeLinesAreRead ==
    ASSUME NEW log \in Seq(Pieces), NEW i \in 1..Len(log), WholeLine(log, i)
    PROVE  \E k \in 1..Len(Lines(log, 0, Len(log))) : Lines(log, 0, Len(log))[k] = log[i][1]
<1> DEFINE S == Ends(log, 0, Len(log))
           p == Picked(log, S)
<1>1. Len(log) \in 0..Len(log) /\ 0 \in Nat
    OBVIOUS
<1>2. S \in SUBSET Int /\ IsFiniteSet(S) /\ Holds(log, S, Pieces)
    BY <1>1, EndsAreFinite
<1>3. i \in S
    BY DEF WholeLine, Ends
<1>4. /\ p \in Seq(Pieces) /\ Len(p) = Cardinality(S)
      /\ \E k \in 1..Cardinality(S) : p[k] = log[i]
    BY <1>2, <1>3, PickedInOrder
<1> HIDE DEF p, S
<1>5. PICK k \in 1..Len(p) : p[k] = log[i]
    BY <1>4
<1>6. Len(Heads(p)) = Len(p)
    BY <1>4, HeadsJoin
<1>7. Heads(p)[k] = log[i][1]
    BY <1>5 DEF Heads
<1>8. Lines(log, 0, Len(log)) = Heads(p)
    BY LinesAreHeads DEF p, S
<1>9. QED BY <1>5, <1>6, <1>7, <1>8

-----------------------------------------------------------------------------
(* The line of p ends at i, torn or not before it.                         *)
LineOf(log, p, i) == log[i] = <<p, 3>> /\ log[i - 1] = <<p, 2>> /\ log[i - 2] = <<p, 1>>

(* The log but for the line that is being written.                         *)
Settled == SubSeq(file, 1, Len(file) - put)

(* The line that is being written ends the log; nobody writes otherwise.   *)
WritingInv ==
    /\ writing = Nobody => put = 0
    /\ ~up => writing = Nobody
    /\ put <= Len(file)
    /\ \A k \in 1..put : file[Len(file) - put + k] = <<writing, k>>

(* A cursor stands where a line ends, with all whole lines before it read. *)
CursorInv ==
    \A r \in Readers :
        /\ position[r] <= Len(file)
        /\ AtLine(file, position[r])
        /\ delivered[r] = Lines(file, 0, position[r])

(* Unless writes failed, the caches are the end of what is settled.        *)
CacheInv ==
    /\ \A kind \in Kinds : Len(recentBy[kind]) <= CacheSize
    /\ up /\ ~drifted =>
        LET known == AllLines(Settled) IN
        /\ recent = LastN(known, CacheSize)
        /\ \A kind \in Kinds : recentBy[kind] = LastN(OfKind(known, kind), CacheSize)

(* What was acknowledged is on disk, synced, each perception with an       *)
(* identity of its own that grows.                                         *)
AckedInv ==
    /\ writing # Nobody => writing.id <= appends
    /\ \A k \in 1..Len(acked) :
        /\ acked[k].id <= appends
        /\ writing # Nobody => acked[k].id < writing.id
        /\ \E i \in 3..synced : LineOf(file, acked[k], i)
    /\ \A k, l \in 1..Len(acked) : k < l => acked[k].id < acked[l].id

(* The inductive invariant of the store.                                   *)
StoreInv == TypeOK /\ WritingInv /\ CursorInv /\ CacheInv /\ AckedInv

-----------------------------------------------------------------------------
(* No perception is Nobody.                                                *)
LEMMA NobodyIsNone == Nobody \notin Perceptions
<1>1. \A p \in Perceptions : p.id \in 1..MaxAppends
    BY DEF Perceptions
<1>2. Nobody.id = 0 /\ 0 \notin 1..MaxAppends
    BY StoreAssumption DEF Nobody
<1>3. QED BY <1>1, <1>2

(* Where a reader gets to: the end of the last complete line.              *)
LEMMA ConsumedIsALine ==
    ASSUME file \in Seq(Pieces), NEW from \in 0..Len(file), AtLine(file, from)
    PROVE  Consumed(from) \in from..Len(file) /\ AtLine(file, Consumed(from))
<1> DEFINE S == {i \in from..Len(file) : i = from \/ file[i][2] = 3}
           n == Cardinality(S)
           last == Upwards(S)[n]
<1>1. Len(file) \in Nat /\ from \in Int /\ from \in S
    OBVIOUS
<1>2. S \in SUBSET Int /\ S \in SUBSET (from..Len(file)) /\ IsFiniteSet(S)
  <2>1. IsFiniteSet(from..Len(file))
      BY <1>1, FS_Interval
  <2>2. QED BY <2>1, FS_Subset
<1>3. n \in Nat /\ n # 0
    BY <1>1, <1>2, FS_CardinalityType, FS_EmptySet
<1>4. last \in S /\ Rank(S, last) = n
    BY <1>2, <1>3, OrderIsUp
<1>5. {j \in S : j <= last} = S
    BY <1>2, <1>4, FS_Subset DEF Rank
<1> HIDE DEF last
<1>6. ASSUME NEW i \in (last + 1)..Len(file) PROVE file[i][2] # 3
  <2>1. i \notin S
      BY <1>2, <1>4, <1>5
  <2>2. i \in from..Len(file)
      BY <1>1, <1>2, <1>4
  <2>3. QED BY <2>1, <2>2
<1>7. \E to \in from..Len(file) :
        /\ to = from \/ file[to][2] = 3
        /\ \A i \in (to + 1)..Len(file) : file[i][2] # 3
    BY <1>2, <1>4, <1>6
<1>8. /\ Consumed(from) \in from..Len(file)
      /\ Consumed(from) = from \/ file[Consumed(from)][2] = 3
    BY <1>7 DEF Consumed
<1>9. QED BY <1>8 DEF AtLine

(* The part of the file that a reader has read stays as it is.             *)
LEMMA CursorKept ==
    ASSUME NEW log \in Seq(Pieces), NEW more \in Seq(Pieces), Len(log) <= Len(more),
           \A i \in 1..Len(log) : more[i] = log[i],
           NEW n \in 0..Len(log), AtLine(log, n)
    PROVE  n <= Len(more) /\ AtLine(more, n) /\ Lines(more, 0, n) = Lines(log, 0, n)
<1>1. Len(log) \in Nat /\ Len(more) \in Nat /\ n \in Nat /\ n <= Len(more) /\ 0 \in Nat
    OBVIOUS
<1>2. \A i \in 1..n : more[i] = log[i]
    BY <1>1
<1>3. AtLine(more, n)
  <2>1. n # 0 => n \in 1..n
      BY <1>1
  <2>2. QED BY <1>2, <2>1 DEF AtLine
<1>4. Lines(more, 0, n) = Lines(log, 0, n)
    BY <1>1, <1>2, LinesKept
<1>5. QED BY <1>1, <1>3, <1>4

(* No step moves a cursor into a line or past one that it did not read.    *)
LEMMA CursorsKept ==
    ASSUME TypeOK, TypeOK', CursorInv, Next
    PROVE  CursorInv'
<1>1. /\ file \in Seq(Pieces) /\ file' \in Seq(Pieces) /\ Len(file) \in Nat
      /\ position \in [Readers -> Nat] /\ delivered \in [Readers -> Seq(Perceptions)]
    BY DEF TypeOK
<1>2. \A r \in Readers : position[r] \in 0..Len(file) /\ AtLine(file, position[r])
                         /\ delivered[r] = Lines(file, 0, position[r])
    BY <1>1 DEF CursorInv
<1>3. CASE UNCHANGED <<position, delivered>> /\ Len(file) <= Len(file') /\ \A i \in 1..Len(file) : file'[i] = file[i]
  <2>1. ASSUME NEW r \in Readers
        PROVE  /\ position[r] <= Len(file')
               /\ AtLine(file', position[r])
               /\ delivered[r] = Lines(file', 0, position[r])
      BY <1>1, <1>2, <1>3, CursorKept
  <2>2. QED BY <1>3, <2>1 DEF CursorInv
<1>4. CASE \E r \in Readers : ReadFrom(r)
  <2>1. PICK r \in Readers : ReadFrom(r)
      BY <1>4
  <2>2. file' = file
      BY <2>1 DEF ReadFrom, disk
  <2>3. PICK from \in 0..Len(file) : from = position[r]
      BY <1>2
  <2>4. PICK to \in from..Len(file) : to = Consumed(from) /\ AtLine(file, to)
      BY <1>1, <1>2, <2>3, ConsumedIsALine
  <2>5. /\ position' = [position EXCEPT ![r] = to]
        /\ delivered' = [delivered EXCEPT ![r] = @ \o Lines(file, from, to)]
      BY <1>1, <2>1, <2>3, <2>4 DEF ReadFrom
  <2>6. Lines(file, 0, to) = Lines(file, 0, from) \o Lines(file, from, to)
    <3>1. to \in 0..Len(file) /\ from \in 0..to
        BY <1>1, <2>3, <2>4
    <3>2. QED BY <1>1, <1>2, <2>3, <3>1, LinesJoin
  <2>7. \A s \in Readers : /\ position'[s] <= Len(file)
                           /\ AtLine(file, position'[s])
                           /\ delivered'[s] = Lines(file, 0, position'[s])
    <3>1. delivered'[r] = Lines(file, 0, to) /\ position'[r] = to /\ to <= Len(file)
      <4>1. position'[r] = to /\ delivered'[r] = delivered[r] \o Lines(file, from, to)
          BY <1>1, <2>5
      <4>2. delivered[r] = Lines(file, 0, from)
          BY <1>2, <2>3
      <4>3. to <= Len(file)
          BY <1>1, <2>3, <2>4
      <4>4. QED BY <2>6, <4>1, <4>2, <4>3
    <3>2. \A s \in Readers : s # r => position'[s] = position[s] /\ delivered'[s] = delivered[s]
        BY <1>1, <2>5
    <3>3. ASSUME NEW s \in Readers
          PROVE  /\ position'[s] <= Len(file)
                 /\ AtLine(file, position'[s])
                 /\ delivered'[s] = Lines(file, 0, position'[s])
      <4>1. CASE s = r
          BY <2>4, <3>1, <4>1
      <4>2. CASE s # r
        <5>1. position[s] <= Len(file)
            BY <1>1, <1>2
        <5>2. QED BY <1>2, <3>2, <4>2, <5>1
      <4>3. QED BY <4>1, <4>2
    <3>4. QED BY <3>3
  <2>8. QED BY <2>2, <2>7 DEF CursorInv
<1>5. CASE Crash
  <2>1. \A r \in Readers : position'[r] = 0 /\ delivered'[r] = <<>>
      BY <1>5 DEF Crash
  <2>2. Lines(file', 0, 0) = <<>> /\ AtLine(file', 0) /\ 0 <= Len(file')
      BY <1>1, NothingToReadThere DEF AtLine
  <2>3. QED BY <2>1, <2>2 DEF CursorInv
<1>6. CASE WritePiece
  <2>1. file' = Append(file, <<writing, put + 1>>) /\ UNCHANGED <<position, delivered>>
      BY <1>6 DEF WritePiece, cursors
  <2>2. Len(file) <= Len(file') /\ \A i \in 1..Len(file) : file'[i] = file[i]
      BY <1>1, <2>1
  <2>3. QED BY <1>3, <2>1, <2>2
<1>7. CASE (\E kind \in Kinds : BeginAppend(kind)) \/ EndAppend \/ FailAppend \/ Reopen
  <2>1. UNCHANGED <<file, position, delivered>>
      BY <1>7 DEF BeginAppend, EndAppend, FailAppend, Reopen, cursors, disk
  <2>2. QED BY <1>1, <1>3, <2>1
<1>8. QED BY <1>4, <1>5, <1>6, <1>7 DEF Next

(* What is read of any log are perceptions.                                *)
LEMMA PartsType ==
    ASSUME NEW log \in Seq(Pieces)
    PROVE  Lines(log, 0, Len(log)) \in Seq(Perceptions) /\ Trailing(log) \in Seq(Perceptions)
<1>1. Lines(log, 0, Len(log)) \in Seq(Perceptions)
  <2>1. 0 \in Nat /\ Len(log) \in 0..Len(log)
      OBVIOUS
  <2>2. QED BY <2>1, LinesType
<1>2. Trailing(log) \in Seq(Perceptions)
  <2>1. ASSUME Len(log) >= 2 PROVE log[Len(log)][1] \in Perceptions
    <3>1. log[Len(log)] \in Pieces
        BY <2>1
    <3>2. QED BY <3>1 DEF Pieces
  <2>2. QED BY <2>1 DEF Trailing
<1>3. QED BY <1>1, <1>2

(* The same of the whole.                                                  *)
LEMMA AllLinesType ==
    ASSUME NEW log \in Seq(Pieces)
    PROVE  AllLines(log) \in Seq(Perceptions)
BY PartsType DEF AllLines

(* A cache is bounded.                                                     *)
LEMMA CacheType ==
    ASSUME NEW s \in Seq(Perceptions)
    PROVE  /\ LastN(s, CacheSize) \in Seq(Perceptions)
           /\ Len(LastN(s, CacheSize)) <= CacheSize
<1>1. CacheSize \in Nat /\ Len(s) \in Nat
    BY StoreAssumption
<1>2. QED BY <1>1, EndOfSeq

(* Every step keeps the types.                                             *)
LEMMA TypeKept ==
    ASSUME TypeOK, CursorInv, Next
    PROVE  TypeOK'
<1> USE DEF TypeOK, disk, caches, cursors
<1>1. CASE \E kind \in Kinds : BeginAppend(kind)
  <2>1. PICK kind \in Kinds : BeginAppend(kind)
      BY <1>1
  <2>2. appends' \in 1..MaxAppends
      BY <2>1, StoreAssumption DEF BeginAppend
  <2>3. writing' = [id |-> appends', kind |-> kind] /\ put' = 0
      BY <2>1 DEF BeginAppend
  <2>4. writing' \in Perceptions
      BY <2>2, <2>3 DEF Perceptions
  <2>5. QED BY <2>1, <2>2, <2>3, <2>4 DEF BeginAppend
<1>2. CASE WritePiece
  <2>1. /\ writing \in Perceptions /\ put \in 0..2 /\ put' = put + 1
        /\ file' = Append(file, <<writing, put + 1>>)
        /\ UNCHANGED <<synced, up, writing, caches, cursors, acked, appends, errors, crashes, drifted>>
      BY <1>2 DEF WritePiece
  <2>2. <<writing, put + 1>> \in Pieces
      BY <2>1 DEF Pieces
  <2>3. file' \in Seq(Pieces) /\ Len(file') = Len(file) + 1 /\ put' \in 0..3
      BY <2>1, <2>2
  <2>4. synced' \in 0..Len(file')
      BY <2>1, <2>3
  <2>5. QED BY <2>1, <2>3, <2>4
<1>3. CASE EndAppend
  <2>1. /\ writing \in Perceptions /\ put' = 0 /\ writing' = Nobody
        /\ synced' = Len(file) /\ acked' = Append(acked, writing)
        /\ recent' = LastN(Append(recent, writing), CacheSize)
        /\ recentBy' = [recentBy EXCEPT ![writing.kind] = LastN(Append(@, writing), CacheSize)]
        /\ UNCHANGED <<file, up, cursors, appends, errors, crashes>>
        /\ drifted' \in BOOLEAN
      BY <1>3 DEF EndAppend
  <2>2. writing.kind \in Kinds
      BY <2>1 DEF Perceptions
  <2>3. Append(recent, writing) \in Seq(Perceptions) /\ Append(recentBy[writing.kind], writing) \in Seq(Perceptions)
      BY <2>1, <2>2
  <2>4. recent' \in Seq(Perceptions) /\ Len(recent') <= CacheSize
      BY <2>1, <2>3, CacheType
  <2>5. recentBy' \in [Kinds -> Seq(Perceptions)]
      BY <2>1, <2>2, <2>3, CacheType
  <2>6. QED BY <2>1, <2>4, <2>5
<1>4. CASE FailAppend
  <2>1. errors' \in 0..MaxErrors
      BY <1>4, StoreAssumption DEF FailAppend
  <2>2. drifted' \in BOOLEAN /\ put' = 0 /\ writing' = Nobody
      BY <1>4 DEF FailAppend
  <2>3. UNCHANGED <<disk, up, caches, cursors, acked, appends, crashes>>
      BY <1>4 DEF FailAppend
  <2>4. QED BY <2>1, <2>2, <2>3
<1>5. CASE \E r \in Readers : ReadFrom(r)
  <2>1. PICK r \in Readers : ReadFrom(r)
      BY <1>5
  <2>2. position[r] \in 0..Len(file) /\ AtLine(file, position[r])
    <3>1. position[r] \in Nat /\ Len(file) \in Nat
        OBVIOUS
    <3>2. QED BY <3>1 DEF CursorInv
  <2>3. PICK from \in 0..Len(file) : from = position[r]
      BY <2>2
  <2>4. PICK to \in from..Len(file) : to = Consumed(from)
      BY <2>2, <2>3, ConsumedIsALine
  <2>5. to \in 0..Len(file) /\ to \in Nat /\ from \in Nat
      BY <2>3, <2>4
  <2>6. Lines(file, from, to) \in Seq(Perceptions)
      BY <2>5, LinesType
  <2>7. /\ position' = [position EXCEPT ![r] = to]
        /\ delivered' = [delivered EXCEPT ![r] = @ \o Lines(file, from, to)]
        /\ UNCHANGED <<disk, up, writing, put, caches, acked, appends, errors, crashes, drifted>>
      BY <2>1, <2>3, <2>4 DEF ReadFrom
  <2>8. delivered[r] \o Lines(file, from, to) \in Seq(Perceptions)
      BY <2>6
  <2>9. position' \in [Readers -> Nat] /\ delivered' \in [Readers -> Seq(Perceptions)]
      BY <2>5, <2>7, <2>8
  <2>10. QED BY <2>7, <2>9
<1>6. CASE Crash
  <2>1. PICK n \in synced..Len(file) : file' = SubSeq(file, 1, n)
      BY <1>6 DEF Crash
  <2>2. n \in 0..Len(file) /\ Len(file) \in Nat
      BY <2>1
  <2>3. file' \in Seq(Pieces)
      BY <2>1, <2>2
  <2>4. /\ crashes' = crashes + 1 /\ crashes < MaxCrashes /\ synced' = Len(file')
        /\ up' = FALSE /\ writing' = Nobody /\ put' = 0
        /\ recent' = <<>> /\ recentBy' = [kind \in Kinds |-> <<>>]
        /\ position' = [r \in Readers |-> 0] /\ delivered' = [r \in Readers |-> <<>>]
        /\ UNCHANGED <<acked, appends, errors, drifted>>
      BY <1>6 DEF Crash
  <2>5. crashes' \in 0..MaxCrashes /\ Len(recent') <= CacheSize
      BY <2>4, StoreAssumption
  <2>6. <<>> \in Seq(Perceptions)
      OBVIOUS
  <2>7. /\ recentBy' \in [Kinds -> Seq(Perceptions)]
        /\ position' \in [Readers -> Nat]
        /\ delivered' \in [Readers -> Seq(Perceptions)]
      BY <2>4, <2>6
  <2>8. synced' \in 0..Len(file')
      BY <2>3, <2>4
  <2>9. /\ up' \in BOOLEAN /\ put' \in 0..3 /\ writing' \in Perceptions \cup {Nobody}
        /\ recent' \in Seq(Perceptions) /\ UNCHANGED <<acked, appends, errors, drifted>>
    <3>1. up' = FALSE /\ put' = 0 /\ writing' = Nobody /\ recent' = <<>>
        BY <2>4
    <3>2. UNCHANGED <<acked, appends, errors, drifted>>
        BY <2>4
    <3>3. up' \in BOOLEAN
        BY <3>1
    <3>4. put' \in 0..3
        BY <3>1
    <3>5. writing' \in Perceptions \cup {Nobody} /\ recent' \in Seq(Perceptions)
        BY <2>6, <3>1
    <3>6. QED BY <3>2, <3>3, <3>4, <3>5
  <2>10. QED BY <2>3, <2>5, <2>7, <2>8, <2>9
<1>7. CASE Reopen
  <2>1. AllLines(file) \in Seq(Perceptions)
      BY AllLinesType
  <2>2. \A kind : OfKind(AllLines(file), kind) \in Seq(Perceptions)
      BY <2>1, OfKindJoins
  <2>3. /\ up' = TRUE /\ drifted' = FALSE
        /\ recent' = LastN(AllLines(file), CacheSize)
        /\ recentBy' = [kind \in Kinds |-> LastN(OfKind(AllLines(file), kind), CacheSize)]
        /\ UNCHANGED <<disk, writing, put, cursors, acked, appends, errors, crashes>>
      BY <1>7 DEF Reopen, ReadAll
  <2>4. recent' \in Seq(Perceptions) /\ Len(recent') <= CacheSize /\ recentBy' \in [Kinds -> Seq(Perceptions)]
      BY <2>1, <2>2, <2>3, CacheType
  <2>5. QED BY <2>3, <2>4
<1>8. QED BY <1>1, <1>2, <1>3, <1>4, <1>5, <1>6, <1>7 DEF Next

(* Every step leaves the line that is being written where it was.          *)
LEMMA WritingKept ==
    ASSUME TypeOK, TypeOK', WritingInv, Next
    PROVE  WritingInv'
<1>1. put \in 0..3 /\ file \in Seq(Pieces) /\ Len(file) \in Nat /\ file' \in Seq(Pieces) /\ Len(file') \in Nat
    BY DEF TypeOK
<1>2. CASE \E kind \in Kinds : BeginAppend(kind)
  <2>1. PICK kind \in Kinds : BeginAppend(kind)
      BY <1>2
  <2>2. up' = TRUE /\ put' = 0
      BY <2>1 DEF BeginAppend, WritingInv, TypeOK
  <2>3. QED BY <1>1, <2>2 DEF WritingInv
<1>3. CASE WritePiece
  <2>1. /\ writing # Nobody /\ put \in 0..2 /\ put' = put + 1 /\ UNCHANGED <<up, writing>>
        /\ file' = Append(file, <<writing, put + 1>>)
      BY <1>1, <1>3 DEF WritePiece
  <2>2. Len(file') = Len(file) + 1 /\ \A i \in 1..Len(file) : file'[i] = file[i]
      BY <1>1, <2>1
  <2>3. file'[Len(file) + 1] = <<writing, put + 1>>
      BY <1>1, <2>1
  <2>4. ASSUME NEW k \in 1..put' PROVE file'[Len(file') - put' + k] = <<writing, k>>
    <3>1. Len(file') - put' + k = Len(file) - put + k
        BY <1>1, <2>1, <2>2
    <3>2. CASE k = put + 1
      <4>1. Len(file) - put + k = Len(file) + 1
          BY <1>1, <3>2
      <4>2. QED BY <2>3, <3>1, <3>2, <4>1
    <3>3. CASE k \in 1..put
      <4>1. Len(file) - put + k \in 1..Len(file)
          BY <1>1, <3>3 DEF WritingInv
      <4>2. QED BY <2>2, <3>1, <3>3, <4>1 DEF WritingInv
    <3>4. k = put + 1 \/ k \in 1..put
        BY <1>1, <2>1
    <3>5. QED BY <3>2, <3>3, <3>4
  <2>5. put' <= Len(file')
      BY <1>1, <2>1, <2>2 DEF WritingInv
  <2>6. QED BY <2>1, <2>4, <2>5 DEF WritingInv
<1>4. CASE EndAppend \/ FailAppend \/ Crash
  <2>1. put' = 0 /\ writing' = Nobody
      BY <1>4 DEF EndAppend, FailAppend, Crash
  <2>2. QED BY <1>1, <2>1 DEF WritingInv
<1>5. CASE (\E r \in Readers : ReadFrom(r)) \/ Reopen
  <2>1. UNCHANGED <<file, put, writing>> /\ (up' = up \/ up' = TRUE)
      BY <1>5 DEF ReadFrom, Reopen, disk
  <2>2. QED BY <2>1 DEF WritingInv
<1>6. QED BY <1>2, <1>3, <1>4, <1>5 DEF Next

-----------------------------------------------------------------------------
(* A line that ends the file and follows another is read after all others. *)
LEMMA LastLineIsRead ==
    ASSUME NEW log \in Seq(Pieces), NEW n \in Nat, n + 3 = Len(log), WholeLine(log, n + 3)
    PROVE  AllLines(log) = Append(AllLines(SubSeq(log, 1, n)), log[n + 3][1])
<1> DEFINE before == SubSeq(log, 1, n)
<1>1. before \in Seq(Pieces) /\ Len(before) = n /\ \A i \in 1..n : log[i] = before[i]
    OBVIOUS
<1>2. n <= Len(log) /\ n \in 0..n /\ 0 \in Nat
    OBVIOUS
<1> HIDE DEF before
<1>3. AtLine(log, n) /\ Lines(log, 0, n + 3) = Append(Lines(log, 0, n), log[n + 3][1])
    BY OneLineMore
<1>4. Lines(log, 0, n) = Lines(before, 0, n)
    BY <1>1, <1>2, LinesKept
<1>5. Trailing(before) = <<>>
  <2>1. CASE n = 0
      BY <1>1, <2>1 DEF Trailing
  <2>2. CASE n # 0
    <3>1. n \in 1..n /\ log[n][2] = 3
        BY <1>3, <2>2 DEF AtLine
    <3>2. before[n][2] = 3
        BY <1>1, <3>1
    <3>3. before[n] # <<before[n][1], 2>>
        BY <3>2
    <3>4. QED BY <1>1, <3>3 DEF Trailing
  <2>3. QED BY <2>1, <2>2
<1>6. Trailing(log) = <<>>
  <2>1. log[n + 3] = <<log[n + 3][1], 3>>
      BY DEF WholeLine
  <2>2. log[n + 3] # <<log[n + 3][1], 2>>
      BY <2>1
  <2>3. QED BY <2>2 DEF Trailing
<1>7. Lines(before, 0, n) \in Seq(Perceptions) /\ Lines(log, 0, n + 3) \in Seq(Perceptions)
  <2>1. n \in 0..Len(before) /\ n + 3 \in 0..Len(log)
      BY <1>1
  <2>2. QED BY <1>1, <1>2, <2>1, LinesType
<1>8. AllLines(log) = Lines(log, 0, n + 3) /\ AllLines(before) = Lines(before, 0, n)
    BY <1>1, <1>5, <1>6, <1>7, ConcatEmptySeq DEF AllLines
<1>9. QED BY <1>3, <1>4, <1>8 DEF before

(* What precedes the line that is being written stays as it is.            *)
LEMMA SamePrefix ==
    ASSUME NEW X, NEW s \in Seq(X), NEW t \in Seq(X), NEW m \in Nat, m <= Len(s), m <= Len(t),
           \A i \in 1..m : s[i] = t[i]
    PROVE  SubSeq(s, 1, m) = SubSeq(t, 1, m)
<1>1. /\ SubSeq(s, 1, m) \in Seq(X) /\ Len(SubSeq(s, 1, m)) = m
      /\ SubSeq(t, 1, m) \in Seq(X) /\ Len(SubSeq(t, 1, m)) = m
      /\ \A i \in 1..m : SubSeq(s, 1, m)[i] = s[i] /\ SubSeq(t, 1, m)[i] = t[i]
    OBVIOUS
<1>2. QED BY <1>1, SeqEqual

(* The caches hold the end of the file as it was before the line that is   *)
(* being written.                                                          *)
CachesHold(log) ==
    /\ recent = LastN(AllLines(log), CacheSize)
    /\ \A kind \in Kinds : recentBy[kind] = LastN(OfKind(AllLines(log), kind), CacheSize)

LEMMA CachesKept ==
    ASSUME TypeOK, TypeOK', WritingInv, WritingInv', CacheInv, Next
    PROVE  CacheInv'
<1>1. /\ put \in 0..3 /\ file \in Seq(Pieces) /\ Len(file) \in Nat /\ put <= Len(file)
      /\ Len(file) - put \in 0..Len(file)
      /\ recent \in Seq(Perceptions) /\ recentBy \in [Kinds -> Seq(Perceptions)]
    BY DEF TypeOK, WritingInv
<1>2. CASE UNCHANGED <<recent, recentBy, up, Settled>> /\ drifted' \in {drifted, TRUE}
    BY <1>2 DEF CacheInv
<1>3. CASE \E kind \in Kinds : BeginAppend(kind)
  <2>1. UNCHANGED <<recent, recentBy, up, file, drifted, put>>
      BY <1>3 DEF BeginAppend, disk, caches, WritingInv
  <2>2. QED BY <1>2, <2>1 DEF Settled
<1>4. CASE WritePiece
  <2>1. /\ put' = put + 1 /\ file' = Append(file, <<writing, put + 1>>)
        /\ UNCHANGED <<recent, recentBy, up, drifted>>
      BY <1>4 DEF WritePiece, caches
  <2>2. SubSeq(file', 1, Len(file') - put') = SubSeq(file, 1, Len(file) - put)
    <3>1. Len(file') - put' = Len(file) - put
        BY <1>1, <2>1
    <3>2. \A i \in 1..(Len(file) - put) : file'[i] = file[i]
        BY <1>1, <2>1
    <3>3. Len(file) - put \in Nat /\ Len(file) - put <= Len(file) /\ Len(file) - put <= Len(file')
        BY <1>1, <2>1
    <3>4. file' \in Seq(Pieces)
        BY DEF TypeOK
    <3>5. QED BY <1>1, <3>1, <3>2, <3>3, <3>4, SamePrefix
  <2>3. QED BY <1>2, <2>1, <2>2 DEF Settled
<1>5. CASE EndAppend
  <2>1. /\ writing \in Perceptions /\ put = 3 /\ put' = 0 /\ UNCHANGED <<file, up>>
        /\ recent' = LastN(Append(recent, writing), CacheSize)
        /\ recentBy' = [recentBy EXCEPT ![writing.kind] = LastN(Append(@, writing), CacheSize)]
        /\ drifted' = (drifted \/ ~WholeLine(file, Len(file)))
      BY <1>5 DEF EndAppend, TypeOK
  <2>2. writing.kind \in Kinds
      BY <2>1 DEF Perceptions
  <2>3. ASSUME NEW kind \in Kinds
        PROVE  recentBy'[kind] = IF kind = writing.kind
                                 THEN LastN(Append(recentBy[kind], writing), CacheSize)
                                 ELSE recentBy[kind]
      BY <1>1, <2>1, <2>2
  <2>4. ASSUME NEW kind \in Kinds PROVE Len(recentBy'[kind]) <= CacheSize
    <3>1. Append(recentBy[kind], writing) \in Seq(Perceptions)
        BY <1>1, <2>1
    <3>2. Len(LastN(Append(recentBy[kind], writing), CacheSize)) <= CacheSize
        BY <3>1, CacheType
    <3>3. QED BY <2>3, <3>2 DEF CacheInv
  <2>5. ASSUME up', ~drifted' PROVE CachesHold(file)'
    <3> DEFINE n == Len(file) - 3
               old == AllLines(Settled)
    <3>1. up /\ ~drifted /\ WholeLine(file, Len(file))
        BY <2>1, <2>5
    <3>2. n \in Nat /\ n + 3 = Len(file)
        BY <1>1, <2>1
    <3>3. Settled = SubSeq(file, 1, n)
        BY <2>1 DEF Settled
    <3>4. old \in Seq(Perceptions)
      <4>1. Settled \in Seq(Pieces)
          BY <1>1, <3>2, <3>3
      <4>2. QED BY <4>1, AllLinesType
    <3>5. file[n + 3][1] = writing
      <4>1. 3 \in 1..put /\ Len(file) - put + 3 = n + 3
          BY <1>1, <2>1
      <4>2. file[n + 3] = <<writing, 3>>
          BY <4>1 DEF WritingInv
      <4>3. QED BY <4>2
    <3>6. AllLines(file) = Append(old, writing)
      <4>1. WholeLine(file, n + 3)
          BY <3>1, <3>2
      <4> HIDE DEF n
      <4>2. QED BY <1>1, <3>2, <3>3, <3>5, <4>1, LastLineIsRead
    <3> HIDE DEF old, n
    <3>7. recent = LastN(old, CacheSize) /\ \A kind \in Kinds : recentBy[kind] = LastN(OfKind(old, kind), CacheSize)
        BY <3>1 DEF CacheInv, old
    <3>8. recent' = LastN(AllLines(file), CacheSize)
        BY <2>1, <3>4, <3>6, <3>7, CacheTakesOne, StoreAssumption
    <3>9. ASSUME NEW kind \in Kinds
          PROVE  recentBy'[kind] = LastN(OfKind(AllLines(file), kind), CacheSize)
      <4>1. OfKind(old, kind) \in Seq(Perceptions)
          BY <3>4, OfKindJoins
      <4>2. OfKind(AllLines(file), kind) = OfKind(old, kind) \o OfKind(<<writing>>, kind)
        <5>1. AllLines(file) = old \o <<writing>> /\ <<writing>> \in Seq(Perceptions)
            BY <2>1, <3>4, <3>6, AppendIsConcat
        <5> DEFINE one == <<writing>>
        <5> HIDE DEF one
        <5>2. AllLines(file) = old \o one /\ one \in Seq(Perceptions)
            BY <5>1 DEF one
        <5>3. OfKind(old \o one, kind) = OfKind(old, kind) \o OfKind(one, kind)
            BY <3>4, <5>2, OfKindJoins
        <5>4. QED BY <5>2, <5>3 DEF one
      <4>3. CASE kind = writing.kind
        <5>1. OfKind(AllLines(file), kind) = Append(OfKind(old, kind), writing)
            BY <2>1, <4>1, <4>2, <4>3, OfKindOfOne, AppendIsConcat
        <5>2. recentBy'[kind] = LastN(Append(LastN(OfKind(old, kind), CacheSize), writing), CacheSize)
            BY <2>3, <3>7, <4>3
        <5>3. QED BY <2>1, <4>1, <5>1, <5>2, CacheTakesOne, StoreAssumption
      <4>4. CASE kind # writing.kind
        <5>1. OfKind(AllLines(file), kind) = OfKind(old, kind)
            BY <2>1, <4>1, <4>2, <4>4, OfKindOfOne, ConcatEmptySeq
        <5>2. QED BY <2>3, <3>7, <4>4, <5>1
      <4>5. QED BY <4>3, <4>4
    <3>10. QED BY <2>1, <3>8, <3>9 DEF CachesHold
  <2>6. Settled' = file'
    <3>1. Settled' = SubSeq(file, 1, Len(file))
        BY <1>1, <2>1 DEF Settled
    <3>2. QED BY <1>1, <2>1, <3>1
  <2>7. QED BY <2>4, <2>5, <2>6 DEF CacheInv, CachesHold
<1>6. CASE FailAppend
  <2>1. UNCHANGED <<recent, recentBy, up, file>> /\ put' = 0 /\ drifted' = (drifted \/ put > 0)
      BY <1>6 DEF FailAppend, disk, caches
  <2>2. CASE put > 0
      BY <2>1, <2>2 DEF CacheInv
  <2>3. CASE put = 0
      BY <1>1, <1>2, <2>1, <2>3 DEF Settled, TypeOK
  <2>4. QED BY <1>1, <2>2, <2>3
<1>7. CASE Crash
  <2>1. up' = FALSE /\ \A kind \in Kinds : recentBy'[kind] = <<>>
      BY <1>7 DEF Crash
  <2>2. QED BY <2>1, StoreAssumption DEF CacheInv
<1>8. CASE Reopen
  <2>1. /\ UNCHANGED <<file, put>> /\ writing = Nobody
        /\ recent' = LastN(AllLines(file), CacheSize)
        /\ recentBy' = [kind \in Kinds |-> LastN(OfKind(AllLines(file), kind), CacheSize)]
      BY <1>8 DEF Reopen, disk, WritingInv, ReadAll
  <2>2. Settled' = file'
    <3>1. Settled' = SubSeq(file, 1, Len(file))
        BY <1>1, <2>1 DEF Settled, WritingInv
    <3>2. QED BY <1>1, <2>1, <3>1
  <2>3. AllLines(file) \in Seq(Perceptions)
      BY <1>1, AllLinesType
  <2>4. ASSUME NEW kind \in Kinds PROVE Len(recentBy'[kind]) <= CacheSize
    <3>1. OfKind(AllLines(file), kind) \in Seq(Perceptions)
        BY <2>3, OfKindJoins
    <3>2. QED BY <2>1, <3>1, CacheType
  <2>5. CachesHold(file)'
      BY <2>1 DEF CachesHold
  <2>6. QED BY <2>2, <2>4, <2>5 DEF CacheInv, CachesHold
<1>9. CASE \E r \in Readers : ReadFrom(r)
  <2>1. UNCHANGED <<recent, recentBy, up, file, drifted, put>>
      BY <1>9 DEF ReadFrom, disk, caches
  <2>2. QED BY <1>2, <2>1 DEF Settled
<1>10. QED BY <1>3, <1>4, <1>5, <1>6, <1>7, <1>8, <1>9 DEF Next

-----------------------------------------------------------------------------
(* What append() acknowledged is on disk, synced.                          *)
OnDisk(log, safe, p) == \E i \in 3..safe : LineOf(log, p, i)

(* What is synced stays on disk, whatever becomes of the rest.             *)
LEMMA StaysOnDisk ==
    ASSUME NEW log \in Seq(Pieces), NEW more \in Seq(Pieces), NEW safe \in 0..Len(log), NEW safer \in Nat,
           safe <= safer, safe <= Len(more), \A i \in 1..safe : more[i] = log[i],
           NEW p, OnDisk(log, safe, p)
    PROVE  OnDisk(more, safer, p)
<1>1. PICK i \in 3..safe : LineOf(log, p, i)
    BY DEF OnDisk
<1>2. i \in 1..safe /\ i - 1 \in 1..safe /\ i - 2 \in 1..safe /\ i \in 3..safer
    OBVIOUS
<1>3. LineOf(more, p, i)
    BY <1>1, <1>2 DEF LineOf
<1>4. QED BY <1>2, <1>3 DEF OnDisk

(* No step takes back what was acknowledged.                               *)
LEMMA AckedKept ==
    ASSUME TypeOK, TypeOK', WritingInv, AckedInv, Next
    PROVE  AckedInv'
<1>1. /\ put \in 0..3 /\ file \in Seq(Pieces) /\ Len(file) \in Nat /\ synced \in 0..Len(file)
      /\ file' \in Seq(Pieces) /\ Len(file') \in Nat /\ synced' \in 0..Len(file')
      /\ acked \in Seq(Perceptions) /\ Len(acked) \in Nat /\ appends \in Nat
      /\ \A k \in 1..Len(acked) : acked[k] \in Perceptions /\ acked[k].id \in Nat
  <2>1. \A p \in Perceptions : p.id \in Nat
      BY DEF Perceptions
  <2>2. \A k \in 1..Len(acked) : acked[k] \in Perceptions
      BY DEF TypeOK
  <2>3. QED BY <2>1, <2>2 DEF TypeOK
<1>2. \A k \in 1..Len(acked) : OnDisk(file, synced, acked[k])
    BY DEF AckedInv, OnDisk
<1>3. ASSUME UNCHANGED acked, UNCHANGED appends, UNCHANGED writing \/ writing' = Nobody,
             synced <= synced', synced <= Len(file'), \A i \in 1..synced : file'[i] = file[i]
      PROVE  AckedInv'
  <2>1. ASSUME NEW k \in 1..Len(acked) PROVE OnDisk(file', synced', acked[k])
    <3>1. synced \in 0..Len(file) /\ synced' \in Nat /\ OnDisk(file, synced, acked[k])
        BY <1>1, <1>2
    <3>2. QED BY <1>1, <1>3, <3>1, StaysOnDisk
  <2>2. QED BY <1>3, <2>1 DEF AckedInv, OnDisk
<1>4. CASE \E kind \in Kinds : BeginAppend(kind)
  <2>1. PICK kind \in Kinds : BeginAppend(kind)
      BY <1>4
  <2>2. /\ appends' = appends + 1 /\ writing' = [id |-> appends', kind |-> kind]
        /\ UNCHANGED <<file, synced, acked>>
      BY <2>1 DEF BeginAppend, disk
  <2>3. writing'.id = appends + 1
      BY <2>2
  <2>4. \A k \in 1..Len(acked) : acked[k].id <= appends' /\ acked[k].id < writing'.id
      BY <1>1, <2>2, <2>3 DEF AckedInv
  <2>5. writing'.id <= appends'
      BY <1>1, <2>2, <2>3
  <2>6. /\ \A k \in 1..Len(acked) : \E i \in 3..synced : LineOf(file, acked[k], i)
        /\ \A k, l \in 1..Len(acked) : k < l => acked[k].id < acked[l].id
      BY DEF AckedInv
  <2>7. acked' = acked /\ file' = file /\ synced' = synced
      BY <2>2
  <2>8. QED BY <2>4, <2>5, <2>6, <2>7 DEF AckedInv, LineOf
<1>5. CASE WritePiece
  <2>1. /\ file' = Append(file, <<writing, put + 1>>)
        /\ UNCHANGED <<acked, appends, writing, synced>>
      BY <1>5 DEF WritePiece
  <2>2. synced <= Len(file') /\ \A i \in 1..synced : file'[i] = file[i]
      BY <1>1, <2>1
  <2>3. QED BY <1>1, <1>3, <2>1, <2>2
<1>6. CASE EndAppend
  <2>1. /\ writing \in Perceptions /\ writing # Nobody /\ put = 3 /\ file' = file /\ synced' = Len(file)
        /\ acked' = Append(acked, writing) /\ appends' = appends /\ writing' = Nobody
      BY <1>6 DEF EndAppend, TypeOK
  <2> DEFINE n == Len(acked)
  <2>2. /\ Len(acked') = n + 1 /\ acked'[n + 1] = writing
        /\ \A k \in 1..n : acked'[k] = acked[k]
      BY <1>1, <2>1
  <2>3. writing.id \in Nat
      BY <2>1 DEF Perceptions
  <2>4. OnDisk(file, Len(file), writing)
    <3>1. /\ 1 \in 1..put /\ 2 \in 1..put /\ 3 \in 1..put /\ Len(file) \in 3..Len(file)
          /\ Len(file) - put + 1 = Len(file) - 2 /\ Len(file) - put + 2 = Len(file) - 1
          /\ Len(file) - put + 3 = Len(file)
        BY <1>1, <2>1 DEF WritingInv
    <3>2. LineOf(file, writing, Len(file))
        BY <3>1 DEF WritingInv, LineOf
    <3>3. QED BY <3>1, <3>2 DEF OnDisk
  <2>5. \A k \in 1..n : OnDisk(file, Len(file), acked[k])
      BY <1>1, <1>2, StaysOnDisk
  <2>6. \A k \in 1..(n + 1) : /\ acked'[k].id <= appends
                              /\ OnDisk(file', synced', acked'[k])
    <3>1. ASSUME NEW k \in 1..(n + 1)
          PROVE  acked'[k].id <= appends /\ OnDisk(file', synced', acked'[k])
      <4>1. CASE k = n + 1
          BY <2>1, <2>2, <2>4, <4>1 DEF AckedInv
      <4>2. CASE k \in 1..n
          BY <2>1, <2>2, <2>5, <4>2 DEF AckedInv
      <4>3. QED BY <1>1, <4>1, <4>2
    <3>2. QED BY <3>1
  <2>7. ASSUME NEW k \in 1..(n + 1), NEW l \in 1..(n + 1), k < l PROVE acked'[k].id < acked'[l].id
    <3>1. CASE l = n + 1
      <4>1. k \in 1..n
          BY <1>1, <2>7, <3>1
      <4>2. QED BY <2>1, <2>2, <3>1, <4>1 DEF AckedInv
    <3>2. CASE l \in 1..n
      <4>1. k \in 1..n
          BY <1>1, <2>7, <3>2
      <4>2. QED BY <2>2, <2>7, <3>2, <4>1 DEF AckedInv
    <3>3. QED BY <1>1, <3>1, <3>2
  <2>8. QED BY <2>1, <2>2, <2>6, <2>7 DEF AckedInv, OnDisk
<1>7. CASE FailAppend \/ Reopen \/ \E r \in Readers : ReadFrom(r)
  <2>1. UNCHANGED <<acked, appends, file, synced>> /\ (UNCHANGED writing \/ writing' = Nobody)
      BY <1>7 DEF FailAppend, Reopen, ReadFrom, disk
  <2>2. QED BY <1>1, <1>3, <2>1
<1>8. CASE Crash
  <2>1. PICK n \in synced..Len(file) : file' = SubSeq(file, 1, n)
      BY <1>8 DEF Crash
  <2>2. UNCHANGED <<acked, appends>> /\ writing' = Nobody /\ synced' = Len(file')
      BY <1>8 DEF Crash
  <2>3. Len(file') = n /\ \A i \in 1..n : file'[i] = file[i]
      BY <1>1, <2>1
  <2>4. synced <= synced' /\ synced <= Len(file') /\ \A i \in 1..synced : file'[i] = file[i]
      BY <1>1, <2>1, <2>2, <2>3
  <2>5. QED BY <1>3, <2>2, <2>4
<1>9. QED BY <1>4, <1>5, <1>6, <1>7, <1>8 DEF Next

-----------------------------------------------------------------------------
(* The invariant holds in every state.                                     *)
LEMMA StoreAlways == Spec => []StoreInv
<1>1. Init => StoreInv
  <2> SUFFICES ASSUME Init PROVE StoreInv
      OBVIOUS
  <2>1. /\ file = <<>> /\ synced = 0 /\ up = TRUE /\ writing = Nobody /\ put = 0 /\ recent = <<>>
        /\ acked = <<>> /\ appends = 0 /\ errors = 0 /\ crashes = 0 /\ drifted = FALSE
      BY DEF Init
  <2>2. /\ recentBy = [kind \in Kinds |-> <<>>] /\ position = [r \in Readers |-> 0]
        /\ delivered = [r \in Readers |-> <<>>]
      BY DEF Init
  <2>3. <<>> \in Seq(Perceptions) /\ <<>> \in Seq(Pieces) /\ Len(<<>>) = 0
      OBVIOUS
  <2>4. TypeOK
    <3>1. /\ recentBy \in [Kinds -> Seq(Perceptions)] /\ position \in [Readers -> Nat]
          /\ delivered \in [Readers -> Seq(Perceptions)]
        BY <2>2, <2>3
    <3>2. up \in BOOLEAN /\ drifted \in BOOLEAN
        BY <2>1
    <3>3. synced \in 0..Len(file) /\ put \in 0..3 /\ Len(recent) <= CacheSize
          /\ appends \in 0..MaxAppends /\ errors \in 0..MaxErrors /\ crashes \in 0..MaxCrashes
        BY <2>1, <2>3, StoreAssumption
    <3>4. QED BY <2>1, <2>3, <3>1, <3>2, <3>3 DEF TypeOK
  <2>5. WritingInv
      BY <2>1, <2>3 DEF WritingInv
  <2>6. CursorInv
    <3>1. Lines(file, 0, 0) = <<>> /\ AtLine(file, 0)
        BY NothingToReadThere DEF AtLine
    <3>2. QED BY <2>1, <2>2, <2>3, <3>1 DEF CursorInv
  <2>7. AllLines(<<>>) = <<>>
    <3>1. Lines(<<>>, 0, 0) = <<>>
        BY NothingToReadThere
    <3>2. Trailing(<<>>) = <<>>
        BY <2>3 DEF Trailing
    <3>3. QED BY <2>3, <3>1, <3>2 DEF AllLines
  <2>8. CacheInv
    <3>1. Settled = <<>>
        BY <2>1, <2>3 DEF Settled
    <3>2. LastN(<<>>, CacheSize) = <<>>
        BY <2>3, StoreAssumption DEF LastN
    <3>3. ASSUME NEW kind \in Kinds PROVE OfKind(<<>>, kind) = <<>>
      <4>1. {i \in 1..Len(<<>>) : <<>>[i].kind = kind} = {}
          BY <2>3
      <4>2. QED BY <4>1, PickedNone DEF OfKind
    <3>4. \A kind \in Kinds : recentBy[kind] = <<>> /\ Len(recentBy[kind]) <= CacheSize
        BY <2>2, <2>3, StoreAssumption
    <3>5. QED BY <2>1, <2>7, <3>1, <3>2, <3>3, <3>4 DEF CacheInv
  <2>9. AckedInv
      BY <2>1, <2>3 DEF AckedInv
  <2>10. QED BY <2>4, <2>5, <2>6, <2>8, <2>9 DEF StoreInv
<1>2. StoreInv /\ [Next]_vars => StoreInv'
  <2> SUFFICES ASSUME StoreInv, [Next]_vars PROVE StoreInv'
      OBVIOUS
  <2>1. CASE Next
    <3>1. TypeOK /\ WritingInv /\ CursorInv /\ CacheInv /\ AckedInv
        BY DEF StoreInv
    <3>2. TypeOK'
        BY <2>1, <3>1, TypeKept
    <3>3. WritingInv'
        BY <2>1, <3>1, <3>2, WritingKept
    <3>4. CursorInv' /\ CacheInv' /\ AckedInv'
        BY <2>1, <3>1, <3>2, <3>3, CursorsKept, CachesKept, AckedKept
    <3>5. QED BY <3>2, <3>3, <3>4 DEF StoreInv
  <2>2. CASE UNCHANGED vars
    <3>1. UNCHANGED <<file, synced, up, writing, put, recent, recentBy, position, delivered,
                      acked, appends, errors, crashes, drifted>>
        BY <2>2 DEF vars, disk, caches, cursors
    <3>2. TypeOK' /\ WritingInv' /\ Settled' = Settled
        BY <3>1 DEF StoreInv, TypeOK, WritingInv, Settled
    <3>3. CursorInv' /\ CacheInv' /\ AckedInv'
        BY <3>1, <3>2 DEF StoreInv, CursorInv, CacheInv, AckedInv
    <3>4. QED BY <3>2, <3>3 DEF StoreInv
  <2>3. QED BY <2>1, <2>2
<1>3. QED BY <1>1, <1>2, PTL DEF Spec

(* The caches answer as the file would.                                    *)
LEMMA CachesAnswer ==
    ASSUME StoreInv
    PROVE  CachesMatchFile
<1>1. /\ Len(recent) <= CacheSize /\ recent \in Seq(Perceptions)
      /\ \A kind \in Kinds : Len(recentBy[kind]) <= CacheSize
      /\ file \in Seq(Pieces) /\ CacheSize \in Nat
    BY StoreAssumption DEF StoreInv, TypeOK, CacheInv
<1>2. SUFFICES ASSUME up, writing = Nobody, ~drifted
               PROVE  /\ \A n \in 1..(CacheSize + 1) : TailOf(n) = LastN(ReadAll, n)
                      /\ \A n \in 1..CacheSize, kind \in Kinds :
                            TailMatching(n, kind) = LastN(OfKind(ReadAll, kind), n)
    BY <1>1 DEF CachesMatchFile
<1>3. Settled = file
  <2>1. Settled = SubSeq(file, 1, Len(file))
      BY <1>1, <1>2 DEF StoreInv, WritingInv, Settled
  <2>2. QED BY <1>1, <2>1
<1> DEFINE all == AllLines(file)
<1>4. all \in Seq(Perceptions) /\ ReadAll = all
    BY <1>1, AllLinesType DEF ReadAll
<1>5. recent = LastN(all, CacheSize) /\ \A kind \in Kinds : recentBy[kind] = LastN(OfKind(all, kind), CacheSize)
    BY <1>2, <1>3 DEF StoreInv, CacheInv
<1> HIDE DEF all
<1>6. ASSUME NEW n \in 1..(CacheSize + 1) PROVE TailOf(n) = LastN(all, n)
  <2>1. CASE n <= Len(recent)
    <3>1. n <= CacheSize /\ n \in Nat
        BY <1>1, <2>1
    <3>2. LastN(recent, n) = LastN(all, n)
        BY <1>1, <1>4, <1>5, <3>1, EndOfEnd
    <3>3. QED BY <2>1, <3>2 DEF TailOf
  <2>2. CASE ~(n <= Len(recent))
      BY <1>4, <2>2 DEF TailOf
  <2>3. QED BY <2>1, <2>2
<1>7. ASSUME NEW n \in 1..CacheSize, NEW kind \in Kinds
      PROVE  TailMatching(n, kind) = LastN(OfKind(all, kind), n)
  <2>1. n \in Nat /\ n <= CacheSize
      BY <1>1
  <2>2. CASE Len(OfKind(recent, kind)) >= n
    <3>1. PICK r \in Seq(Perceptions) : all = r \o recent
        BY <1>1, <1>4, <1>5, EndAndRest
    <3>2. /\ OfKind(all, kind) = OfKind(r, kind) \o OfKind(recent, kind)
          /\ OfKind(r, kind) \in Seq(Perceptions) /\ OfKind(recent, kind) \in Seq(Perceptions)
        BY <1>1, <3>1, OfKindJoins
    <3>3. n <= Len(OfKind(recent, kind))
        BY <2>1, <2>2, <3>2
    <3>4. LastN(OfKind(all, kind), n) = LastN(OfKind(recent, kind), n)
        BY <2>1, <3>2, <3>3, EndOfLastPart
    <3>5. QED BY <2>2, <3>4 DEF TailMatching
  <2>3. CASE ~(Len(OfKind(recent, kind)) >= n)
    <3>1. OfKind(all, kind) \in Seq(Perceptions)
        BY <1>4, OfKindJoins
    <3>2. LastN(recentBy[kind], n) = LastN(OfKind(all, kind), n)
        BY <1>1, <1>5, <2>1, <3>1, EndOfEnd
    <3>3. QED BY <2>3, <3>2 DEF TailMatching
  <2>4. QED BY <2>2, <2>3
<1>8. QED BY <1>4, <1>6, <1>7

(* However reads, half written lines, failed writes and crashes interleave, *)
(* each cursor has given every whole line before it once and in order, and *)
(* unless a write went wrong the caches answer as the file would.          *)
THEOREM LogReadAsWritten == Spec => []LogIsReadAsWritten
<1>1. StoreInv => LogIsReadAsWritten
  <2>1. StoreInv => CursorIsExact
      BY DEF StoreInv, CursorInv, CursorIsExact
  <2>2. QED BY <2>1, CachesAnswer DEF LogIsReadAsWritten
<1>2. QED BY <1>1, StoreAlways, PTL

(* Each perception that cannot be read any more has a torn line before it. *)
LEMMA EachLossIsTorn ==
    ASSUME StoreInv
    PROVE  LossIsBounded
<1> DEFINE missing == {i \in 1..Len(acked) : \A j \in 1..Len(ReadAll) : ReadAll[j] # acked[i]}
           at(k) == CHOOSE i \in 3..synced : LineOf(file, acked[k], i)
           f == [k \in missing |-> at(k) - 3]
<1>1. /\ file \in Seq(Pieces) /\ Len(file) \in Nat /\ synced \in 0..Len(file)
      /\ acked \in Seq(Perceptions) /\ Len(acked) \in Nat
    BY DEF StoreInv, TypeOK
<1>2. \A k \in 1..Len(acked) : at(k) \in 3..synced /\ LineOf(file, acked[k], at(k))
  <2>1. \A k \in 1..Len(acked) : \E i \in 3..synced : LineOf(file, acked[k], i)
      BY DEF StoreInv, AckedInv
  <2>2. QED BY <2>1
<1> HIDE DEF at
<1>3. ASSUME NEW k \in missing PROVE at(k) - 3 \in Torn
  <2>1. k \in 1..Len(acked) /\ at(k) \in 3..synced /\ at(k) \in 1..Len(file)
      BY <1>1, <1>2
  <2>2. LineOf(file, acked[k], at(k))
      BY <1>2, <2>1
  <2>3. ~WholeLine(file, at(k))
    <3>1. ASSUME WholeLine(file, at(k)) PROVE FALSE
      <4>1. PICK j \in 1..Len(Lines(file, 0, Len(file))) : Lines(file, 0, Len(file))[j] = file[at(k)][1]
          BY <1>1, <2>1, <3>1, WholeLinesAreRead
      <4>2. file[at(k)][1] = acked[k]
          BY <2>2 DEF LineOf
      <4>3. Lines(file, 0, Len(file)) \in Seq(Perceptions) /\ Trailing(file) \in Seq(Perceptions)
          BY <1>1, PartsType
      <4>4. j \in 1..Len(ReadAll) /\ ReadAll[j] = acked[k]
          BY <4>1, <4>2, <4>3, ConcatProperties DEF ReadAll, AllLines
      <4>5. QED BY <4>4
    <3>2. QED BY <3>1
  <2>4. at(k) > 3 /\ file[at(k) - 3][2] # 3
      BY <2>1, <2>2, <2>3 DEF WholeLine, LineOf
  <2> DEFINE t == at(k) - 3
  <2>5. t \in 1..Len(file) /\ t # Len(file) /\ t + 1 = at(k) - 2
      BY <1>1, <2>1, <2>4
  <2>6. file[t] \in Pieces /\ file[t][2] \in {1, 2}
      BY <1>1, <2>4, <2>5 DEF Pieces
  <2>7. file[t + 1] = <<acked[k], 1>>
      BY <2>2, <2>5 DEF LineOf
  <2>8. file[t + 1] # <<file[t][1], file[t][2] + 1>>
      BY <2>6, <2>7
  <2>9. QED BY <2>4, <2>5, <2>8 DEF Torn
<1>4. \A k, l \in missing : f[k] = f[l] => k = l
  <2>1. ASSUME NEW k \in missing, NEW l \in missing, f[k] = f[l] PROVE k = l
    <3>1. k \in 1..Len(acked) /\ l \in 1..Len(acked) /\ at(k) \in Int /\ at(l) \in Int
        BY <1>1, <1>2
    <3>2. at(k) = at(l)
        BY <2>1, <3>1
    <3>3. acked[k] = acked[l]
      <4>1. file[at(k)] = <<acked[k], 3>> /\ file[at(l)] = <<acked[l], 3>>
          BY <1>2, <3>1 DEF LineOf
      <4>2. <<acked[k], 3>> = <<acked[l], 3>>
          BY <3>2, <4>1
      <4>3. QED BY <4>2
    <3>4. ~(k < l) /\ ~(l < k)
      <4>1. acked[k].id \in Nat /\ acked[l].id \in Nat
        <5>1. \A p \in Perceptions : p.id \in Nat
            BY DEF Perceptions
        <5>2. acked[k] \in Perceptions /\ acked[l] \in Perceptions
            BY <1>1, <3>1
        <5>3. QED BY <5>1, <5>2
      <4>2. /\ k < l => acked[k].id < acked[l].id
            /\ l < k => acked[l].id < acked[k].id
          BY <3>1 DEF StoreInv, AckedInv
      <4>3. QED BY <3>3, <4>1, <4>2
    <3>5. QED BY <3>1, <3>4
  <2>2. QED BY <2>1
<1>5. IsFiniteSet(Torn)
  <2>1. Torn \in SUBSET (1..Len(file)) /\ IsFiniteSet(1..Len(file))
      BY <1>1, FS_Interval DEF Torn
  <2>2. QED BY <2>1, FS_Subset
<1>6. f \in Injection(missing, Torn)
    BY <1>3, <1>4 DEF Injection, IsInjective
<1>7. Cardinality(missing) <= Cardinality(Torn)
  <2> HIDE DEF missing, f
  <2>1. QED BY <1>5, <1>6, FS_Injection
<1>8. QED BY <1>7 DEF LossIsBounded

(* However writes fail and processes crash, no more acknowledged           *)
(* perceptions are lost than there are torn lines.                         *)
THEOREM LossBounded == Spec => []LossIsBounded
<1>1. StoreInv => LossIsBounded
    BY EachLossIsTorn
<1>2. QED BY <1>1, StoreAlways, PTL

-----------------------------------------------------------------------------
(* What is to be removed, and what bears the marker of a completed run,    *)
(* belongs to a run that has ended; an ended run does nothing any more.    *)
OnlyTheEnded ==
    /\ \A r \in Runs : dir[r] = "completed" => stage[r] = "ended"
    /\ \A r, v \in Runs : v \in victims[r] => stage[v] = "ended"
    /\ \A r, v \in Runs : removing[r] = v => stage[v] = "ended"

ArtifactsInv ==
    /\ dir \in [Runs -> {"none", "bare", "active", "completed", "gone"}]
    /\ stage \in [Runs -> Stages]
    /\ victims \in [Runs -> SUBSET Runs]
    /\ removing \in [Runs -> Runs \cup {NoRun}]
    /\ OnlyTheEnded
    /\ RunningIsKept

LEMMA NoRunIsNone == NoRun \notin Runs
  BY ArtifactsAssumption DEF NoRun

LEMMA ArtifactsInitially == ArtifactsInit => ArtifactsInv
  BY NoRunIsNone DEF ArtifactsInit, ArtifactsInv, OnlyTheEnded, RunningIsKept, Stages

LEMMA ArtifactsStepwise == ArtifactsInv /\ [ArtifactsNext]_artifactVars => ArtifactsInv'
<1> SUFFICES ASSUME ArtifactsInv, [ArtifactsNext]_artifactVars PROVE ArtifactsInv'
  OBVIOUS
<1> USE NoRunIsNone DEF ArtifactsInv, OnlyTheEnded, RunningIsKept, Stages
<1>1. ASSUME NEW r \in Runs, MakeDir(r) PROVE ArtifactsInv'
  BY <1>1 DEF MakeDir, Move, pruned
<1>2. ASSUME NEW r \in Runs, MarkActive(r) PROVE ArtifactsInv'
  BY <1>2 DEF MarkActive, Move, pruned
<1>3. ASSUME NEW r \in Runs, CountActive(r) PROVE ArtifactsInv'
  BY <1>3 DEF CountActive, Move
<1>4. ASSUME NEW r \in Runs, ChooseVictims(r) PROVE ArtifactsInv'
  <2> DEFINE others == WithMarker("completed") \ {r}
             kept == Newest(others, budget[r])
  <2>1. /\ stage[r] = "counted" /\ stage' = [stage EXCEPT ![r] = "pruning"]
        /\ victims' = [victims EXCEPT ![r] = others \ kept]
        /\ UNCHANGED <<dir, removing>>
    BY <1>4 DEF ChooseVictims, Move
  <2>2. \A v \in others \ kept : v \in Runs /\ stage[v] = "ended"
    BY DEF WithMarker
  <2> HIDE DEF others, kept
  <2> QED BY <2>1, <2>2
<1>5. ASSUME NEW r \in Runs, NEW v \in Runs, BeginRemoval(r, v) PROVE ArtifactsInv'
  <2>1. stage[v] = "ended" /\ stage[r] = "pruning" /\ v \in victims[r]
    BY <1>5 DEF BeginRemoval
  <2>2. victims' = [victims EXCEPT ![r] = @ \ {v}]
    BY <1>5 DEF BeginRemoval
  <2>3. CASE /\ removing' = [removing EXCEPT ![r] = v]
             /\ dir' \in {dir, [dir EXCEPT ![v] = "bare"]}
             /\ UNCHANGED stage
    BY <2>1, <2>2, <2>3
  <2>4. CASE Move(r, "failed") /\ UNCHANGED <<removing, dir>>
    BY <2>1, <2>2, <2>4 DEF Move
  <2> QED BY <1>5, <2>3, <2>4 DEF BeginRemoval
<1>6. ASSUME NEW r \in Runs, EndRemoval(r) PROVE ArtifactsInv'
  <2> DEFINE v == removing[r]
  <2>1. v \in Runs /\ stage[v] = "ended"
    BY <1>6 DEF EndRemoval
  <2>2. removing' = [removing EXCEPT ![r] = NoRun] /\ UNCHANGED victims
    BY <1>6 DEF EndRemoval
  <2>3. \/ dir' = [dir EXCEPT ![v] = "gone"] /\ UNCHANGED stage
        \/ stage' = [stage EXCEPT ![r] = "failed"] /\ UNCHANGED dir
    BY <1>6 DEF EndRemoval, Move
  <2> HIDE DEF v
  <2>4. stage[r] = "pruning"
    BY <1>6 DEF EndRemoval
  <2> QED BY <2>1, <2>2, <2>3, <2>4
<1>7. ASSUME NEW r \in Runs, BeginRun(r) PROVE ArtifactsInv'
  BY <1>7 DEF BeginRun, Move, pruned
<1>8. ASSUME NEW r \in Runs, StopTimesOut(r) PROVE ArtifactsInv'
  BY <1>8 DEF StopTimesOut, Move, pruned
<1>9. ASSUME NEW r \in Runs, EndRun(r) PROVE ArtifactsInv'
  <2>1. PICK marker \in {"completed", "bare", "active"} : dir' = [dir EXCEPT ![r] = marker]
    BY <1>9 DEF EndRun
  <2>2. stage[r] = "running" /\ stage' = [stage EXCEPT ![r] = "ended"]
    BY <1>9 DEF EndRun, Move
  <2>3. UNCHANGED <<victims, removing>>
    BY <1>9 DEF EndRun
  <2> QED BY <2>1, <2>2, <2>3
<1>10. ASSUME NEW r \in Runs, ProcessDies(r) PROVE ArtifactsInv'
  BY <1>10 DEF ProcessDies, Move, pruned
<1>11. CASE UNCHANGED artifactVars
  BY <1>11 DEF artifactVars
<1> QED BY <1>1, <1>2, <1>3, <1>4, <1>5, <1>6, <1>7, <1>8, <1>9, <1>10, <1>11
        DEF ArtifactsNext, ArtifactsStep

(* However many processes start, prune, end and crash in whatever order,   *)
(* a run whose agent may still write keeps its directory and its marker.   *)
THEOREM LiveRunsAreSpared == ArtifactsSpec => []RunningIsKept
<1>1. ArtifactsInv => RunningIsKept
  BY DEF ArtifactsInv
<1> QED BY ArtifactsInitially, ArtifactsStepwise, <1>1, PTL DEF ArtifactsSpec

-----------------------------------------------------------------------------
(* What is removed, is removed for others.                                 *)

LEMMA RunsAreFinite ==
    ASSUME NEW S \in SUBSET Runs
    PROVE  IsFiniteSet(S) /\ Cardinality(S) \in Nat
<1>1. QED BY ArtifactsAssumption, FS_Subset, FS_CardinalityType

LEMMA SmallerSet ==
    ASSUME NEW S \in SUBSET Runs, NEW T \in SUBSET S
    PROVE  Cardinality(T) <= Cardinality(S)
<1>1. QED BY RunsAreFinite, FS_Subset

(* A set of runs that is not empty has a newest one: of the sets of its    *)
(* members from one on, one is the smallest.                               *)
LEMMA NewestExists ==
    ASSUME NEW S \in SUBSET Runs, S # {}
    PROVE  \E i \in S : \A j \in S : j <= i
<1> DEFINE From(i) == {j \in S : i <= j}
           T == {From(i) : i \in S}
           R == StrictSubsetOrdering(S)
<1>1. IsWellFoundedOn(R, FiniteSubsetsOf(S))
    BY FS_StrictSubsetOrderingWellFounded
<1>2. T \subseteq FiniteSubsetsOf(S)
    BY RunsAreFinite, FS_Subset DEF FiniteSubsetsOf
<1>3. PICK U \in T : \A V \in T : <<V, U>> \notin R
  <2>1. T # {}
      OBVIOUS
  <2>2. QED BY <1>1, <1>2, <2>1, WFMin
<1>4. PICK i \in S : U = From(i)
    BY <1>3
<1>5. \A j \in S : j \in Nat
    BY ArtifactsAssumption
<1>6. ASSUME NEW j \in S, i < j PROVE FALSE
  <2>1. ASSUME NEW k \in From(j) PROVE k \in From(i)
    <3>1. k \in S /\ k \in Nat /\ j <= k
        BY <1>5
    <3>2. i <= k
        BY <1>5, <1>6, <3>1
    <3>3. QED BY <3>1, <3>2
  <2>2. i \in From(i) /\ i \notin From(j)
      BY <1>5, <1>6
  <2>3. From(j) \subseteq From(i) /\ From(j) # From(i) /\ From(j) \subseteq S /\ From(i) \subseteq S
      BY <2>1, <2>2
  <2>4. <<From(j), From(i)>> \in R
      BY <2>3 DEF StrictSubsetOrdering
  <2>5. QED BY <1>3, <1>4, <2>4
<1>7. QED BY <1>5, <1>6

(* The n newest: a run is left out only when there are n newer ones among  *)
(* them, and every one of them is newer.                                   *)
LEMMA NewestOnes ==
    ASSUME NEW S \in SUBSET Runs, NEW n \in Nat, NEW v \in S \ Newest(S, n)
    PROVE  /\ Cardinality(Newest(S, n)) >= n
           /\ \A s \in Newest(S, n) : s > v
<1> DEFINE Above(r) == {s \in S : s > r}
<1>1. \A r \in S : /\ r \in Nat /\ Above(r) \in SUBSET Runs
                   /\ Cardinality(Above(r)) \in Nat
    BY ArtifactsAssumption, RunsAreFinite
<1>2. \A r \in S : r \in Newest(S, n) <=> Cardinality(Above(r)) < n
    BY DEF Newest
<1>3. Newest(S, n) \in SUBSET S
    BY DEF Newest
<1>4. Cardinality(Newest(S, n)) >= n
  <2>1. S \ Newest(S, n) \in SUBSET Runs /\ S \ Newest(S, n) # {}
      OBVIOUS
  <2>2. PICK w \in S \ Newest(S, n) : \A j \in S \ Newest(S, n) : j <= w
      BY <2>1, NewestExists
  <2>3. ASSUME NEW s \in Above(w) PROVE s \in Newest(S, n)
    <3>1. s \in S /\ s \in Nat /\ w \in Nat /\ s > w
        BY ArtifactsAssumption
    <3>2. s \in S \ Newest(S, n) => s <= w
        BY <2>2
    <3>3. QED BY <3>1, <3>2
  <2>4. Cardinality(Above(w)) >= n
      BY <1>1, <1>2, <2>2
  <2> HIDE DEF Above
  <2>5. Cardinality(Above(w)) <= Cardinality(Newest(S, n))
      BY <1>3, <2>3, SmallerSet
  <2>6. Newest(S, n) \in SUBSET Runs
      BY <1>3
  <2>7. QED BY <1>1, <2>2, <2>4, <2>5, <2>6, RunsAreFinite
<1>5. ASSUME NEW s \in Newest(S, n) PROVE s > v
  <2> SUFFICES ASSUME ~(s > v) PROVE FALSE
      OBVIOUS
  <2>1. s \in S /\ s \in Nat /\ v \in Nat /\ s <= v
    <3>1. s \in S /\ s \in Nat /\ v \in Nat
        BY <1>3, ArtifactsAssumption
    <3>2. QED BY <3>1
  <2>2. ASSUME NEW x \in Above(v) PROVE x \in Above(s)
    <3>1. x \in S /\ x \in Nat /\ x > v
        BY ArtifactsAssumption
    <3>2. QED BY <2>1, <3>1
  <2>3. Above(s) \in SUBSET Runs
      BY <1>1, <2>1
  <2>4. Cardinality(Above(s)) < n /\ ~(Cardinality(Above(v)) < n)
      BY <1>2, <2>1
  <2> HIDE DEF Above
  <2>5. Cardinality(Above(v)) <= Cardinality(Above(s))
      BY <2>2, <2>3, SmallerSet
  <2>6. QED BY <1>1, <2>1, <2>4, <2>5
<1>6. QED BY <1>4, <1>5

(* The limit was used up by what the start had found: for everything it    *)
(* has still to remove, and for everything it has removed.                 *)
Justified(v, by) ==
    /\ \A s \in spared[by] : s > v
    /\ Cardinality(counted[by]) + Cardinality(spared[by]) >= Keep

Early == {"idle", "made", "marked", "counted"}

ForOthersInv ==
    /\ ArtifactsInv
    /\ budget \in [Runs -> Nat]
    /\ counted \in [Runs -> SUBSET Runs]
    /\ spared \in [Runs -> SUBSET Runs]
    /\ lost \subseteq Runs \X Runs
    /\ \A r \in Runs : stage[r] = "counted" => Cardinality(counted[r]) + budget[r] >= Keep
    /\ \A r, v \in Runs : v \in victims[r] => stage[r] \notin Early /\ Justified(v, r)
    /\ \A v, r \in Runs : <<v, r>> \in lost => stage[r] \notin Early /\ Justified(v, r)

LEMMA CountActiveForOthers ==
    ASSUME ForOthersInv, NEW r \in Runs, CountActive(r), ArtifactsInv'
    PROVE  ForOthersInv'
<1> DEFINE active == WithMarker("active")
           rest == Keep - Cardinality(active)
<1>1. active \in SUBSET Runs /\ Cardinality(active) \in Nat
    BY RunsAreFinite DEF WithMarker
<1>2. rest \in Int /\ (rest > 0 => Cardinality(active) + rest >= Keep)
                   /\ (~(rest > 0) => Cardinality(active) >= Keep)
    BY <1>1, ArtifactsAssumption
<1>3. /\ stage[r] = "marked" /\ stage' = [stage EXCEPT ![r] = "counted"]
      /\ budget' = [budget EXCEPT ![r] = IF rest > 0 THEN rest ELSE 0]
      /\ counted' = [counted EXCEPT ![r] = active]
      /\ UNCHANGED <<victims, spared, lost>>
    BY DEF CountActive, Move
<1> HIDE DEF active, rest
<1>4. /\ budget' \in [Runs -> Nat] /\ counted' \in [Runs -> SUBSET Runs]
      /\ spared' \in [Runs -> SUBSET Runs] /\ lost' \subseteq Runs \X Runs
    BY <1>1, <1>2, <1>3 DEF ForOthersInv
<1>5. ASSUME NEW s \in Runs, stage'[s] = "counted"
      PROVE  Cardinality(counted'[s]) + budget'[s] >= Keep
  <2>1. CASE s = r
    <3>1. counted'[s] = active /\ budget'[s] = IF rest > 0 THEN rest ELSE 0
        BY <1>3, <2>1 DEF ForOthersInv
    <3>2. QED BY <1>1, <1>2, <3>1, ArtifactsAssumption
  <2>2. CASE s # r
    <3>1. counted'[s] = counted[s] /\ budget'[s] = budget[s] /\ stage[s] = "counted"
        BY <1>3, <1>5, <2>2 DEF ForOthersInv, ArtifactsInv
    <3>2. QED BY <3>1 DEF ForOthersInv
  <2>3. QED BY <2>1, <2>2
<1>6. ASSUME NEW s \in Runs, stage[s] \notin Early
      PROVE  stage'[s] \notin Early /\ counted'[s] = counted[s]
    BY <1>3, <1>6 DEF ForOthersInv, ArtifactsInv, Early
<1>7. QED BY <1>3, <1>4, <1>5, <1>6 DEF ForOthersInv, Justified

LEMMA ChooseVictimsForOthers ==
    ASSUME ForOthersInv, NEW r \in Runs, ChooseVictims(r), ArtifactsInv'
    PROVE  ForOthersInv'
<1> DEFINE others == WithMarker("completed") \ {r}
           kept == Newest(others, budget[r])
<1>1. /\ stage[r] = "counted" /\ stage' = [stage EXCEPT ![r] = "pruning"]
      /\ victims' = [victims EXCEPT ![r] = others \ kept]
      /\ spared' = [spared EXCEPT ![r] = kept]
      /\ UNCHANGED <<budget, counted, lost>>
    BY DEF ChooseVictims, Move
<1>2. others \in SUBSET Runs /\ budget[r] \in Nat
    BY DEF WithMarker, ForOthersInv
<1>3. ASSUME NEW v \in others \ kept
      PROVE  Cardinality(kept) >= budget[r] /\ \A s \in kept : s > v
    BY <1>2, NewestOnes
<1>4. kept \in SUBSET Runs
    BY <1>2 DEF Newest
<1> HIDE DEF others, kept
<1>5. /\ budget' \in [Runs -> Nat] /\ counted' \in [Runs -> SUBSET Runs]
      /\ spared' \in [Runs -> SUBSET Runs] /\ lost' \subseteq Runs \X Runs
    BY <1>1, <1>4 DEF ForOthersInv
<1>6. \A s \in Runs : stage'[s] = "counted" =>
            stage[s] = "counted" /\ counted'[s] = counted[s] /\ budget'[s] = budget[s]
    BY <1>1 DEF ForOthersInv, ArtifactsInv
<1>7. \A s \in Runs : stage[s] \notin Early =>
            stage'[s] \notin Early /\ counted'[s] = counted[s] /\ spared'[s] = spared[s]
    BY <1>1 DEF ForOthersInv, ArtifactsInv, Early
<1>8. ASSUME NEW s \in Runs, NEW v \in Runs, v \in victims'[s]
      PROVE  stage'[s] \notin Early /\ Justified(v, s)'
  <2>1. CASE s = r
    <3>1. v \in others \ kept /\ spared'[r] = kept /\ counted'[r] = counted[r]
          /\ stage'[r] = "pruning"
        BY <1>1, <1>8, <2>1 DEF ForOthersInv, ArtifactsInv
    <3>2. Cardinality(kept) >= budget[r] /\ \A x \in kept : x > v
        BY <1>3, <3>1
    <3>3. Cardinality(counted[r]) + budget[r] >= Keep
        BY <1>1 DEF ForOthersInv
    <3>4. Cardinality(kept) \in Nat /\ Cardinality(counted[r]) \in Nat
        BY <1>4, RunsAreFinite DEF ForOthersInv
    <3>5. Cardinality(counted[r]) + Cardinality(kept) >= Keep
        BY <1>2, <3>2, <3>3, <3>4, ArtifactsAssumption
    <3>6. QED BY <2>1, <3>1, <3>2, <3>5 DEF Justified, Early
  <2>2. CASE s # r
    <3>1. v \in victims[s]
        BY <1>1, <1>8, <2>2 DEF ForOthersInv, ArtifactsInv
    <3>2. stage[s] \notin Early /\ Justified(v, s)
        BY <3>1 DEF ForOthersInv
    <3>3. QED BY <1>7, <3>2 DEF Justified
  <2>3. QED BY <2>1, <2>2
<1>9. ASSUME NEW v \in Runs, NEW s \in Runs, <<v, s>> \in lost'
      PROVE  stage'[s] \notin Early /\ Justified(v, s)'
  <2>1. stage[s] \notin Early /\ Justified(v, s)
      BY <1>1, <1>9 DEF ForOthersInv
  <2>2. QED BY <1>7, <2>1 DEF Justified
<1>10. QED BY <1>5, <1>6, <1>8, <1>9 DEF ForOthersInv

LEMMA BeginRemovalForOthers ==
    ASSUME ForOthersInv, NEW r \in Runs, NEW w \in Runs, BeginRemoval(r, w), ArtifactsInv'
    PROVE  ForOthersInv'
<1>1. /\ stage[r] = "pruning" /\ w \in victims[r]
      /\ victims' = [victims EXCEPT ![r] = @ \ {w}]
      /\ stage' \in {stage, [stage EXCEPT ![r] = "failed"]}
      /\ lost' \subseteq lost \cup {<<w, r>>}
      /\ UNCHANGED <<budget, counted, spared>>
    BY DEF BeginRemoval, Move
<1>2. \A s \in Runs : /\ stage'[s] = "counted" => stage[s] = "counted"
                      /\ stage[s] \notin Early => stage'[s] \notin Early
    BY <1>1 DEF ForOthersInv, ArtifactsInv, Early
<1>3. \A s, v \in Runs : v \in victims'[s] => v \in victims[s]
    BY <1>1 DEF ForOthersInv, ArtifactsInv
<1>4. \A v, s : Justified(v, s)' <=> Justified(v, s)
    BY <1>1 DEF Justified
<1>5. stage[r] \notin Early /\ Justified(w, r)
    BY <1>1 DEF ForOthersInv
<1>6. lost' \subseteq Runs \X Runs
    BY <1>1 DEF ForOthersInv
<1>7. \A v, s \in Runs : <<v, s>> \in lost' => <<v, s>> \in lost \/ (v = w /\ s = r)
    BY <1>1
<1>8. QED BY <1>1, <1>2, <1>3, <1>4, <1>5, <1>6, <1>7 DEF ForOthersInv

(* The other steps count, choose and remove nothing.                       *)
LEMMA OthersUntouched ==
    ASSUME ForOthersInv, ArtifactsInv', UNCHANGED <<budget, victims, pruned>>,
           NEW r \in Runs, NEW to \in Stages \ {"counted"},
           stage' \in {stage, [stage EXCEPT ![r] = to]},
           stage[r] \in Early \/ to \notin Early
    PROVE  ForOthersInv'
<1>1. \A s \in Runs : /\ stage'[s] = "counted" => stage[s] = "counted"
                      /\ stage[s] \notin Early => stage'[s] \notin Early
    BY DEF ForOthersInv, ArtifactsInv
<1>2. \A v, s : Justified(v, s)' <=> Justified(v, s)
    BY DEF Justified, pruned
<1>3. QED BY <1>1, <1>2 DEF ForOthersInv, pruned

LEMMA ForOthersStepwise == ForOthersInv /\ [ArtifactsNext]_artifactVars => ForOthersInv'
<1> SUFFICES ASSUME ForOthersInv, [ArtifactsNext]_artifactVars PROVE ForOthersInv'
    OBVIOUS
<1>1. ArtifactsInv'
    BY ArtifactsStepwise DEF ForOthersInv
<1>2. ASSUME NEW r \in Runs, ArtifactsStep(r) PROVE ForOthersInv'
  <2>1. CASE CountActive(r)
      BY <1>1, <2>1, CountActiveForOthers
  <2>2. CASE ChooseVictims(r)
      BY <1>1, <2>2, ChooseVictimsForOthers
  <2>3. ASSUME NEW v \in Runs, BeginRemoval(r, v) PROVE ForOthersInv'
      BY <1>1, <2>3, BeginRemovalForOthers
  <2>4. CASE MakeDir(r)
    <3>1. /\ stage' = [stage EXCEPT ![r] = "made"] /\ stage[r] \in Early
          /\ UNCHANGED <<budget, victims, pruned>>
        BY <2>4 DEF MakeDir, Move, Early
    <3>2. QED BY <1>1, <3>1, OthersUntouched DEF Early, Stages
  <2>5. CASE MarkActive(r)
    <3>1. /\ stage' = [stage EXCEPT ![r] = "marked"] /\ stage[r] \in Early
          /\ UNCHANGED <<budget, victims, pruned>>
        BY <2>5 DEF MarkActive, Move, Early
    <3>2. QED BY <1>1, <3>1, OthersUntouched DEF Early, Stages
  <2>6. CASE EndRemoval(r)
    <3>1. stage' \in {stage, [stage EXCEPT ![r] = "failed"]} /\ UNCHANGED <<budget, victims, pruned>>
        BY <2>6 DEF EndRemoval, Move
    <3>2. QED BY <1>1, <3>1, OthersUntouched DEF Early, Stages
  <2>7. CASE BeginRun(r)
    <3>1. stage' = [stage EXCEPT ![r] = "running"] /\ UNCHANGED <<budget, victims, pruned>>
        BY <2>7 DEF BeginRun, Move
    <3>2. QED BY <1>1, <3>1, OthersUntouched DEF Early, Stages
  <2>8. CASE StopTimesOut(r)
    <3>1. stage' = [stage EXCEPT ![r] = "stuck"] /\ UNCHANGED <<budget, victims, pruned>>
        BY <2>8 DEF StopTimesOut, Move
    <3>2. QED BY <1>1, <3>1, OthersUntouched DEF Early, Stages
  <2>9. CASE EndRun(r)
    <3>1. stage' = [stage EXCEPT ![r] = "ended"] /\ UNCHANGED <<budget, victims, pruned>>
        BY <2>9 DEF EndRun, Move
    <3>2. QED BY <1>1, <3>1, OthersUntouched DEF Early, Stages
  <2>10. CASE ProcessDies(r)
    <3>1. stage' = [stage EXCEPT ![r] = "crashed"] /\ UNCHANGED <<budget, victims, pruned>>
        BY <2>10 DEF ProcessDies, Move
    <3>2. QED BY <1>1, <3>1, OthersUntouched DEF Early, Stages
  <2>11. QED
      BY <1>2, <2>1, <2>2, <2>3, <2>4, <2>5, <2>6, <2>7, <2>8, <2>9, <2>10 DEF ArtifactsStep
<1>3. CASE UNCHANGED artifactVars
  <2>1. UNCHANGED <<stage, budget, counted, spared, lost, victims>>
      BY <1>3 DEF artifactVars, pruned
  <2>2. \A v, s : Justified(v, s)' <=> Justified(v, s)
      BY <2>1 DEF Justified
  <2>3. QED BY <1>1, <2>1, <2>2 DEF ForOthersInv
<1>4. QED BY <1>2, <1>3 DEF ArtifactsNext

LEMMA ForOthersInitially == ArtifactsInit => ForOthersInv
<1>1. ArtifactsInit => ArtifactsInv
    BY ArtifactsInitially
<1>2. QED BY <1>1 DEF ArtifactsInit, ForOthersInv

(* What create_run_session may remove, whatever other processes do: never  *)
(* what may still be written to, never a newer run before an older one,    *)
(* and nothing that the limit still has room for.                          *)
THEOREM PruningSafe == ArtifactsSpec => []PruningIsSafe
<1>1. ForOthersInv => PruningIsSafe
  <2> SUFFICES ASSUME ForOthersInv PROVE PruningIsSafe
      OBVIOUS
  <2>1. RunningIsKept
      BY DEF ForOthersInv, ArtifactsInv
  <2>2. ASSUME NEW pair \in lost PROVE Justified(pair[1], pair[2])
    <3>1. pair[1] \in Runs /\ pair[2] \in Runs /\ pair = <<pair[1], pair[2]>>
        BY DEF ForOthersInv
    <3>2. QED BY <3>1 DEF ForOthersInv
  <2>3. QED BY <2>1, <2>2 DEF PruningIsSafe, PrunedForOthers, Justified
<1> QED BY ForOthersInitially, ForOthersStepwise, <1>1, PTL DEF ArtifactsSpec

-----------------------------------------------------------------------------
(* Captures of the calls.                                                  *)
LEMMA WidthType ==
    ASSUME NEW prompt \in Prompts, NEW k \in 0..Len(prompt), NEW form \in {1, 2}
    PROVE  WidthOf(prompt, k, form) \in Nat
<1>1. prompt \in Seq(Nat \X Nat)
    BY CallsAssumption
<1>2. CASE k = 0
    BY <1>2 DEF WidthOf
<1>3. CASE k # 0
  <2>1. prompt[k] \in Nat \X Nat
      BY <1>1, <1>3
  <2>2. QED BY <1>3, <2>1 DEF WidthOf
<1>4. QED BY <1>2, <1>3

(* The bytes of n hold a number of characters whole, and of the next one   *)
(* only a part.                                                            *)
LEMMA WholeIs ==
    ASSUME NEW prompt \in Prompts, NEW n \in Nat
    PROVE  /\ Whole(prompt, n) \in 0..Len(prompt)
           /\ WidthOf(prompt, Whole(prompt, n), 1) <= n
           /\ Whole(prompt, n) < Len(prompt) => WidthOf(prompt, Whole(prompt, n) + 1, 1) > n
<1> DEFINE long == Len(prompt)
           T == {k \in Nat : k <= long /\ (k < long => WidthOf(prompt, k + 1, 1) > n)}
<1>1. long \in Nat
    BY CallsAssumption
<1>2. long \in T
    BY <1>1
<1>3. PICK k \in T : \A l \in T : k <= l
  <2>1. T \in SUBSET Nat /\ T # {}
      BY <1>2
  <2> HIDE DEF T
  <2>2. QED BY <2>1, LeastOfNats
<1>4. k \in 0..long /\ (k < long => WidthOf(prompt, k + 1, 1) > n)
    BY <1>1
<1>5. WidthOf(prompt, k, 1) <= n
  <2>1. CASE k = 0
      BY <2>1 DEF WidthOf
  <2>2. CASE k # 0
    <3>1. k - 1 \in Nat /\ k - 1 <= long /\ k - 1 < long /\ (k - 1) + 1 = k
        BY <1>1, <1>4, <2>2
    <3>2. ~(k <= k - 1)
        BY <3>1
    <3>3. k - 1 \notin T
        BY <1>3, <3>2
    <3>4. ~(WidthOf(prompt, k, 1) > n)
        BY <3>1, <3>3
    <3>5. WidthOf(prompt, k, 1) \in Nat
        BY <1>4, WidthType
    <3>6. QED BY <3>4, <3>5
  <2>3. QED BY <2>1, <2>2
<1>6. QED BY <1>4, <1>5 DEF Whole

(* More bytes hold no less.                                                *)
LEMMA WholeGrows ==
    ASSUME NEW prompt \in Prompts, NEW m \in Nat, NEW n \in Nat, m <= n
    PROVE  Whole(prompt, m) <= Whole(prompt, n)
<1> DEFINE j == Whole(prompt, m)
           k == Whole(prompt, n)
<1>1. j \in 0..Len(prompt) /\ WidthOf(prompt, j, 1) <= m
    BY WholeIs
<1>2. k \in 0..Len(prompt) /\ (k < Len(prompt) => WidthOf(prompt, k + 1, 1) > n)
    BY WholeIs
<1>3. Len(prompt) \in Nat
    BY CallsAssumption
<1> HIDE DEF j, k
<1>4. SUFFICES ASSUME k < j PROVE FALSE
    BY <1>1, <1>2, <1>3 DEF j, k
<1>5. k + 1 \in 0..Len(prompt) /\ k < Len(prompt) /\ k + 1 <= j
    BY <1>1, <1>2, <1>3, <1>4
<1>6. WidthOf(prompt, k + 1, 1) <= WidthOf(prompt, j, 1)
  <2>1. CASE k + 1 = j
    <3>1. WidthOf(prompt, k + 1, 1) \in Nat
        BY <1>5, WidthType
    <3>2. QED BY <2>1, <3>1
  <2>2. CASE k + 1 < j
    <3>1. WidthOf(prompt, k + 1, 1) < WidthOf(prompt, j, 1)
        BY <1>1, <1>5, <2>2, WidthsGrow
    <3>2. WidthOf(prompt, k + 1, 1) \in Nat /\ WidthOf(prompt, j, 1) \in Nat
        BY <1>1, <1>5, WidthType
    <3>3. QED BY <3>1, <3>2
  <2>3. QED BY <1>1, <1>2, <1>5, <2>1, <2>2
<1>7. WidthOf(prompt, k + 1, 1) > n
    BY <1>2, <1>5
<1>8. WidthOf(prompt, k + 1, 1) \in Nat /\ WidthOf(prompt, j, 1) \in Nat
    BY <1>1, <1>5, WidthType
<1>9. QED BY <1>1, <1>6, <1>7, <1>8

(* And what fits still does when it is made shorter.                       *)
LEMMA ShorterFits ==
    ASSUME NEW prompt \in Prompts, NEW others \in Others,
           NEW j \in 0..Len(prompt), NEW k \in 0..Len(prompt), j <= k, Fits(prompt, k, others)
    PROVE  Fits(prompt, j, others)
<1>1. /\ WidthOf(prompt, j, 2) \in Nat /\ WidthOf(prompt, k, 2) \in Nat
      /\ others \in Nat /\ MarkerBytes \in Nat /\ MaxBytes \in Nat
    BY CallsAssumption, WidthType
<1>2. WidthOf(prompt, j, 2) <= WidthOf(prompt, k, 2)
  <2>1. CASE j = k
      BY <1>1, <2>1
  <2>2. CASE j < k
      BY <1>1, <2>2, WidthsGrow
  <2>3. QED BY <2>1, <2>2
<1>3. QED BY <1>1, <1>2 DEF Fits

-----------------------------------------------------------------------------
BytesOf(prompt) == WidthOf(prompt, Len(prompt), 1)
CutFits(prompt, others, n) == Fits(prompt, Whole(prompt, n), others)

(* What a lap keeps: the best so far fits and is the one below what is     *)
(* still to be tried, nothing above that fits, and less is left each time. *)
SearchInv(prompt, others, search, laps) ==
    /\ search.low \in Nat /\ search.high \in Int /\ search.best \in Int
    /\ search.low <= search.high + 1 /\ search.high <= BytesOf(prompt)
    /\ search.best = search.low - 1
    /\ search.best # -1 => CutFits(prompt, others, search.best)
    /\ \A m \in search.high + 1 .. BytesOf(prompt) : ~CutFits(prompt, others, m)
    /\ IsOver(search) \/ search.high - search.low <= BytesOf(prompt) - laps

LEMMA BytesType == ASSUME NEW prompt \in Prompts PROVE BytesOf(prompt) \in Nat
<1>1. prompt \in Seq(Nat \X Nat)
    BY CallsAssumption
<1>2. Len(prompt) \in 0..Len(prompt)
    BY <1>1
<1>3. QED BY <1>2, WidthType DEF BytesOf

LEMMA ShorterCutFits ==
    ASSUME NEW prompt \in Prompts, NEW others \in Others, NEW m \in Nat, NEW n \in Nat, m <= n,
           CutFits(prompt, others, n)
    PROVE  CutFits(prompt, others, m)
<1>1. /\ Whole(prompt, m) \in 0..Len(prompt) /\ Whole(prompt, n) \in 0..Len(prompt)
      /\ Whole(prompt, m) <= Whole(prompt, n)
    BY WholeIs, WholeGrows
<1>2. QED BY <1>1, ShorterFits DEF CutFits

LEMMA LapKeeps ==
    ASSUME NEW prompt \in Prompts, NEW others \in Others, NEW search, NEW laps \in Nat,
           SearchInv(prompt, others, search, laps)
    PROVE  SearchInv(prompt, others, Lap(prompt, others, search), laps + 1)
<1> DEFINE low == search.low
           high == search.high
           mid == (low + high) \div 2
           next == Lap(prompt, others, search)
           bytes == BytesOf(prompt)
<1>1. /\ low \in Nat /\ high \in Int /\ low <= high + 1 /\ high <= bytes
      /\ search.best = low - 1 /\ bytes \in Nat
    BY BytesType DEF SearchInv
<1>2. CASE IsOver(search)
    BY <1>2 DEF SearchInv, Lap
<1>3. CASE ~IsOver(search)
  <2>1. low <= high /\ mid \in Nat /\ low <= mid /\ mid <= high
    <3>1. low <= high
        BY <1>1, <1>3 DEF IsOver
    <3> HIDE DEF low, high
    <3>2. QED BY <1>1, <3>1
  <2>2. high - low <= bytes - laps
      BY <1>3 DEF SearchInv
  <2>3. CASE CutFits(prompt, others, mid)
    <3>1. next = [low |-> mid + 1, high |-> high, best |-> mid]
        BY <1>3, <2>3 DEF Lap, CutFits
    <3>2. next.low = mid + 1 /\ next.high = high /\ next.best = mid
        BY <3>1
    <3>3. \A m \in high + 1 .. bytes : ~CutFits(prompt, others, m)
        BY DEF SearchInv
    <3>4. high - (mid + 1) <= bytes - (laps + 1)
      <4> HIDE DEF low, high, mid, bytes
      <4>1. QED BY <1>1, <2>1, <2>2
    <3>5. mid + 1 \in Nat /\ mid + 1 <= high + 1 /\ mid = (mid + 1) - 1 /\ mid \in Int
      <4> HIDE DEF low, high, mid, bytes
      <4>1. QED BY <1>1, <2>1
    <3> HIDE DEF low, high, mid, next
    <3>6. QED BY <1>1, <2>3, <3>2, <3>3, <3>4, <3>5 DEF SearchInv, next
  <2>4. CASE ~CutFits(prompt, others, mid)
    <3>1. next = [low |-> low, high |-> mid - 1, best |-> search.best]
        BY <1>3, <2>4 DEF Lap, CutFits
    <3>2. next.low = low /\ next.high = mid - 1 /\ next.best = search.best
        BY <3>1
    <3>3. search.best # -1 => CutFits(prompt, others, search.best)
        BY DEF SearchInv
    <3> HIDE DEF low, high, mid, bytes
    <3>4. \A m \in (mid - 1) + 1 .. bytes : ~CutFits(prompt, others, m)
      <4>1. ASSUME NEW m \in (mid - 1) + 1 .. bytes, CutFits(prompt, others, m) PROVE FALSE
        <5>1. m \in Nat /\ mid <= m
            BY <1>1, <2>1
        <5>2. QED BY <2>1, <2>4, <4>1, <5>1, ShorterCutFits
      <4>2. QED BY <4>1
    <3>5. /\ (mid - 1) - low <= bytes - (laps + 1)
          /\ mid - 1 \in Int /\ low <= (mid - 1) + 1 /\ mid - 1 <= bytes
        BY <1>1, <2>1, <2>2
    <3> HIDE DEF next
    <3>6. QED BY <1>1, <3>2, <3>3, <3>4, <3>5 DEF SearchInv, bytes, next
  <2>5. QED BY <2>3, <2>4
<1>4. QED BY <1>2, <1>3

(* The search after n laps, when f tells what it was after the one before, *)
(* and the functions that tell it up to n.                                 *)
AfterLaps(prompt, others, f, n) ==
    IF n = 0 THEN [low |-> 0, high |-> BytesOf(prompt), best |-> -1]
    ELSE Lap(prompt, others, f[n - 1])
TellsLaps(prompt, others, f, n) == f = [k \in 0..n |-> AfterLaps(prompt, others, f, k)]

LEMMA LapsExist ==
    ASSUME NEW prompt, NEW others
    PROVE  \A n \in Nat : \E f : TellsLaps(prompt, others, f, n)
<1> DEFINE T == {n \in Nat : ~ \E f : TellsLaps(prompt, others, f, n)}
<1> SUFFICES ASSUME T # {} PROVE FALSE
    OBVIOUS
<1>1. PICK n \in T : \A m \in T : n <= m
    BY LeastOfNats
<1>2. CASE n = 0
  <2> DEFINE f == [k \in 0..0 |-> [low |-> 0, high |-> BytesOf(prompt), best |-> -1]]
  <2>1. TellsLaps(prompt, others, f, 0)
      BY DEF TellsLaps, AfterLaps
  <2>2. QED BY <1>2, <2>1
<1>3. CASE n # 0
  <2>1. n - 1 \in Nat /\ n - 1 \notin T
      BY <1>1, <1>3
  <2>2. PICK g : TellsLaps(prompt, others, g, n - 1)
      BY <2>1
  <2> DEFINE f == [k \in 0..n |-> AfterLaps(prompt, others, g, k)]
  <2>3. ASSUME NEW k \in 0..(n - 1) PROVE f[k] = g[k]
    <3>1. k \in 0..n
        BY <2>1
    <3>2. g[k] = AfterLaps(prompt, others, g, k)
        BY <2>2 DEF TellsLaps
    <3>3. QED BY <3>1, <3>2
  <2>4. ASSUME NEW k \in 0..n PROVE f[k] = AfterLaps(prompt, others, f, k)
    <3>1. CASE k = 0
        BY <3>1 DEF AfterLaps
    <3>2. CASE k # 0
      <4>1. k - 1 \in 0..(n - 1)
          BY <2>1, <3>2
      <4>2. f[k - 1] = g[k - 1]
          BY <2>3, <4>1
      <4>3. QED BY <3>2, <4>2 DEF AfterLaps
    <3>3. QED BY <3>1, <3>2
  <2> HIDE DEF f
  <2>5. f = [k \in 0..n |-> AfterLaps(prompt, others, f, k)]
    <3>1. f = [k \in 0..n |-> f[k]]
        BY DEF f
    <3>2. QED BY <2>4, <3>1
  <2>6. QED BY <2>5 DEF TellsLaps
<1>4. QED BY <1>2, <1>3

LEMMA LapsAgree ==
    ASSUME NEW prompt, NEW others, NEW m \in Nat, NEW n \in Nat, m <= n,
           NEW f, TellsLaps(prompt, others, f, m), NEW g, TellsLaps(prompt, others, g, n)
    PROVE  \A k \in 0..m : f[k] = g[k]
<1> DEFINE T == {k \in Nat : k <= m /\ f[k] # g[k]}
<1> SUFFICES ASSUME T # {} PROVE FALSE
    OBVIOUS
<1>1. PICK k \in T : \A l \in T : k <= l
    BY LeastOfNats
<1>2. k \in 0..m /\ k \in 0..n
    OBVIOUS
<1>3. f[k] = AfterLaps(prompt, others, f, k) /\ g[k] = AfterLaps(prompt, others, g, k)
    BY <1>2 DEF TellsLaps
<1>4. CASE k = 0
    BY <1>3, <1>4 DEF AfterLaps
<1>5. CASE k # 0
  <2>1. k - 1 \in Nat /\ k - 1 <= m /\ ~(k <= k - 1)
      BY <1>5
  <2>2. f[k - 1] = g[k - 1]
      BY <1>1, <2>1
  <2>3. QED BY <1>3, <1>5, <2>2 DEF AfterLaps
<1>6. QED BY <1>4, <1>5

(* Hence the search goes on as each lap says, and Cut is its outcome.      *)
LEMMA CutIsSearched ==
    ASSUME NEW prompt \in Prompts, NEW others
    PROVE  \E f : /\ \A n \in Nat : f[n] = AfterLaps(prompt, others, f, n)
                  /\ Cut(prompt, others) = f[BytesOf(prompt) + 1].best
<1> DEFINE upTo(n) == CHOOSE f : TellsLaps(prompt, others, f, n)
           F == [n \in Nat |-> upTo(n)[n]]
           G == CHOOSE f : f = [n \in Nat |-> AfterLaps(prompt, others, f, n)]
<1>1. \A n \in Nat : TellsLaps(prompt, others, upTo(n), n)
    BY LapsExist
<1> HIDE DEF upTo
<1>2. ASSUME NEW n \in Nat PROVE F[n] = AfterLaps(prompt, others, F, n)
  <2>1. upTo(n)[n] = AfterLaps(prompt, others, upTo(n), n)
    <3>1. TellsLaps(prompt, others, upTo(n), n) /\ n \in 0..n
        BY <1>1
    <3>2. QED BY <3>1 DEF TellsLaps
  <2>2. CASE n = 0
      BY <2>1, <2>2 DEF AfterLaps
  <2>3. CASE n # 0
    <3>1. n - 1 \in Nat /\ n - 1 <= n /\ n - 1 \in 0..(n - 1)
        BY <2>3
    <3>2. TellsLaps(prompt, others, upTo(n - 1), n - 1) /\ TellsLaps(prompt, others, upTo(n), n)
        BY <1>1, <3>1
    <3>3. upTo(n - 1)[n - 1] = upTo(n)[n - 1]
        BY <3>1, <3>2, LapsAgree
    <3>4. F[n - 1] = upTo(n)[n - 1]
        BY <3>1, <3>3
    <3>5. QED BY <2>1, <2>3, <3>4 DEF AfterLaps
  <2>4. QED BY <2>2, <2>3
<1>3. F = [n \in Nat |-> AfterLaps(prompt, others, F, n)]
    BY <1>2
<1> HIDE DEF F
<1>4. G = [n \in Nat |-> AfterLaps(prompt, others, G, n)]
    BY <1>3
<1>5. Cut(prompt, others) = G[BytesOf(prompt) + 1].best
    BY DEF Cut, AfterLaps, BytesOf
<1> HIDE DEF G
<1>6. QED BY <1>4, <1>5

(* The search finds the longest cut that fits, if there is one.            *)
LEMMA CutIsLongest ==
    ASSUME NEW prompt \in Prompts, NEW others \in Others
    PROVE  /\ Cut(prompt, others) \in Nat \cup {-1} /\ Cut(prompt, others) <= BytesOf(prompt)
           /\ Cut(prompt, others) # -1 => CutFits(prompt, others, Cut(prompt, others))
           /\ \A m \in Cut(prompt, others) + 1 .. BytesOf(prompt) : ~CutFits(prompt, others, m)
<1> DEFINE bytes == BytesOf(prompt)
<1>1. PICK f : /\ \A n \in Nat : f[n] = AfterLaps(prompt, others, f, n)
               /\ Cut(prompt, others) = f[bytes + 1].best
    BY CutIsSearched
<1>2. bytes \in Nat
    BY BytesType
<1> DEFINE T == {n \in Nat : ~SearchInv(prompt, others, f[n], n)}
<1>3. T = {}
  <2>1. SUFFICES ASSUME T # {} PROVE FALSE
      OBVIOUS
  <2>2. PICK n \in T : \A m \in T : n <= m
      BY <2>1, LeastOfNats
  <2>3. CASE n = 0
    <3>1. f[0] = [low |-> 0, high |-> bytes, best |-> -1]
        BY <1>1 DEF AfterLaps
    <3>2. f[0].low = 0 /\ f[0].high = bytes /\ f[0].best = -1
        BY <3>1
    <3> HIDE DEF bytes
    <3>3. bytes + 1 .. bytes = {} /\ bytes - 0 <= bytes - 0
        BY <1>2
    <3>4. SearchInv(prompt, others, f[0], 0)
        BY <1>2, <3>2, <3>3 DEF SearchInv, bytes
    <3>5. QED BY <2>3, <3>4
  <2>4. CASE n # 0
    <3>1. n - 1 \in Nat /\ ~(n <= n - 1) /\ (n - 1) + 1 = n
        BY <2>4
    <3>2. SearchInv(prompt, others, f[n - 1], n - 1)
        BY <2>2, <3>1
    <3>3. f[n] = Lap(prompt, others, f[n - 1])
        BY <1>1, <2>4 DEF AfterLaps
    <3>4. SearchInv(prompt, others, f[n], n)
        BY <3>1, <3>2, <3>3, LapKeeps
    <3>5. QED BY <3>4
  <2>5. QED BY <2>3, <2>4
<1> DEFINE last == f[bytes + 1]
<1>4. SearchInv(prompt, others, last, bytes + 1)
    BY <1>2, <1>3
<1> HIDE DEF last, T
<1>5. last.low = last.high + 1
  <2>1. IsOver(last) \/ last.high - last.low <= bytes - (bytes + 1)
      BY <1>4 DEF SearchInv
  <2>2. last.low \in Nat /\ last.high \in Int /\ last.low <= last.high + 1
      BY <1>4 DEF SearchInv
  <2> HIDE DEF bytes
  <2>3. last.low > last.high
      BY <1>2, <2>1, <2>2 DEF IsOver
  <2>4. QED BY <2>2, <2>3
<1>6. /\ last.best = last.high /\ last.best \in Nat \cup {-1} /\ last.best <= bytes
  <2>1. /\ last.low \in Nat /\ last.high \in Int /\ last.best = last.low - 1 /\ last.high <= bytes
      BY <1>4 DEF SearchInv
  <2>2. QED BY <1>5, <2>1
<1>7. /\ last.best # -1 => CutFits(prompt, others, last.best)
      /\ \A m \in last.high + 1 .. bytes : ~CutFits(prompt, others, m)
    BY <1>4 DEF SearchInv
<1>8. Cut(prompt, others) = last.best
    BY <1>1 DEF last
<1>9. QED BY <1>6, <1>7, <1>8

(* The bytes of k characters hold k characters.                            *)
LEMMA WholeOfWidth ==
    ASSUME NEW prompt \in Prompts, NEW k \in 0..Len(prompt)
    PROVE  Whole(prompt, WidthOf(prompt, k, 1)) = k
<1> DEFINE n == WidthOf(prompt, k, 1)
           j == Whole(prompt, n)
<1>1. n \in Nat /\ Len(prompt) \in Nat
    BY CallsAssumption, WidthType
<1>2. /\ j \in 0..Len(prompt) /\ WidthOf(prompt, j, 1) <= n
      /\ j < Len(prompt) => WidthOf(prompt, j + 1, 1) > n
  <2> HIDE DEF n
  <2>1. QED BY <1>1, WholeIs
<1> HIDE DEF j
<1>3. ~(k < j)
  <2>1. SUFFICES ASSUME k < j PROVE FALSE
      OBVIOUS
  <2>2. n < WidthOf(prompt, j, 1)
      BY <1>2, <2>1, WidthsGrow
  <2>3. WidthOf(prompt, j, 1) \in Nat
      BY <1>2, WidthType
  <2> HIDE DEF n
  <2>4. QED BY <1>1, <1>2, <2>2, <2>3
<1>4. ~(j < k)
  <2>1. SUFFICES ASSUME j < k PROVE FALSE
      OBVIOUS
  <2>2. j + 1 \in 0..Len(prompt) /\ j < Len(prompt) /\ j + 1 <= k
      BY <1>1, <1>2, <2>1
  <2>3. WidthOf(prompt, j + 1, 1) \in Nat
      BY <2>2, WidthType
  <2>4. WidthOf(prompt, j + 1, 1) > n
      BY <1>2, <2>2
  <2>5. CASE j + 1 = k
    <3>1. WidthOf(prompt, j + 1, 1) = n
        BY <2>5
    <3> HIDE DEF n
    <3>2. QED BY <1>1, <2>4, <3>1
  <2>6. CASE j + 1 < k
    <3>1. WidthOf(prompt, j + 1, 1) < n
        BY <2>2, <2>6, WidthsGrow
    <3> HIDE DEF n
    <3>2. QED BY <1>1, <2>3, <2>4, <3>1
  <2>7. QED BY <1>2, <2>2, <2>5, <2>6
<1>5. QED BY <1>2, <1>3, <1>4 DEF j

(* What is written of a capture is below the limit, and no more of its     *)
(* prompt would be.                                                        *)
LEMMA SerializedIsLongest ==
    ASSUME NEW prompt \in Prompts, NEW others \in Others
    PROVE  LET bytes == Serialized(prompt, others) IN
           /\ bytes.kept \in 0..Len(prompt) /\ bytes.size \in Nat /\ bytes.size <= MaxBytes
           /\ others + WidthOf(prompt, Len(prompt), 2) <= MaxBytes => bytes.kept = Len(prompt)
           /\ bytes.kept < Len(prompt) => ~Fits(prompt, bytes.kept + 1, others)
<1> DEFINE long == Len(prompt)
           whole == others + WidthOf(prompt, long, 2)
           cut == Cut(prompt, others)
           bytes == Serialized(prompt, others)
<1>1. /\ others \in Nat /\ MarkerBytes \in Nat /\ BareBytes \in Nat /\ MaxBytes \in Nat
      /\ BareBytes + MarkerBytes <= MaxBytes /\ long \in Nat
    BY CallsAssumption
<1>2. WidthOf(prompt, long, 2) \in Nat /\ whole \in Nat
    BY <1>1, WidthType
<1>3. /\ cut \in Nat \cup {-1} /\ cut <= BytesOf(prompt)
      /\ cut # -1 => CutFits(prompt, others, cut)
      /\ \A m \in cut + 1 .. BytesOf(prompt) : ~CutFits(prompt, others, m)
    BY CutIsLongest
(* A character more makes a longer cut, which the search has refused.      *)
<1>4. ASSUME NEW kept \in 0..long, kept < long, cut < WidthOf(prompt, kept + 1, 1)
      PROVE  ~Fits(prompt, kept + 1, others)
  <2> DEFINE n == WidthOf(prompt, kept + 1, 1)
  <2>1. kept + 1 \in 0..long
      BY <1>1, <1>4
  <2>2. n \in Nat /\ BytesOf(prompt) \in Nat
      BY <2>1, WidthType, BytesType
  <2>3. n <= BytesOf(prompt)
    <3>1. CASE kept + 1 = long
        BY <2>2, <3>1 DEF BytesOf
    <3>2. CASE kept + 1 < long
      <4>1. long \in 0..long
          BY <1>1
      <4>2. n < BytesOf(prompt)
          BY <2>1, <3>2, <4>1, WidthsGrow DEF BytesOf
      <4> HIDE DEF n
      <4>3. QED BY <2>2, <4>2
    <3>3. QED BY <1>1, <2>1, <3>1, <3>2
  <2>4. Whole(prompt, n) = kept + 1
      BY <2>1, WholeOfWidth
  <2>5. n \in cut + 1 .. BytesOf(prompt)
    <3>1. cut < n
        BY <1>4
    <3> HIDE DEF n, cut
    <3>2. QED BY <1>3, <2>2, <2>3, <3>1
  <2>6. ~CutFits(prompt, others, n)
    <3> HIDE DEF n, cut
    <3>1. QED BY <1>3, <2>5
  <2>7. QED BY <2>4, <2>6 DEF CutFits
<1>5. CASE whole <= MaxBytes
  <2>1. bytes = [kept |-> long, size |-> whole]
      BY <1>5 DEF Serialized
  <2>2. bytes.kept = long /\ bytes.size = whole
      BY <2>1
  <2> HIDE DEF bytes, whole
  <2>3. bytes.kept \in 0..long /\ ~(bytes.kept < long) /\ bytes.size \in Nat /\ bytes.size <= MaxBytes
      BY <1>1, <1>2, <1>5, <2>2
  <2>4. QED BY <2>2, <2>3 DEF bytes
<1>6. CASE ~(whole <= MaxBytes) /\ cut # -1
  <2> DEFINE kept == Whole(prompt, cut)
             size == others + WidthOf(prompt, kept, 2) + MarkerBytes
  <2>1. bytes = [kept |-> kept, size |-> size]
      BY <1>6 DEF Serialized
  <2>2. bytes.kept = kept /\ bytes.size = size
      BY <2>1
  <2>3. cut \in Nat
      BY <1>3, <1>6
  <2>4. kept \in 0..long /\ (kept < long => WidthOf(prompt, kept + 1, 1) > cut)
    <3> HIDE DEF cut
    <3>1. QED BY <2>3, WholeIs
  <2>5. size \in Nat /\ size <= MaxBytes
    <3>1. WidthOf(prompt, kept, 2) \in Nat
        BY <2>4, WidthType
    <3>2. size <= MaxBytes
        BY <1>3, <1>6 DEF CutFits, Fits
    <3>3. size \in Nat
      <4> HIDE DEF kept
      <4>1. QED BY <1>1, <3>1
    <3>4. QED BY <3>2, <3>3
  <2>6. kept < long => ~Fits(prompt, kept + 1, others)
    <3>1. ASSUME kept < long PROVE ~Fits(prompt, kept + 1, others)
      <4>1. cut < WidthOf(prompt, kept + 1, 1)
          BY <2>4, <3>1
      <4> HIDE DEF kept, cut
      <4>2. QED BY <1>4, <2>4, <3>1, <4>1
    <3>2. QED BY <3>1
  <2> HIDE DEF kept, size, bytes, whole, cut
  <2>7. QED BY <1>6, <2>2, <2>4, <2>5, <2>6 DEF bytes, whole
<1>7. CASE ~(whole <= MaxBytes) /\ cut = -1
  <2>1. bytes = [kept |-> 0, size |-> BareBytes + MarkerBytes]
      BY <1>7 DEF Serialized
  <2>2. bytes.kept = 0 /\ bytes.size = BareBytes + MarkerBytes
      BY <2>1
  <2>3. 0 < long => ~Fits(prompt, 0 + 1, others)
    <3>1. ASSUME 0 < long PROVE ~Fits(prompt, 0 + 1, others)
      <4>1. 0 \in 0..long /\ 0 + 1 \in 0..long
          BY <1>1, <3>1
      <4>2. WidthOf(prompt, 0 + 1, 1) \in Nat
          BY <4>1, WidthType
      <4>3. cut < WidthOf(prompt, 0 + 1, 1)
          BY <1>7, <4>2
      <4> HIDE DEF cut
      <4>4. QED BY <1>4, <3>1, <4>1, <4>3
    <3>2. QED BY <3>1
  <2> HIDE DEF bytes, whole, cut
  <2>4. bytes.kept \in 0..long /\ bytes.size \in Nat /\ bytes.size <= MaxBytes
      BY <1>1, <2>2
  <2>5. QED BY <1>7, <2>2, <2>3, <2>4 DEF bytes, whole
<1>8. QED BY <1>5, <1>6, <1>7

-----------------------------------------------------------------------------
(* The last n of a sequence, with the places they had.                     *)
LEMMA LatestIs ==
    ASSUME NEW X, NEW s \in Seq(X), NEW n \in Nat
    PROVE  /\ Latest(s, n) \in Seq(X)
           /\ Len(Latest(s, n)) \in Nat /\ Len(Latest(s, n)) <= n /\ Len(Latest(s, n)) <= Len(s)
           /\ Len(s) <= n => Len(Latest(s, n)) = Len(s)
           /\ n <= Len(s) => Len(Latest(s, n)) = n
           /\ \A i \in 1..Len(Latest(s, n)) :
               /\ i + (Len(s) - Len(Latest(s, n))) \in 1..Len(s)
               /\ Latest(s, n)[i] = s[i + (Len(s) - Len(Latest(s, n)))]
<1>1. Len(s) \in Nat
    OBVIOUS
<1>2. CASE Len(s) <= n
  <2>1. Latest(s, n) = s
      BY <1>2 DEF Latest
  <2>2. \A i \in 1..Len(s) : i + (Len(s) - Len(s)) = i
      BY <1>1
  <2>3. QED BY <1>1, <1>2, <2>1, <2>2
<1>3. CASE ~(Len(s) <= n)
  <2> DEFINE from == (Len(s) - n) + 1
             t == Latest(s, n)
  <2>1. from \in 1..Len(s) + 1 /\ (Len(s) - from) + 1 = n
      BY <1>1, <1>3
  <2>2. t = SubSeq(s, from, Len(s))
      BY <1>3 DEF Latest
  <2>3. t \in Seq(X) /\ Len(t) = n /\ \A i \in 1..n : t[i] = s[(from + i) - 1]
    <3> HIDE DEF from, t
    <3>1. /\ SubSeq(s, from, Len(s)) \in Seq(X)
          /\ Len(SubSeq(s, from, Len(s))) = IF from <= Len(s) THEN (Len(s) - from) + 1 ELSE 0
          /\ \A i \in 1..((Len(s) - from) + 1) : SubSeq(s, from, Len(s))[i] = s[(from + i) - 1]
      <4>1. from \in 1..Len(s) + 1 /\ Len(s) \in from - 1 .. Len(s)
          BY <1>1, <2>1
      <4>2. \A i \in 1..((Len(s) - from) + 1) : (from + i) - 1 \in 1..Len(s)
          BY <1>1, <4>1
      <4>3. QED BY <1>1, <4>1, <4>2
    <3>2. QED BY <1>1, <1>3, <2>1, <2>2, <3>1
  <2>4. \A i \in 1..n : (from + i) - 1 = i + (Len(s) - n) /\ i + (Len(s) - n) \in 1..Len(s)
      BY <1>1, <1>3
  <2> HIDE DEF from, t
  <2>5. QED BY <1>1, <1>3, <2>3, <2>4 DEF t
<1>4. QED BY <1>2, <1>3

(* What is near enough to the end is among them.                           *)
LEMMA InLatest ==
    ASSUME NEW X, NEW s \in Seq(X), NEW n \in Nat, NEW p \in 1..Len(s), Len(s) - n < p
    PROVE  LET i == p - (Len(s) - Len(Latest(s, n))) IN
           i \in 1..Len(Latest(s, n)) /\ Latest(s, n)[i] = s[p]
<1> DEFINE t == Latest(s, n)
           i == p - (Len(s) - Len(t))
<1>1. /\ Len(s) \in Nat /\ Len(t) \in Nat /\ Len(t) <= Len(s)
      /\ Len(s) <= n => Len(t) = Len(s)
      /\ n <= Len(s) => Len(t) = n
      /\ \A k \in 1..Len(t) : t[k] = s[k + (Len(s) - Len(t))]
    BY LatestIs
<1> HIDE DEF t
<1>2. i \in 1..Len(t) /\ i + (Len(s) - Len(t)) = p
    BY <1>1
<1>3. QED BY <1>1, <1>2 DEF t

-----------------------------------------------------------------------------
Raisings == {"nothing", "LLMTimeout", "LLMError", "HTTPException"}
EndedCalls == [call : Nat, by : Callers, raised : Raisings]
Captures == [n : Nat, call : Nat, prompt : Prompts, others : Others, whole : BOOLEAN,
             kept : Nat, size : Nat]

(* The last calls of which no whole capture is there.                      *)
Uncaptured ==
    {end \in {observations[e] : e \in DOMAIN observations} :
        \A i \in 1..Len(files) : files[i].whole => files[i].call # end.call}

CallsKept ==
    /\ CallsTypeOK
    /\ loop \in [Callers -> {"off", "waiting", "calling", "dead", "cancelled"}]
    /\ asked \in [Callers -> [call : Nat, prompt : Prompts \cup {<<>>}]]
    /\ ends \in Seq(EndedCalls)
    /\ sequence \in Nat
    /\ files \in Seq(Captures)

(* No two calls have the same number.                                      *)
CallsDiffer ==
    /\ \A e \in 1..Len(ends) : ends[e].call <= calls
    /\ \A d, e \in 1..Len(ends) : ends[d].call = ends[e].call => d = e
    /\ \A c \in Callers : loop[c] = "calling" =>
        /\ asked[c].prompt \in Prompts
        /\ \A e \in 1..Len(ends) : ends[e].call # asked[c].call
        /\ \A d \in Callers : loop[d] = "calling" /\ asked[d].call = asked[c].call => d = c

(* Of the calls that ended after that of a file, no fewer than the files   *)
(* after it: those of the last Retention calls are never among the ones    *)
(* to be removed.                                                          *)
FilesInOrder ==
    /\ \A i \in 1..Len(files) : files[i].n <= sequence /\ LongestThatFits(files[i])
    /\ \A i, j \in 1..Len(files) : i < j => files[i].n < files[j].n
    /\ \A i \in 1..Len(files) : \E e \in 1..Len(ends) :
        ends[e].call = files[i].call /\ e + (Len(files) - i) <= Len(ends)
    /\ Len(files) <= Retention + faults
    /\ faults = 0 /\ ends # <<>> => files # <<>> /\ files[Len(files)].call = ends[Len(ends)].call

CapturesInv ==
    /\ CallsKept
    /\ CallsDiffer
    /\ FilesInOrder
    /\ observations = Latest(ends, Retention)
    /\ IsFiniteSet(Uncaptured) /\ Cardinality(Uncaptured) <= faults

-----------------------------------------------------------------------------
(* The last n of the last n and one more are the last n of all.            *)
LEMMA LatestOfLatest ==
    ASSUME NEW X, NEW s \in Seq(X), NEW x \in X, NEW n \in Nat
    PROVE  Latest(Append(Latest(s, n), x), n) = Latest(Append(s, x), n)
<1> DEFINE t == Latest(s, n)
           a == Append(t, x)
           b == Append(s, x)
           u == Latest(a, n)
           v == Latest(b, n)
<1>1. /\ t \in Seq(X) /\ Len(t) \in Nat /\ Len(t) <= n /\ Len(t) <= Len(s)
      /\ Len(s) <= n => Len(t) = Len(s)
      /\ n <= Len(s) => Len(t) = n
      /\ \A i \in 1..Len(t) : i + (Len(s) - Len(t)) \in 1..Len(s) /\ t[i] = s[i + (Len(s) - Len(t))]
    BY LatestIs
<1>2. Len(s) \in Nat /\ b \in Seq(X) /\ Len(b) = Len(s) + 1
      /\ b[Len(s) + 1] = x /\ \A i \in 1..Len(s) : b[i] = s[i]
    OBVIOUS
<1> HIDE DEF t
<1>3. a \in Seq(X) /\ Len(a) = Len(t) + 1 /\ a[Len(t) + 1] = x /\ \A i \in 1..Len(t) : a[i] = t[i]
    BY <1>1
<1> HIDE DEF a, b
<1>4. /\ u \in Seq(X) /\ Len(u) \in Nat
      /\ Len(a) <= n => Len(u) = Len(a)
      /\ n <= Len(a) => Len(u) = n
      /\ \A i \in 1..Len(u) : i + (Len(a) - Len(u)) \in 1..Len(a) /\ u[i] = a[i + (Len(a) - Len(u))]
    BY <1>3, LatestIs
<1>5. /\ v \in Seq(X) /\ Len(v) \in Nat
      /\ Len(b) <= n => Len(v) = Len(b)
      /\ n <= Len(b) => Len(v) = n
      /\ \A i \in 1..Len(v) : i + (Len(b) - Len(v)) \in 1..Len(b) /\ v[i] = b[i + (Len(b) - Len(v))]
    BY <1>2, LatestIs
<1> HIDE DEF u, v
<1>6. Len(u) = Len(v)
    BY <1>1, <1>2, <1>3, <1>4, <1>5
<1>7. ASSUME NEW i \in 1..Len(u) PROVE u[i] = v[i]
  <2> DEFINE k == i + (Len(a) - Len(u))
             l == i + (Len(b) - Len(v))
  <2>1. k \in 1..Len(a) /\ u[i] = a[k] /\ l \in 1..Len(b) /\ v[i] = b[l]
      BY <1>4, <1>5, <1>6
  <2>2. l = k + (Len(s) - Len(t))
      BY <1>1, <1>2, <1>3, <1>4, <1>6
  <2> HIDE DEF k, l
  <2>3. CASE k = Len(t) + 1
    <3>1. l = Len(s) + 1
        BY <1>1, <1>2, <2>2, <2>3
    <3>2. QED BY <1>2, <1>3, <2>1, <2>3, <3>1
  <2>4. CASE k # Len(t) + 1
    <3>1. k \in 1..Len(t)
        BY <1>1, <1>3, <2>1, <2>4
    <3>2. l \in 1..Len(s) /\ t[k] = s[l]
        BY <1>1, <2>2, <3>1
    <3>3. QED BY <1>2, <1>3, <2>1, <3>1, <3>2
  <2>5. QED BY <2>3, <2>4
<1>8. u = v
    BY <1>4, <1>5, <1>6, <1>7, SeqEqual
<1>9. QED BY <1>8 DEF u, v, a, b, t

(* Whatever is among the last n of s and x is x or near the end of s.      *)
LEMMA AmongLatest ==
    ASSUME NEW X, NEW s \in Seq(X), NEW x \in X, NEW n \in Nat,
           NEW k \in 1..Len(Latest(Append(s, x), n))
    PROVE  \/ Latest(Append(s, x), n)[k] = x
           \/ \E q \in 1..Len(s) : Latest(Append(s, x), n)[k] = s[q] /\ Len(s) + 1 - n < q
<1> DEFINE b == Append(s, x)
           v == Latest(b, n)
           q == k + (Len(b) - Len(v))
<1>1. Len(s) \in Nat /\ b \in Seq(X) /\ Len(b) = Len(s) + 1
      /\ b[Len(s) + 1] = x /\ \A i \in 1..Len(s) : b[i] = s[i]
    OBVIOUS
<1> HIDE DEF b
<1>2. /\ Len(v) \in Nat /\ Len(v) <= n
      /\ \A i \in 1..Len(v) : i + (Len(b) - Len(v)) \in 1..Len(b) /\ v[i] = b[i + (Len(b) - Len(v))]
    BY <1>1, LatestIs
<1>3. k \in 1..Len(v)
    BY DEF b
<1> HIDE DEF v
<1>4. q \in 1..Len(b) /\ v[k] = b[q] /\ Len(s) + 1 - n < q
    BY <1>1, <1>2, <1>3
<1> HIDE DEF q
<1>5. CASE q = Len(s) + 1
    BY <1>1, <1>4, <1>5 DEF v, b
<1>6. CASE q # Len(s) + 1
  <2>1. q \in 1..Len(s)
      BY <1>1, <1>4, <1>6
  <2>2. v[k] = s[q] /\ Len(s) + 1 - n < q
      BY <1>1, <1>4, <2>1
  <2>3. QED BY <2>1, <2>2 DEF v, b
<1>7. QED BY <1>5, <1>6

(* A set that is within another of at most n, or that and one more.        *)
LEMMA OnlyOneMore ==
    ASSUME NEW S, IsFiniteSet(S), NEW T, NEW x, NEW n \in Nat, NEW m, Cardinality(S) <= n,
           m = n \/ m = n + 1,
           T \subseteq (IF m = n THEN S ELSE S \cup {x})
    PROVE  IsFiniteSet(T) /\ Cardinality(T) <= m
<1>1. Cardinality(S) \in Nat /\ IsFiniteSet(S \cup {x}) /\ Cardinality(S \cup {x}) <= n + 1
  <2>1. Cardinality(S) \in Nat
      BY FS_CardinalityType
  <2>2. QED BY <2>1, FS_AddElement
<1>2. CASE m = n
  <2>1. T \in SUBSET S
      BY <1>2
  <2>2. IsFiniteSet(T) /\ Cardinality(T) <= Cardinality(S) /\ Cardinality(T) \in Nat
      BY <2>1, FS_Subset, FS_CardinalityType
  <2>3. QED BY <1>1, <1>2, <2>2
<1>3. CASE m # n
  <2>1. T \in SUBSET (S \cup {x}) /\ m = n + 1
      BY <1>3
  <2>2. IsFiniteSet(T) /\ Cardinality(T) <= Cardinality(S \cup {x}) /\ Cardinality(T) \in Nat
      BY <1>1, <2>1, FS_Subset, FS_CardinalityType
  <2>3. Cardinality(S \cup {x}) \in Nat
      BY <1>1, FS_CardinalityType
  <2>4. QED BY <1>1, <2>1, <2>2, <2>3
<1>4. QED BY <1>2, <1>3

-----------------------------------------------------------------------------
(* A call that ends and whose capture, whole or torn, is written after the *)
(* others: all but n of the files may be removed then.                     *)
LEMMA WrittenKeeps ==
    ASSUME CapturesInv, NEW end \in EndedCalls, NEW f \in Captures, NEW n \in Nat, Retention <= n,
           \A e \in 1..Len(ends) : ends[e].call # end.call,
           f.n = sequence + 1, f.call = end.call, LongestThatFits(f),
           ends' = Append(ends, end),
           observations' = Latest(Append(observations, end), Retention),
           sequence' = sequence + 1,
           files' = Latest(Append(files, f), n),
           \/ f.whole /\ n = Retention /\ faults' = faults
           \/ faults' = faults + 1
    PROVE  /\ files' \in Seq(Captures)
           /\ FilesInOrder'
           /\ observations' = Latest(ends', Retention)
           /\ IsFiniteSet(Uncaptured') /\ Cardinality(Uncaptured') <= faults'
<1>0. PICK a, b : a = Append(files, f) /\ b = Append(ends, end)
    OBVIOUS
<1>1. /\ files \in Seq(Captures) /\ Len(files) \in Nat
      /\ ends \in Seq(EndedCalls) /\ Len(ends) \in Nat
      /\ sequence \in Nat /\ faults \in Nat /\ Retention \in Nat \ {0}
    BY CallsAssumption DEF CapturesInv, CallsKept, CallsTypeOK
<1>2. a \in Seq(Captures) /\ Len(a) = Len(files) + 1
      /\ a[Len(files) + 1] = f /\ \A i \in 1..Len(files) : a[i] = files[i]
    BY <1>0, <1>1
<1>3. b \in Seq(EndedCalls) /\ Len(b) = Len(ends) + 1
      /\ b[Len(ends) + 1] = end /\ \A e \in 1..Len(ends) : b[e] = ends[e]
    BY <1>0, <1>1
<1>4. PICK t : t = files' /\ t = Latest(a, n) /\ ends' = b
    BY <1>0
<1> DEFINE d == Len(a) - Len(t)
<1>5. /\ t \in Seq(Captures) /\ Len(t) \in Nat /\ Len(t) <= n /\ Len(t) <= Len(a)
      /\ Len(a) <= n => Len(t) = Len(a)
      /\ n <= Len(a) => Len(t) = n
      /\ \A i \in 1..Len(t) : i + (Len(a) - Len(t)) \in 1..Len(a) /\ t[i] = a[i + (Len(a) - Len(t))]
  <2>1. n \in Nat
      OBVIOUS
  <2>2. a \in Seq(Captures)
      BY <1>2
  <2>3. /\ Latest(a, n) \in Seq(Captures)
        /\ Len(Latest(a, n)) \in Nat /\ Len(Latest(a, n)) <= n /\ Len(Latest(a, n)) <= Len(a)
        /\ Len(a) <= n => Len(Latest(a, n)) = Len(a)
        /\ n <= Len(a) => Len(Latest(a, n)) = n
        /\ \A i \in 1..Len(Latest(a, n)) :
            /\ i + (Len(a) - Len(Latest(a, n))) \in 1..Len(a)
            /\ Latest(a, n)[i] = a[i + (Len(a) - Len(Latest(a, n)))]
    <3> HIDE DEF Captures
    <3>1. QED BY <2>1, <2>2, LatestIs
  <2>4. t = Latest(a, n)
      BY <1>4
  <2>5. QED BY <2>3, <2>4
<1>6. d \in Nat /\ \A i \in 1..Len(t) : i + d \in 1..Len(files) + 1 /\ t[i] = a[i + d]
    BY <1>1, <1>2, <1>5
<1>7. Len(t) # 0 /\ Len(t) + d = Len(files) + 1
    BY <1>1, <1>2, <1>5
<1> HIDE DEF d
<1>8. t[Len(t)] = f
  <2>1. Len(t) \in 1..Len(t)
      BY <1>5, <1>7
  <2>2. t[Len(t)] = a[Len(files) + 1]
      BY <1>6, <1>7, <2>1
  <2>3. QED BY <1>2, <2>2
<1>9. \A i, j \in 1..Len(files) : i < j => files[i].n < files[j].n
    BY DEF CapturesInv, FilesInOrder
<1>10. \A i \in 1..Len(files) : files[i].n \in Nat /\ files[i].n <= sequence /\ LongestThatFits(files[i])
  <2>1. \A i \in 1..Len(files) : files[i].n <= sequence /\ LongestThatFits(files[i])
      BY DEF CapturesInv, FilesInOrder
  <2>2. ASSUME NEW i \in 1..Len(files) PROVE files[i].n \in Nat
    <3>1. files[i] \in Captures
        BY <1>1
    <3>2. QED BY <3>1 DEF Captures
  <2>3. QED BY <2>1, <2>2
<1>11. \A i \in 1..Len(files) : \E e \in 1..Len(ends) :
          ends[e].call = files[i].call /\ e + (Len(files) - i) <= Len(ends)
    BY DEF CapturesInv, FilesInOrder
<1>12. FilesInOrder'
  <2>1. ASSUME NEW i \in 1..Len(t) PROVE t[i].n <= sequence + 1 /\ LongestThatFits(t[i])
    <3> DEFINE p == i + d
    <3>1. p \in 1..Len(files) + 1 /\ t[i] = a[p]
        BY <1>6
    <3> HIDE DEF p
    <3>2. CASE p = Len(files) + 1
        BY <1>1, <1>2, <3>1, <3>2
    <3>3. CASE p # Len(files) + 1
      <4>1. p \in 1..Len(files) /\ t[i] = files[p]
          BY <1>1, <1>2, <3>1, <3>3
      <4>2. files[p].n \in Nat /\ files[p].n <= sequence /\ LongestThatFits(files[p])
          BY <1>10, <4>1
      <4>3. files[p].n <= sequence + 1
          BY <1>1, <4>2
      <4>4. QED BY <4>1, <4>2, <4>3
    <3>4. QED BY <3>2, <3>3
  <2>2. ASSUME NEW i \in 1..Len(t), NEW j \in 1..Len(t), i < j PROVE t[i].n < t[j].n
    <3> DEFINE p == i + d
               q == j + d
    <3>1. p \in 1..Len(files) + 1 /\ t[i] = a[p] /\ q \in 1..Len(files) + 1 /\ t[j] = a[q]
        BY <1>6
    <3>2. p < q
        BY <1>6, <2>2
    <3> HIDE DEF p, q
    <3>3. p \in 1..Len(files) /\ a[p] = files[p]
        BY <1>1, <1>2, <3>1, <3>2
    <3>4. CASE q = Len(files) + 1
        BY <1>1, <1>2, <1>10, <3>1, <3>3, <3>4
    <3>5. CASE q # Len(files) + 1
      <4>1. q \in 1..Len(files) /\ a[q] = files[q]
          BY <1>1, <1>2, <3>1, <3>5
      <4>2. QED BY <1>9, <3>1, <3>2, <3>3, <4>1
    <3>6. QED BY <3>4, <3>5
  <2>3. ASSUME NEW i \in 1..Len(t)
        PROVE  \E e \in 1..Len(b) : b[e].call = t[i].call /\ e + (Len(t) - i) <= Len(b)
    <3> DEFINE p == i + d
    <3>1. p \in 1..Len(files) + 1 /\ t[i] = a[p] /\ Len(t) - i = (Len(files) + 1) - p
        BY <1>1, <1>5, <1>6, <1>7
    <3> HIDE DEF p
    <3>2. CASE p = Len(files) + 1
      <4>1. Len(b) \in 1..Len(b) /\ Len(b) + (Len(t) - i) <= Len(b)
          BY <1>1, <1>3, <3>1, <3>2
      <4>2. b[Len(b)].call = t[i].call
          BY <1>2, <1>3, <3>1, <3>2
      <4>3. QED BY <4>1, <4>2
    <3>3. CASE p # Len(files) + 1
      <4>1. p \in 1..Len(files) /\ t[i] = files[p]
          BY <1>1, <1>2, <3>1, <3>3
      <4>2. PICK e \in 1..Len(ends) : ends[e].call = files[p].call /\ e + (Len(files) - p) <= Len(ends)
          BY <1>11, <4>1
      <4>3. e \in 1..Len(b) /\ b[e] = ends[e] /\ e + (Len(t) - i) <= Len(b)
          BY <1>1, <1>3, <3>1, <4>1, <4>2
      <4>4. QED BY <4>1, <4>2, <4>3
    <3>4. QED BY <3>2, <3>3
  <2>4. Len(t) <= Retention + faults'
    <3>1. Len(files) <= Retention + faults
        BY DEF CapturesInv, FilesInOrder
    <3>2. CASE n = Retention /\ faults' = faults
        BY <1>1, <1>5, <3>2
    <3>3. CASE faults' = faults + 1
        BY <1>1, <1>2, <1>5, <3>1, <3>3
    <3>4. QED BY <3>2, <3>3
  <2>5. t # <<>> /\ t[Len(t)].call = b[Len(b)].call
      BY <1>3, <1>5, <1>7, <1>8
  <2>6. QED BY <1>4, <2>1, <2>2, <2>3, <2>4, <2>5 DEF FilesInOrder, LongestThatFits, Fits
<1>13. observations' = Latest(b, Retention)
  <2>1. observations = Latest(ends, Retention)
      BY DEF CapturesInv
  <2>2. QED BY <1>1, <2>1, <1>0, LatestOfLatest
<1>14. Uncaptured' \subseteq (IF faults' = faults THEN Uncaptured ELSE Uncaptured \cup {end})
  <2> SUFFICES ASSUME NEW x \in Uncaptured'
               PROVE  x \in IF faults' = faults THEN Uncaptured ELSE Uncaptured \cup {end}
      OBVIOUS
  <2>1. PICK k \in DOMAIN observations' : x = observations'[k]
      BY DEF Uncaptured
  <2>2. \A i \in 1..Len(t) : t[i].whole => t[i].call # x.call
      BY <1>4 DEF Uncaptured
  <2>3. \/ x = end
        \/ \E q \in 1..Len(ends) : x = ends[q] /\ Len(ends) + 1 - Retention < q
    <3>1. Latest(b, Retention) \in Seq(EndedCalls)
        BY <1>1, <1>3, LatestIs
    <3>2. k \in 1..Len(Latest(b, Retention)) /\ x = Latest(b, Retention)[k]
        BY <1>13, <2>1, <3>1
    <3>3. Latest(b, Retention) = Latest(Append(ends, end), Retention)
        BY <1>0
    <3>4. PICK s : s = ends
        OBVIOUS
    <3>5. s \in Seq(EndedCalls) /\ k \in 1..Len(Latest(Append(s, end), Retention))
          /\ x = Latest(Append(s, end), Retention)[k] /\ Retention \in Nat /\ end \in EndedCalls
        BY <1>1, <3>2, <3>3, <3>4
    <3>6. \/ x = end
          \/ \E q \in 1..Len(s) : x = s[q] /\ Len(s) + 1 - Retention < q
      <4> HIDE DEF EndedCalls
      <4>1. QED BY <3>5, AmongLatest
    <3>7. QED BY <3>4, <3>6
  <2>4. CASE x = end
    <3>1. Len(t) \in 1..Len(t)
        BY <1>5, <1>7
    <3>2. ~f.whole
        BY <1>8, <2>2, <2>4, <3>1
    <3>3. faults' # faults
        BY <1>1, <3>2
    <3>4. QED BY <2>4, <3>3
  <2>5. ASSUME NEW q \in 1..Len(ends), x = ends[q], Len(ends) + 1 - Retention < q
        PROVE  x \in Uncaptured
    <3>1. x \in {observations[e] : e \in DOMAIN observations}
      <4>1. Len(ends) - Retention < q
          BY <1>1, <2>5
      <4>2. PICK i \in 1..Len(Latest(ends, Retention)) : Latest(ends, Retention)[i] = ends[q]
          BY <1>1, <4>1, InLatest
      <4>3. Latest(ends, Retention) \in Seq(EndedCalls)
          BY <1>1, LatestIs
      <4>4. observations = Latest(ends, Retention)
          BY DEF CapturesInv
      <4>5. QED BY <2>5, <4>2, <4>3, <4>4
    <3>2. ASSUME NEW p \in 1..Len(files), files[p].whole, files[p].call = x.call PROVE FALSE
      <4>1. PICK e \in 1..Len(ends) : ends[e].call = files[p].call /\ e + (Len(files) - p) <= Len(ends)
          BY <1>11
      <4>2. e = q
          BY <2>5, <3>2, <4>1 DEF CapturesInv, CallsDiffer
      <4>3. p \in 1..Len(a) /\ Len(a) - n < p
          BY <1>1, <1>2, <2>5, <4>1, <4>2
      <4>4. PICK i \in 1..Len(t) : t[i] = a[p]
        <5>1. a \in Seq(Captures) /\ n \in Nat
            BY <1>2
        <5>2. LET i == p - (Len(a) - Len(Latest(a, n))) IN
              i \in 1..Len(Latest(a, n)) /\ Latest(a, n)[i] = a[p]
            BY <4>3, <5>1, InLatest
        <5>3. t = Latest(a, n)
            BY <1>4
        <5>4. QED BY <5>2, <5>3
      <4>5. t[i] = files[p]
          BY <1>2, <4>4
      <4>6. QED BY <2>2, <3>2, <4>5
    <3>3. QED BY <3>1, <3>2 DEF Uncaptured
  <2>6. QED BY <2>3, <2>4, <2>5
<1>15. IsFiniteSet(Uncaptured) /\ Cardinality(Uncaptured) <= faults /\ Cardinality(Uncaptured) \in Nat
    BY FS_CardinalityType DEF CapturesInv
<1>16. IsFiniteSet(Uncaptured') /\ Cardinality(Uncaptured') <= faults'
    BY <1>1, <1>14, <1>15, OnlyOneMore
<1>17. QED BY <1>4, <1>5, <1>12, <1>13, <1>16

(* A call that ends and of which nothing is written.                       *)
LEMMA UnwrittenKeeps ==
    ASSUME CapturesInv, NEW end \in EndedCalls,
           ends' = Append(ends, end),
           observations' = Latest(Append(observations, end), Retention),
           sequence' \in {sequence, sequence + 1},
           files' = files,
           faults' = faults + 1
    PROVE  /\ files' \in Seq(Captures)
           /\ FilesInOrder'
           /\ observations' = Latest(ends', Retention)
           /\ IsFiniteSet(Uncaptured') /\ Cardinality(Uncaptured') <= faults'
<1>1. /\ files \in Seq(Captures) /\ Len(files) \in Nat
      /\ ends \in Seq(EndedCalls) /\ Len(ends) \in Nat
      /\ sequence \in Nat /\ faults \in Nat /\ Retention \in Nat \ {0}
    BY CallsAssumption DEF CapturesInv, CallsKept, CallsTypeOK
<1>2. PICK b : b = Append(ends, end)
    OBVIOUS
<1>3. b \in Seq(EndedCalls) /\ Len(b) = Len(ends) + 1 /\ \A e \in 1..Len(ends) : b[e] = ends[e]
    BY <1>1, <1>2
<1>4. FilesInOrder'
  <2>1. ASSUME NEW i \in 1..Len(files) PROVE files[i].n <= sequence' /\ LongestThatFits(files[i])
    <3>1. files[i] \in Captures
        BY <1>1
    <3>2. files[i].n \in Nat
        BY <3>1 DEF Captures
    <3>3. files[i].n <= sequence /\ LongestThatFits(files[i])
        BY DEF CapturesInv, FilesInOrder
    <3>4. QED BY <1>1, <3>2, <3>3
  <2>2. \A i, j \in 1..Len(files) : i < j => files[i].n < files[j].n
      BY DEF CapturesInv, FilesInOrder
  <2>3. ASSUME NEW i \in 1..Len(files)
        PROVE  \E e \in 1..Len(b) : b[e].call = files[i].call /\ e + (Len(files) - i) <= Len(b)
    <3>1. PICK e \in 1..Len(ends) : ends[e].call = files[i].call /\ e + (Len(files) - i) <= Len(ends)
        BY DEF CapturesInv, FilesInOrder
    <3>2. e \in 1..Len(b) /\ e + (Len(files) - i) <= Len(b)
        BY <1>1, <1>3, <3>1
    <3>3. QED BY <1>3, <3>1, <3>2
  <2>4. Len(files) <= Retention + faults' /\ faults' # 0
    <3>1. Len(files) <= Retention + faults
        BY DEF CapturesInv, FilesInOrder
    <3>2. QED BY <1>1, <3>1
  <2>5. QED BY <1>2, <2>1, <2>2, <2>3, <2>4 DEF FilesInOrder, LongestThatFits, Fits
<1>5. observations' = Latest(b, Retention)
  <2>1. observations = Latest(ends, Retention)
      BY DEF CapturesInv
  <2>2. QED BY <1>1, <1>2, <2>1, LatestOfLatest
<1>6. Uncaptured' \subseteq Uncaptured \cup {end}
  <2> SUFFICES ASSUME NEW x \in Uncaptured', x # end PROVE x \in Uncaptured
      OBVIOUS
  <2>1. PICK k \in DOMAIN observations' : x = observations'[k]
      BY DEF Uncaptured
  <2>2. \A i \in 1..Len(files) : files[i].whole => files[i].call # x.call
      BY DEF Uncaptured
  <2>3. PICK s : s = ends
      OBVIOUS
  <2>4. \E q \in 1..Len(s) : x = s[q] /\ Len(s) + 1 - Retention < q
    <3>1. Latest(b, Retention) \in Seq(EndedCalls)
        BY <1>1, <1>3, LatestIs
    <3>2. Latest(b, Retention) = Latest(Append(s, end), Retention)
        BY <1>2, <2>3
    <3>3. s \in Seq(EndedCalls) /\ k \in 1..Len(Latest(Append(s, end), Retention))
          /\ x = Latest(Append(s, end), Retention)[k] /\ Retention \in Nat /\ end \in EndedCalls
        BY <1>1, <1>5, <2>1, <2>3, <3>1, <3>2
    <3> HIDE DEF EndedCalls
    <3>4. QED BY <3>3, AmongLatest
  <2>5. PICK q \in 1..Len(ends) : x = ends[q] /\ Len(ends) - Retention < q
      BY <1>1, <2>3, <2>4
  <2>6. \E i \in 1..Len(Latest(ends, Retention)) : Latest(ends, Retention)[i] = ends[q]
      BY <1>1, <2>5, InLatest
  <2>7. Latest(ends, Retention) \in Seq(EndedCalls)
      BY <1>1, LatestIs
  <2>8. observations = Latest(ends, Retention)
      BY DEF CapturesInv
  <2>9. x \in {observations[e] : e \in DOMAIN observations}
      BY <2>5, <2>6, <2>7, <2>8
  <2>10. QED BY <2>2, <2>9 DEF Uncaptured
<1>7. IsFiniteSet(Uncaptured) /\ Cardinality(Uncaptured) <= faults
    BY DEF CapturesInv
<1>8. IsFiniteSet(Uncaptured') /\ Cardinality(Uncaptured') <= faults'
  <2>1. faults' # faults
      BY <1>1
  <2>2. QED BY <1>1, <1>6, <1>7, <2>1, OnlyOneMore
<1>9. QED BY <1>1, <1>2, <1>4, <1>5, <1>8

(* What is observed of a call, and what is written of it.                  *)
LEMMA CaptureIs ==
    ASSUME CapturesInv, NEW c \in Callers, loop[c] = "calling", NEW outcome \in Outcomes,
           NEW others \in Others
    PROVE  LET end == [call |-> asked[c].call, by |-> c, raised |-> Raised(outcome)]
               bytes == Serialized(asked[c].prompt, others)
               capture == [n |-> sequence + 1, call |-> end.call, prompt |-> asked[c].prompt,
                           others |-> others, whole |-> TRUE, kept |-> bytes.kept, size |-> bytes.size]
               torn == [capture EXCEPT !.whole = FALSE]
           IN  /\ end \in EndedCalls /\ end.call = asked[c].call
               /\ {capture, torn} \subseteq Captures /\ capture.whole
               /\ \A f \in {capture, torn} :
                    f.n = sequence + 1 /\ f.call = end.call /\ LongestThatFits(f)
<1> DEFINE end == [call |-> asked[c].call, by |-> c, raised |-> Raised(outcome)]
           bytes == Serialized(asked[c].prompt, others)
           capture == [n |-> sequence + 1, call |-> end.call, prompt |-> asked[c].prompt,
                       others |-> others, whole |-> TRUE, kept |-> bytes.kept, size |-> bytes.size]
           torn == [capture EXCEPT !.whole = FALSE]
<1>1. /\ asked[c].call \in Nat /\ asked[c].prompt \in Prompts
      /\ sequence + 1 \in Nat
    BY DEF CapturesInv, CallsKept, CallsDiffer
<1>2. Raised(outcome) \in Raisings
  <2>1. server \in Servers
      BY DEF CapturesInv, CallsKept, CallsTypeOK
  <2>2. QED BY <2>1 DEF Raised, Raisings, Outcomes, Servers
<1>3. end \in EndedCalls
    BY <1>1, <1>2 DEF EndedCalls
<1>4. PICK prompt \in Prompts : prompt = asked[c].prompt
    BY <1>1
<1>5. /\ bytes.kept \in 0..Len(prompt) /\ bytes.size \in Nat /\ bytes.size <= MaxBytes
      /\ others + WidthOf(prompt, Len(prompt), 2) <= MaxBytes => bytes.kept = Len(prompt)
      /\ bytes.kept < Len(prompt) => ~Fits(prompt, bytes.kept + 1, others)
    BY <1>4, SerializedIsLongest
<1> HIDE DEF bytes
<1>6. bytes.kept \in Nat
    BY <1>4, <1>5, CallsAssumption
<1>7. {capture, torn} \subseteq Captures
  <2> DEFINE call == asked[c].call
  <2>1. call \in Nat /\ prompt \in Prompts /\ bytes.kept \in Nat /\ bytes.size \in Nat
      BY <1>1, <1>5, <1>6
  <2>2. capture = [n |-> sequence + 1, call |-> call, prompt |-> prompt, others |-> others,
                   whole |-> TRUE, kept |-> bytes.kept, size |-> bytes.size]
      BY <1>4
  <2> HIDE DEF capture
  <2> HIDE DEF call
  <2>4. capture \in Captures
      BY <1>1, <2>1, <2>2 DEF Captures
  <2>5. torn \in Captures
      BY <2>4 DEF Captures
  <2>6. QED BY <2>4, <2>5
<1>8. ASSUME NEW f \in {capture, torn}
      PROVE  f.n = sequence + 1 /\ f.call = end.call /\ LongestThatFits(f)
  <2>1. /\ f.n = sequence + 1 /\ f.call = end.call /\ f.prompt = prompt
        /\ f.others = others /\ f.kept = bytes.kept /\ f.size = bytes.size
      BY <1>4
  <2>2. LongestThatFits(f)
      BY <1>5, <2>1 DEF LongestThatFits
  <2>3. QED BY <2>1, <2>2
<1>9. QED BY <1>3, <1>7, <1>8 DEF bytes

LEMMA CallsInitially == ASSUME CallsInit PROVE CapturesInv
<1>1. /\ Retention \in Nat \ {0} /\ MaxCalls \in Nat /\ MaxFaults \in Nat
    BY CallsAssumption
<1>2. /\ server = "absent" /\ loop = [c \in Callers |-> "off"] /\ asked = [c \in Callers |-> NoCall]
      /\ observations = <<>> /\ files = <<>> /\ sequence = 0 /\ ends = <<>> /\ calls = 0 /\ faults = 0
    BY DEF CallsInit
<1>3. CallsKept
  <2>1. CallsTypeOK
      BY <1>1, <1>2 DEF CallsTypeOK, Servers, NoCall
  <2>2. asked \in [Callers -> [call : Nat, prompt : Prompts \cup {<<>>}]]
      BY <1>2 DEF NoCall
  <2>3. loop \in [Callers -> {"off", "waiting", "calling", "dead", "cancelled"}]
      BY <1>2
  <2>4. ends \in Seq(EndedCalls) /\ files \in Seq(Captures) /\ sequence \in Nat
    <3>1. <<>> \in Seq(EndedCalls)
        OBVIOUS
    <3>2. <<>> \in Seq(Captures)
        OBVIOUS
    <3>3. QED BY <1>2, <3>1, <3>2
  <2>5. QED BY <2>1, <2>2, <2>3, <2>4 DEF CallsKept
<1>4. CallsDiffer /\ FilesInOrder
    BY <1>1, <1>2 DEF CallsDiffer, FilesInOrder
<1>5. observations = Latest(ends, Retention)
    BY <1>1, <1>2 DEF Latest
<1>6. Uncaptured = {}
    BY <1>2 DEF Uncaptured
<1>7. QED BY <1>2, <1>3, <1>4, <1>5, <1>6, FS_EmptySet DEF CapturesInv

(* While no call ends, its captures stay what they are.                    *)
LEMMA CapturesStay ==
    ASSUME CapturesInv, CallsKept', CallsDiffer',
           UNCHANGED <<observations, files, sequence, ends, faults>>
    PROVE  CapturesInv'
<1>1. FilesInOrder'
    BY DEF CapturesInv, FilesInOrder, LongestThatFits, Fits
<1>2. observations' = Latest(ends', Retention)
    BY DEF CapturesInv
<1>3. Uncaptured' = Uncaptured
    BY DEF Uncaptured
<1>4. IsFiniteSet(Uncaptured') /\ Cardinality(Uncaptured') <= faults'
    BY <1>3 DEF CapturesInv
<1>5. QED BY <1>1, <1>2, <1>4 DEF CapturesInv

LEMMA AskKeeps ==
    ASSUME CapturesInv, NEW c \in Callers, NEW prompt \in Prompts, Ask(c, prompt)
    PROVE  CapturesInv'
<1>1. /\ loop \in [Callers -> {"off", "waiting", "calling", "dead", "cancelled"}]
      /\ asked \in [Callers -> [call : Nat, prompt : Prompts \cup {<<>>}]]
      /\ calls \in Nat /\ MaxCalls \in Nat /\ calls + 1 \in 1..MaxCalls
      /\ ends \in Seq(EndedCalls)
    BY CallsAssumption DEF CapturesInv, CallsKept, CallsTypeOK, Ask
<1>2. /\ loop' = [loop EXCEPT ![c] = "calling"]
      /\ asked' = [asked EXCEPT ![c] = [call |-> calls + 1, prompt |-> prompt]]
      /\ calls' = calls + 1
      /\ UNCHANGED <<server, observations, files, sequence, ends, faults>>
    BY DEF Ask
<1>3. [call |-> calls + 1, prompt |-> prompt] # NoCall
    BY <1>1 DEF NoCall
<1>4. \A d \in Callers : asked[d].call \in 0..calls /\ (asked[d] # NoCall <=> loop[d] = "calling")
    BY DEF CapturesInv, CallsKept, CallsTypeOK
<1>5. CallsKept'
  <2>1. \A d \in Callers : asked'[d].call \in 0..calls' /\ (asked'[d] # NoCall <=> loop'[d] = "calling")
    <3>1. ASSUME NEW d \in Callers, d # c
          PROVE  asked'[d].call \in 0..calls' /\ (asked'[d] # NoCall <=> loop'[d] = "calling")
      <4>1. asked'[d] = asked[d] /\ loop'[d] = loop[d]
          BY <1>1, <1>2, <3>1
      <4>2. asked[d].call \in 0..calls + 1
          BY <1>1, <1>4
      <4>3. QED BY <1>2, <1>4, <4>1, <4>2
    <3>2. asked'[c].call \in 0..calls' /\ asked'[c] # NoCall /\ loop'[c] = "calling"
      <4>1. asked'[c] = [call |-> calls + 1, prompt |-> prompt] /\ loop'[c] = "calling"
          BY <1>1, <1>2
      <4>2. QED BY <1>1, <1>2, <1>3, <4>1
    <3>3. QED BY <3>1, <3>2
  <2>2. loop' \in [Callers -> {"off", "waiting", "calling", "dead", "cancelled"}]
      BY <1>1, <1>2
  <2>3. asked' \in [Callers -> [call : Nat, prompt : Prompts \cup {<<>>}]]
    <3>1. [call |-> calls + 1, prompt |-> prompt] \in [call : Nat, prompt : Prompts \cup {<<>>}]
        BY <1>1
    <3>2. QED BY <1>1, <1>2, <3>1
  <2>4. calls' \in 0..MaxCalls
      BY <1>1, <1>2
  <2>5. QED BY <1>2, <2>1, <2>2, <2>3, <2>4 DEF CapturesInv, CallsKept, CallsTypeOK, Servers
<1>6. CallsDiffer'
  <2>1. \A e \in 1..Len(ends) : ends[e].call \in Nat /\ ends[e].call <= calls
    <3>1. ASSUME NEW e \in 1..Len(ends) PROVE ends[e].call \in Nat
      <4>1. ends[e] \in EndedCalls
          BY <1>1
      <4>2. QED BY <4>1 DEF EndedCalls
    <3>2. QED BY <3>1 DEF CapturesInv, CallsDiffer
  <2>2. \A e \in 1..Len(ends) : ends[e].call <= calls + 1 /\ ends[e].call # calls + 1
      BY <1>1, <2>1
  <2>3. \A d, e \in 1..Len(ends) : ends[d].call = ends[e].call => d = e
      BY DEF CapturesInv, CallsDiffer
  <2>4. asked'[c].call = calls + 1 /\ asked'[c].prompt = prompt
      BY <1>1, <1>2
  <2>5. \A d \in Callers : d # c =>
          asked'[d] = asked[d] /\ loop'[d] = loop[d] /\ asked[d].call # calls + 1
      BY <1>1, <1>2, <1>4
  <2>6. ASSUME NEW d \in Callers, loop'[d] = "calling"
        PROVE  /\ asked'[d].prompt \in Prompts
               /\ \A e \in 1..Len(ends) : ends[e].call # asked'[d].call
               /\ \A b \in Callers : loop'[b] = "calling" /\ asked'[b].call = asked'[d].call => b = d
    <3>1. CASE d = c
        BY <2>2, <2>4, <2>5, <3>1
    <3>2. CASE d # c
      <4>1. asked'[d] = asked[d] /\ loop[d] = "calling" /\ asked[d].call # calls + 1
          BY <2>5, <2>6, <3>2
      <4>2. /\ asked[d].prompt \in Prompts
            /\ \A e \in 1..Len(ends) : ends[e].call # asked[d].call
            /\ \A b \in Callers : loop[b] = "calling" /\ asked[b].call = asked[d].call => b = d
          BY <4>1 DEF CapturesInv, CallsDiffer
      <4>3. QED BY <2>4, <2>5, <4>1, <4>2
    <3>3. QED BY <3>1, <3>2
  <2>7. QED BY <1>2, <2>2, <2>3, <2>6 DEF CallsDiffer
<1>7. QED BY <1>2, <1>5, <1>6, CapturesStay

(* A loop that is given another state than "calling", and waits no more.   *)
LEMMA NoLongerCalling ==
    ASSUME CallsKept, NEW c \in Callers, NEW state \in {"waiting", "dead", "cancelled"},
           loop' = [loop EXCEPT ![c] = state], asked' = [asked EXCEPT ![c] = NoCall],
           calls' = calls
    PROVE  /\ loop' \in [Callers -> {"off", "waiting", "calling", "dead", "cancelled"}]
           /\ asked' \in [Callers -> [call : Nat, prompt : Prompts \cup {<<>>}]]
           /\ \A d \in Callers : asked'[d].call \in 0..calls' /\ (asked'[d] # NoCall <=> loop'[d] = "calling")
           /\ \A d \in Callers : loop'[d] = "calling" => loop[d] = "calling" /\ asked'[d] = asked[d] /\ d # c
<1>1. /\ loop \in [Callers -> {"off", "waiting", "calling", "dead", "cancelled"}]
      /\ asked \in [Callers -> [call : Nat, prompt : Prompts \cup {<<>>}]]
      /\ \A d \in Callers : asked[d].call \in 0..calls /\ (asked[d] # NoCall <=> loop[d] = "calling")
      /\ calls \in Nat
    BY CallsAssumption DEF CallsKept, CallsTypeOK
<1>2. NoCall \in [call : Nat, prompt : Prompts \cup {<<>>}] /\ NoCall.call = 0
    BY DEF NoCall
<1>3. loop' \in [Callers -> {"off", "waiting", "calling", "dead", "cancelled"}]
    BY <1>1
<1>4. asked' \in [Callers -> [call : Nat, prompt : Prompts \cup {<<>>}]]
    BY <1>1, <1>2
<1>5. loop'[c] = state /\ asked'[c] = NoCall /\ state # "calling"
    BY <1>1
<1>6. \A d \in Callers : d # c => loop'[d] = loop[d] /\ asked'[d] = asked[d]
    BY <1>1
<1>7. \A d \in Callers : asked'[d].call \in 0..calls' /\ (asked'[d] # NoCall <=> loop'[d] = "calling")
  <2>1. ASSUME NEW d \in Callers
        PROVE  asked'[d].call \in 0..calls' /\ (asked'[d] # NoCall <=> loop'[d] = "calling")
    <3>1. CASE d = c
      <4>1. 0 \in 0..calls'
          BY <1>1
      <4>2. QED BY <1>2, <1>5, <3>1, <4>1
    <3>2. CASE d # c
        BY <1>1, <1>6, <3>2
    <3>3. QED BY <3>1, <3>2
  <2>2. QED BY <2>1
<1>8. QED BY <1>3, <1>4, <1>5, <1>6, <1>7

LEMMA CancelKeeps == ASSUME CapturesInv, NEW c \in Callers, Cancel(c) PROVE CapturesInv'
<1>1. /\ loop' = [loop EXCEPT ![c] = "cancelled"] /\ asked' = [asked EXCEPT ![c] = NoCall]
      /\ UNCHANGED <<server, observations, files, sequence, ends, calls, faults>>
    BY DEF Cancel
<1>2. CallsKept
    BY DEF CapturesInv
<1>3. /\ loop' \in [Callers -> {"off", "waiting", "calling", "dead", "cancelled"}]
      /\ asked' \in [Callers -> [call : Nat, prompt : Prompts \cup {<<>>}]]
      /\ \A d \in Callers : asked'[d].call \in 0..calls' /\ (asked'[d] # NoCall <=> loop'[d] = "calling")
      /\ \A d \in Callers : loop'[d] = "calling" => loop[d] = "calling" /\ asked'[d] = asked[d] /\ d # c
    BY <1>1, <1>2, NoLongerCalling
<1>4. CallsKept'
    BY <1>1, <1>2, <1>3 DEF CallsKept, CallsTypeOK, Servers
<1>5. CallsDiffer'
    BY <1>1, <1>3 DEF CapturesInv, CallsDiffer
<1>6. QED BY <1>1, <1>4, <1>5, CapturesStay

LEMMA StartKeeps == ASSUME CapturesInv, ServerChanges \/ StartLoops PROVE CapturesInv'
<1>1. CASE ServerChanges
  <2>1. server' \in Servers /\ UNCHANGED <<loop, asked, observations, files, sequence, ends, calls, faults>>
      BY <1>1 DEF ServerChanges
  <2>2. CallsKept'
      BY <2>1 DEF CapturesInv, CallsKept, CallsTypeOK, Servers
  <2>3. CallsDiffer'
      BY <2>1 DEF CapturesInv, CallsDiffer
  <2>4. QED BY <2>1, <2>2, <2>3, CapturesStay
<1>2. CASE StartLoops
  <2>1. /\ \A c \in Callers : loop[c] = "off"
        /\ loop' = [c \in Callers |-> "waiting"]
        /\ UNCHANGED <<server, asked, observations, files, sequence, ends, calls, faults>>
      BY <1>2 DEF StartLoops
  <2>2. \A c \in Callers : asked[c] = NoCall
      BY <2>1 DEF CapturesInv, CallsKept, CallsTypeOK
  <2>3. loop' \in [Callers -> {"off", "waiting", "calling", "dead", "cancelled"}]
      BY <2>1
  <2>4. \A c \in Callers : asked'[c].call \in 0..calls' /\ (asked'[c] # NoCall <=> loop'[c] = "calling")
      BY <2>1, <2>2 DEF CapturesInv, CallsKept, CallsTypeOK
  <2>5. CallsKept'
      BY <2>1, <2>3, <2>4 DEF CapturesInv, CallsKept, CallsTypeOK, Servers
  <2>6. CallsDiffer'
      BY <2>1 DEF CapturesInv, CallsDiffer
  <2>7. QED BY <2>1, <2>5, <2>6, CapturesStay
<1>3. QED BY <1>1, <1>2

LEMMA AnswerKeeps ==
    ASSUME CapturesInv, NEW c \in Callers, NEW outcome \in Outcomes, Answer(c, outcome)
    PROVE  CapturesInv'
<1> DEFINE end == [call |-> asked[c].call, by |-> c, raised |-> Raised(outcome)]
           bytes(others) == Serialized(asked[c].prompt, others)
           capture(others) ==
                [n |-> sequence + 1, call |-> end.call, prompt |-> asked[c].prompt,
                 others |-> others, whole |-> TRUE, kept |-> bytes(others).kept, size |-> bytes(others).size]
           torn(others) == [capture(others) EXCEPT !.whole = FALSE]
<1>1. /\ loop[c] = "calling"
      /\ ends' = Append(ends, end)
      /\ observations' = Latest(Append(observations, end), Retention)
      /\ asked' = [asked EXCEPT ![c] = NoCall]
      /\ server' = server /\ calls' = calls
    BY DEF Answer
<1>2. PICK others \in Others : WriteRecord(capture(others))
    BY DEF Answer
<1>3. PICK state \in {"waiting", "dead", "cancelled"} : loop' = [loop EXCEPT ![c] = state]
  <2>1. loop' = [loop EXCEPT ![c] = IF faults' = faults /\ end.raised # "HTTPException" THEN "waiting" ELSE "dead"]
      BY DEF Answer
  <2>2. QED BY <2>1
<1>4. /\ end \in EndedCalls /\ end.call = asked[c].call
      /\ {capture(others), torn(others)} \subseteq Captures /\ capture(others).whole
      /\ \A f \in {capture(others), torn(others)} :
            f.n = sequence + 1 /\ f.call = end.call /\ LongestThatFits(f)
  <2>1. others \in Others
      OBVIOUS
  <2>2. QED BY <1>1, <2>1, CaptureIs
<1>5. \A e \in 1..Len(ends) : ends[e].call # end.call
    BY <1>1 DEF CapturesInv, CallsDiffer
<1>6. files \in Seq(Captures) /\ Len(files) \in Nat /\ Retention \in Nat /\ faults \in Nat /\ sequence \in Nat
    BY CallsAssumption DEF CapturesInv, CallsKept, CallsTypeOK
<1>7. PICK f, g : f = capture(others) /\ g = torn(others)
    OBVIOUS
<1>8. /\ f \in Captures /\ f.whole /\ f.n = sequence + 1 /\ f.call = end.call /\ LongestThatFits(f)
      /\ g \in Captures /\ g.n = sequence + 1 /\ g.call = end.call /\ LongestThatFits(g)
    BY <1>4, <1>7
<1>9. \/ sequence' = sequence + 1 /\ files' = Latest(Append(files, f), Retention) /\ faults' = faults
      \/ /\ faults < MaxFaults /\ faults' = faults + 1
         /\ \/ sequence' \in {sequence, sequence + 1} /\ files' = files
            \/ sequence' = sequence + 1 /\ files' = Append(files, g)
            \/ /\ sequence' = sequence + 1
               /\ \E n \in Retention + 1 .. Len(files) + 1 : files' = Latest(Append(files, f), n)
    BY <1>2, <1>7 DEF WriteRecord, Pruned
<1> HIDE DEF end, capture, torn
<1>10. /\ files' \in Seq(Captures)
       /\ FilesInOrder'
       /\ observations' = Latest(ends', Retention)
       /\ IsFiniteSet(Uncaptured') /\ Cardinality(Uncaptured') <= faults'
       /\ sequence' \in Nat /\ faults' \in 0..MaxFaults
  <2>1. CASE sequence' = sequence + 1 /\ files' = Latest(Append(files, f), Retention) /\ faults' = faults
    <3>1. faults' \in 0..MaxFaults /\ sequence' \in Nat
        BY <1>6, <2>1 DEF CapturesInv, CallsKept, CallsTypeOK
    <3>2. Retention <= Retention
        BY <1>6
    <3>3. QED BY <1>1, <1>4, <1>5, <1>6, <1>8, <2>1, <3>1, <3>2, WrittenKeeps
  <2>2. CASE faults < MaxFaults /\ faults' = faults + 1
    <3>1. faults' \in 0..MaxFaults
        BY <1>6, <2>2, CallsAssumption
    <3>2. CASE sequence' \in {sequence, sequence + 1} /\ files' = files
      <4>1. sequence' \in Nat
          BY <1>6, <3>2
      <4>2. QED BY <1>1, <1>4, <2>2, <3>1, <3>2, <4>1, UnwrittenKeeps
    <3>3. CASE sequence' = sequence + 1 /\ files' = Append(files, g)
      <4>1. PICK n \in Nat : n = (Len(files) + 1) + Retention
          BY <1>6
      <4>2. Retention <= n /\ files' = Latest(Append(files, g), n) /\ sequence' \in Nat
        <5>1. Len(Append(files, g)) = Len(files) + 1
            BY <1>6, <1>8
        <5>2. Len(Append(files, g)) <= n
            BY <1>6, <4>1, <5>1
        <5>3. QED BY <1>6, <3>3, <4>1, <5>2 DEF Latest
      <4>3. QED BY <1>1, <1>4, <1>5, <1>8, <2>2, <3>1, <3>3, <4>2, WrittenKeeps
    <3>4. CASE /\ sequence' = sequence + 1
               /\ \E n \in Retention + 1 .. Len(files) + 1 : files' = Latest(Append(files, f), n)
      <4>1. PICK n \in Nat : Retention <= n /\ files' = Latest(Append(files, f), n)
          BY <1>6, <3>4
      <4>2. sequence' \in Nat
          BY <1>6, <3>4
      <4>3. QED BY <1>1, <1>4, <1>5, <1>8, <2>2, <3>1, <3>4, <4>1, <4>2, WrittenKeeps
    <3>5. QED BY <1>9, <2>2, <3>2, <3>3, <3>4, <1>6
  <2>3. QED BY <1>9, <2>1, <2>2
<1>11. CallsKept
    BY DEF CapturesInv
<1>12. /\ loop' \in [Callers -> {"off", "waiting", "calling", "dead", "cancelled"}]
       /\ asked' \in [Callers -> [call : Nat, prompt : Prompts \cup {<<>>}]]
       /\ \A d \in Callers : asked'[d].call \in 0..calls' /\ (asked'[d] # NoCall <=> loop'[d] = "calling")
       /\ \A d \in Callers : loop'[d] = "calling" => loop[d] = "calling" /\ asked'[d] = asked[d] /\ d # c
    BY <1>1, <1>3, <1>11, NoLongerCalling
<1>13. ends \in Seq(EndedCalls) /\ ends' \in Seq(EndedCalls)
    BY <1>1, <1>4, <1>11 DEF CallsKept
<1>14. Len(observations') <= Retention
  <2>1. PICK s : s = ends'
      OBVIOUS
  <2>2. Len(Latest(s, Retention)) <= Retention
      BY <1>6, <1>13, <2>1, LatestIs
  <2>3. QED BY <1>10, <2>1, <2>2
<1>15. CallsKept'
    BY <1>1, <1>10, <1>11, <1>12, <1>13, <1>14 DEF CallsKept, CallsTypeOK, Servers
<1>16. CallsDiffer'
  <2>1. /\ Len(ends') = Len(ends) + 1 /\ Len(ends) \in Nat /\ ends'[Len(ends) + 1] = end
        /\ \A e \in 1..Len(ends) : ends'[e] = ends[e]
      BY <1>1, <1>13
  <2>2. \A e \in 1..Len(ends') : e \in 1..Len(ends) \/ e = Len(ends) + 1
      BY <2>1
  <2>3. end.call <= calls /\ \A e \in 1..Len(ends) : ends[e].call <= calls
      BY <1>4, <1>11 DEF CallsKept, CallsTypeOK, CapturesInv, CallsDiffer
  <2>4. \A e \in 1..Len(ends') : ends'[e].call <= calls
      BY <2>1, <2>2, <2>3
  <2>5. \A d, e \in 1..Len(ends) : ends[d].call = ends[e].call => d = e
      BY DEF CapturesInv, CallsDiffer
  <2>6. \A d, e \in 1..Len(ends') : ends'[d].call = ends'[e].call => d = e
      BY <1>5, <2>1, <2>2, <2>5
  <2>7. ASSUME NEW d \in Callers, loop'[d] = "calling"
        PROVE  /\ asked'[d].prompt \in Prompts
               /\ \A e \in 1..Len(ends') : ends'[e].call # asked'[d].call
               /\ \A b \in Callers : loop'[b] = "calling" /\ asked'[b].call = asked'[d].call => b = d
    <3>1. loop[d] = "calling" /\ asked'[d] = asked[d] /\ d # c
        BY <1>12, <2>7
    <3>2. /\ asked[d].prompt \in Prompts
          /\ \A e \in 1..Len(ends) : ends[e].call # asked[d].call
          /\ \A b \in Callers : loop[b] = "calling" /\ asked[b].call = asked[d].call => b = d
        BY <3>1 DEF CapturesInv, CallsDiffer
    <3>3. end.call # asked[d].call
        BY <1>1, <1>4, <3>1, <3>2
    <3>4. QED BY <1>12, <2>1, <2>2, <3>1, <3>2, <3>3
  <2>8. QED BY <1>1, <2>4, <2>6, <2>7 DEF CallsDiffer
<1>17. QED BY <1>10, <1>15, <1>16 DEF CapturesInv

LEMMA CallsStep == ASSUME CapturesInv, [CallsNext]_callVars PROVE CapturesInv'
<1>1. CASE ServerChanges \/ StartLoops
    BY <1>1, StartKeeps
<1>2. ASSUME NEW c \in Callers, NEW prompt \in Prompts, Ask(c, prompt) PROVE CapturesInv'
    BY <1>2, AskKeeps
<1>3. ASSUME NEW c \in Callers, NEW outcome \in Outcomes, Answer(c, outcome) PROVE CapturesInv'
    BY <1>3, AnswerKeeps
<1>4. ASSUME NEW c \in Callers, Cancel(c) PROVE CapturesInv'
    BY <1>4, CancelKeeps
<1>5. CASE UNCHANGED callVars
  <2>1. UNCHANGED <<server, loop, asked, observations, files, sequence, ends, calls, faults>>
      BY <1>5 DEF callVars
  <2>2. CallsKept'
      BY <2>1 DEF CapturesInv, CallsKept, CallsTypeOK, Servers
  <2>3. CallsDiffer'
      BY <2>1 DEF CapturesInv, CallsDiffer
  <2>4. QED BY <2>1, <2>2, <2>3, CapturesStay
<1>6. QED BY <1>1, <1>2, <1>3, <1>4, <1>5 DEF CallsNext

(* For any callers, prompts and limits, what the loops wait for, and what  *)
(* is remembered of the calls, is of its kind.                             *)
THEOREM CallTypes == CallsSpec => []CallsTypeOK
<1>1. CallsInit => CapturesInv
    BY CallsInitially
<1>2. CapturesInv /\ [CallsNext]_callVars => CapturesInv'
    BY CallsStep
<1>3. CapturesInv => CallsTypeOK
    BY DEF CapturesInv, CallsKept
<1>4. QED BY <1>1, <1>2, <1>3, PTL DEF CallsSpec

(* The captures tell the calls (prompt_observation.py): in memory the      *)
(* newest Retention that ended, on disk the same but for as many as there  *)
(* were failures to write, in their order, none above the limit, and each  *)
(* with the longest part of its prompt that the limit leaves room for.     *)
THEOREM CapturesAreTrue == CallsSpec => []CapturesTellTheCalls
<1>1. CallsInit => CapturesInv
    BY CallsInitially
<1>2. CapturesInv /\ [CallsNext]_callVars => CapturesInv'
    BY CallsStep
<1>3. CapturesInv => CapturesTellTheCalls
    BY DEF CapturesInv, FilesInOrder, CapturesTellTheCalls, Uncaptured
<1>4. QED BY <1>1, <1>2, <1>3, PTL DEF CallsSpec

=============================================================================
