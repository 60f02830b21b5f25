------------------------------ MODULE DataLemmas ------------------------------
(***************************************************************************)
(* What the proofs about the models' data need and the library states only *)
(* with operator parameters: least and greatest numbers, induction along a  *)
(* range of numbers as a property of a set, the value of a function that is *)
(* defined by recursion along such a range, and ranking by counting.        *)
(***************************************************************************)
EXTENDS Lists, FiniteSetTheorems, SequenceTheorems, WellFoundedInduction, TLAPS

\* A set of naturals has a least element.
LEMMA LeastExists ==
  ASSUME NEW S, S \subseteq Nat, S # {}
  PROVE  \E m \in S : \A n \in S : m <= n
<1>1. PICK m \in S : \A n \in S : ~(<<n, m>> \in OpToRel(<, Nat))
  BY NatLessThanWellFounded, WFMin
<1>2. \A n \in S : ~(n < m)
  BY <1>1 DEF OpToRel
<1> QED
  BY <1>2

\* A set that has a start and with each number before b the next has them all.
LEMMA ReachedBySteps ==
  ASSUME NEW a \in Int, NEW b \in Int, NEW T, a \in T,
         \A n \in a .. b - 1 : n \in T => n + 1 \in T
  PROVE  a .. b \subseteq T
<1> SUFFICES ASSUME NEW k \in a .. b, k \notin T PROVE FALSE
  OBVIOUS
<1> DEFINE missed == {n \in Nat : a + n <= b /\ a + n \notin T}
<1>1. k - a \in missed
  OBVIOUS
<1>2. PICK m \in missed : \A n \in missed : m <= n
  <2> HIDE DEF missed
  <2>1. missed \subseteq Nat
    BY DEF missed
  <2> QED
    BY <1>1, <2>1, LeastExists
<1>3. m \in Nat \ {0} /\ a + m <= b /\ a + m \notin T
  BY <1>2
<1>4. a + (m - 1) \in a .. b - 1 /\ a + (m - 1) + 1 = a + m
  BY <1>3
<1>5. a + (m - 1) \in T
  BY <1>2, <1>3
<1> QED
  BY <1>3, <1>4, <1>5

\* The least and the greatest of a set of integers that lie between two of them.
LEMMA BoundedHasEnds ==
  ASSUME NEW S, S # {}, NEW a \in Int, NEW b \in Int, S \subseteq a .. b
  PROVE  /\ \E m \in S : \A n \in S : m <= n
         /\ \E m \in S : \A n \in S : m >= n
<1> DEFINE up == {n \in Nat : a + n \in S}   down == {n \in Nat : b - n \in S}
<1>0. PICK k \in S : TRUE
  OBVIOUS
<1>1. PICK m \in up : \A n \in up : m <= n
  <2>1. k - a \in up
    BY <1>0
  <2> HIDE DEF up
  <2>2. up \subseteq Nat
    BY DEF up
  <2> QED
    BY <2>1, <2>2, LeastExists
<1>2. PICK l \in down : \A n \in down : l <= n
  <2>1. b - k \in down
    BY <1>0
  <2> HIDE DEF down
  <2>2. down \subseteq Nat
    BY DEF down
  <2> QED
    BY <2>1, <2>2, LeastExists
<1>3. \A n \in S : n - a \in up /\ b - n \in down
  OBVIOUS
<1>4. a + m \in S /\ \A n \in S : a + m <= n
  BY <1>1, <1>3
<1>5. b - l \in S /\ \A n \in S : b - l >= n
  BY <1>2, <1>3
<1> QED
  BY <1>4, <1>5

\* A finite set of integers lies between two integers.
LEMMA FiniteIsBounded ==
  ASSUME NEW S, IsFiniteSet(S), S \subseteq Int
  PROVE  \E a, b \in Int : S \subseteq a .. b
<1> DEFINE N == Cardinality(S)
<1>1. N \in Nat /\ ExistsBijection(1 .. N, S)
  BY FS_CardinalityType
<1>2. PICK f \in [1 .. N -> S] : \A s \in S : \E n \in 1 .. N : f[n] = s
  BY <1>1 DEF ExistsBijection, Bijection, Surjection
<1> HIDE DEF N
<1> DEFINE T == {k \in 0 .. N : \E a, b \in Int : \A n \in 1 .. k : f[n] \in a .. b}
<1>3. 0 \in T
  BY <1>1
<1>4. ASSUME NEW k \in 0 .. N - 1, k \in T PROVE k + 1 \in T
  <2>1. PICK a \in Int, b \in Int : \A n \in 1 .. k : f[n] \in a .. b
    BY <1>4
  <2>2. f[k + 1] \in Int /\ k + 1 \in 0 .. N
    <3>1. N \in Nat /\ k + 1 \in 1 .. N
      BY <1>1
    <3>2. f[k + 1] \in S
      BY <3>1
    <3>3. f[k + 1] \in Int
      BY <3>2
    <3> QED
      BY <3>1, <3>3
  <2> DEFINE c == IF f[k + 1] < a THEN f[k + 1] ELSE a
             d == IF f[k + 1] > b THEN f[k + 1] ELSE b
  <2>3. c \in Int /\ d \in Int /\ c <= a /\ b <= d /\ c <= f[k + 1] /\ f[k + 1] <= d
    BY <2>2
  <2> HIDE DEF c, d
  <2>4. \A n \in 1 .. k + 1 : f[n] \in c .. d
    BY <2>1, <2>2, <2>3
  <2> QED
    BY <2>2, <2>3, <2>4
<1>5. N \in T
  <2> HIDE DEF T
  <2>1. 0 .. N \subseteq T
    BY <1>1, <1>3, <1>4, ReachedBySteps
  <2> QED
    BY <1>1, <2>1
<1>6. PICK a \in Int, b \in Int : \A n \in 1 .. N : f[n] \in a .. b
  BY <1>5
<1>7. S \subseteq a .. b
  BY <1>2, <1>6
<1> QED
  BY <1>7

\* A finite set of numbers has a least and a greatest.
LEMMA FiniteHasEnds ==
  ASSUME NEW S, IsFiniteSet(S), S \subseteq Int, S # {}
  PROVE  /\ \E m \in S : \A n \in S : m <= n
         /\ \E m \in S : \A n \in S : m >= n
BY FiniteIsBounded, BoundedHasEnds

-----------------------------------------------------------------------------
(* Recursion along a range of numbers.                                       *)

Iterates(f, N, base, step) == f[0] = base /\ \A n \in 1 .. N : f[n] = step[n][f[n - 1]]

\* There is a function whose value at 0 is base and at each n what step[n] makes of the value
\* before, and its values are in the set the steps keep to.
LEMMA IterationExists ==
  ASSUME NEW N \in Nat, NEW S, NEW base \in S, NEW step \in [1 .. N -> [S -> S]]
  PROVE  \E f \in [0 .. N -> S] : Iterates(f, N, base, step)
<1> DEFINE T == {k \in 0 .. N : \E f \in [0 .. k -> S] :
                    f[0] = base /\ \A n \in 1 .. k : f[n] = step[n][f[n - 1]]}
<1>1. 0 \in T
  <2> DEFINE f == [n \in 0 .. 0 |-> base]
  <2>1. f \in [0 .. 0 -> S] /\ f[0] = base /\ \A n \in 1 .. 0 : f[n] = step[n][f[n - 1]]
    OBVIOUS
  <2> HIDE DEF f
  <2>2. \E g \in [0 .. 0 -> S] : g[0] = base /\ \A n \in 1 .. 0 : g[n] = step[n][g[n - 1]]
    BY <2>1
  <2> QED
    BY <2>2
<1>2. ASSUME NEW k \in 0 .. N - 1, k \in T PROVE k + 1 \in T
  <2>1. PICK f \in [0 .. k -> S] : f[0] = base /\ \A n \in 1 .. k : f[n] = step[n][f[n - 1]]
    BY <1>2
  <2> DEFINE g == [n \in 0 .. k + 1 |-> IF n = k + 1 THEN step[k + 1][f[k]] ELSE f[n]]
  <2>2. step[k + 1][f[k]] \in S
    OBVIOUS
  <2>3. g \in [0 .. k + 1 -> S]
    BY <2>2
  <2>4. g[0] = base
    BY <2>1
  <2>5. \A n \in 1 .. k + 1 : g[n] = step[n][g[n - 1]]
    BY <2>1
  <2> HIDE DEF g
  <2>6. k + 1 \in 0 .. N
    OBVIOUS
  <2> QED
    BY <2>3, <2>4, <2>5, <2>6
<1>3. N \in T
  <2> HIDE DEF T
  <2>1. 0 .. N \subseteq T
    BY <1>1, <1>2, ReachedBySteps
  <2> QED
    BY <2>1
<1> QED
  BY <1>3 DEF Iterates

-----------------------------------------------------------------------------
(* Ranking by counting.                                                      *)

\* A ranking of a finite set that tells its elements apart takes every place.
LEMMA RankingIsOnto ==
  ASSUME NEW S, IsFiniteSet(S), NEW rank \in [S -> 1 .. Cardinality(S)],
         \A i, j \in S : rank[i] = rank[j] => i = j
  PROVE  \A n \in 1 .. Cardinality(S) : \E i \in S : rank[i] = n
<1> DEFINE N == Cardinality(S)
<1>1. N \in Nat
  BY FS_CardinalityType
<1>2. IsFiniteSet(1 .. N) /\ Cardinality(1 .. N) = N
  BY <1>1, FS_Interval
<1>3. rank \in Injection(S, 1 .. N)
  BY DEF Injection, IsInjective
<1>4. rank \in Surjection(S, 1 .. N)
  BY <1>2, <1>3, FS_Injection
<1> QED
  BY <1>4 DEF Surjection

\* Counting the members up to each one ranks a finite set of integers.
LEMMA CountingRanks ==
  ASSUME NEW S, IsFiniteSet(S), S \subseteq Int
  PROVE  /\ \A t \in S : Cardinality(UpTo(S, t)) \in 1 .. Cardinality(S)
         /\ \A s, t \in S : s < t => Cardinality(UpTo(S, s)) < Cardinality(UpTo(S, t))
<1>1. \A t \in S : IsFiniteSet(UpTo(S, t)) /\ Cardinality(UpTo(S, t)) \in 1 .. Cardinality(S)
  <2> TAKE t \in S
  <2>1. UpTo(S, t) \in SUBSET S /\ t \in UpTo(S, t)
    BY DEF UpTo
  <2>2. IsFiniteSet(UpTo(S, t)) /\ Cardinality(UpTo(S, t)) <= Cardinality(S)
    BY <2>1, FS_Subset
  <2>3. Cardinality(UpTo(S, t)) \in Nat /\ Cardinality(S) \in Nat /\ Cardinality(UpTo(S, t)) # 0
    BY <2>1, <2>2, FS_CardinalityType, FS_EmptySet
  <2> QED
    BY <2>2, <2>3
<1>2. ASSUME NEW s \in S, NEW t \in S, s < t
      PROVE  Cardinality(UpTo(S, s)) < Cardinality(UpTo(S, t))
  <2>1. s \in Int /\ t \in Int
    OBVIOUS
  <2>2. ASSUME NEW u \in S, u <= s PROVE u <= t
    <3>1. u \in Int
      OBVIOUS
    <3> QED
      BY <1>2, <2>1, <2>2, <3>1
  <2>3. UpTo(S, s) \in SUBSET UpTo(S, t)
    BY <2>2 DEF UpTo
  <2>4. t \in UpTo(S, t) /\ t \notin UpTo(S, s)
    BY <1>2, <2>1 DEF UpTo
  <2>5. /\ Cardinality(UpTo(S, s)) <= Cardinality(UpTo(S, t))
        /\ Cardinality(UpTo(S, s)) # Cardinality(UpTo(S, t))
    BY <1>1, <2>3, <2>4, FS_Subset
  <2> QED
    BY <1>1, <2>5
<1> QED
  BY <1>1, <1>2

\* So each place is taken, and by one member.
LEMMA NthExists ==
  ASSUME NEW S, IsFiniteSet(S), S \subseteq Int, NEW n \in 1 .. Cardinality(S)
  PROVE  \E t \in S : Cardinality(UpTo(S, t)) = n
<1> DEFINE rank == [t \in S |-> Cardinality(UpTo(S, t))]
<1>1. rank \in [S -> 1 .. Cardinality(S)]
  BY CountingRanks
<1>2. ASSUME NEW i \in S, NEW j \in S, rank[i] = rank[j] PROVE i = j
  <2>1. i \in Int /\ j \in Int
    OBVIOUS
  <2>2. Cardinality(UpTo(S, i)) = Cardinality(UpTo(S, j)) /\ Cardinality(UpTo(S, i)) \in Int
    BY <1>1, <1>2
  <2>3. ~(i < j)
    <3> SUFFICES ASSUME i < j PROVE FALSE
      OBVIOUS
    <3>1. Cardinality(UpTo(S, i)) < Cardinality(UpTo(S, j))
      BY CountingRanks
    <3> QED
      BY <2>2, <3>1
  <2>4. ~(j < i)
    <3> SUFFICES ASSUME j < i PROVE FALSE
      OBVIOUS
    <3>1. Cardinality(UpTo(S, j)) < Cardinality(UpTo(S, i))
      BY CountingRanks
    <3> QED
      BY <2>2, <3>1
  <2> QED
    BY <2>1, <2>3, <2>4
<1>3. \E t \in S : rank[t] = n
  <2> HIDE DEF rank
  <2> QED
    BY <1>1, <1>2, RankingIsOnto
<1> QED
  BY <1>3

\* So the n-th of them is a member, with n members up to it.
LEMMA NthIsThere ==
  ASSUME NEW S, IsFiniteSet(S), S \subseteq Int, NEW n \in 1 .. Cardinality(S)
  PROVE  Nth(S, n) \in S /\ Cardinality(UpTo(S, Nth(S, n))) = n
BY NthExists DEF Nth

-----------------------------------------------------------------------------
(* Filtering a list.                                                         *)

\* Filtering keeps every element that is in the set.
LEMMA OnlyLosesNone ==
  ASSUME NEW T, NEW q \in Seq(T), NEW S
  PROVE  Only(q, S) \in Seq(T \cap S) /\ Range(q) \cap S \subseteq Range(Only(q, S))
<1> DEFINE next(n, p) == IF q[n] \in S THEN Append(p, q[n]) ELSE p
           step == [n \in 1 .. Len(q) |-> [p \in Seq(T \cap S) |-> next(n, p)]]
           kept == CHOOSE g : g = [n \in 0 .. Len(q) |->
                     IF n = 0 THEN <<>> ELSE IF q[n] \in S THEN Append(g[n - 1], q[n]) ELSE g[n - 1]]
<1>1. Only(q, S) = kept[Len(q)]
  BY DEF Only
<1>2. Len(q) \in Nat /\ <<>> \in Seq(T \cap S)
  BY EmptySeq, LenProperties
<1>3. ASSUME NEW n \in 1 .. Len(q), NEW p \in Seq(T \cap S) PROVE next(n, p) \in Seq(T \cap S)
  <2>1. q[n] \in T
    BY ElementOfSeq
  <2> QED
    BY <2>1, AppendProperties
<1>4. step \in [1 .. Len(q) -> [Seq(T \cap S) -> Seq(T \cap S)]]
  BY <1>3
<1>5. PICK f \in [0 .. Len(q) -> Seq(T \cap S)] :
        f[0] = <<>> /\ \A n \in 1 .. Len(q) : f[n] = step[n][f[n - 1]]
  <2> DEFINE N == Len(q)   R == Seq(T \cap S)   base == <<>>
  <2>1. N \in Nat /\ base \in R /\ step \in [1 .. N -> [R -> R]]
    BY <1>2, <1>4
  <2> HIDE DEF step, N, R, base
  <2>2. PICK f \in [0 .. N -> R] : Iterates(f, N, base, step)
    BY <2>1, IterationExists
  <2>3. f[0] = base /\ \A n \in 1 .. N : f[n] = step[n][f[n - 1]]
    BY <2>2 DEF Iterates
  <2> QED
    BY <2>3 DEF N, R, base
<1>6. f = [n \in 0 .. Len(q) |->
             IF n = 0 THEN <<>> ELSE IF q[n] \in S THEN Append(f[n - 1], q[n]) ELSE f[n - 1]]
  <2>1. ASSUME NEW n \in 1 .. Len(q)
        PROVE  f[n] = IF q[n] \in S THEN Append(f[n - 1], q[n]) ELSE f[n - 1]
    <3>1. n - 1 \in 0 .. Len(q) /\ f[n - 1] \in Seq(T \cap S)
      BY <1>2
    <3> QED
      BY <1>5, <3>1
  <2> DEFINE g == [n \in 0 .. Len(q) |->
               IF n = 0 THEN <<>> ELSE IF q[n] \in S THEN Append(f[n - 1], q[n]) ELSE f[n - 1]]
  <2>2. ASSUME NEW n \in 0 .. Len(q) PROVE g[n] = f[n]
    <3>1. CASE n = 0
      BY <1>5, <3>1
    <3>2. CASE n # 0
      <4>1. n \in 1 .. Len(q)
        BY <1>2, <3>2
      <4>2. f[n] = IF q[n] \in S THEN Append(f[n - 1], q[n]) ELSE f[n - 1]
        BY <2>1, <4>1
      <4>3. g[n] = IF q[n] \in S THEN Append(f[n - 1], q[n]) ELSE f[n - 1]
        BY <3>2
      <4> QED
        BY <4>2, <4>3
    <3> QED
      BY <3>1, <3>2
  <2>3. DOMAIN g = 0 .. Len(q) /\ g = [n \in 0 .. Len(q) |-> g[n]]
    OBVIOUS
  <2> HIDE DEF g
  <2>4. f = g
    BY <2>2, <2>3
  <2> QED
    BY <2>4 DEF g
<1>7. kept = [n \in 0 .. Len(q) |->
                IF n = 0 THEN <<>>
                ELSE IF q[n] \in S THEN Append(kept[n - 1], q[n]) ELSE kept[n - 1]]
  BY <1>6
<1> HIDE DEF kept
<1>8. kept[0] = <<>>
  BY <1>2, <1>7
<1>9. ASSUME NEW n \in 0 .. Len(q) - 1 PROVE kept[n + 1] = next(n + 1, kept[n])
  <2>1. n + 1 \in 0 .. Len(q) /\ n + 1 # 0 /\ (n + 1) - 1 = n
    BY <1>2
  <2> QED
    BY <1>7, <2>1
<1> DEFINE Has(n) == \A i \in 1 .. n : q[i] \in S =>
                       \E j \in 1 .. Len(kept[n]) : kept[n][j] = q[i]
<1>10. Has(0)
  OBVIOUS
<1>11. ASSUME NEW n \in 0 .. Len(q) - 1, kept[n] \in Seq(T \cap S), Has(n)
       PROVE  kept[n + 1] \in Seq(T \cap S) /\ Has(n + 1)
  <2> DEFINE u == q[n + 1]
  <2>1. kept[n + 1] = IF u \in S THEN Append(kept[n], u) ELSE kept[n]
    BY <1>9
  <2>2. n + 1 \in 1 .. Len(q) /\ u \in T
    BY <1>2, ElementOfSeq
  <2>3. CASE u \in S
    <3> DEFINE p == kept[n]
    <3> HIDE DEF p
    <3>1. p \in Seq(T \cap S) /\ u \in T \cap S
      BY <1>11, <2>2, <2>3 DEF p
    <3>2. /\ Append(p, u) \in Seq(T \cap S)
          /\ Len(Append(p, u)) = Len(p) + 1 /\ Len(p) \in Nat
          /\ \A j \in 1 .. Len(p) : Append(p, u)[j] = p[j]
          /\ Append(p, u)[Len(p) + 1] = u
      BY <3>1, AppendProperties, LenProperties
    <3>3. kept[n + 1] = Append(p, u)
      BY <2>1, <2>3 DEF p
    <3>4. ASSUME NEW i \in 1 .. n + 1, q[i] \in S
          PROVE  \E j \in 1 .. Len(Append(p, u)) : Append(p, u)[j] = q[i]
      <4>1. CASE i = n + 1
        BY <3>2, <4>1
      <4>2. CASE i # n + 1
        <5>1. i \in 1 .. n
          BY <4>2
        <5>2. PICK j \in 1 .. Len(p) : p[j] = q[i]
          BY <1>11, <3>4, <5>1 DEF p
        <5>3. j \in 1 .. Len(Append(p, u)) /\ Append(p, u)[j] = q[i]
          BY <3>2, <5>2
        <5> QED
          BY <5>3
      <4> QED
        BY <4>1, <4>2
    <3> QED
      BY <3>2, <3>3, <3>4
  <2>4. CASE u \notin S
    <3>1. kept[n + 1] = kept[n]
      BY <2>1, <2>4
    <3>2. ASSUME NEW i \in 1 .. n + 1, q[i] \in S
          PROVE  \E j \in 1 .. Len(kept[n]) : kept[n][j] = q[i]
      <4>1. i \in 1 .. n
        BY <2>4, <3>2
      <4> QED
        BY <1>11, <3>2, <4>1
    <3> QED
      BY <1>11, <3>1, <3>2
  <2> QED
    BY <2>3, <2>4
<1> HIDE DEF Has
<1> DEFINE done == {n \in 0 .. Len(q) : kept[n] \in Seq(T \cap S) /\ Has(n)}
<1>12. 0 \in done
  BY <1>2, <1>8, <1>10
<1>13. ASSUME NEW n \in 0 .. Len(q) - 1, n \in done PROVE n + 1 \in done
  BY <1>2, <1>11, <1>13
<1>14. Len(q) \in done
  <2> DEFINE N == Len(q)
  <2> HIDE DEF done, N
  <2>1. N \in Nat /\ 0 \in done /\ \A n \in 0 .. N - 1 : n \in done => n + 1 \in done
    BY <1>2, <1>12, <1>13 DEF N
  <2>2. 0 .. N \subseteq done
    BY <2>1, ReachedBySteps
  <2>3. N \in done
    BY <2>1, <2>2
  <2> QED
    BY <2>3 DEF N
<1> DEFINE p == Only(q, S)
<1>15. p \in Seq(T \cap S) /\ \A i \in 1 .. Len(q) : q[i] \in S =>
                               \E j \in 1 .. Len(p) : p[j] = q[i]
  BY <1>1, <1>14 DEF Has
<1> HIDE DEF p
<1>16. Range(p) = {p[j] : j \in 1 .. Len(p)} /\ Range(q) = {q[i] : i \in 1 .. Len(q)}
  BY <1>15, RangeEquality
<1>17. Range(q) \cap S \subseteq Range(p)
  BY <1>15, <1>16
<1> QED
  BY <1>15, <1>17 DEF p

\* What is left of a list are the elements of it that are in the set.
LEMMA OnlyKeeps ==
  ASSUME NEW T, NEW q \in Seq(T), NEW S
  PROVE  Only(q, S) \in Seq(T \cap S) /\ Range(Only(q, S)) = Range(q) \cap S
<1>1. q \in Seq(Range(q))
  BY SeqOfRange
<1>2. Only(q, S) \in Seq(Range(q) \cap S) /\ Range(q) \cap S \subseteq Range(Only(q, S))
  BY <1>1, OnlyLosesNone
<1>3. Range(Only(q, S)) \subseteq Range(q) \cap S
  BY <1>2, RangeOfSeq
<1> QED
  BY <1>2, <1>3, OnlyLosesNone
=============================================================================
