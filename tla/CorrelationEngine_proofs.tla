----------------------- MODULE CorrelationEngine_proofs -----------------------
(***************************************************************************)
(* What a request to the engine may answer, and the order of the suspects, *)
(* for every value of the constants.                                       *)
(***************************************************************************)
EXTENDS CorrelationEngine, Sums_proofs

LEMMA AttemptsType == Attempts \in Nat /\ Attempts > 0
  BY EngineAssumption DEF EngineAssumption

-----------------------------------------------------------------------------
(* The order of the suspects.  Outranks is a strict total order on services *)
(* with scores, so ranks are distinct, so there is one service per rank.    *)

LEMMA OutranksTotal ==
  ASSUME NEW names, names \subseteq Nat, NEW score \in [names -> Int],
         NEW s \in names, NEW t \in names, NEW u \in names
  PROVE  /\ ~Outranks(score, s, s)
         /\ s # t => Outranks(score, s, t) \/ Outranks(score, t, s)
         /\ Outranks(score, s, t) /\ Outranks(score, t, u) => Outranks(score, s, u)
<1>1. /\ s \in Nat /\ t \in Nat /\ u \in Nat
      /\ score[s] \in Int /\ score[t] \in Int /\ score[u] \in Int
  OBVIOUS
<1> QED
  BY <1>1 DEF Outranks

Better(names, score, s) == {t \in names : Outranks(score, t, s)}

LEMMA BetterFinite ==
  ASSUME NEW names, IsFiniteSet(names), NEW score, NEW s
  PROVE  /\ IsFiniteSet(Better(names, score, s))
         /\ Cardinality(Better(names, score, s)) \in Nat
         /\ RankOf(names, score, s) = 1 + Cardinality(Better(names, score, s))
<1>1. Better(names, score, s) \in SUBSET names
  BY DEF Better
<1>2. IsFiniteSet(Better(names, score, s))
  BY <1>1, FS_Subset
<1> QED
  BY <1>2, FS_CardinalityType DEF RankOf, Better

LEMMA RankGrows ==
  ASSUME NEW names, IsFiniteSet(names), names \subseteq Nat, NEW score \in [names -> Int],
         NEW s \in names, NEW t \in names, Outranks(score, s, t)
  PROVE  RankOf(names, score, s) < RankOf(names, score, t)
<1> DEFINE S == Better(names, score, s)
           T == Better(names, score, t)
<1>1. \A u \in names : Outranks(score, u, s) => Outranks(score, u, t)
  BY OutranksTotal
<1>2. ~Outranks(score, s, s)
  BY OutranksTotal
<1>3. S \in SUBSET T /\ S # T
  BY <1>1, <1>2 DEF Better
<1>4. IsFiniteSet(T)
  BY BetterFinite
<1>5. Cardinality(S) <= Cardinality(T) /\ Cardinality(S) # Cardinality(T)
  BY <1>3, <1>4, FS_Subset
<1>6. Cardinality(S) \in Nat /\ Cardinality(T) \in Nat
  BY BetterFinite
<1>7. RankOf(names, score, s) = 1 + Cardinality(S) /\ RankOf(names, score, t) = 1 + Cardinality(T)
  BY BetterFinite
<1> HIDE DEF S, T
<1> QED
  BY <1>5, <1>6, <1>7

LEMMA RankInRange ==
  ASSUME NEW names, IsFiniteSet(names), names \subseteq Nat, NEW score \in [names -> Int],
         NEW s \in names
  PROVE  RankOf(names, score, s) \in 1..Cardinality(names)
<1> DEFINE S == Better(names, score, s)
<1>1. S \in SUBSET (names \ {s})
  BY OutranksTotal DEF Better
<1>2. IsFiniteSet(names \ {s}) /\ Cardinality(names \ {s}) = Cardinality(names) - 1
  BY FS_RemoveElement
<1>3. Cardinality(S) <= Cardinality(names \ {s})
  BY <1>1, <1>2, FS_Subset
<1>4. Cardinality(S) \in Nat /\ Cardinality(names) \in Nat
  BY BetterFinite, FS_CardinalityType
<1>5. RankOf(names, score, s) = 1 + Cardinality(S)
  BY BetterFinite
<1> HIDE DEF S
<1> QED
  BY <1>2, <1>3, <1>4, <1>5

LEMMA RankTaken ==
  ASSUME NEW names, IsFiniteSet(names), names \subseteq Nat, NEW score \in [names -> Int],
         NEW r \in 1..Cardinality(names)
  PROVE  \E s \in names : RankOf(names, score, s) = r
<1> SUFFICES ASSUME \A s \in names : RankOf(names, score, s) # r
             PROVE  FALSE
  OBVIOUS
<1> DEFINE n == Cardinality(names)
           others == (1..n) \ {r}
           rank == [s \in names |-> RankOf(names, score, s)]
<1>1. n \in Nat
  BY FS_CardinalityType
<1>2. IsFiniteSet(1..n) /\ Cardinality(1..n) = n
  BY <1>1, FS_Interval
<1>3. IsFiniteSet(others) /\ Cardinality(others) = n - 1
  BY <1>2, FS_RemoveElement
<1>4. Cardinality(others) < Cardinality(names)
  BY <1>1, <1>3
<1>5. rank \in [names -> others]
  BY RankInRange
<1>6. PICK s, t \in names : s # t /\ rank[s] = rank[t]
  <2> HIDE DEF others, rank
  <2> QED
    BY <1>3, <1>4, <1>5, FS_PigeonHole
<1>7. RankOf(names, score, s) < RankOf(names, score, t) \/ RankOf(names, score, t) < RankOf(names, score, s)
  BY <1>6, OutranksTotal, RankGrows
<1>8. RankOf(names, score, s) = RankOf(names, score, t)
  BY <1>6
<1>9. RankOf(names, score, s) \in 1..n /\ RankOf(names, score, t) \in 1..n
  BY RankInRange
<1> HIDE DEF n
<1> QED
  BY <1>7, <1>8, <1>9

\* The suspects are the services, each once, in the order of their scores and of
\* their names where scores are equal (scoring.rs:154-160), whatever the scores:
\* the rank a service gets does not depend on the order the hash map yields.
THEOREM RankingSound ==
  ASSUME NEW names, IsFiniteSet(names), names \subseteq Nat, NEW score \in [names -> Int]
  PROVE  /\ Sorted(names, score) \in [1..Cardinality(names) -> names]
         /\ \A s \in names : Sorted(names, score)[RankOf(names, score, s)] = s
         /\ \A i, j \in 1..Cardinality(names) :
              i < j => Outranks(score, Sorted(names, score)[i], Sorted(names, score)[j])
<1> DEFINE n == Cardinality(names)
           Of(r) == CHOOSE s \in names : RankOf(names, score, s) = r
           rank(s) == RankOf(names, score, s)
<1>1. Sorted(names, score) = [r \in 1..n |-> Of(r)]
  BY DEF Sorted
<1>2. \A r \in 1..n : Of(r) \in names /\ rank(Of(r)) = r
  BY RankTaken
<1>3. \A s \in names : rank(s) \in 1..n
  BY RankInRange
<1>4. \A s, t \in names : Outranks(score, s, t) => rank(s) < rank(t)
  BY RankGrows
<1>5. \A s, t \in names : s # t => Outranks(score, s, t) \/ Outranks(score, t, s)
  BY OutranksTotal
<1>6. n \in Nat
  BY FS_CardinalityType
<1> HIDE DEF n, Of, rank
<1>7. \A s, t \in names : rank(s) = rank(t) => s = t
  BY <1>3, <1>4, <1>5, <1>6
<1>8. \A s \in names : Of(rank(s)) = s
  BY <1>2, <1>3, <1>7
<1>9. ASSUME NEW i \in 1..n, NEW j \in 1..n, i < j
      PROVE  Outranks(score, Of(i), Of(j))
  <2>0. i \in Int /\ j \in Int /\ i # j /\ ~(j < i)
    BY <1>6, <1>9
  <2>1. rank(Of(i)) = i /\ rank(Of(j)) = j /\ Of(i) \in names /\ Of(j) \in names
    BY <1>2
  <2>2. Of(i) # Of(j)
    BY <2>0, <2>1
  <2>3. ~Outranks(score, Of(j), Of(i))
    BY <2>0, <2>1, <1>4
  <2> QED
    BY <2>1, <2>2, <2>3, <1>5
<1> QED
  BY <1>1, <1>2, <1>3, <1>8, <1>9 DEF n, rank

-----------------------------------------------------------------------------
(* The detector.  Of n values the k-th smallest exists, and flagging a point *)
(* takes a deviation greater than the (n / 2 + 1)-th smallest.             *)

Least(vals, x) == {j \in DOMAIN vals : vals[j] <= x}
Less(vals, x)  == {j \in DOMAIN vals : vals[j] < x}

LEMMA PositionsFinite ==
  ASSUME NEW vals \in Seq(Int)
  PROVE  /\ Len(vals) \in Nat /\ DOMAIN vals = 1..Len(vals)
         /\ \A i \in DOMAIN vals : vals[i] \in Int
         /\ IsFiniteSet(DOMAIN vals) /\ Cardinality(DOMAIN vals) = Len(vals)
         /\ \A S \in SUBSET DOMAIN vals : IsFiniteSet(S) /\ Cardinality(S) \in Nat /\ Cardinality(S) <= Len(vals)
<1>1. Len(vals) \in Nat /\ DOMAIN vals = 1..Len(vals) /\ \A i \in DOMAIN vals : vals[i] \in Int
  OBVIOUS
<1>2. IsFiniteSet(1..Len(vals)) /\ Cardinality(1..Len(vals)) = Len(vals)
  BY <1>1, FS_Interval
<1>3. \A S \in SUBSET (1..Len(vals)) : IsFiniteSet(S) /\ Cardinality(S) <= Len(vals)
  BY <1>2, FS_Subset
<1>4. \A S \in SUBSET (1..Len(vals)) : Cardinality(S) \in Nat
  BY <1>3, FS_CardinalityType
<1> QED BY <1>1, <1>2, <1>3, <1>4

LEMMA SmallestExists ==
  ASSUME NEW vals \in Seq(Int), NEW k \in 1..Len(vals)
  PROVE  \E i \in DOMAIN vals : /\ Smallest(vals, k) = vals[i]
                                /\ Cardinality(Less(vals, vals[i])) < k
                                /\ k <= Cardinality(Least(vals, vals[i]))
<1> DEFINE D == DOMAIN vals
           High == {i \in D : k <= Cardinality(Least(vals, vals[i]))}
<1>1. /\ Len(vals) \in Nat /\ D = 1..Len(vals) /\ IsFiniteSet(D) /\ Cardinality(D) = Len(vals)
      /\ \A i \in D : vals[i] \in Int
      /\ \A S \in SUBSET D : IsFiniteSet(S) /\ Cardinality(S) \in Nat
  BY PositionsFinite
<1>2. High # {}
  <2>1. PICK m \in D : \A i \in D : vals[i] <= vals[m]
    <3>1. D # {}
      BY <1>1
    <3> HIDE DEF D
    <3> QED BY <1>1, <3>1, GreatestValue
  <2>2. Least(vals, vals[m]) = D
    BY <2>1 DEF Least
  <2> QED BY <1>1, <2>1, <2>2
<1>3. PICK i \in High : \A j \in High : vals[i] <= vals[j]
  <2>1. IsFiniteSet(High) /\ \A x \in High : vals[x] \in Int
    BY <1>1
  <2> HIDE DEF High
  <2> QED BY <1>2, <2>1, LeastValue
<1>4. Cardinality(Less(vals, vals[i])) < k
  <2>1. SUFFICES ASSUME k <= Cardinality(Less(vals, vals[i])) PROVE FALSE
    BY <1>1 DEF Less
  <2>2. Less(vals, vals[i]) # {}
    BY <1>1, <2>1, FS_EmptySet
  <2>3. PICK m \in Less(vals, vals[i]) : \A j \in Less(vals, vals[i]) : vals[j] <= vals[m]
    <3>1. IsFiniteSet(Less(vals, vals[i])) /\ \A x \in Less(vals, vals[i]) : vals[x] \in Int
      BY <1>1 DEF Less
    <3> QED BY <2>2, <3>1, GreatestValue
  <2>4. vals[m] < vals[i] /\ m \in D
    BY <2>3 DEF Less
  <2>5. Less(vals, vals[i]) \subseteq Least(vals, vals[m])
    BY <2>3 DEF Less, Least
  <2>6. Cardinality(Less(vals, vals[i])) <= Cardinality(Least(vals, vals[m]))
    BY <1>1, <2>5, FS_Subset DEF Least
  <2>7. m \in High
    BY <1>1, <2>1, <2>4, <2>6 DEF Less, Least
  <2> QED BY <1>1, <1>3, <2>4, <2>7
<1>5. \E x \in D : Cardinality(Less(vals, vals[x])) < k /\ k <= Cardinality(Least(vals, vals[x]))
  BY <1>3, <1>4
<1> QED BY <1>5 DEF Smallest, Less, Least

LEMMA SmallestType == ASSUME NEW vals \in Seq(Int), NEW k \in 1..Len(vals) PROVE Smallest(vals, k) \in Int
  BY SmallestExists, PositionsFinite

LEMMA MedianType ==
  ASSUME NEW vals \in Seq(Int), Len(vals) > 0
  PROVE  /\ Len(vals) \div 2 \in 0..(Len(vals) - 1)
         /\ Len(vals) % 2 = 0 => Len(vals) \div 2 \in 1..(Len(vals) - 1) /\ Len(vals) = 2 * (Len(vals) \div 2)
         /\ Len(vals) % 2 = 1 => Len(vals) = 2 * (Len(vals) \div 2) + 1
         /\ Len(vals) % 2 \in {0, 1}
         /\ Median2(vals) \in Int
<1>1. Len(vals) \in Nat
  OBVIOUS
<1>2. /\ Len(vals) \div 2 \in 0..(Len(vals) - 1)
      /\ Len(vals) % 2 = 0 => Len(vals) \div 2 \in 1..(Len(vals) - 1) /\ Len(vals) = 2 * (Len(vals) \div 2)
      /\ Len(vals) % 2 = 1 => Len(vals) = 2 * (Len(vals) \div 2) + 1
      /\ Len(vals) % 2 \in {0, 1}
  BY <1>1
<1>3. Len(vals) \div 2 + 1 \in 1..Len(vals) /\ (Len(vals) % 2 = 0 => Len(vals) \div 2 \in 1..Len(vals))
  BY <1>1, <1>2
<1>4. Median2(vals) \in Int
  BY <1>2, <1>3, SmallestType DEF Median2
<1> QED BY <1>2, <1>4

LEMMA DeviationType ==
  ASSUME NEW vals \in Seq(Int), Len(vals) > 0
  PROVE  /\ Deviation2(vals) \in Seq(Int)
         /\ Len(Deviation2(vals)) = Len(vals)
         /\ DOMAIN Deviation2(vals) = DOMAIN vals
         /\ \A i \in DOMAIN vals : /\ Deviation2(vals)[i] = Abs(2 * vals[i] - Median2(vals))
                                   /\ Deviation2(vals)[i] \in Nat
<1>1. Median2(vals) \in Int /\ Len(vals) \in Nat /\ DOMAIN vals = 1..Len(vals)
      /\ \A i \in DOMAIN vals : vals[i] \in Int
  BY MedianType, PositionsFinite
<1>2. \A i \in DOMAIN vals : Abs(2 * vals[i] - Median2(vals)) \in Nat
  BY <1>1 DEF Abs
<1>3. Deviation2(vals) = [i \in 1..Len(vals) |-> Abs(2 * vals[i] - Median2(vals))]
  BY <1>1 DEF Deviation2
<1>4. \A i \in 1..Len(vals) : Abs(2 * vals[i] - Median2(vals)) \in Int
  BY <1>1 DEF Abs
<1>5. Deviation2(vals) \in Seq(Int) /\ Len(Deviation2(vals)) = Len(vals)
  <2>1. Deviation2(vals) \in [1..Len(vals) -> Int]
    BY <1>3, <1>4
  <2> QED BY <1>1, <2>1
<1> QED BY <1>1, <1>2, <1>3, <1>5

\* the MAD is at least half the deviation in the middle of them
LEMMA MadType ==
  ASSUME NEW vals \in Seq(Int), Len(vals) > 0
  PROVE  LET middle == Smallest(Deviation2(vals), Len(vals) \div 2 + 1)
         IN middle \in Nat /\ Mad4(vals) \in Nat /\ middle <= Mad4(vals)
<1> DEFINE d == Deviation2(vals)
           n == Len(vals)
<1>1. d \in Seq(Int) /\ Len(d) = n /\ DOMAIN d = DOMAIN vals /\ \A i \in DOMAIN d : d[i] \in Nat
  BY DeviationType
<1>2. n \in Nat /\ n > 0
  OBVIOUS
<1>3. \A k \in 1..n : Smallest(d, k) \in Nat
  <2> HIDE DEF d, n
  <2> QED BY <1>1, SmallestExists
<1>4. /\ n \div 2 \in 0..(n - 1) /\ n % 2 \in {0, 1}
      /\ n % 2 = 0 => n \div 2 \in 1..(n - 1)
  BY MedianType
<1>5. n \div 2 + 1 \in 1..n /\ (n % 2 = 0 => n \div 2 \in 1..n)
  BY <1>2, <1>4
<1>6. Mad4(vals) = IF n % 2 = 1 THEN 2 * Smallest(d, n \div 2 + 1)
                               ELSE Smallest(d, n \div 2) + Smallest(d, n \div 2 + 1)
  BY <1>1 DEF Mad4, Median2
<1> HIDE DEF d, n
<1>7. Smallest(d, n \div 2 + 1) \in Nat /\ (n % 2 = 0 => Smallest(d, n \div 2) \in Nat)
  BY <1>3, <1>5
<1>8. Mad4(vals) \in Nat /\ Smallest(d, n \div 2 + 1) <= Mad4(vals)
  BY <1>4, <1>6, <1>7
<1> QED BY <1>7, <1>8 DEF d, n

LEMMA FlaggedFar ==
  ASSUME K >= 2, NEW vals \in Seq(Int), Len(vals) > 0, NEW i \in DOMAIN vals, Flagged(vals, i)
  PROVE  Deviation2(vals)[i] > Smallest(Deviation2(vals), Len(vals) \div 2 + 1)
<1> DEFINE middle == Smallest(Deviation2(vals), Len(vals) \div 2 + 1)
           d == Deviation2(vals)[i]
           mad == Mad4(vals)
<1>1. middle \in Nat /\ mad \in Nat /\ middle <= mad /\ d \in Nat
  BY MadType, DeviationType
<1>2. K \in Nat /\ K >= 2
  BY DetectorAssumption
<1>3. IF mad > 0 THEN 13490 * d > 10000 * K * mad ELSE d > 0
  BY DEF Flagged
<1> HIDE DEF middle, d, mad
<1>4. \A k, x \in Nat : k >= 2 => 10000 * k * x >= 20000 * x
  <2> TAKE k, x \in Nat
  <2> HAVE k >= 2
  <2>1. PICK r \in Nat : k = 2 + r
    <3>1. k - 2 \in Nat /\ k = 2 + (k - 2)
      OBVIOUS
    <3> QED BY <3>1
  <2>2. r * x \in Nat
    OBVIOUS
  <2>3. 10000 * k * x = 20000 * x + 10000 * (r * x)
    BY <2>1
  <2> QED BY <2>2, <2>3
<1>5. mad > 0 => d > mad
  <2>1. 10000 * K * mad >= 20000 * mad
    BY <1>1, <1>2, <1>4
  <2>2. 10000 * K * mad \in Nat
    BY <1>1, <1>2
  <2> QED BY <1>1, <1>3, <2>1, <2>2
<1>6. d > middle
  BY <1>1, <1>3, <1>5
<1> QED BY <1>6 DEF middle, d

LEMMA HitsAreFew ==
  ASSUME K >= 2, NEW vals \in Seq(Int)
  PROVE  /\ IsFiniteSet(Hits(vals)) /\ Hits(vals) \subseteq DOMAIN vals
         /\ Hits(vals) # {} => 2 * Cardinality(Hits(vals)) < Len(vals)
<1> DEFINE n == Len(vals)
           d == Deviation2(vals)
           m == n \div 2 + 1
<1>1. Hits(vals) \subseteq DOMAIN vals
  BY DEF Hits
<1>2. IsFiniteSet(Hits(vals)) /\ Cardinality(Hits(vals)) \in Nat
  BY <1>1, PositionsFinite
<1>3. ASSUME Hits(vals) # {} PROVE 2 * Cardinality(Hits(vals)) < n
  <2>1. n \in Nat /\ n > 0 /\ DOMAIN vals = 1..n
    BY <1>1, <1>3, PositionsFinite
  <2>2. d \in Seq(Int) /\ Len(d) = n /\ DOMAIN d = DOMAIN vals /\ \A i \in DOMAIN d : d[i] \in Nat
    BY <2>1, DeviationType
  <2>3. m \in 1..n /\ (n = 2 * (m - 1) \/ n = 2 * (m - 1) + 1)
    <3>1. n \div 2 \in 0..(n - 1) /\ n % 2 \in {0, 1}
          /\ (n % 2 = 0 => n = 2 * (n \div 2)) /\ (n % 2 = 1 => n = 2 * (n \div 2) + 1)
      BY <2>1, MedianType
    <3> HIDE DEF n
    <3> QED BY <2>1, <3>1
  <2>4. PICK i \in DOMAIN d : Smallest(d, m) = d[i] /\ m <= Cardinality(Least(d, d[i]))
    <3> HIDE DEF d, m
    <3> QED BY <2>2, <2>3, SmallestExists
  <2> DEFINE low == Least(d, d[i])
  <2>5. low \subseteq DOMAIN vals
    BY <2>2 DEF Least
  <2>6. \A j \in Hits(vals) : d[j] > d[i]
    BY <1>1, <2>1, <2>4, FlaggedFar DEF Hits
  <2>7. Hits(vals) \subseteq DOMAIN vals \ low
    <3> HIDE DEF d
    <3>1. \A j \in Hits(vals) : j \notin Least(d, d[i])
      BY <1>1, <2>2, <2>4, <2>6 DEF Least
    <3> QED BY <1>1, <3>1
  <2> HIDE DEF low, d, m
  <2>8. /\ IsFiniteSet(DOMAIN vals) /\ Cardinality(DOMAIN vals) = n
        /\ Cardinality(low) \in Nat /\ IsFiniteSet(low)
    BY <2>5, PositionsFinite
  <2>9. IsFiniteSet(DOMAIN vals \ low) /\ Cardinality(DOMAIN vals \ low) = n - Cardinality(low)
    <3> DEFINE D == DOMAIN vals
    <3>1. IsFiniteSet(D) /\ Cardinality(D) = n /\ D \cap low = low
      BY <2>5, <2>8
    <3> HIDE DEF D, n
    <3>2. IsFiniteSet(D \ low) /\ Cardinality(D \ low) = Cardinality(D) - Cardinality(D \cap low)
      BY <3>1, FS_Difference, Zenon
    <3>3. IsFiniteSet(D \ low) /\ Cardinality(D \ low) = n - Cardinality(low)
      BY <3>1, <3>2, Zenon
    <3> QED BY <3>3 DEF D
  <2>10. Cardinality(Hits(vals)) <= n - Cardinality(low)
    BY <2>7, <2>9, FS_Subset
  <2>11. m <= Cardinality(low)
    BY <2>4 DEF low
  <2>12. \A x, y, z, a \in Int : x <= a - y /\ z <= y /\ (a = 2 * (z - 1) \/ a = 2 * (z - 1) + 1)
                                   => 2 * x < a
    OBVIOUS
  <2> HIDE DEF n
  <2>13. m \in Int /\ n \in Int
    BY <2>1, <2>3
  <2> QED BY <1>2, <2>3, <2>8, <2>10, <2>11, <2>12, <2>13
<1> QED BY <1>1, <1>2, <1>3

\* when all values but one are the same, so are the middle ones
LEMMA SmallestOfSame ==
  ASSUME NEW vals \in Seq(Int), NEW k \in 2..(Len(vals) - 1), NEW i \in DOMAIN vals,
         NEW c \in Int, \A j \in DOMAIN vals \ {i} : vals[j] = c
  PROVE  Smallest(vals, k) = c
<1>0. Len(vals) \in Nat /\ k \in 1..Len(vals) /\ k \in Nat
  OBVIOUS
<1>1. PICK m \in DOMAIN vals : /\ Smallest(vals, k) = vals[m]
                               /\ Cardinality(Less(vals, vals[m])) < k
                               /\ k <= Cardinality(Least(vals, vals[m]))
  BY <1>0, SmallestExists
<1>2. SUFFICES ASSUME vals[m] # c PROVE FALSE
  BY <1>1
<1>3. m = i
  BY <1>2
<1>4. /\ vals[i] \in Int /\ IsFiniteSet(DOMAIN vals) /\ Cardinality(DOMAIN vals) = Len(vals)
      /\ IsFiniteSet(DOMAIN vals \ {i}) /\ IsFiniteSet({i})
  BY PositionsFinite
<1>5. Cardinality(DOMAIN vals \ {i}) = Len(vals) - 1 /\ Cardinality({i}) = 1
  <2> DEFINE D == DOMAIN vals
  <2>1. IsFiniteSet(D) /\ i \in D /\ Cardinality(D) = Len(vals)
    BY <1>4
  <2> HIDE DEF D
  <2>2. Cardinality(D \ {i}) = Cardinality(D) - 1
    BY <2>1, FS_RemoveElement
  <2>3. Cardinality({i}) = 1
    BY FS_Singleton, Zenon
  <2> QED BY <2>1, <2>2, <2>3 DEF D
<1>6. CASE vals[i] < c
  <2>1. Least(vals, vals[m]) \subseteq {i}
    BY <1>3, <1>4, <1>6 DEF Least
  <2>2. Cardinality(Least(vals, vals[m])) <= 1
    BY <1>4, <1>5, <2>1, FS_Subset
  <2>3. Cardinality(Least(vals, vals[m])) \in Nat
    BY PositionsFinite DEF Least
  <2> QED BY <1>0, <1>1, <2>2, <2>3
<1>7. CASE c < vals[i]
  <2>1. DOMAIN vals \ {i} \subseteq Less(vals, vals[m])
    BY <1>3, <1>7 DEF Less
  <2>2. IsFiniteSet(Less(vals, vals[m])) /\ Cardinality(Less(vals, vals[m])) \in Nat
    BY PositionsFinite DEF Less
  <2>3. Len(vals) - 1 <= Cardinality(Less(vals, vals[m]))
    BY <1>5, <2>1, <2>2, FS_Subset
  <2> QED BY <1>0, <1>1, <2>2, <2>3
<1> QED BY <1>2, <1>3, <1>4, <1>6, <1>7

LEMMA MedianOfSame ==
  ASSUME NEW vals \in Seq(Int), Len(vals) > 2, NEW i \in DOMAIN vals,
         NEW c \in Int, \A j \in DOMAIN vals \ {i} : vals[j] = c
  PROVE  Median2(vals) = 2 * c
<1> DEFINE n == Len(vals)
<1>1. n \in Nat /\ n > 2
  OBVIOUS
<1>2. n \div 2 + 1 \in 2..(n - 1) /\ n % 2 \in {0, 1} /\ (n % 2 = 0 => n \div 2 \in 2..(n - 1))
  BY <1>1
<1>3. Smallest(vals, n \div 2 + 1) = c /\ (n % 2 = 0 => Smallest(vals, n \div 2) = c)
  BY <1>2, SmallestOfSame
<1> QED BY <1>2, <1>3 DEF Median2

LEMMA OutlierFlagged ==
  ASSUME NEW vals \in Seq(Int), Len(vals) > MinBaseline, Len(vals) > 2, NEW i \in DOMAIN vals,
         \A j, k \in DOMAIN vals \ {i} : vals[j] = vals[k] /\ vals[i] # vals[j]
  PROVE  Hits(vals) = {i}
<1>1. Len(vals) \in Nat /\ DOMAIN vals = 1..Len(vals) /\ \A j \in DOMAIN vals : vals[j] \in Int
  BY PositionsFinite
<1>2. PICK o \in DOMAIN vals \ {i} : TRUE
  <2>1. 1 \in DOMAIN vals /\ 2 \in DOMAIN vals
    BY <1>1
  <2> QED BY <2>1
<1> DEFINE c == vals[o]
           d == Deviation2(vals)
<1>3. c \in Int /\ vals[i] \in Int /\ vals[i] # c /\ \A j \in DOMAIN vals \ {i} : vals[j] = c
  BY <1>1, <1>2
<1>4. Median2(vals) = 2 * c
  <2> HIDE DEF c
  <2> QED BY <1>3, MedianOfSame
<1>5. d \in Seq(Int) /\ Len(d) = Len(vals) /\ DOMAIN d = DOMAIN vals
      /\ \A j \in DOMAIN vals : d[j] = Abs(2 * vals[j] - 2 * c)
  BY <1>1, <1>4, DeviationType
<1> HIDE DEF c, d
<1>6. d[i] > 0
  <2>1. \A x, y \in Int : x # y => Abs(2 * x - 2 * y) > 0
    BY DEF Abs
  <2> QED BY <1>3, <1>5, <2>1
<1>7. \A j \in DOMAIN d \ {i} : d[j] = 0
  BY <1>3, <1>5 DEF Abs
<1>8. Median2(d) = 0
  <2>1. d \in Seq(Int) /\ Len(d) > 2 /\ i \in DOMAIN d /\ 0 \in Int
    BY <1>5
  <2>2. Median2(d) = 2 * 0
    BY <1>7, <2>1, MedianOfSame, ZenonT(40)
  <2> QED BY <2>2
<1>9. Mad4(vals) = 0
  BY <1>8 DEF Mad4, d
<1>10. \A j \in DOMAIN vals : Flagged(vals, j) <=> j = i
  <2>1. \A j \in DOMAIN vals : Flagged(vals, j) <=> d[j] > 0
    BY <1>9 DEF Flagged, d
  <2> QED BY <1>5, <1>6, <1>7, <2>1
<1>11. ~(Len(vals) < MinBaseline + 1)
  BY <1>1, DetectorAssumption
<1> QED BY <1>10, <1>11 DEF Hits

-----------------------------------------------------------------------------
(* What Prometheus answers, flattened, and the samples of one service.     *)

Point == [service : Service, at : Nat, value : Int]

Joins(f, seqs, n) == f = [i \in 1..n |-> IF i = 1 THEN seqs[i] ELSE f[i - 1] \o seqs[i]]

LEMMA JoinsExists ==
  ASSUME NEW seqs, NEW n \in Nat
  PROVE  \E f : Joins(f, seqs, n)
<1> DEFINE Bad == {m \in Nat : ~ \E f : Joins(f, seqs, m)}
<1>1. SUFFICES ASSUME Bad # {} PROVE FALSE
  OBVIOUS
<1> DEFINE m == Min(Bad)
<1>2. m \in Bad /\ \A k \in Bad : m <= k
  <2>1. Bad \in SUBSET Nat
    OBVIOUS
  <2> HIDE DEF Bad
  <2> QED BY <1>1, <2>1, NatMinimal
<1>3. m \in Nat /\ ~ \E f : Joins(f, seqs, m)
  BY <1>2
<1>4. \A k \in Nat : k < m => \E f : Joins(f, seqs, k)
  BY <1>2, <1>3
<1> HIDE DEF Bad, m
<1>5. CASE m = 0
  <2>1. Joins([i \in 1..m |-> {}], seqs, m)
    BY <1>5 DEF Joins
  <2> QED BY <1>3, <2>1
<1>6. CASE m > 0
  <2>1. PICK g : Joins(g, seqs, m - 1)
    BY <1>3, <1>4, <1>6
  <2> DEFINE h == [i \in 1..m |-> IF i = 1 THEN seqs[i] ELSE g[i - 1] \o seqs[i]]
  <2>2. \A i \in 1..(m - 1) : g[i] = IF i = 1 THEN seqs[i] ELSE g[i - 1] \o seqs[i]
    BY <2>1, Zenon DEF Joins
  <2>3. \A i \in 1..m : i # 1 => i - 1 \in 1..(m - 1) /\ i - 1 \in 1..m
    BY <1>3
  <2>4. \A i \in 1..m : i # 1 => h[i - 1] = g[i - 1]
    BY <2>2, <2>3
  <2>5. Joins(h, seqs, m)
    BY <2>4 DEF Joins
  <2> QED BY <1>3, <2>5
<1> QED BY <1>3, <1>5, <1>6

LEMMA FlattenType ==
  ASSUME NEW T, NEW seqs \in Seq(Seq(T))
  PROVE  Sequence!FlattenSeq(seqs) \in Seq(T)
<1>1. CASE Len(seqs) = 0
  BY <1>1 DEF Sequence!FlattenSeq
<1>2. CASE Len(seqs) # 0
  <2> DEFINE n == Len(seqs)
             f == CHOOSE g : Joins(g, seqs, n)
             Bad == {m \in 1..n : f[m] \notin Seq(T)}
  <2>1. n \in Nat /\ n > 0
    BY <1>2
  <2>2. \A i \in 1..n : seqs[i] \in Seq(T)
    OBVIOUS
  <2>3. Joins(f, seqs, n)
    <3> HIDE DEF n
    <3> QED BY <2>1, JoinsExists
  <2>4. Sequence!FlattenSeq(seqs) = f[n]
    BY <1>2 DEF Sequence!FlattenSeq, Joins
  <2> HIDE DEF f, n
  <2>5. \A i \in 1..n : f[i] = IF i = 1 THEN seqs[i] ELSE f[i - 1] \o seqs[i]
    BY <2>3, Zenon DEF Joins
  <2>6. Bad = {}
    <3>1. SUFFICES ASSUME Bad # {} PROVE FALSE
      OBVIOUS
    <3> DEFINE m == Min(Bad)
    <3>2. m \in Bad /\ \A k \in Bad : m <= k
      <4>1. Bad \in SUBSET Nat
        BY <2>1
      <4> HIDE DEF Bad
      <4> QED BY <3>1, <4>1, NatMinimal
    <3>3. m \in 1..n /\ f[m] \notin Seq(T)
      BY <3>2
    <3>4. \A k \in 1..n : k < m => f[k] \in Seq(T)
      BY <2>1, <3>2, <3>3
    <3> HIDE DEF Bad, m
    <3>5. m # 1
      BY <2>2, <2>5, <3>3
    <3>6. m - 1 \in 1..n /\ m - 1 < m
      BY <2>1, <3>3, <3>5
    <3>7. f[m - 1] \in Seq(T) /\ seqs[m] \in Seq(T) /\ f[m] = f[m - 1] \o seqs[m]
      BY <2>2, <2>5, <3>3, <3>4, <3>5, <3>6
    <3> QED BY <3>3, <3>7
  <2>7. n \in 1..n
    BY <2>1
  <2> QED BY <2>4, <2>6, <2>7
<1> QED BY <1>1, <1>2

LEMMA PointsType ==
  ASSUME NEW series \in Series
  PROVE  Points(series) \in Seq(Point)
<1>1. series \in Seq(MetricSeries)
  BY EngineAssumption
<1> DEFINE all == [k \in DOMAIN series |-> Samples(series[k])]
<1>2. \A s \in MetricSeries : Samples(s) \in Seq(Point)
  <2> TAKE s \in MetricSeries
  <2>1. s.service \in Service /\ s.values \in Seq(Int)
    BY DEF MetricSeries
  <2>2. Len(s.values) \in Nat /\ DOMAIN s.values = 1..Len(s.values)
        /\ \A i \in DOMAIN s.values : s.values[i] \in Int
    BY <2>1
  <2>3. \A i \in 1..Len(s.values) : [service |-> s.service, at |-> i, value |-> s.values[i]] \in Point
    BY <2>1, <2>2 DEF Point
  <2>4. Samples(s) \in [1..Len(s.values) -> Point]
    BY <2>2, <2>3 DEF Samples
  <2> QED BY <2>2, <2>4
<1>3. Len(series) \in Nat /\ DOMAIN series = 1..Len(series) /\ \A k \in DOMAIN series : series[k] \in MetricSeries
  BY <1>1
<1>4. all \in [1..Len(series) -> Seq(Point)]
  BY <1>2, <1>3
<1>5. all \in Seq(Seq(Point))
  <2> HIDE DEF all
  <2> QED BY <1>3, <1>4
<1> HIDE DEF all
<1>6. Sequence!FlattenSeq(all) \in Seq(Point)
  BY <1>5, FlattenType
<1> QED BY <1>6 DEF Points, all

LEMMA NthExists ==
  ASSUME NEW S, IsFiniteSet(S), S \subseteq Nat, NEW k \in 1..Cardinality(S)
  PROVE  \E i \in S : Cardinality({j \in S : j <= i}) = k
<1> DEFINE flat == [i \in S |-> 0]
<1>1. PICK i \in S : RankOf(S, flat, i) = k
  <2>1. flat \in [S -> Int]
    OBVIOUS
  <2> HIDE DEF flat
  <2> QED BY <2>1, RankTaken
<1> DEFINE below == {j \in S : j < i}
<1>2. below = {j \in S : Outranks(flat, j, i)}
  BY DEF Outranks
<1>3. RankOf(S, flat, i) = 1 + Cardinality(below)
  BY <1>2 DEF RankOf
<1>4. IsFiniteSet(below) /\ i \notin below
  <2>1. below \subseteq S
    OBVIOUS
  <2>2. i \notin below
    OBVIOUS
  <2> HIDE DEF below
  <2> QED BY <2>1, <2>2, FS_Subset
<1>5. Cardinality(below \cup {i}) = Cardinality(below) + 1 /\ Cardinality(below) \in Nat
  <2> HIDE DEF below
  <2> QED BY <1>4, FS_AddElement, FS_CardinalityType
<1>6. below \cup {i} = {j \in S : j <= i}
  <2>1. \A j \in S : j \in Int /\ (j <= i <=> j < i \/ j = i)
    OBVIOUS
  <2> QED BY <2>1
<1>7. Cardinality({j \in S : j <= i}) = k
  <2> HIDE DEF below, flat
  <2> QED BY <1>1, <1>3, <1>5, <1>6
<1> QED BY <1>7

LEMMA OwnType ==
  ASSUME points \in Seq(Point)
  PROVE  /\ Own \in Seq(Point) /\ Values(Own) \in Seq(Int)
         /\ DOMAIN Values(Own) = DOMAIN Own /\ Len(Values(Own)) = Len(Own)
<1>1. IsFiniteSet(OwnAt) /\ OwnAt \subseteq Nat /\ OwnAt \subseteq DOMAIN points
  <2>1. OwnAt \subseteq 1..Len(points) /\ Len(points) \in Nat /\ DOMAIN points = 1..Len(points)
    BY DEF OwnAt
  <2>2. IsFiniteSet(1..Len(points))
    BY <2>1, FS_Interval
  <2>3. IsFiniteSet(OwnAt)
    BY <2>1, <2>2, FS_Subset
  <2> QED BY <2>1, <2>3
<1>2. Cardinality(OwnAt) \in Nat
  BY <1>1, FS_CardinalityType
<1> DEFINE at(k) == CHOOSE i \in OwnAt : Cardinality({j \in OwnAt : j <= i}) = k
<1>3. \A k \in 1..Cardinality(OwnAt) : at(k) \in OwnAt
  BY <1>1, NthExists
<1>4. \A k \in 1..Cardinality(OwnAt) : points[at(k)] \in Point
  <2> HIDE DEF at
  <2>1. \A i \in OwnAt : points[i] \in Point
    BY <1>1
  <2> QED BY <1>3, <2>1
<1>5. Own \in [1..Cardinality(OwnAt) -> Point]
  BY <1>4 DEF Own
<1>6. Own \in Seq(Point) /\ DOMAIN Own = 1..Len(Own) /\ Len(Own) \in Nat
  BY <1>2, <1>5
<1>7. \A i \in 1..Len(Own) : Own[i].value \in Int
  <2>1. \A i \in 1..Len(Own) : Own[i] \in Point
    BY <1>6
  <2> QED BY <2>1 DEF Point
<1>8. Values(Own) \in [1..Len(Own) -> Int]
  BY <1>6, <1>7 DEF Values
<1> QED BY <1>6, <1>8

(* The points are samples, and a request for an anomaly asks Prometheus only. *)
DetectInv ==
  /\ points \in Seq(Point)
  /\ pc \in {"tempo", "loki", "rank"} => request.kind = "trace"

LEMMA InitDetect == Init => DetectInv
<1> SUFFICES ASSUME Init PROVE DetectInv
  OBVIOUS
<1>1. points = <<>> /\ pc = IF request.kind = "trace" THEN "tempo" ELSE "prom"
  BY DEF Init
<1>2. <<>> \in Seq(Point)
  OBVIOUS
<1> QED BY <1>1, <1>2 DEF DetectInv

LEMMA StepDetect == DetectInv /\ [Next]_vars => DetectInv'
<1> SUFFICES ASSUME DetectInv, [Next]_vars
             PROVE  DetectInv'
  OBVIOUS
<1> USE DEF DetectInv, Reset
<1>1. ASSUME NEW f \in Failure, Retry(f) PROVE DetectInv'
  BY <1>1 DEF Retry
<1>2. ASSUME NEW t \in Traces, TempoAnswers(t) PROVE DetectInv'
  BY <1>2 DEF TempoAnswers
<1>3. CASE TempoMalformed
  BY <1>3 DEF TempoMalformed
<1>4. ASSUME NEW f \in Failure, TempoGivesUp(f) PROVE DetectInv'
  <2>1. pc' = "done" /\ points' = points
    BY <1>4 DEF TempoGivesUp
  <2> QED BY <2>1
<1>5. ASSUME NEW l \in LogSets, LokiAnswers(l) PROVE DetectInv'
  BY <1>5 DEF LokiAnswers
<1>6. CASE LokiLost
  BY <1>6 DEF LokiLost
<1>7. CASE Rank
  BY <1>7 DEF Rank
<1>8. CASE Overflow
  BY <1>8 DEF Overflow
<1>9. ASSUME NEW s \in Series, PromAnswers(s) PROVE DetectInv'
  <2>1. points' = Points(s) /\ pc' = "detect"
    BY <1>9 DEF PromAnswers
  <2> QED BY <2>1, PointsType
<1>10. CASE PromLost
  <2>1. points' = <<>> /\ pc' = "detect"
    BY <1>10 DEF PromLost
  <2>2. <<>> \in Seq(Point)
    OBVIOUS
  <2> QED BY <2>1, <2>2
<1>11. CASE Detect
  BY <1>11 DEF Detect
<1>12. CASE UNCHANGED vars
  BY <1>12 DEF vars
<1> QED
  BY <1>1, <1>2, <1>3, <1>4, <1>5, <1>6, <1>7, <1>8, <1>9, <1>10, <1>11, <1>12
  DEF Next, Call, Done

\* Fewer than half of the points are ever flagged, and a lone outlier is, for
\* windows of any length and any threshold of at least two (zscore.rs:22-52).
\* The default is three (config.rs:24); with a smaller one than two a steady
\* state may be flagged.
THEOREM FewFlagged == K >= 2 => (Spec => []FlaggedAreFew)
<1> SUFFICES ASSUME K >= 2 PROVE Spec => []FlaggedAreFew
  OBVIOUS
<1>1. DetectInv => FlaggedAreFew
  <2> SUFFICES ASSUME DetectInv PROVE FlaggedAreFew
    OBVIOUS
  <2> DEFINE vals == Values(Own)
  <2>1. vals \in Seq(Int)
    BY OwnType DEF DetectInv
  <2> HIDE DEF vals
  <2>2. Hits(vals) # {} => 2 * Cardinality(Hits(vals)) < Len(vals)
    BY <2>1, HitsAreFew
  <2>3. ASSUME NEW i \in DOMAIN vals, Len(vals) > MinBaseline, Len(vals) > 2,
               \A j, k \in DOMAIN vals \ {i} : vals[j] = vals[k] /\ vals[i] # vals[j]
        PROVE  Hits(vals) = {i}
    BY <2>1, <2>3, OutlierFlagged
  <2> QED BY <2>2, <2>3 DEF FlaggedAreFew, vals
<1> QED BY <1>1, InitDetect, StepDetect, PTL DEF Spec

-----------------------------------------------------------------------------
LEMMA LastHitLast ==
  ASSUME NEW vals \in Seq(Int), Hits(vals) # {}
  PROVE  LastHit(vals) \in Hits(vals) /\ \A j \in Hits(vals) : j <= LastHit(vals)
<1> DEFINE id == [i \in Hits(vals) |-> i]
<1>1. Hits(vals) \subseteq DOMAIN vals
  BY DEF Hits
<1>2. IsFiniteSet(Hits(vals)) /\ \A i \in Hits(vals) : id[i] \in Int
  BY <1>1, PositionsFinite
<1>3. PICK m \in Hits(vals) : \A x \in Hits(vals) : id[x] <= id[m]
  <2> HIDE DEF id
  <2> QED BY <1>2, GreatestValue
<1>4. m \in Hits(vals) /\ \A j \in Hits(vals) : j <= m
  BY <1>3
<1> QED BY <1>4 DEF LastHit

\* what Detect answers: the claim of SpikeInWindowReported, of the next state
LEMMA DetectReports ==
  ASSUME DetectInv, Detect
  PROVE  SpikeInWindowReported'
<1> DEFINE vals == Values(Own)
           hits == Hits(vals)
           flagged == {Own[i].at : i \in hits}
<1>1. /\ Own \in Seq(Point) /\ vals \in Seq(Int) /\ DOMAIN vals = DOMAIN Own
  BY OwnType DEF DetectInv
<1>2. points' = points /\ Own' = Own
  <2>1. points' = points
    BY DEF Detect
  <2>2. OwnAt' = OwnAt
    BY <2>1 DEF OwnAt
  <2> QED BY <2>1, <2>2 DEF Own
<1>3. hits \subseteq DOMAIN Own /\ DOMAIN Own = 1..Len(Own) /\ Len(Own) \in Nat
  BY <1>1 DEF Hits
<1>4. \A i \in DOMAIN Own : Own[i].at \in Nat
  <2>1. \A i \in DOMAIN Own : Own[i] \in Point
    BY <1>1
  <2> QED BY <2>1 DEF Point
<1>5. CASE hits = {}
  <2>1. answer' = Incident(<<>>, {"no anomaly"})
    BY <1>5 DEF Detect
  <2>2. answer'.suspects = <<>> /\ answer'.peak = 0
    BY <2>1 DEF Incident
  <2> QED BY <1>2, <1>5, <2>2 DEF SpikeInWindowReported
<1>6. CASE hits # {}
  <2> DEFINE last == LastHit(vals)
  <2>1. last \in hits /\ \A j \in hits : j <= last
    <3> HIDE DEF vals
    <3> QED BY <1>1, <1>6, LastHitLast
  <2>2. answer' = [Incident(<<Queried>>, {}) EXCEPT !.peak = Own[last].at]
    BY <1>6 DEF Detect
  <2>3. answer'.suspects = <<Queried>> /\ answer'.peak = Own[last].at
    BY <2>2 DEF Incident
  <2>4. <<Queried>> # <<>>
    OBVIOUS
  <2>5. answer'.peak \in flagged /\ flagged # {}
    BY <1>6, <2>1, <2>3
  <2> HIDE DEF last, hits
  <2>6. ASSUME InOrder, NEW a \in flagged, a >= From PROVE answer'.peak >= From
    <3>1. PICK i \in hits : a = Own[i].at
      OBVIOUS
    <3>2. i <= last /\ i \in DOMAIN Own /\ last \in DOMAIN Own
      BY <1>3, <2>1, <3>1
    <3>3. i = last \/ Own[i].at < Own[last].at
      BY <1>3, <2>6, <3>2 DEF InOrder
    <3>4. From \in Nat /\ Own[i].at \in Nat /\ Own[last].at \in Nat
      BY <1>4, <3>2, EngineAssumption
    <3> QED BY <2>3, <2>6, <3>1, <3>3, <3>4
  <2>7. InOrder' => InOrder
    BY <1>2 DEF InOrder
  <2>8. {Own'[i].at : i \in Hits(Values(Own'))} = flagged
    BY <1>2 DEF hits
  <2> QED BY <2>3, <2>4, <2>5, <2>6, <2>7, <2>8 DEF SpikeInWindowReported
<1> QED BY <1>5, <1>6

LEMMA StepSpike ==
  DetectInv /\ SpikeInWindowReported /\ [Next]_vars => SpikeInWindowReported'
<1> SUFFICES ASSUME DetectInv, SpikeInWindowReported, [Next]_vars
             PROVE  SpikeInWindowReported'
  OBVIOUS
<1>1. ASSUME pc' # "done" PROVE SpikeInWindowReported'
  BY <1>1 DEF SpikeInWindowReported
<1>2. ASSUME pc \in {"tempo", "loki", "rank"}, request' = request PROVE SpikeInWindowReported'
  BY <1>2 DEF SpikeInWindowReported, DetectInv
<1>3. CASE Detect
  BY <1>3, DetectReports
<1>4. ASSUME \/ \E t \in Traces : TempoAnswers(t)
             \/ TempoMalformed
             \/ \E f \in Failure : TempoGivesUp(f)
             \/ \E l \in LogSets : LokiAnswers(l)
             \/ LokiLost
             \/ Rank
             \/ Overflow
      PROVE  SpikeInWindowReported'
  <2>1. pc \in {"tempo", "loki", "rank"} /\ request' = request
    BY <1>4 DEF TempoAnswers, TempoMalformed, TempoGivesUp, LokiAnswers, LokiLost, Rank, Overflow
  <2> QED BY <1>2, <2>1
<1>5. ASSUME \/ \E f \in Failure : Retry(f)
             \/ \E s \in Series : PromAnswers(s)
             \/ PromLost
      PROVE  SpikeInWindowReported'
  BY <1>1, <1>5 DEF Retry, Waiting, PromAnswers, PromLost
<1>6. CASE UNCHANGED vars
  <2>1. points' = points /\ request' = request /\ pc' = pc /\ answer' = answer
    BY <1>6 DEF vars
  <2>2. Own' = Own
    BY <2>1 DEF Own, OwnAt
  <2>3. InOrder' = InOrder
    BY <2>2 DEF InOrder
  <2> QED BY <2>1, <2>2, <2>3 DEF SpikeInWindowReported
<1> QED
  BY <1>3, <1>4, <1>5, <1>6 DEF Next, Call, Done

\* Of the hits the last is reported, so that an old spike never hides one of the
\* window, and nothing is reported without a hit (engine.rs:174-218), for windows
\* of any length and any number of services and series.
THEOREM SpikeReported == Spec => []SpikeInWindowReported
<1>1. Init => SpikeInWindowReported
  BY DEF Init, SpikeInWindowReported
<1> QED BY <1>1, InitDetect, StepDetect, StepSpike, PTL DEF Spec

-----------------------------------------------------------------------------
(* The evidence graph of any trace and any logs: its nodes, the walks along *)
(* CausedBy edges, and that every weight in a score is a natural number.   *)

LEMMA SpansTyped ==
  ASSUME NEW tr \in Seq(Span)
  PROVE  /\ Len(tr) \in Nat /\ DOMAIN tr = 1..Len(tr) /\ DOMAIN tr \subseteq Nat
         /\ IsFiniteSet(DOMAIN tr) /\ Cardinality(DOMAIN tr) = Len(tr)
         /\ \A i \in DOMAIN tr :
              /\ tr[i] \in Span /\ tr[i].id \in SpanId /\ tr[i].parent \in SpanId \cup {NoParent}
              /\ tr[i].service \in Service /\ tr[i].error \in BOOLEAN /\ tr[i].dur \in Nat
<1>1. Len(tr) \in Nat /\ DOMAIN tr = 1..Len(tr) /\ \A i \in DOMAIN tr : tr[i] \in Span
  OBVIOUS
<1>2. IsFiniteSet(1..Len(tr)) /\ Cardinality(1..Len(tr)) = Len(tr)
  BY <1>1, FS_Interval
<1>3. \A sp \in Span : /\ sp.id \in SpanId /\ sp.parent \in SpanId \cup {NoParent}
                       /\ sp.service \in Service /\ sp.error \in BOOLEAN /\ sp.dur \in Nat
  BY DEF Span
<1> QED BY <1>1, <1>2, <1>3

LEMMA LogsTyped ==
  ASSUME NEW lg \in Seq(Log)
  PROVE  /\ Len(lg) \in Nat /\ DOMAIN lg = 1..Len(lg) /\ IsFiniteSet(DOMAIN lg)
         /\ \A i \in DOMAIN lg : lg[i] \in Log /\ lg[i].service \in Service /\ lg[i].error \in BOOLEAN
<1>1. Len(lg) \in Nat /\ DOMAIN lg = 1..Len(lg) /\ \A i \in DOMAIN lg : lg[i] \in Log
  OBVIOUS
<1>2. IsFiniteSet(1..Len(lg))
  BY <1>1, FS_Interval
<1>3. \A r \in Log : r.service \in Service /\ r.error \in BOOLEAN
  BY DEF Log
<1> QED BY <1>1, <1>2, <1>3

LEMMA IdsFinite ==
  ASSUME NEW tr \in Seq(Span)
  PROVE  IsFiniteSet(Ids(tr)) /\ Ids(tr) \subseteq SpanId /\ NoParent \notin Ids(tr)
<1> DEFINE h == [i \in DOMAIN tr |-> tr[i].id]
<1>1. IsFiniteSet(DOMAIN tr) /\ \A i \in DOMAIN tr : tr[i].id \in SpanId
  BY SpansTyped
<1>2. Ids(tr) = {h[i] : i \in DOMAIN tr}
  BY DEF Ids
<1>3. IsFiniteSet({h[i] : i \in DOMAIN tr})
  <2> HIDE DEF h
  <2> QED BY <1>1, ImageFinite
<1> QED BY <1>1, <1>2, <1>3, GraphAssumption DEF GraphAssumption, Ids

LEMMA ServicesFinite ==
  ASSUME NEW tr \in Seq(Span), NEW lg \in Seq(Log)
  PROVE  IsFiniteSet(Services(tr, lg)) /\ Services(tr, lg) \subseteq Service
<1> DEFINE h == [i \in DOMAIN tr |-> tr[i].service]
           g == [i \in DOMAIN lg |-> lg[i].service]
<1>1. IsFiniteSet(DOMAIN tr) /\ \A i \in DOMAIN tr : tr[i].service \in Service
  BY SpansTyped
<1>2. IsFiniteSet(DOMAIN lg) /\ \A i \in DOMAIN lg : lg[i].service \in Service
  BY LogsTyped
<1>3. Services(tr, lg) = {h[i] : i \in DOMAIN tr} \cup {g[i] : i \in DOMAIN lg}
  BY DEF Services
<1>4. IsFiniteSet({h[i] : i \in DOMAIN tr}) /\ IsFiniteSet({g[i] : i \in DOMAIN lg})
  <2> HIDE DEF h, g
  <2> QED BY <1>1, <1>2, ImageFinite
<1>5. IsFiniteSet(Services(tr, lg))
  <2> HIDE DEF h, g
  <2> QED BY <1>3, <1>4, FS_Union
<1> QED BY <1>1, <1>2, <1>5 DEF Services

\* a span node is the first span listed under its id
LEMMA NodeIsFirst ==
  ASSUME NEW tr \in Seq(Span), NEW id \in Ids(tr)
  PROVE  \E i \in DOMAIN tr : /\ Node(tr, id) = tr[i] /\ tr[i].id = id
                              /\ \A j \in DOMAIN tr : tr[j].id = id => i <= j
<1> DEFINE Of == {i \in DOMAIN tr : tr[i].id = id}
<1>1. Of \in SUBSET Nat /\ Of # {}
  BY SpansTyped DEF Ids
<1>2. Min(Of) \in Of /\ \A j \in Of : Min(Of) <= j
  <2> HIDE DEF Of
  <2> QED BY <1>1, NatMinimal
<1>3. Node(tr, id) = tr[Min(Of)]
  BY DEF Node
<1> DEFINE i == Min(Of)
<1>4. i \in DOMAIN tr /\ tr[i].id = id /\ \A j \in DOMAIN tr : tr[j].id = id => i <= j
  BY <1>2
<1> QED BY <1>3, <1>4

LEMMA NodeType ==
  ASSUME NEW tr \in Seq(Span), NEW id \in Ids(tr)
  PROVE  /\ Node(tr, id) \in Span /\ Node(tr, id).id = id /\ Node(tr, id).service \in Service
         /\ Node(tr, id).error \in BOOLEAN /\ Node(tr, id).dur \in Nat
  BY NodeIsFirst, SpansTyped

\* where no id is listed twice the node is the span
LEMMA NodeOfSpan ==
  ASSUME NEW tr \in Seq(Span), \A i, j \in DOMAIN tr : tr[i].id = tr[j].id => i = j,
         NEW i \in DOMAIN tr
  PROVE  tr[i].id \in Ids(tr) /\ Node(tr, tr[i].id) = tr[i]
<1>1. tr[i].id \in Ids(tr)
  BY DEF Ids
<1>2. PICK k \in DOMAIN tr : Node(tr, tr[i].id) = tr[k] /\ tr[k].id = tr[i].id
  BY <1>1, NodeIsFirst
<1> QED BY <1>1, <1>2

ChildIds(tr, id) == {c \in Ids(tr) : <<id, c>> \in ParentOf(tr)}

LEMMA SelfTimeType ==
  ASSUME NEW tr \in Seq(Span), NEW id \in Ids(tr)
  PROVE  /\ SelfTime(tr, id) \in Int /\ SelfTime(tr, id) <= Node(tr, id).dur
         /\ SelfTime(tr, id) = Node(tr, id).dur
              - Total([c \in ChildIds(tr, id) |-> Node(tr, c).dur], ChildIds(tr, id))
         /\ Total([c \in ChildIds(tr, id) |-> Node(tr, c).dur], ChildIds(tr, id)) \in Nat
<1> DEFINE C == ChildIds(tr, id)
           f == [c \in C |-> Node(tr, c).dur]
<1>1. IsFiniteSet(C) /\ C \subseteq Ids(tr)
  <2>1. C \subseteq Ids(tr)
    BY DEF ChildIds
  <2> QED BY <2>1, IdsFinite, FS_Subset
<1>2. \A c \in C : f[c] \in Nat
  BY <1>1, NodeType
<1>3. Total(f, C) \in Nat
  <2> HIDE DEF f, C
  <2> QED BY <1>1, <1>2, TotalNat
<1>4. SelfTime(tr, id) = Node(tr, id).dur - Total(f, C)
  BY DEF SelfTime, ChildIds
<1>5. Node(tr, id).dur \in Nat
  BY NodeType
<1> QED BY <1>3, <1>4, <1>5

-----------------------------------------------------------------------------
LEMMA SquaresGrow ==
  ASSUME NEW x \in Nat, NEW y \in Nat, x * x < y * y
  PROVE  x < y
<1>1. SUFFICES ASSUME y <= x PROVE FALSE
  OBVIOUS
<1>2. PICK d \in Nat : x = y + d
  <2>1. x - y \in Nat /\ x = y + (x - y)
    BY <1>1
  <2> QED BY <2>1
<1>3. x * x = y * y + (2 * (y * d) + d * d)
  BY <1>2
<1>4. y * d \in Nat /\ d * d \in Nat /\ x * x \in Nat /\ y * y \in Nat
  OBVIOUS
<1> QED BY <1>3, <1>4

LEMMA RootFloor ==
  ASSUME NEW n \in Nat
  PROVE  \E t \in Nat : t * t <= n /\ n < (t + 1) * (t + 1)
<1> DEFINE Above == {t \in Nat : n < (t + 1) * (t + 1)}
           t == Min(Above)
<1>1. n \in Above
  <2>1. (n + 1) * (n + 1) = n * n + 2 * n + 1 /\ n * n \in Nat
    OBVIOUS
  <2> QED BY <2>1
<1>2. t \in Above /\ \A x \in Above : t <= x
  <2>1. Above \in SUBSET Nat /\ Above # {}
    BY <1>1
  <2> HIDE DEF Above
  <2> QED BY <2>1, NatMinimal
<1>3. t \in Nat /\ n < (t + 1) * (t + 1)
  BY <1>2
<1>4. t * t <= n
  <2>1. CASE t = 0
    BY <2>1
  <2>2. CASE t # 0
    <3>1. t - 1 \in Nat /\ t - 1 \notin Above /\ (t - 1) + 1 = t
      BY <1>2, <1>3, <2>2
    <3> HIDE DEF t
    <3>2. ~(n < t * t)
      BY <3>1
    <3>3. t * t \in Nat
      BY <1>3
    <3> QED BY <3>2, <3>3
  <2> QED BY <2>1, <2>2
<1> QED BY <1>3, <1>4

LEMMA RootRounded ==
  ASSUME NEW n \in Nat, n > 0
  PROVE  \E r \in Nat : /\ r > 0
                        /\ (2 * r - 1) * (2 * r - 1) <= n
                        /\ n < (2 * r + 1) * (2 * r + 1)
<1>1. PICK t \in Nat : t * t <= n /\ n < (t + 1) * (t + 1)
  BY RootFloor
<1>2. t > 0
  <2>1. t = 0 => (t + 1) * (t + 1) = 1
    OBVIOUS
  <2> QED BY <1>1, <2>1
<1>3. \A x, y \in Nat : x <= y => x * x <= y * y
  <2> TAKE x, y \in Nat
  <2> HAVE x <= y
  <2>1. ~(y * y < x * x)
    BY SquaresGrow
  <2>2. x * x \in Nat /\ y * y \in Nat
    OBVIOUS
  <2> QED BY <2>1, <2>2
<1>4. CASE t % 2 = 0
  <2>1. PICK r \in Nat : t = 2 * r
    BY <1>4
  <2>2. r > 0 /\ 2 * r - 1 \in Nat /\ 2 * r - 1 <= t /\ 2 * r + 1 = t + 1
    BY <1>2, <2>1
  <2>3. (2 * r - 1) * (2 * r - 1) <= t * t
    BY <1>3, <2>2
  <2>4. (2 * r - 1) * (2 * r - 1) \in Int /\ t * t \in Int
    BY <2>2
  <2>5. (2 * r - 1) * (2 * r - 1) <= n
    BY <1>1, <2>3, <2>4
  <2>6. n < (2 * r + 1) * (2 * r + 1)
    BY <1>1, <2>2
  <2> QED BY <2>2, <2>5, <2>6
<1>5. CASE t % 2 # 0
  <2>1. PICK q \in Nat : t = 2 * q + 1
    <3>1. t \div 2 \in Nat /\ t = 2 * (t \div 2) + 1
      BY <1>5
    <3> QED BY <3>1
  <2> DEFINE r == q + 1
  <2>2. r \in Nat /\ r > 0 /\ 2 * r - 1 = t /\ 2 * r + 1 \in Nat /\ t + 1 <= 2 * r + 1
    BY <2>1
  <2> HIDE DEF r
  <2>3. (t + 1) * (t + 1) <= (2 * r + 1) * (2 * r + 1)
    BY <1>3, <2>2
  <2>4. (t + 1) * (t + 1) \in Int /\ (2 * r + 1) * (2 * r + 1) \in Int
    BY <2>2
  <2>5. n < (2 * r + 1) * (2 * r + 1)
    BY <1>1, <2>3, <2>4
  <2>6. (2 * r - 1) * (2 * r - 1) <= n
    BY <1>1, <2>2
  <2> QED BY <2>2, <2>5, <2>6
<1> QED BY <1>4, <1>5

\* Sqrt finds a root for the count of every log batch
LEMMA SqrtType ==
  ASSUME NEW n \in Nat, n > 0
  PROVE  Sqrt(n) \in Nat
<1> DEFINE tenths == CHOOSE t \in 0..(10 * n) : t * t <= 100 * n /\ 100 * n < (t + 1) * (t + 1)
<1>1. tenths \in Nat /\ tenths * tenths <= 100 * n /\ 100 * n < (tenths + 1) * (tenths + 1)
  <2>1. PICK t \in Nat : t * t <= 100 * n /\ 100 * n < (t + 1) * (t + 1)
    <3>1. 100 * n \in Nat
      OBVIOUS
    <3> QED BY <3>1, RootFloor
  <2>2. (10 * n + 1) * (10 * n + 1) = 100 * (n * n) + 20 * n + 1
    OBVIOUS
  <2>3. n * n >= n /\ n * n \in Nat
    <3>1. PICK m \in Nat : n = m + 1
      <4>1. n - 1 \in Nat /\ n = (n - 1) + 1
        OBVIOUS
      <4> QED BY <4>1
    <3>2. n * n = n + m * n /\ m * n \in Nat
      BY <3>1
    <3> QED BY <3>2
  <2>4. t * t < (10 * n + 1) * (10 * n + 1)
    <3>1. t * t \in Nat
      OBVIOUS
    <3> QED BY <2>1, <2>2, <2>3, <3>1
  <2>5. t < 10 * n + 1
    <3>1. 10 * n + 1 \in Nat
      OBVIOUS
    <3> QED BY <2>4, <3>1, SquaresGrow
  <2>6. t \in 0..(10 * n)
    BY <2>5
  <2>7. tenths \in 0..(10 * n) /\ tenths * tenths <= 100 * n /\ 100 * n < (tenths + 1) * (tenths + 1)
    BY <2>1, <2>6
  <2> QED BY <2>7
<1> HIDE DEF tenths
<1> DEFINE N == 4000000 * n
<1>2. N \in Nat /\ N > 0 /\ N = 40000 * (100 * n)
  BY SMT
<1>3. Sqrt(n) = CHOOSE r \in (100 * tenths)..(100 * tenths + 100) :
                  (2 * r - 1) * (2 * r - 1) <= N /\ N < (2 * r + 1) * (2 * r + 1)
  BY SMT DEF Sqrt, tenths
<1> HIDE DEF N
<1>4. PICK r \in Nat : /\ r > 0
                       /\ (2 * r - 1) * (2 * r - 1) <= N
                       /\ N < (2 * r + 1) * (2 * r + 1)
  <2>1. N \in Nat /\ N > 0
    BY <1>2
  <2> QED BY <2>1, RootRounded, Zenon
<1>5. tenths * tenths \in Nat /\ (tenths + 1) * (tenths + 1) \in Nat
  BY <1>1
<1>6. 100 * tenths <= r
  <2>1. (200 * tenths) * (200 * tenths) = 40000 * (tenths * tenths)
    BY <1>1
  <2>2. 40000 * (tenths * tenths) <= N
    BY <1>1, <1>2, <1>5
  <2>3. (200 * tenths) * (200 * tenths) < (2 * r + 1) * (2 * r + 1)
    <3>1. (2 * r + 1) * (2 * r + 1) \in Nat
      OBVIOUS
    <3> QED BY <1>2, <1>4, <1>5, <2>1, <2>2, <3>1
  <2>4. 200 * tenths < 2 * r + 1
    <3>1. 200 * tenths \in Nat /\ 2 * r + 1 \in Nat
      BY <1>1
    <3> QED BY <2>3, <3>1, SquaresGrow
  <2> QED BY <1>1, <2>4
<1>7. r <= 100 * tenths + 100
  <2> DEFINE u == tenths + 1
  <2>1. u \in Nat /\ u * u \in Nat /\ (200 * u) * (200 * u) = 40000 * (u * u)
    BY <1>1
  <2>2. N < 40000 * (u * u)
    <3>1. 100 * n < u * u
      BY <1>1
    <3> HIDE DEF u
    <3> QED BY <1>2, <2>1, <3>1
  <2>3. u = tenths + 1
    OBVIOUS
  <2> HIDE DEF u
  <2>4. (2 * r - 1) * (2 * r - 1) < (200 * u) * (200 * u)
    <3>1. (2 * r - 1) * (2 * r - 1) \in Int
      OBVIOUS
    <3> QED BY <1>2, <1>4, <2>1, <2>2, <3>1
  <2>5. 2 * r - 1 < 200 * u
    <3>1. 2 * r - 1 \in Nat /\ 200 * u \in Nat
      BY <1>4, <2>1
    <3> QED BY <2>4, <3>1, SquaresGrow
  <2> QED BY <1>1, <2>3, <2>5
<1>8. r \in (100 * tenths)..(100 * tenths + 100)
  BY <1>1, <1>6, <1>7
<1>9. Sqrt(n) \in (100 * tenths)..(100 * tenths + 100)
  BY <1>3, <1>4, <1>8
<1> QED BY <1>1, <1>9

LEMMA BatchesType ==
  ASSUME NEW lg \in Seq(Log)
  PROVE  /\ IsFiniteSet(Batches(lg))
         /\ \A b \in Batches(lg) : Count(lg, b) \in Nat /\ Count(lg, b) > 0 /\ Sqrt(Count(lg, b)) \in Nat
<1>1. IsFiniteSet(DOMAIN lg)
  BY LogsTyped
<1>2. IsFiniteSet(Batches(lg))
  BY <1>1, ImageFinite DEF Batches
<1>3. ASSUME NEW b \in Batches(lg)
      PROVE  Count(lg, b) \in Nat /\ Count(lg, b) > 0
  <2> DEFINE same == {i \in DOMAIN lg : lg[i] = b}
  <2>1. same # {} /\ same \subseteq DOMAIN lg
    BY DEF Batches
  <2>2. IsFiniteSet(same)
    <3> HIDE DEF same
    <3> QED BY <1>1, <2>1, FS_Subset
  <2>3. Cardinality(same) \in Nat /\ Cardinality(same) # 0
    <3> HIDE DEF same
    <3> QED BY <2>1, <2>2, FS_EmptySet, FS_CardinalityType
  <2> QED BY <2>3 DEF Count
<1> QED BY <1>2, <1>3, SqrtType

\* the two sums direct error weight is made of
ErrorIds(tr, s)     == {id \in Ids(tr) : <<id, s>> \in EmittedBy(tr) /\ Node(tr, id).error}
ErrorBatches(lg, s) == {b \in Batches(lg) : b.service = s /\ b.error}
OfSpans(tr, s) == Total([id \in ErrorIds(tr, s) |-> SpanWeight(Node(tr, id))], ErrorIds(tr, s))
OfLogs(lg, s)  == Total([b \in ErrorBatches(lg, s) |-> Sqrt(Count(lg, b))], ErrorBatches(lg, s))

LEMMA DirectErrorType ==
  ASSUME NEW tr \in Seq(Span), NEW lg \in Seq(Log), NEW s
  PROVE  /\ IsFiniteSet(ErrorIds(tr, s)) /\ IsFiniteSet(ErrorBatches(lg, s))
         /\ DirectError(tr, lg, s) = OfSpans(tr, s) + OfLogs(lg, s)
         /\ OfSpans(tr, s) \in Nat /\ OfLogs(lg, s) \in Nat
         /\ DirectError(tr, lg, s) \in Nat
<1> DEFINE E == ErrorIds(tr, s)
           B == ErrorBatches(lg, s)
           f == [id \in E |-> SpanWeight(Node(tr, id))]
           g == [b \in B |-> Sqrt(Count(lg, b))]
<1>1. IsFiniteSet(E) /\ E \subseteq Ids(tr)
  <2>1. E \subseteq Ids(tr)
    BY DEF ErrorIds
  <2> QED BY <2>1, IdsFinite, FS_Subset
<1>2. IsFiniteSet(B) /\ B \subseteq Batches(lg)
  <2>1. B \subseteq Batches(lg)
    BY DEF ErrorBatches
  <2> QED BY <2>1, BatchesType, FS_Subset
<1>3. \A id \in E : f[id] \in Nat
  <2>1. \A id \in E : Node(tr, id).dur \in Nat
    BY <1>1, NodeType
  <2> QED BY <2>1 DEF SpanWeight
<1>4. \A b \in B : g[b] \in Nat
  BY <1>2, BatchesType
<1>5. Total(f, E) \in Nat /\ Total(g, B) \in Nat
  <2> HIDE DEF f, g, E, B
  <2> QED BY <1>1, <1>2, <1>3, <1>4, TotalNat
<1>6. DirectError(tr, lg, s) = OfSpans(tr, s) + OfLogs(lg, s)
  BY DEF DirectError, ErrorIds, ErrorBatches, OfSpans, OfLogs
<1>7. OfSpans(tr, s) \in Nat /\ OfLogs(lg, s) \in Nat
  BY <1>5 DEF OfSpans, OfLogs
<1> QED BY <1>1, <1>2, <1>6, <1>7

-----------------------------------------------------------------------------
CausesOf(tr, id) == {i \in Causing(tr) : tr[i].id = id}

LEMMA CauseIs ==
  ASSUME NEW tr \in Seq(Span), NEW id
  PROVE  /\ CausesOf(tr, id) = {} => Cause(tr, id) = NoParent
         /\ CausesOf(tr, id) # {} =>
              \E i \in CausesOf(tr, id) : /\ Cause(tr, id) = tr[i].parent
                                          /\ \A j \in CausesOf(tr, id) : i <= j
         /\ Cause(tr, id) \in SpanId \cup {NoParent}
         /\ Cause(tr, id) # NoParent => id \in Ids(tr)
<1> DEFINE C == CausesOf(tr, id)
<1>1. C \in SUBSET Nat /\ C \subseteq DOMAIN tr
  BY SpansTyped DEF CausesOf, Causing
<1>2. C = {} => Cause(tr, id) = NoParent
  BY DEF Cause, CausesOf
<1>3. ASSUME C # {} PROVE Cause(tr, id) = tr[Min(C)].parent /\ Min(C) \in C /\ \A j \in C : Min(C) <= j
  <2>1. Cause(tr, id) = tr[Min(C)].parent
    BY <1>3 DEF Cause, CausesOf
  <2> HIDE DEF C
  <2> QED BY <1>1, <1>3, <2>1, NatMinimal
<1>4. \A i \in C : tr[i].parent \in SpanId \cup {NoParent} /\ id \in Ids(tr)
  <2>1. \A i \in C : tr[i].id = id
    BY DEF CausesOf
  <2> QED BY <1>1, <2>1, SpansTyped DEF Ids
<1> HIDE DEF C
<1>5. Cause(tr, id) \in SpanId \cup {NoParent} /\ (Cause(tr, id) # NoParent => id \in Ids(tr))
  BY <1>2, <1>3, <1>4
<1> QED BY <1>2, <1>3, <1>5 DEF C

Walks(f, tr, id, n) == f = [k \in 0..n |-> IF k = 0 THEN id ELSE Cause(tr, f[k - 1])]

LEMMA WalksExists ==
  ASSUME NEW tr, NEW id, NEW n \in Nat
  PROVE  \E f : Walks(f, tr, id, n)
<1> DEFINE Bad == {m \in Nat : ~ \E f : Walks(f, tr, id, m)}
<1>1. SUFFICES ASSUME Bad # {} PROVE FALSE
  OBVIOUS
<1> DEFINE m == Min(Bad)
<1>2. m \in Bad /\ \A k \in Bad : m <= k
  <2>1. Bad \in SUBSET Nat
    OBVIOUS
  <2> HIDE DEF Bad
  <2> QED BY <1>1, <2>1, NatMinimal
<1>3. m \in Nat /\ ~ \E f : Walks(f, tr, id, m)
  BY <1>2
<1>4. \A k \in Nat : k < m => \E f : Walks(f, tr, id, k)
  BY <1>2, <1>3
<1> HIDE DEF Bad, m
<1>5. CASE m = 0
  <2>1. Walks([k \in 0..m |-> id], tr, id, m)
    BY <1>5 DEF Walks
  <2> QED BY <1>3, <2>1
<1>6. CASE m > 0
  <2>1. PICK g : Walks(g, tr, id, m - 1)
    BY <1>3, <1>4, <1>6
  <2> DEFINE h == [k \in 0..m |-> IF k = 0 THEN id ELSE Cause(tr, g[k - 1])]
  <2>2. \A k \in 0..(m - 1) : g[k] = IF k = 0 THEN id ELSE Cause(tr, g[k - 1])
    BY <2>1, Zenon DEF Walks
  <2>3. \A k \in 0..m : k # 0 => k - 1 \in 0..(m - 1) /\ k - 1 \in 0..m
    BY <1>3
  <2>4. \A k \in 0..m : k # 0 => h[k - 1] = g[k - 1]
    BY <2>2, <2>3
  <2>5. Walks(h, tr, id, m)
    BY <2>4 DEF Walks
  <2> QED BY <1>3, <2>5
<1> QED BY <1>3, <1>5, <1>6

LEMMA WalkSteps ==
  ASSUME NEW tr, NEW id
  PROVE  /\ Walk(tr, id)[0] = id
         /\ \A k \in 1..MaxDepth : Walk(tr, id)[k] = Cause(tr, Walk(tr, id)[k - 1])
<1>1. MaxDepth \in Nat
  BY GraphAssumption DEF GraphAssumption
<1>2. Walks(Walk(tr, id), tr, id, MaxDepth)
  <2>1. \E f : Walks(f, tr, id, MaxDepth)
    BY <1>1, WalksExists
  <2> QED BY <2>1, Zenon DEF Walk, Walks
<1>3. \A k \in 0..MaxDepth : Walk(tr, id)[k] = IF k = 0 THEN id ELSE Cause(tr, Walk(tr, id)[k - 1])
  BY <1>2, Zenon DEF Walks
<1>4. 0 \in 0..MaxDepth /\ \A k \in 1..MaxDepth : k \in 0..MaxDepth /\ k # 0
  BY <1>1
<1> QED BY <1>3, <1>4, Zenon

\* what each edge leaves, in eighths
LEMMA HalvesType == \A k \in 1..MaxDepth : 8 \div 2^k \in Nat
<1>1. 1..MaxDepth \subseteq {1, 2, 3}
  BY GraphAssumption DEF GraphAssumption
<1>2. 8 \div 2^1 \in Nat
  <2>1. 2^1 = 2
    OBVIOUS
  <2> QED BY <2>1
<1>3. 8 \div 2^2 \in Nat
  <2>1. 2^2 = 4
    OBVIOUS
  <2> QED BY <2>1
<1>4. 8 \div 2^3 \in Nat
  <2>1. 2^3 = 8
    OBVIOUS
  <2> QED BY <2>1
<1> QED BY <1>1, <1>2, <1>3, <1>4, Zenon

\* the edges over which the walks lead to a span of a service, and what each brings
Hops(tr, s) == {hop \in Ids(tr) \X (1..MaxDepth) :
                  /\ Walk(tr, hop[1])[hop[2]] \in Ids(tr)
                  /\ Node(tr, Walk(tr, hop[1])[hop[2]]).service = s}
Shared(tr, lg, hop) == (8 \div 2^hop[2]) * DirectError(tr, lg, Node(tr, hop[1]).service)
SharedOver(tr, lg, H) == [hop \in H |-> Shared(tr, lg, hop)]

LEMMA PropagatedType ==
  ASSUME NEW tr \in Seq(Span), NEW lg \in Seq(Log), NEW s
  PROVE  /\ IsFiniteSet(Hops(tr, s))
         /\ \A hop \in Ids(tr) \X (1..MaxDepth) : Shared(tr, lg, hop) \in Nat
         /\ Propagated(tr, lg, s) = Total(SharedOver(tr, lg, Hops(tr, s)), Hops(tr, s))
         /\ Propagated(tr, lg, s) \in Nat
<1> DEFINE H == Hops(tr, s)
           all == Ids(tr) \X (1..MaxDepth)
<1>1. IsFiniteSet(H) /\ H \subseteq all
  <2>1. MaxDepth \in Nat
    BY GraphAssumption DEF GraphAssumption
  <2>2. IsFiniteSet(1..MaxDepth)
    BY <2>1, FS_Interval
  <2>3. IsFiniteSet(all)
    BY <2>2, IdsFinite, FS_Product
  <2>4. H \subseteq all
    BY DEF Hops
  <2> QED BY <2>3, <2>4, FS_Subset
<1>2. \A hop \in all : Shared(tr, lg, hop) \in Nat
  <2> TAKE hop \in all
  <2>1. 8 \div 2^hop[2] \in Nat
    BY HalvesType
  <2>2. DirectError(tr, lg, Node(tr, hop[1]).service) \in Nat
    BY DirectErrorType
  <2>3. \A x, y \in Nat : x * y \in Nat
    OBVIOUS
  <2> QED BY <2>1, <2>2, <2>3 DEF Shared
<1>3. Propagated(tr, lg, s) = Total(SharedOver(tr, lg, H), H)
  BY DEF Propagated, Hops, Shared, SharedOver
<1>4. \A hop \in H : SharedOver(tr, lg, H)[hop] \in Nat
  BY <1>1, <1>2 DEF SharedOver
<1>5. Total(SharedOver(tr, lg, H), H) \in Nat
  <2> HIDE DEF H
  <2> QED BY <1>1, <1>4, TotalNat
<1> QED BY <1>1, <1>2, <1>3, <1>5

SlowIds(tr, s) == {id \in Ids(tr) : Node(tr, id).service = s /\ Slow(tr, id)}
SelfTimes(tr, S) == [id \in S |-> SelfTime(tr, id)]

LEMMA DirectLatencyType ==
  ASSUME NEW tr \in Seq(Span), NEW s
  PROVE  /\ IsFiniteSet(SlowIds(tr, s))
         /\ \A id \in SlowIds(tr, s) : SelfTime(tr, id) \in Nat /\ SelfTime(tr, id) > 0
         /\ DirectLatency(tr, s) = Total(SelfTimes(tr, SlowIds(tr, s)), SlowIds(tr, s))
         /\ DirectLatency(tr, s) \in Nat
<1> DEFINE S == SlowIds(tr, s)
<1>1. IsFiniteSet(S) /\ S \subseteq Ids(tr)
  <2>1. S \subseteq Ids(tr)
    BY DEF SlowIds
  <2> QED BY <2>1, IdsFinite, FS_Subset
<1>2. \A id \in S : SelfTime(tr, id) \in Nat /\ SelfTime(tr, id) > 0
  <2> TAKE id \in S
  <2>1. SelfTime(tr, id) \in Int
    BY <1>1, SelfTimeType
  <2>2. SelfTime(tr, id) > SlowMs
    BY DEF SlowIds, Slow
  <2> QED BY <2>1, <2>2, GraphAssumption DEF GraphAssumption
<1>3. DirectLatency(tr, s) = Total(SelfTimes(tr, S), S)
  BY DEF DirectLatency, SlowIds, SelfTimes
<1>4. \A id \in S : SelfTimes(tr, S)[id] \in Nat
  BY <1>2 DEF SelfTimes
<1>5. Total(SelfTimes(tr, S), S) \in Nat
  <2> HIDE DEF S
  <2> QED BY <1>1, <1>4, TotalNat
<1> QED BY <1>1, <1>2, <1>3, <1>5

LEMMA ScoreType ==
  ASSUME NEW tr \in Seq(Span), NEW lg \in Seq(Log), NEW s
  PROVE  Score(tr, lg, s) \in Nat
<1>1. DirectError(tr, lg, s) \in Nat /\ Propagated(tr, lg, s) \in Nat /\ DirectLatency(tr, s) \in Nat
  BY DirectErrorType, PropagatedType, DirectLatencyType
<1> QED BY <1>1 DEF Score

\* the suspects are a sequence of services in which each service stands once
LEMMA SuspectsType ==
  ASSUME NEW tr \in Seq(Span), NEW lg \in Seq(Log)
  PROVE  /\ RankSuspects(tr, lg) \in Seq(Services(tr, lg))
         /\ RankSuspects(tr, lg) \in Seq(Service)
         /\ Len(RankSuspects(tr, lg)) = Cardinality(Services(tr, lg))
<1> DEFINE names == Services(tr, lg)
           score == [s \in names |-> Score(tr, lg, s)]
<1>1. IsFiniteSet(names) /\ names \subseteq Service /\ names \subseteq Nat
  BY ServicesFinite, GraphAssumption DEF GraphAssumption
<1>2. score \in [names -> Int]
  BY ScoreType
<1>3. Cardinality(names) \in Nat
  BY <1>1, FS_CardinalityType
<1>4. RankSuspects(tr, lg) = Sorted(names, score)
  BY DEF RankSuspects
<1>5. Sorted(names, score) \in [1..Cardinality(names) -> names]
  <2> HIDE DEF names, score
  <2> QED BY <1>1, <1>2, RankingSound
<1>6. \A T, n, f : n \in Nat /\ f \in [1..n -> T] => f \in Seq(T) /\ Len(f) = n
  OBVIOUS
<1>7. /\ RankSuspects(tr, lg) \in Seq(names)
      /\ Len(RankSuspects(tr, lg)) = Cardinality(names)
  <2> HIDE DEF names, score
  <2> QED BY <1>3, <1>4, <1>5, <1>6
<1>8. RankSuspects(tr, lg) \in [1..Cardinality(names) -> Service]
  <2> HIDE DEF names, score
  <2> QED BY <1>1, <1>4, <1>5
<1>9. RankSuspects(tr, lg) \in Seq(Service)
  BY <1>3, <1>6, <1>8
<1> QED BY <1>7, <1>9

-----------------------------------------------------------------------------
(* Types, and what an answer says of the evidence it was made from.        *)

Answer == [outcome : {"none", "incident", "malformed", "unreachable", "crash"},
           suspects : Seq(Service), notes : SUBSET {"not found", "no anomaly"}, peak : Nat]

LEMMA AnswerType ==
  /\ \A suspects \in Seq(Service), notes \in SUBSET {"not found", "no anomaly"} :
       Incident(suspects, notes) \in Answer
  /\ \A kind \in {"none", "malformed", "unreachable", "crash"} : Error(kind) \in Answer
<1>1. <<>> \in Seq(Service)
  OBVIOUS
<1>2. \A suspects \in Seq(Service), notes \in SUBSET {"not found", "no anomaly"} :
        Incident(suspects, notes) \in Answer
  BY DEF Incident, Answer
<1>3. \A kind \in {"none", "malformed", "unreachable", "crash"} : Error(kind) \in Answer
  BY <1>1 DEF Error, Answer
<1> QED BY <1>2, <1>3

(* A request for a trace has no points and one for an anomaly no spans; the *)
(* suspects of an incident about spans or logs are the ranking of them.    *)
EngineInv ==
  /\ TypeOK
  /\ pc \in {"tempo", "loki", "rank"} => request.kind = "trace"
  /\ pc \in {"tempo", "prom", "detect"} => spans = <<>> /\ logs = <<>>
  /\ pc = "loki" => logs = <<>>
  /\ pc = "done" /\ answer.outcome = "incident" /\ (spans # <<>> \/ logs # <<>>)
       => answer.suspects = RankSuspects(spans, logs)

LEMMA InitEngine == Init => EngineInv
<1> SUFFICES ASSUME Init PROVE EngineInv
  OBVIOUS
<1>1. /\ request \in Request /\ tries = 0 /\ lastErr = NoError
      /\ spans = <<>> /\ logs = <<>> /\ points = <<>> /\ answer = Error("none") /\ lost = {}
      /\ pc = IF request.kind = "trace" THEN "tempo" ELSE "prom"
  BY DEF Init, NoAnswer
<1>2. <<>> \in Seq(Span) /\ <<>> \in Seq(Log) /\ <<>> \in Seq([service : Service, at : Nat, value : Int])
  OBVIOUS
<1>3. answer \in Answer
  BY <1>1, AnswerType
<1>4. tries \in 0..Attempts /\ tries # Attempts
  BY <1>1, AttemptsType
<1>5. TypeOK
  BY <1>1, <1>2, <1>3, <1>4 DEF TypeOK, Answer
<1> QED BY <1>1, <1>5 DEF EngineInv

LEMMA StepEngine == EngineInv /\ [Next]_vars => EngineInv'
<1> SUFFICES ASSUME EngineInv, [Next]_vars
             PROVE  EngineInv'
  OBVIOUS
<1>1. /\ pc \in {"tempo", "loki", "prom", "rank", "detect", "done"} /\ request \in Request
      /\ tries \in 0..Attempts /\ lastErr \in Failure \cup {NoError}
      /\ tries = Attempts => pc = "done" /\ request.kind = "trace"
      /\ spans \in Seq(Span) /\ logs \in Seq(Log) /\ points \in Seq(Point)
      /\ answer \in Answer /\ lost \subseteq {"loki", "prom"}
  BY DEF EngineInv, TypeOK, Answer, Point
<1>2. /\ pc \in {"tempo", "loki", "rank"} => request.kind = "trace"
      /\ pc \in {"tempo", "prom", "detect"} => spans = <<>> /\ logs = <<>>
      /\ pc = "loki" => logs = <<>>
      /\ pc = "done" /\ answer.outcome = "incident" /\ (spans # <<>> \/ logs # <<>>)
           => answer.suspects = RankSuspects(spans, logs)
  BY DEF EngineInv
<1>3. /\ Attempts \in Nat /\ Attempts > 0 /\ 0 \in 0..Attempts /\ 0 # Attempts
      /\ <<>> \in Seq(Span) /\ <<>> \in Seq(Log) /\ <<>> \in Seq(Point) /\ <<>> \in Seq(Service)
  BY AttemptsType
<1>4. pc # "done" => tries + 1 \in 0..Attempts
  BY <1>1, <1>3
<1> USE <1>1, <1>2, <1>3, <1>4 DEF Reset
<1>5. ASSUME NEW f \in Failure, Retry(f) PROVE EngineInv'
  <2>1. /\ tries' = tries + 1 /\ ~LastTry(tries + 1) /\ lastErr' = f /\ Waiting
        /\ UNCHANGED <<pc, request, spans, logs, points, answer, lost>>
    BY <1>5 DEF Retry
  <2>2. pc # "done" /\ tries' # Attempts
    BY <2>1 DEF Waiting, LastTry
  <2> QED BY <2>1, <2>2 DEF EngineInv, TypeOK, Answer, Point
<1>6. ASSUME NEW t \in Traces, TempoAnswers(t) PROVE EngineInv'
  <2>1. /\ pc = "tempo" /\ spans' = t /\ tries' = 0 /\ lastErr' = NoError
        /\ UNCHANGED <<request, logs, points, lost>>
        /\ IF t = <<>> THEN pc' = "done" /\ answer' = Incident(<<>>, {"not found"})
                       ELSE pc' = "loki" /\ answer' = answer
    BY <1>6 DEF TempoAnswers
  <2>2. t \in Seq(Span)
    BY EngineAssumption DEF EngineAssumption
  <2>3. Incident(<<>>, {"not found"}) \in Answer
    BY AnswerType
  <2> QED BY <2>1, <2>2, <2>3 DEF EngineInv, TypeOK, Answer, Point
<1>7. CASE TempoMalformed
  <2>1. /\ pc = "tempo" /\ pc' = "done" /\ answer' = Error("malformed") /\ tries' = 0 /\ lastErr' = NoError
        /\ UNCHANGED <<request, spans, logs, points, lost>>
    BY <1>7 DEF TempoMalformed
  <2>2. Error("malformed") \in Answer
    BY AnswerType
  <2> QED BY <2>1, <2>2 DEF EngineInv, TypeOK, Answer, Point
<1>8. ASSUME NEW f \in Failure, TempoGivesUp(f) PROVE EngineInv'
  <2>1. /\ pc = "tempo" /\ pc' = "done" /\ tries' = tries + 1 /\ lastErr' = f
        /\ UNCHANGED <<request, spans, logs, points, lost>>
        /\ answer' = IF Mentions404(f) THEN Incident(<<>>, {"not found"}) ELSE Error("unreachable")
    BY <1>8 DEF TempoGivesUp
  <2>2. Incident(<<>>, {"not found"}) \in Answer /\ Error("unreachable") \in Answer
    BY AnswerType
  <2> QED BY <2>1, <2>2 DEF EngineInv, TypeOK, Answer, Point
<1>9. ASSUME NEW l \in LogSets, LokiAnswers(l) PROVE EngineInv'
  <2>1. /\ pc = "loki" /\ logs' = l /\ pc' = "rank" /\ tries' = 0 /\ lastErr' = NoError
        /\ UNCHANGED <<request, spans, points, answer, lost>>
    BY <1>9 DEF LokiAnswers
  <2>2. l \in Seq(Log)
    BY EngineAssumption DEF EngineAssumption
  <2> QED BY <2>1, <2>2 DEF EngineInv, TypeOK, Answer, Point
<1>10. CASE LokiLost
  BY <1>10 DEF LokiLost, EngineInv, TypeOK, Answer, Point
<1>11. CASE Rank
  <2>1. /\ pc = "rank" /\ pc' = "done" /\ answer' = Incident(RankSuspects(spans, logs), {})
        /\ UNCHANGED <<request, tries, lastErr, spans, logs, points, lost>>
    BY <1>11 DEF Rank
  <2>2. RankSuspects(spans, logs) \in Seq(Service)
    BY SuspectsType
  <2>3. Incident(RankSuspects(spans, logs), {}) \in Answer
    BY <2>2, AnswerType
  <2>4. answer'.suspects = RankSuspects(spans', logs')
    BY <2>1 DEF Incident
  <2> QED BY <2>1, <2>3, <2>4 DEF EngineInv, TypeOK, Answer, Point
<1>12. CASE Overflow
  <2>1. /\ pc = "rank" /\ pc' = "done" /\ answer' = Error("crash")
        /\ UNCHANGED <<request, tries, lastErr, spans, logs, points, lost>>
    BY <1>12 DEF Overflow
  <2>2. Error("crash") \in Answer /\ Error("crash").outcome # "incident"
    BY AnswerType DEF Error
  <2> QED BY <2>1, <2>2 DEF EngineInv, TypeOK, Answer, Point
<1>13. ASSUME NEW s \in Series, PromAnswers(s) PROVE EngineInv'
  <2>1. /\ pc = "prom" /\ points' = Points(s) /\ pc' = "detect" /\ tries' = 0 /\ lastErr' = NoError
        /\ UNCHANGED <<request, spans, logs, answer, lost>>
    BY <1>13 DEF PromAnswers
  <2>2. points' \in Seq(Point)
    BY <2>1, PointsType
  <2> QED BY <2>1, <2>2 DEF EngineInv, TypeOK, Answer, Point
<1>14. CASE PromLost
  BY <1>14 DEF PromLost, EngineInv, TypeOK, Answer, Point
<1>15. CASE Detect
  <2> DEFINE vals == Values(Own)
             hit == Own[LastHit(vals)]
  <2>1. /\ pc = "detect" /\ pc' = "done"
        /\ UNCHANGED <<request, tries, lastErr, spans, logs, points, lost>>
        /\ answer' = IF Hits(vals) = {} THEN Incident(<<>>, {"no anomaly"})
                                        ELSE [Incident(<<Queried>>, {}) EXCEPT !.peak = hit.at]
    BY <1>15 DEF Detect
  <2>2. Incident(<<>>, {"no anomaly"}) \in Answer
    BY AnswerType
  <2>3. ASSUME Hits(vals) # {} PROVE [Incident(<<Queried>>, {}) EXCEPT !.peak = hit.at] \in Answer
    <3>1. Own \in Seq(Point) /\ vals \in Seq(Int) /\ DOMAIN vals = DOMAIN Own
      BY OwnType
    <3>2. LastHit(vals) \in DOMAIN Own
      BY <2>3, <3>1, LastHitLast DEF Hits
    <3>3. hit \in Point
      <4> HIDE DEF vals
      <4> QED BY <3>1, <3>2
    <3>4. hit.at \in Nat
      BY <3>3 DEF Point
    <3>5. <<Queried>> \in Seq(Service)
      BY EngineAssumption DEF EngineAssumption
    <3>6. Incident(<<Queried>>, {}) \in Answer
      BY <3>5, AnswerType
    <3> HIDE DEF hit
    <3> QED BY <3>4, <3>6 DEF Answer
  <2> HIDE DEF vals, hit
  <2>4. answer' \in Answer
    BY <2>1, <2>2, <2>3
  <2> QED BY <2>1, <2>4 DEF EngineInv, TypeOK, Answer, Point
<1>16. CASE UNCHANGED vars
  BY <1>16 DEF vars, EngineInv, TypeOK, Answer, Point
<1> QED
  BY <1>5, <1>6, <1>7, <1>8, <1>9, <1>10, <1>11, <1>12, <1>13, <1>14, <1>15, <1>16
  DEF Next, Call, Done

\* Types hold at every step, whatever the backends answer: in particular every
\* score exists and is a natural number, the suspects are services, and a backend
\* that is waited for has a try left (backend.rs:104-135).
THEOREM Typed == Spec => []TypeOK
<1>1. EngineInv => TypeOK
  BY DEF EngineInv
<1> QED BY <1>1, InitEngine, StepEngine, PTL DEF Spec

-----------------------------------------------------------------------------
(* A span listed twice.  The graph has one node per id and sets of edges,  *)
(* so appending a span that is there changes nothing.                      *)

LEMMA AppendSpan ==
  ASSUME NEW tr \in Seq(Span), NEW sp \in Span
  PROVE  /\ Append(tr, sp) \in Seq(Span)
         /\ DOMAIN Append(tr, sp) = DOMAIN tr \cup {Len(tr) + 1}
         /\ \A j \in DOMAIN tr : j <= Len(tr) /\ Append(tr, sp)[j] = tr[j]
         /\ Append(tr, sp)[Len(tr) + 1] = sp /\ Len(tr) + 1 \notin DOMAIN tr
<1>1. Len(tr) \in Nat /\ DOMAIN tr = 1..Len(tr)
  OBVIOUS
<1>2. Append(tr, sp) \in Seq(Span) /\ Len(Append(tr, sp)) = Len(tr) + 1
  OBVIOUS
<1>3. DOMAIN Append(tr, sp) = 1..(Len(tr) + 1)
  BY <1>2
<1>4. 1..(Len(tr) + 1) = DOMAIN tr \cup {Len(tr) + 1}
  BY <1>1
<1>5. \A j \in DOMAIN tr : j <= Len(tr) /\ Append(tr, sp)[j] = tr[j]
  BY <1>1
<1>6. Append(tr, sp)[Len(tr) + 1] = sp /\ Len(tr) + 1 \notin DOMAIN tr
  BY <1>1
<1> QED BY <1>2, <1>3, <1>4, <1>5, <1>6

\* walks along the same causes are the same
LEMMA WalkSame ==
  ASSUME NEW tr, NEW tu, \A x : Cause(tu, x) = Cause(tr, x), NEW id
  PROVE  \A k \in 1..MaxDepth : Walk(tu, id)[k] = Walk(tr, id)[k]
<1> DEFINE v == Walk(tu, id)
           w == Walk(tr, id)
           Bad == {k \in 0..MaxDepth : v[k] # w[k]}
<1>1. MaxDepth \in Nat
  BY GraphAssumption DEF GraphAssumption
<1>2. v[0] = w[0] /\ \A k \in 1..MaxDepth : v[k] = Cause(tr, v[k - 1]) /\ w[k] = Cause(tr, w[k - 1])
  BY WalkSteps
<1>3. Bad = {}
  <2>1. SUFFICES ASSUME Bad # {} PROVE FALSE
    OBVIOUS
  <2> DEFINE k == Min(Bad)
  <2>2. k \in Bad /\ \A x \in Bad : k <= x
    <3>1. Bad \in SUBSET Nat
      BY <1>1
    <3> HIDE DEF Bad
    <3> QED BY <2>1, <3>1, NatMinimal
  <2>3. k \in 0..MaxDepth /\ v[k] # w[k] /\ k # 0
    BY <1>2, <2>2
  <2>4. k \in 1..MaxDepth /\ k - 1 \in 0..MaxDepth /\ k - 1 < k
    BY <1>1, <2>3
  <2>5. k - 1 \notin Bad
    <3> HIDE DEF v, w
    <3> QED BY <1>1, <2>2, <2>4
  <2>6. v[k - 1] = w[k - 1]
    BY <2>4, <2>5
  <2> HIDE DEF k, v, w
  <2> QED BY <1>2, <2>3, <2>4, <2>6
<1>4. \A k \in 1..MaxDepth : k \in 0..MaxDepth
  BY <1>1
<1> QED BY <1>3, <1>4

\* two traces with the same graph score alike
LEMMA SameGraphSameScore ==
  ASSUME NEW tr, NEW tu, Ids(tu) = Ids(tr), EmittedBy(tu) = EmittedBy(tr), ParentOf(tu) = ParentOf(tr),
         \A id \in Ids(tr) : Node(tu, id) = Node(tr, id),
         \A x : Cause(tu, x) = Cause(tr, x),
         tr \in Seq(Span), tu \in Seq(Span), NEW lg \in Seq(Log), NEW s
  PROVE  Score(tu, lg, s) = Score(tr, lg, s)
<1>1. \A t : DirectError(tu, lg, t) = DirectError(tr, lg, t)
  <2> TAKE t
  <2>1. ErrorIds(tu, t) = ErrorIds(tr, t)
    BY DEF ErrorIds
  <2>2. \A id \in ErrorIds(tr, t) : SpanWeight(Node(tu, id)) = SpanWeight(Node(tr, id))
    BY DEF ErrorIds
  <2>3. OfSpans(tu, t) = OfSpans(tr, t)
    <3>1. [id \in ErrorIds(tu, t) |-> SpanWeight(Node(tu, id))] = [id \in ErrorIds(tr, t) |-> SpanWeight(Node(tr, id))]
      BY <2>1, <2>2
    <3> QED BY <2>1, <3>1 DEF OfSpans
  <2> QED BY <2>3, DirectErrorType
<1>2. Propagated(tu, lg, s) = Propagated(tr, lg, s)
  <2>1. \A id : \A k \in 1..MaxDepth : Walk(tu, id)[k] = Walk(tr, id)[k]
    BY WalkSame
  <2>2. Hops(tu, s) = Hops(tr, s)
    <3>1. \A hop \in Ids(tr) \X (1..MaxDepth) : Walk(tu, hop[1])[hop[2]] = Walk(tr, hop[1])[hop[2]]
      BY <2>1
    <3> QED BY <3>1 DEF Hops
  <2>3. \A hop \in Hops(tr, s) : Shared(tu, lg, hop) = Shared(tr, lg, hop)
    <3> TAKE hop \in Hops(tr, s)
    <3>1. hop[1] \in Ids(tr)
      BY DEF Hops
    <3> QED BY <1>1, <3>1 DEF Shared
  <2>4. SharedOver(tu, lg, Hops(tu, s)) = SharedOver(tr, lg, Hops(tr, s))
    BY <2>2, <2>3 DEF SharedOver
  <2> QED BY <2>2, <2>4, PropagatedType
<1>3. DirectLatency(tu, s) = DirectLatency(tr, s)
  <2>1. \A id \in Ids(tr) : SelfTime(tu, id) = SelfTime(tr, id)
    <3> TAKE id \in Ids(tr)
    <3>1. ChildIds(tu, id) = ChildIds(tr, id) /\ ChildIds(tr, id) \subseteq Ids(tr)
      BY DEF ChildIds
    <3>2. [c \in ChildIds(tu, id) |-> Node(tu, c).dur] = [c \in ChildIds(tr, id) |-> Node(tr, c).dur]
      BY <3>1
    <3> QED BY <3>1, <3>2, SelfTimeType
  <2>2. SlowIds(tu, s) = SlowIds(tr, s)
    BY <2>1 DEF SlowIds, Slow
  <2>3. SelfTimes(tu, SlowIds(tu, s)) = SelfTimes(tr, SlowIds(tr, s))
    <3>1. SlowIds(tr, s) \subseteq Ids(tr)
      BY DEF SlowIds
    <3> QED BY <2>1, <2>2, <3>1 DEF SelfTimes
  <2> QED BY <2>2, <2>3, DirectLatencyType
<1> QED BY <1>1, <1>2, <1>3 DEF Score

LEMMA DuplicateSameGraph ==
  ASSUME NEW tr \in Seq(Span), NEW i \in DOMAIN tr, NEW lg \in Seq(Log), NEW s
  PROVE  Score(Append(tr, tr[i]), lg, s) = Score(tr, lg, s)
<1> DEFINE tu == Append(tr, tr[i])
           n == Len(tr) + 1
<1>1. \A j \in DOMAIN tr : tr[j] \in Span
  BY SpansTyped
<1>2. /\ tu \in Seq(Span) /\ DOMAIN tu = DOMAIN tr \cup {n} /\ n \notin DOMAIN tr
      /\ \A j \in DOMAIN tr : j < n /\ tu[j] = tr[j]
      /\ tu[n] = tr[i]
  <2>1. \A j \in DOMAIN tr : j <= Len(tr) => j < Len(tr) + 1
    BY SpansTyped
  <2> QED BY <1>1, <2>1, AppendSpan
<1>3. DOMAIN tr \subseteq Nat /\ n \in Nat
  BY SpansTyped
<1> HIDE DEF tu, n
<1>4. Ids(tu) = Ids(tr) /\ EmittedBy(tu) = EmittedBy(tr)
  BY <1>2 DEF Ids, EmittedBy
<1>5. ParentOf(tu) = ParentOf(tr)
  <2>1. \A j \in DOMAIN tu : \E k \in DOMAIN tr : tu[j] = tr[k]
    BY <1>2
  <2>2. \A k \in DOMAIN tr : k \in DOMAIN tu /\ tu[k] = tr[k]
    BY <1>2
  <2>3. ParentOf(tu) \subseteq ParentOf(tr)
    BY <2>1 DEF ParentOf
  <2>4. ParentOf(tr) \subseteq ParentOf(tu)
    BY <2>2 DEF ParentOf
  <2> QED BY <2>3, <2>4
<1>6. ASSUME NEW id \in Ids(tr) PROVE Node(tu, id) = Node(tr, id)
  <2>1. PICK k \in DOMAIN tr : /\ Node(tr, id) = tr[k] /\ tr[k].id = id
                               /\ \A j \in DOMAIN tr : tr[j].id = id => k <= j
    BY NodeIsFirst
  <2>2. PICK m \in DOMAIN tu : /\ Node(tu, id) = tu[m] /\ tu[m].id = id
                               /\ \A j \in DOMAIN tu : tu[j].id = id => m <= j
    BY <1>2, <1>4, NodeIsFirst
  <2>3. m <= k /\ k < n
    BY <1>2, <2>1, <2>2
  <2>4. m \in DOMAIN tr /\ tr[m].id = id
    BY <1>2, <1>3, <2>2, <2>3
  <2>5. m = k
    BY <1>3, <2>1, <2>3, <2>4
  <2> QED BY <1>2, <2>1, <2>2, <2>5
<1>7. ASSUME NEW x PROVE Cause(tu, x) = Cause(tr, x)
  <2>1. \A j \in CausesOf(tr, x) : j \in CausesOf(tu, x) /\ j \in DOMAIN tr
    BY <1>2 DEF CausesOf, Causing
  <2>2. \A j \in CausesOf(tu, x) : j \in CausesOf(tr, x) \/ (j = n /\ i \in CausesOf(tr, x))
    BY <1>2 DEF CausesOf, Causing
  <2>3. CASE CausesOf(tr, x) = {}
    <3>1. CausesOf(tu, x) = {}
      BY <2>2, <2>3
    <3> QED BY <1>2, <2>3, <3>1, CauseIs
  <2>4. CASE CausesOf(tr, x) # {}
    <3>1. PICK k \in CausesOf(tr, x) : Cause(tr, x) = tr[k].parent /\ \A j \in CausesOf(tr, x) : k <= j
      BY <2>4, CauseIs
    <3>2. CausesOf(tu, x) # {}
      BY <2>1, <2>4
    <3>3. PICK m \in CausesOf(tu, x) : Cause(tu, x) = tu[m].parent /\ \A j \in CausesOf(tu, x) : m <= j
      BY <1>2, <3>2, CauseIs
    <3>4. m <= k /\ k < n /\ k \in DOMAIN tr
      BY <1>2, <2>1, <3>1, <3>3
    <3>5. m \in CausesOf(tr, x) /\ m \in DOMAIN tr
      <4>1. m # n
        BY <1>3, <3>4
      <4> QED BY <2>1, <2>2, <3>3, <4>1
    <3>6. m = k
      BY <1>3, <3>1, <3>4, <3>5
    <3> QED BY <1>2, <3>1, <3>3, <3>4, <3>6
  <2> QED BY <2>3, <2>4
<1>8. Score(tu, lg, s) = Score(tr, lg, s)
  BY <1>2, <1>4, <1>5, <1>6, <1>7, SameGraphSameScore
<1> QED BY <1>8 DEF tu

\* A span the backend lists twice changes no score (graph/builder.rs:
\* 15-64: add_node keeps the first node of an id, edges are a set), in any trace, with any weights and for
\* any depth of propagation.
THEOREM DuplicatesHarmless == Spec => []DuplicatesCountOnce
<1>1. EngineInv => DuplicatesCountOnce
  <2> SUFFICES ASSUME EngineInv PROVE DuplicatesCountOnce
    OBVIOUS
  <2>1. spans \in Seq(Span) /\ logs \in Seq(Log)
    BY DEF EngineInv, TypeOK
  <2>2. \A i \in DOMAIN spans, s \in Services(spans, logs) :
          Score(Append(spans, spans[i]), logs, s) = Score(spans, logs, s)
    BY <2>1, DuplicateSameGraph
  <2> QED BY <2>2 DEF DuplicatesCountOnce
<1> QED BY <1>1, InitEngine, StepEngine, PTL DEF Spec

-----------------------------------------------------------------------------
(* Blame without errors.  A span that is blocked on a child has little time *)
(* of its own, so only slow leaves weigh anything.                         *)

LEMMA TopSuspect ==
  ASSUME NEW tr \in Seq(Span), NEW lg \in Seq(Log), NEW t \in Services(tr, lg)
  PROVE  /\ RankSuspects(tr, lg)[1] \in Services(tr, lg)
         /\ Score(tr, lg, RankSuspects(tr, lg)[1]) >= Score(tr, lg, t)
<1> DEFINE names == Services(tr, lg)
           score == [s \in names |-> Score(tr, lg, s)]
           first == Sorted(names, score)[1]
           r == RankOf(names, score, t)
<1>1. IsFiniteSet(names) /\ names \subseteq Nat /\ t \in names
  BY ServicesFinite, GraphAssumption DEF GraphAssumption
<1>2. score \in [names -> Int] /\ \A s \in names : score[s] = Score(tr, lg, s)
  BY ScoreType
<1>3. RankSuspects(tr, lg) = Sorted(names, score)
  BY DEF RankSuspects
<1>4. Cardinality(names) \in Nat
  BY <1>1, FS_CardinalityType
<1> HIDE DEF names, score
<1>5. /\ Sorted(names, score) \in [1..Cardinality(names) -> names]
      /\ Sorted(names, score)[r] = t
      /\ \A i, j \in 1..Cardinality(names) :
           i < j => Outranks(score, Sorted(names, score)[i], Sorted(names, score)[j])
  BY <1>1, <1>2, RankingSound
<1>6. r \in 1..Cardinality(names)
  BY <1>1, <1>2, RankInRange
<1> HIDE DEF r
<1>7. 1 \in 1..Cardinality(names) /\ (r = 1 \/ 1 < r)
  BY <1>4, <1>6
<1>8. first \in names
  BY <1>5, <1>7
<1>9. first = t \/ Outranks(score, first, t)
  BY <1>5, <1>6, <1>7
<1>10. score[first] >= score[t]
  <2>1. score[first] \in Int /\ score[t] \in Int
    BY <1>1, <1>2, <1>8
  <2> HIDE DEF first
  <2> QED BY <1>9, <2>1 DEF Outranks
<1> HIDE DEF first
<1>11. Score(tr, lg, first) >= Score(tr, lg, t)
  BY <1>1, <1>2, <1>8, <1>10
<1> QED BY <1>3, <1>8, <1>11 DEF names, first

\* without error spans no span causes another and nothing is passed on
LEMMA NothingToPropagate ==
  ASSUME NEW tr \in Seq(Span), NEW lg \in Seq(Log), NEW s, \A i \in DOMAIN tr : ~tr[i].error
  PROVE  Propagated(tr, lg, s) = 0
<1>1. \A x : Cause(tr, x) = NoParent
  <2>1. \A x : CausesOf(tr, x) = {}
    BY DEF CausesOf, Causing
  <2> QED BY <2>1, CauseIs
<1>2. \A id : \A k \in 1..MaxDepth : Walk(tr, id)[k] = NoParent
  BY <1>1, WalkSteps
<1>3. Hops(tr, s) = {}
  <2>1. NoParent \notin Ids(tr)
    BY IdsFinite
  <2> QED BY <1>2, <2>1 DEF Hops
<1> QED BY <1>3, PropagatedType, TotalEmpty

LEMMA NoDirectError ==
  ASSUME NEW tr \in Seq(Span), NEW lg \in Seq(Log), NEW s,
         \A i \in DOMAIN tr : ~tr[i].error, \A i \in DOMAIN lg : ~lg[i].error
  PROVE  DirectError(tr, lg, s) = 0
<1>1. ErrorIds(tr, s) = {}
  BY NodeIsFirst DEF ErrorIds
<1>2. ErrorBatches(lg, s) = {}
  BY DEF ErrorBatches, Batches
<1>3. OfSpans(tr, s) = 0 /\ OfLogs(lg, s) = 0
  BY <1>1, <1>2, TotalEmpty DEF OfSpans, OfLogs
<1> QED BY <1>3, DirectErrorType

\* the time of its own of a span whose children are known by their positions
LEMMA OwnTime ==
  ASSUME spans \in Seq(Span), UniqueIds, NEW i \in DOMAIN spans
  PROVE  /\ SelfTime(spans, spans[i].id) \in Int
         /\ Children(i) = {} => SelfTime(spans, spans[i].id) = spans[i].dur
         /\ \A c \in Children(i) : SelfTime(spans, spans[i].id) <= spans[i].dur - spans[c].dur
<1> DEFINE id == spans[i].id
           C == ChildIds(spans, id)
           f == [c \in C |-> Node(spans, c).dur]
<1>1. \A j \in DOMAIN spans : spans[j].id \in Ids(spans) /\ Node(spans, spans[j].id) = spans[j]
  BY NodeOfSpan DEF UniqueIds
<1>2. id \in Ids(spans) /\ id # NoParent
  BY <1>1, IdsFinite
<1>3. SelfTime(spans, id) \in Int /\ SelfTime(spans, id) = spans[i].dur - Total(f, C) /\ Total(f, C) \in Nat
  BY <1>1, <1>2, SelfTimeType
<1>4. spans[i].dur \in Nat /\ \A c \in DOMAIN spans : spans[c].dur \in Nat
  BY SpansTyped
<1>5. Children(i) = {} => C = {}
  BY DEF Children, ChildIds, ParentOf
<1>6. \A c \in Children(i) : spans[c].id \in C /\ f[spans[c].id] = spans[c].dur
  <2> TAKE c \in Children(i)
  <2>1. c \in DOMAIN spans /\ spans[c].parent = id
    BY DEF Children
  <2>2. spans[c].id \in C
    BY <1>1, <1>2, <2>1 DEF ChildIds, ParentOf
  <2> QED BY <1>1, <2>1, <2>2
<1>7. \A c \in C : f[c] <= Total(f, C)
  <2>1. IsFiniteSet(C) /\ C \subseteq Ids(spans)
    <3>1. C \subseteq Ids(spans)
      BY DEF ChildIds
    <3> QED BY <3>1, IdsFinite, FS_Subset
  <2>2. \A c \in C : f[c] \in Nat
    BY <2>1, NodeType
  <2> HIDE DEF f, C
  <2> QED BY <2>1, <2>2, TotalNat
<1>8. ASSUME Children(i) = {} PROVE SelfTime(spans, id) = spans[i].dur
  <2>1. Total(f, C) = 0
    BY <1>5, <1>8, TotalEmpty
  <2> QED BY <1>3, <1>4, <2>1
<1>9. ASSUME NEW c \in Children(i) PROVE SelfTime(spans, id) <= spans[i].dur - spans[c].dur
  <2>1. spans[c].dur <= Total(f, C)
    BY <1>6, <1>7
  <2>2. spans[c].dur \in Nat
    BY <1>4 DEF Children
  <2> QED BY <1>3, <1>4, <2>1, <2>2
<1> QED BY <1>3, <1>8, <1>9 DEF id

LEMMA BlameSlowLeaves ==
  ASSUME spans \in Seq(Span), logs \in Seq(Log), UniqueIds,
         \A i \in DOMAIN spans : ~spans[i].error /\ (Children(i) # {} => Blocked(i)),
         \A i \in DOMAIN logs : ~logs[i].error, NEW s
  PROVE  Score(spans, logs, s) > 0 <=> s \in {spans[i].service : i \in SlowLeaves}
<1>1. \A i \in DOMAIN spans : spans[i].id \in Ids(spans) /\ Node(spans, spans[i].id) = spans[i]
  BY NodeOfSpan DEF UniqueIds
<1>2. ASSUME NEW i \in DOMAIN spans
      PROVE  Slow(spans, spans[i].id) <=> i \in SlowLeaves
  <2>0. SlowMs \in Nat /\ spans[i].dur \in Nat
    BY SpansTyped, GraphAssumption DEF GraphAssumption
  <2>1. Slow(spans, spans[i].id) <=> SelfTime(spans, spans[i].id) > SlowMs
    BY <1>1 DEF Slow
  <2>2. CASE Children(i) = {}
    <3>1. SelfTime(spans, spans[i].id) = spans[i].dur
      BY <2>2, OwnTime
    <3> QED BY <2>1, <2>2, <3>1 DEF SlowLeaves
  <2>3. CASE Children(i) # {}
    <3>1. PICK c \in Children(i) : spans[i].dur <= spans[c].dur + SlowMs
      BY <2>3 DEF Blocked
    <3>2. spans[c].dur \in Nat
      BY SpansTyped DEF Children
    <3>3. SelfTime(spans, spans[i].id) \in Int /\ SelfTime(spans, spans[i].id) <= spans[i].dur - spans[c].dur
      BY OwnTime
    <3>4. ~(SelfTime(spans, spans[i].id) > SlowMs)
      BY <2>0, <3>1, <3>2, <3>3
    <3> QED BY <2>1, <2>3, <3>4 DEF SlowLeaves
  <2> QED BY <2>2, <2>3
<1>3. Score(spans, logs, s) = 8 * DirectLatency(spans, s) /\ DirectLatency(spans, s) \in Nat
  <2>1. DirectError(spans, logs, s) = 0 /\ Propagated(spans, logs, s) = 0
    BY NoDirectError, NothingToPropagate
  <2>2. DirectLatency(spans, s) \in Nat
    BY DirectLatencyType
  <2> QED BY <2>1, <2>2 DEF Score
<1>4. DirectLatency(spans, s) > 0 <=> SlowIds(spans, s) # {}
  <2> DEFINE S == SlowIds(spans, s)
  <2>1. IsFiniteSet(S) /\ \A id \in S : SelfTimes(spans, S)[id] \in Nat /\ SelfTimes(spans, S)[id] > 0
    BY DirectLatencyType DEF SelfTimes
  <2>2. DirectLatency(spans, s) = Total(SelfTimes(spans, S), S)
    BY DirectLatencyType
  <2> HIDE DEF S
  <2>3. Total(SelfTimes(spans, S), S) > 0 <=> \E id \in S : SelfTimes(spans, S)[id] > 0
    BY <2>1, TotalPositive
  <2>4. DirectLatency(spans, s) > 0 <=> S # {}
    BY <2>1, <2>2, <2>3
  <2> QED BY <2>4 DEF S
<1>5. SlowIds(spans, s) # {} <=> \E i \in SlowLeaves : spans[i].service = s
  <2>1. \A id \in Ids(spans) : \E i \in DOMAIN spans : spans[i].id = id
    BY DEF Ids
  <2>2. SlowLeaves \subseteq DOMAIN spans
    BY DEF SlowLeaves
  <2> QED BY <1>1, <1>2, <2>1, <2>2 DEF SlowIds
<1> QED BY <1>3, <1>4, <1>5

\* In a trace without errors the slow worker is blamed and not who waits for it
\* (scoring.rs:92-135, README.md:93-94), in any trace and with any threshold; one
\* such worker ranks first.
THEOREM WorkerBlamed == Spec => []SlowWorkerBlamed
<1>1. EngineInv => SlowWorkerBlamed
  <2> SUFFICES ASSUME EngineInv, pc = "done", answer.outcome = "incident", UniqueIds,
                      \A i \in DOMAIN spans : ~spans[i].error /\ (Children(i) # {} => Blocked(i)),
                      \A i \in DOMAIN logs : ~logs[i].error
               PROVE  LET culprits == {spans[i].service : i \in SlowLeaves} IN
                      /\ \A s \in Services(spans, logs) : Score(spans, logs, s) > 0 <=> s \in culprits
                      /\ culprits # {} => answer.suspects[1] \in culprits
    BY DEF SlowWorkerBlamed
  <2> DEFINE culprits == {spans[i].service : i \in SlowLeaves}
  <2>1. spans \in Seq(Span) /\ logs \in Seq(Log)
    BY DEF EngineInv, TypeOK
  <2>2. \A s : Score(spans, logs, s) > 0 <=> s \in culprits
    BY <2>1, BlameSlowLeaves
  <2>3. ASSUME culprits # {} PROVE answer.suspects[1] \in culprits
    <3>1. PICK t \in culprits : TRUE
      BY <2>3
    <3>2. t \in Services(spans, logs) /\ spans # <<>>
      BY DEF Services, SlowLeaves
    <3>3. answer.suspects = RankSuspects(spans, logs)
      BY <3>2 DEF EngineInv
    <3> DEFINE top == RankSuspects(spans, logs)[1]
    <3>4. top \in Services(spans, logs) /\ Score(spans, logs, top) >= Score(spans, logs, t)
      BY <2>1, <3>2, TopSuspect
    <3>5. Score(spans, logs, top) \in Nat /\ Score(spans, logs, t) \in Nat
      BY <2>1, ScoreType
    <3>6. Score(spans, logs, t) > 0
      BY <2>2
    <3> HIDE DEF top, culprits
    <3>7. top \in culprits
      BY <2>2, <3>4, <3>5, <3>6
    <3> QED BY <3>3, <3>7 DEF top
  <2> QED BY <2>2, <2>3
<1> QED BY <1>1, InitEngine, StepEngine, PTL DEF Spec

-----------------------------------------------------------------------------
(* More error evidence.  What a span gains by an error is its duration and *)
(* a base weight, and what its service can lose is self-time: a span's own *)
(* or, when the error is a new child, its parent's.                        *)

LEMMA WalkKept ==
  ASSUME NEW tr \in Seq(Span), NEW tu, \A x : Cause(tr, x) # NoParent => Cause(tu, x) = Cause(tr, x), NEW id
  PROVE  \A k \in 1..MaxDepth : Walk(tr, id)[k] # NoParent => Walk(tu, id)[k] = Walk(tr, id)[k]
<1> DEFINE v == Walk(tu, id)
           w == Walk(tr, id)
           Bad == {k \in 1..MaxDepth : w[k] # NoParent /\ v[k] # w[k]}
<1>1. MaxDepth \in Nat
  BY GraphAssumption DEF GraphAssumption
<1>2. v[0] = w[0] /\ \A k \in 1..MaxDepth : v[k] = Cause(tu, v[k - 1]) /\ w[k] = Cause(tr, w[k - 1])
  BY WalkSteps
<1>3. SUFFICES ASSUME Bad # {} PROVE FALSE
  OBVIOUS
<1> DEFINE k == Min(Bad)
<1>4. k \in Bad /\ \A x \in Bad : k <= x
  <2>1. Bad \in SUBSET Nat
    BY <1>1
  <2> HIDE DEF Bad
  <2> QED BY <1>3, <2>1, NatMinimal
<1>5. k \in 1..MaxDepth /\ w[k] # NoParent /\ v[k] # w[k]
  BY <1>4
<1>6. w[k] = Cause(tr, w[k - 1]) /\ v[k] = Cause(tu, v[k - 1])
  BY <1>2, <1>5
<1>7. w[k - 1] # NoParent
  <2>1. w[k - 1] \in Ids(tr)
    <3> HIDE DEF k, w
    <3> QED BY <1>5, <1>6, CauseIs
  <2> QED BY <2>1, IdsFinite
<1>8. v[k - 1] = w[k - 1]
  <2>1. CASE k = 1
    BY <1>2, <2>1
  <2>2. CASE k # 1
    <3>1. k - 1 \in 1..MaxDepth /\ k - 1 < k
      BY <1>1, <1>5, <2>2
    <3>2. k - 1 \notin Bad
      <4> HIDE DEF v, w
      <4> QED BY <1>1, <1>4, <3>1
    <3> QED BY <1>7, <3>1, <3>2
  <2> QED BY <2>1, <2>2
<1> HIDE DEF k, v, w
<1> QED BY <1>5, <1>6, <1>8

LEMMA PropagatedGrows ==
  ASSUME NEW tr \in Seq(Span), NEW tu \in Seq(Span), NEW lg \in Seq(Log), NEW s,
         Ids(tr) \subseteq Ids(tu),
         \A id \in Ids(tr) : Node(tu, id).service = Node(tr, id).service,
         \A x : Cause(tr, x) # NoParent => Cause(tu, x) = Cause(tr, x),
         \A t : DirectError(tr, lg, t) <= DirectError(tu, lg, t)
  PROVE  Propagated(tr, lg, s) <= Propagated(tu, lg, s)
<1> DEFINE S == Hops(tr, s)
           T == Hops(tu, s)
           f == SharedOver(tr, lg, S)
           g == SharedOver(tu, lg, T)
<1>1. S \in SUBSET T
  <2> SUFFICES ASSUME NEW hop \in S PROVE hop \in T
    OBVIOUS
  <2> DEFINE to == Walk(tr, hop[1])[hop[2]]
  <2>1. hop \in Ids(tr) \X (1..MaxDepth) /\ to \in Ids(tr) /\ Node(tr, to).service = s
    BY DEF Hops
  <2>2. Walk(tu, hop[1])[hop[2]] = to
    <3>1. to # NoParent
      BY <2>1, IdsFinite
    <3> QED BY <2>1, <3>1, WalkKept
  <2>3. hop \in Ids(tu) \X (1..MaxDepth)
    BY <2>1
  <2> HIDE DEF to
  <2> QED BY <2>1, <2>2, <2>3 DEF Hops
<1>2. \A hop \in S : Shared(tr, lg, hop) <= Shared(tu, lg, hop)
  <2> TAKE hop \in S
  <2>1. hop[1] \in Ids(tr) /\ hop[2] \in 1..MaxDepth
    BY DEF Hops
  <2>2. Node(tu, hop[1]).service = Node(tr, hop[1]).service
    BY <2>1
  <2> DEFINE c == 8 \div 2^hop[2]
             x == DirectError(tr, lg, Node(tr, hop[1]).service)
             y == DirectError(tu, lg, Node(tr, hop[1]).service)
  <2>3. c \in Nat /\ x \in Nat /\ y \in Nat /\ x <= y
    BY <2>1, HalvesType, DirectErrorType
  <2>4. Shared(tr, lg, hop) = c * x /\ Shared(tu, lg, hop) = c * y
    BY <2>2 DEF Shared
  <2> HIDE DEF c, x, y
  <2>5. c * x <= c * y
    <3>1. PICK d \in Nat : y = x + d
      <4>1. y - x \in Nat /\ y = x + (y - x)
        BY <2>3
      <4> QED BY <4>1
    <3>2. c * y = c * x + c * d /\ c * d \in Nat /\ c * x \in Nat
      BY <2>3, <3>1
    <3> QED BY <3>2
  <2> QED BY <2>4, <2>5
<1>3. IsFiniteSet(T) /\ \A hop \in T : g[hop] \in Nat /\ g[hop] = Shared(tu, lg, hop)
  <2>1. \A hop \in T : Shared(tu, lg, hop) \in Nat
    BY PropagatedType DEF Hops
  <2> QED BY <2>1, PropagatedType DEF SharedOver
<1>4. \A hop \in S : f[hop] \in Nat /\ f[hop] = Shared(tr, lg, hop)
  <2>1. \A hop \in S : Shared(tr, lg, hop) \in Nat
    BY PropagatedType DEF Hops
  <2> QED BY <2>1 DEF SharedOver
<1>5. Propagated(tr, lg, s) = Total(f, S) /\ Propagated(tu, lg, s) = Total(g, T)
  BY PropagatedType
<1> HIDE DEF f, g, S, T
<1>6. /\ \A hop \in S : f[hop] \in Int /\ f[hop] <= g[hop]
      /\ \A hop \in T : g[hop] \in Int
      /\ \A hop \in T \ S : g[hop] >= 0
  BY <1>1, <1>2, <1>3, <1>4
<1>7. Total(f, S) <= Total(g, T)
  BY <1>1, <1>3, <1>6, TotalLeq
<1> QED BY <1>5, <1>7

LEMMA OfSpansGrows ==
  ASSUME NEW tr \in Seq(Span), NEW tu \in Seq(Span), NEW s,
         ErrorIds(tr, s) \subseteq ErrorIds(tu, s),
         \A id \in ErrorIds(tr, s) : Node(tu, id).dur = Node(tr, id).dur
  PROVE  /\ OfSpans(tr, s) <= OfSpans(tu, s)
         /\ \A x \in ErrorIds(tu, s) \ ErrorIds(tr, s) :
              OfSpans(tr, s) + 1000 + Node(tu, x).dur <= OfSpans(tu, s)
<1> DEFINE S == ErrorIds(tr, s)
           T == ErrorIds(tu, s)
           f == [id \in S |-> SpanWeight(Node(tr, id))]
           g == [id \in T |-> SpanWeight(Node(tu, id))]
<1>1. IsFiniteSet(T)
  BY IdsFinite, FS_Subset DEF ErrorIds
<1>2. \A id \in T : g[id] \in Nat /\ g[id] = 1000 + Node(tu, id).dur /\ Node(tu, id).dur \in Nat
  <2>1. \A id \in T : Node(tu, id).dur \in Nat
    BY NodeType DEF ErrorIds
  <2> QED BY <2>1 DEF SpanWeight
<1>3. \A id \in S : f[id] = g[id]
  BY DEF SpanWeight
<1>4. OfSpans(tr, s) = Total(f, S) /\ OfSpans(tu, s) = Total(g, T)
  BY DEF OfSpans
<1> HIDE DEF f, g, S, T
<1>5. S \subseteq T
  BY DEF S, T
<1>6. Total(f, S) <= Total(g, T)
  <2>1. /\ \A id \in S : f[id] \in Int /\ f[id] <= g[id]
        /\ \A id \in T : g[id] \in Int
        /\ \A id \in T \ S : g[id] >= 0
    BY <1>2, <1>3, <1>5
  <2> QED BY <1>1, <1>5, <2>1, TotalLeq
<1>7. ASSUME NEW x \in T \ S PROVE Total(f, S) + 1000 + Node(tu, x).dur <= Total(g, T)
  <2>1. IsFiniteSet(T \ {x}) /\ S \in SUBSET (T \ {x})
    BY <1>1, <1>5, FS_Subset
  <2>2. /\ \A id \in S : f[id] \in Int /\ f[id] <= g[id]
        /\ \A id \in T \ {x} : g[id] \in Int
        /\ \A id \in (T \ {x}) \ S : g[id] >= 0
    BY <1>2, <1>3, <1>5
  <2>3. Total(f, S) <= Total(g, T \ {x})
    BY <2>1, <2>2, TotalLeq
  <2>4. Total(g, T) = g[x] + Total(g, T \ {x})
    <3>1. \A id \in T : g[id] \in Int
      BY <1>2
    <3> QED BY <1>1, <3>1, TotalRemove
  <2>5. Total(f, S) \in Int /\ Total(g, T \ {x}) \in Int
    <3>1. IsFiniteSet(S)
      BY <1>1, <1>5, FS_Subset
    <3> QED BY <2>1, <2>2, <3>1, TotalInt
  <2> QED BY <1>2, <2>3, <2>4, <2>5
<1> QED BY <1>4, <1>6, <1>7 DEF S, T

LEMMA LatencyLoss ==
  ASSUME NEW tr \in Seq(Span), NEW tu \in Seq(Span), NEW s, NEW p,
         \A id \in SlowIds(tr, s) \ {p} : id \in SlowIds(tu, s) /\ SelfTime(tu, id) = SelfTime(tr, id)
  PROVE  DirectLatency(tr, s)
           <= DirectLatency(tu, s) + (IF p \in SlowIds(tr, s) THEN SelfTime(tr, p) ELSE 0)
<1> DEFINE S == SlowIds(tr, s)
           T == SlowIds(tu, s)
           f == SelfTimes(tr, S)
           g == SelfTimes(tu, T)
<1>1. /\ IsFiniteSet(S) /\ IsFiniteSet(T)
      /\ \A id \in S : f[id] \in Nat /\ f[id] = SelfTime(tr, id)
      /\ \A id \in T : g[id] \in Nat /\ g[id] = SelfTime(tu, id)
      /\ DirectLatency(tr, s) = Total(f, S) /\ DirectLatency(tu, s) = Total(g, T)
  BY DirectLatencyType DEF SelfTimes
<1>2. S \ {p} \subseteq T /\ \A id \in S \ {p} : f[id] = g[id]
  BY <1>1
<1> HIDE DEF S, T, f, g
<1>3. Total(f, S \ {p}) <= Total(g, T)
  <2>1. /\ \A id \in S \ {p} : f[id] \in Int /\ f[id] <= g[id]
        /\ \A id \in T : g[id] \in Int
        /\ \A id \in T \ (S \ {p}) : g[id] >= 0
    BY <1>1, <1>2
  <2> QED BY <1>1, <1>2, <2>1, TotalLeq
<1>4. Total(f, S \ {p}) \in Int /\ Total(g, T) \in Int
  <2>1. IsFiniteSet(S \ {p})
    BY <1>1, FS_Subset
  <2> QED BY <1>1, <2>1, TotalInt
<1>5. CASE p \in S
  <2>1. Total(f, S) = f[p] + Total(f, S \ {p})
    BY <1>1, <1>5, TotalRemove
  <2>2. f[p] \in Nat /\ f[p] = SelfTime(tr, p)
    BY <1>1, <1>5
  <2>3. Total(f, S) <= Total(g, T) + SelfTime(tr, p)
    BY <1>3, <1>4, <2>1, <2>2
  <2> QED BY <1>1, <1>5, <2>3 DEF S
<1>6. CASE p \notin S
  <2>1. S \ {p} = S
    BY <1>6
  <2>2. Total(f, S) <= Total(g, T)
    BY <1>3, <2>1, Zenon
  <2>3. p \notin SlowIds(tr, s)
    BY <1>6 DEF S
  <2>4. DirectLatency(tr, s) <= DirectLatency(tu, s) /\ DirectLatency(tu, s) \in Int
    BY <1>1, <1>4, <2>2
  <2> QED BY <2>3, <2>4
<1> QED BY <1>5, <1>6

\* tu has an error of service s at x that tr has not, which costs at most the
\* self-time of p
MoreErrors(tr, tu, s, x, p) ==
  /\ Ids(tr) \subseteq Ids(tu) /\ EmittedBy(tr) \subseteq EmittedBy(tu)
  /\ \A id \in Ids(tr) : /\ Node(tu, id).service = Node(tr, id).service
                         /\ Node(tu, id).dur = Node(tr, id).dur
                         /\ Node(tr, id).error => Node(tu, id).error
  /\ \A y : Cause(tr, y) # NoParent => Cause(tu, y) = Cause(tr, y)
  /\ x \in ErrorIds(tu, s) /\ x \notin ErrorIds(tr, s)
  /\ \A id \in SlowIds(tr, s) \ {p} : id \in SlowIds(tu, s) /\ SelfTime(tu, id) = SelfTime(tr, id)
  /\ p \in SlowIds(tr, s) => SelfTime(tr, p) <= 1000 + Node(tu, x).dur

LEMMA ErrorEvidence ==
  ASSUME NEW tr \in Seq(Span), NEW tu \in Seq(Span), NEW lg \in Seq(Log), NEW s, NEW x, NEW p,
         MoreErrors(tr, tu, s, x, p)
  PROVE  Score(tu, lg, s) >= Score(tr, lg, s)
<1> USE DEF MoreErrors
<1>1. \A t : ErrorIds(tr, t) \subseteq ErrorIds(tu, t) /\ \A id \in ErrorIds(tr, t) : Node(tu, id).dur = Node(tr, id).dur
  BY DEF ErrorIds
<1>2. \A t : OfSpans(tr, t) <= OfSpans(tu, t)
  BY <1>1, OfSpansGrows
<1>3. \A t : DirectError(tr, lg, t) <= DirectError(tu, lg, t)
  <2> TAKE t
  <2>1. /\ DirectError(tr, lg, t) = OfSpans(tr, t) + OfLogs(lg, t)
        /\ DirectError(tu, lg, t) = OfSpans(tu, t) + OfLogs(lg, t)
        /\ OfSpans(tr, t) \in Nat /\ OfSpans(tu, t) \in Nat /\ OfLogs(lg, t) \in Nat
    BY DirectErrorType
  <2>2. OfSpans(tr, t) <= OfSpans(tu, t)
    BY <1>2
  <2> QED BY <2>1, <2>2
<1>4. OfSpans(tr, s) + 1000 + Node(tu, x).dur <= OfSpans(tu, s)
  BY <1>1, OfSpansGrows
<1>5. Propagated(tr, lg, s) <= Propagated(tu, lg, s)
  BY <1>3, PropagatedGrows
<1>6. DirectLatency(tr, s) <= DirectLatency(tu, s) + 1000 + Node(tu, x).dur
  <2>1. x \in Ids(tu)
    BY DEF ErrorIds
  <2>2. Node(tu, x).dur \in Nat
    BY <2>1, NodeType
  <2>3. DirectLatency(tr, s) \in Nat /\ DirectLatency(tu, s) \in Nat
    BY DirectLatencyType
  <2>4. DirectLatency(tr, s) <= DirectLatency(tu, s) + (IF p \in SlowIds(tr, s) THEN SelfTime(tr, p) ELSE 0)
    BY LatencyLoss
  <2>5. p \in SlowIds(tr, s) => SelfTime(tr, p) \in Nat
    BY DirectLatencyType
  <2> QED BY <2>2, <2>3, <2>4, <2>5
<1>7. /\ DirectError(tr, lg, s) = OfSpans(tr, s) + OfLogs(lg, s)
      /\ DirectError(tu, lg, s) = OfSpans(tu, s) + OfLogs(lg, s)
      /\ OfSpans(tr, s) \in Nat /\ OfSpans(tu, s) \in Nat /\ OfLogs(lg, s) \in Nat
      /\ Propagated(tr, lg, s) \in Nat /\ Propagated(tu, lg, s) \in Nat
      /\ DirectLatency(tr, s) \in Nat /\ DirectLatency(tu, s) \in Nat
  BY DirectErrorType, PropagatedType, DirectLatencyType
<1>8. Node(tu, x).dur \in Nat
  BY NodeType DEF ErrorIds
<1>9. DirectError(tr, lg, s) + 1000 + Node(tu, x).dur <= DirectError(tu, lg, s)
  BY <1>4, <1>7, <1>8, SMTT(30)
<1>10. DirectError(tr, lg, s) \in Nat /\ DirectError(tu, lg, s) \in Nat
  BY DirectErrorType
<1> DEFINE e == DirectError(tr, lg, s)
           f == DirectError(tu, lg, s)
           q == Propagated(tr, lg, s)
           r == Propagated(tu, lg, s)
           a == DirectLatency(tr, s)
           b == DirectLatency(tu, s)
           d == Node(tu, x).dur
<1>11. /\ e \in Nat /\ f \in Nat /\ q \in Nat /\ r \in Nat /\ a \in Nat /\ b \in Nat /\ d \in Nat
       /\ e + 1000 + d <= f /\ q <= r /\ a <= b + 1000 + d
  BY <1>5, <1>6, <1>7, <1>8, <1>9, <1>10
<1>12. Score(tr, lg, s) = 8 * e + q + 8 * a /\ Score(tu, lg, s) = 8 * f + r + 8 * b
  BY DEF Score
<1> HIDE DEF e, f, q, r, a, b, d
<1> QED BY <1>11, <1>12

LEMMA SelfTimeSame ==
  ASSUME NEW tr \in Seq(Span), NEW tu \in Seq(Span), NEW id \in Ids(tr), id \in Ids(tu),
         ChildIds(tu, id) = ChildIds(tr, id), Node(tu, id).dur = Node(tr, id).dur,
         \A c \in ChildIds(tr, id) : Node(tu, c).dur = Node(tr, c).dur
  PROVE  SelfTime(tu, id) = SelfTime(tr, id)
<1>1. [c \in ChildIds(tu, id) |-> Node(tu, c).dur] = [c \in ChildIds(tr, id) |-> Node(tr, c).dur]
  OBVIOUS
<1> QED BY <1>1, SelfTimeType

LEMMA ErrorTurned ==
  ASSUME NEW tr \in Seq(Span), NEW lg \in Seq(Log),
         \A j, k \in DOMAIN tr : tr[j].id = tr[k].id => j = k, NEW i \in DOMAIN tr
  PROVE  Score([tr EXCEPT ![i].error = TRUE], lg, tr[i].service) >= Score(tr, lg, tr[i].service)
<1> DEFINE tu == [tr EXCEPT ![i].error = TRUE]
           s == tr[i].service
           x == tr[i].id
<1>1. DOMAIN tr = 1..Len(tr) /\ Len(tr) \in Nat /\ \A j \in DOMAIN tr : tr[j] \in Span
  BY SpansTyped
<1>2. tu[i] = [tr[i] EXCEPT !.error = TRUE] /\ \A j \in DOMAIN tr : j # i => tu[j] = tr[j]
  OBVIOUS
<1>3. /\ tu[i] \in Span /\ tu[i].error = TRUE /\ tu[i].id = tr[i].id /\ tu[i].parent = tr[i].parent
      /\ tu[i].service = tr[i].service /\ tu[i].dur = tr[i].dur
  <2> HIDE DEF tu
  <2>1. \A sp \in Span : LET sq == [sp EXCEPT !.error = TRUE] IN
          /\ sq \in Span /\ sq.error = TRUE /\ sq.id = sp.id /\ sq.parent = sp.parent
          /\ sq.service = sp.service /\ sq.dur = sp.dur
    BY DEF Span
  <2> QED BY <1>1, <1>2, <2>1
<1>4. tu \in Seq(Span) /\ DOMAIN tu = DOMAIN tr
  <2>1. DOMAIN tu = DOMAIN tr
    OBVIOUS
  <2>2. \A j \in DOMAIN tr : tu[j] \in Span
    <3> HIDE DEF tu
    <3> QED BY <1>1, <1>2, <1>3
  <2>3. tu \in [1..Len(tr) -> Span]
    <3>1. tu = [j \in DOMAIN tr |-> tu[j]]
      OBVIOUS
    <3> HIDE DEF tu
    <3> QED BY <1>1, <2>2, <3>1
  <2> HIDE DEF tu
  <2> QED BY <1>1, <2>1, <2>3
<1> HIDE DEF tu
<1>5. \A j \in DOMAIN tr : /\ tu[j].id = tr[j].id /\ tu[j].parent = tr[j].parent /\ tu[j].dur = tr[j].dur
                           /\ tu[j].service = tr[j].service /\ (tr[j].error => tu[j].error)
                           /\ (j # i => tu[j].error = tr[j].error)
  BY <1>2, <1>3
<1>6. \A j, k \in DOMAIN tu : tu[j].id = tu[k].id => j = k
  BY <1>4, <1>5
<1>7. Ids(tu) = Ids(tr) /\ EmittedBy(tu) = EmittedBy(tr)
  <2>1. Ids(tu) = Ids(tr)
    BY <1>4, <1>5 DEF Ids
  <2>2. \A j \in DOMAIN tr : <<tu[j].id, tu[j].service>> = <<tr[j].id, tr[j].service>>
    BY <1>5
  <2>3. EmittedBy(tu) \subseteq EmittedBy(tr)
    <3>1. ASSUME NEW e \in EmittedBy(tu) PROVE e \in EmittedBy(tr)
      <4>1. PICK j \in DOMAIN tu : e = <<tu[j].id, tu[j].service>>
        BY DEF EmittedBy
      <4>2. j \in DOMAIN tr /\ e = <<tr[j].id, tr[j].service>>
        BY <1>4, <2>2, <4>1
      <4> QED BY <4>2 DEF EmittedBy
    <3> QED BY <3>1
  <2>4. EmittedBy(tr) \subseteq EmittedBy(tu)
    <3>1. ASSUME NEW e \in EmittedBy(tr) PROVE e \in EmittedBy(tu)
      <4>1. PICK j \in DOMAIN tr : e = <<tr[j].id, tr[j].service>>
        BY DEF EmittedBy
      <4>2. j \in DOMAIN tu /\ e = <<tu[j].id, tu[j].service>>
        BY <1>4, <2>2, <4>1
      <4> QED BY <4>2 DEF EmittedBy
    <3> QED BY <3>1
  <2> QED BY <2>1, <2>3, <2>4
<1>8. ParentOf(tu) = ParentOf(tr)
  <2>1. {j \in DOMAIN tu : tu[j].parent # NoParent} = {j \in DOMAIN tr : tr[j].parent # NoParent}
    BY <1>4, <1>5
  <2> QED BY <1>5, <2>1 DEF ParentOf
<1>9. \A id \in Ids(tr) : \E j \in DOMAIN tr : tr[j].id = id /\ Node(tr, id) = tr[j] /\ Node(tu, id) = tu[j]
  <2> TAKE id \in Ids(tr)
  <2>1. PICK j \in DOMAIN tr : tr[j].id = id
    BY DEF Ids
  <2>2. Node(tr, tr[j].id) = tr[j]
    BY NodeOfSpan
  <2>3. Node(tu, tu[j].id) = tu[j]
    BY <1>4, <1>6, NodeOfSpan
  <2> QED BY <1>5, <2>1, <2>2, <2>3
<1>10. \A id \in Ids(tr) : /\ Node(tu, id).service = Node(tr, id).service /\ Node(tu, id).dur = Node(tr, id).dur
                           /\ Node(tr, id).error => Node(tu, id).error
                           /\ id # x => Node(tu, id).error = Node(tr, id).error
  BY <1>5, <1>9
<1>11. ASSUME NEW y, Cause(tr, y) # NoParent PROVE Cause(tu, y) = Cause(tr, y)
  <2>1. PICK k \in CausesOf(tr, y) : Cause(tr, y) = tr[k].parent
    BY <1>11, CauseIs
  <2>2. k \in CausesOf(tu, y)
    BY <1>4, <1>5 DEF CausesOf, Causing
  <2>3. PICK m \in CausesOf(tu, y) : Cause(tu, y) = tu[m].parent
    BY <1>4, <2>2, CauseIs
  <2>4. m = k
    BY <1>6, <2>2, <2>3 DEF CausesOf, Causing
  <2>5. k \in DOMAIN tr
    BY DEF CausesOf, Causing
  <2> QED BY <1>5, <2>1, <2>3, <2>4, <2>5
<1>12. \A id \in Ids(tr) : SelfTime(tu, id) = SelfTime(tr, id)
  <2> TAKE id \in Ids(tr)
  <2>1. ChildIds(tu, id) = ChildIds(tr, id) /\ ChildIds(tr, id) \subseteq Ids(tr)
    BY <1>7, <1>8 DEF ChildIds
  <2> QED BY <1>4, <1>7, <1>10, <2>1, SelfTimeSame
<1>13. CASE tr[i].error
  <2>1. [tr[i] EXCEPT !.error = TRUE] = tr[i]
    <3>1. \A sp \in Span : sp.error = TRUE => [sp EXCEPT !.error = TRUE] = sp
      BY DEF Span
    <3>2. tr[i].error = TRUE
      BY <1>13, SpansTyped
    <3> QED BY <1>1, <3>1, <3>2
  <2>2. \A j \in DOMAIN tr : tu[j] = tr[j]
    BY <1>2, <2>1
  <2>3. tu = tr
    BY <1>1, <1>4, <2>2
  <2>4. Score(tr, lg, s) \in Nat
    BY ScoreType
  <2>5. Score(tu, lg, s) >= Score(tr, lg, s)
    BY <2>3, <2>4
  <2> QED BY <2>5 DEF tu
<1>14. CASE ~tr[i].error
  <2>1. x \in Ids(tr) /\ Node(tr, x) = tr[i] /\ Node(tu, x) = tu[i]
    <3>1. Node(tu, tu[i].id) = tu[i]
      BY <1>4, <1>6, NodeOfSpan
    <3> QED BY <1>3, <3>1, NodeOfSpan
  <2>2. x \in ErrorIds(tu, s) \ ErrorIds(tr, s)
    <3>1. <<x, s>> \in EmittedBy(tr)
      BY DEF EmittedBy
    <3> QED BY <1>3, <1>7, <1>14, <2>1, <3>1 DEF ErrorIds
  <2>3. \A id \in SlowIds(tr, s) \ {x} : id \in SlowIds(tu, s) /\ SelfTime(tu, id) = SelfTime(tr, id)
    BY <1>7, <1>10, <1>12 DEF SlowIds, Slow
  <2>4. SelfTime(tr, x) <= 1000 + Node(tu, x).dur
    <3>1. SelfTime(tr, x) \in Int /\ SelfTime(tr, x) <= tr[i].dur /\ tr[i].dur \in Nat
      BY <2>1, SelfTimeType, SpansTyped
    <3>2. Node(tu, x).dur = tr[i].dur
      BY <1>3, <2>1
    <3> HIDE DEF x
    <3> QED BY <3>1, <3>2
  <2> HIDE DEF x, s
  <2>5. MoreErrors(tr, tu, s, x, x)
    BY <1>7, <1>10, <1>11, <2>2, <2>3, <2>4 DEF MoreErrors
  <2>6. Score(tu, lg, s) >= Score(tr, lg, s)
    BY <1>4, <2>5, ErrorEvidence
  <2> QED BY <2>6 DEF tu, s
<1> QED BY <1>13, <1>14

\* a new error span under p, a span of the trace or none
LEMMA ErrorAdded ==
  ASSUME SlowMs <= 1000,
         NEW tr \in Seq(Span), NEW lg \in Seq(Log), NEW s \in Service,
         \A j, k \in DOMAIN tr : tr[j].id = tr[k].id => j = k,
         NEW x \in SpanId, \A i \in DOMAIN tr : x \notin {tr[i].id, tr[i].parent},
         NEW p \in Ids(tr) \cup {NoParent}, NEW new,
         new = [id |-> x, parent |-> p, service |-> s, error |-> TRUE,
                dur |-> IF p \in Ids(tr) /\ Node(tr, p).dur > SlowMs
                          THEN Node(tr, p).dur - SlowMs ELSE SlowMs]
  PROVE  Score(Append(tr, new), lg, s) >= Score(tr, lg, s)
<1> DEFINE tu == Append(tr, new)
           n == Len(tr) + 1
<1>1. SlowMs \in Nat /\ NoParent \notin SpanId
  BY GraphAssumption DEF GraphAssumption
<1>2. p \in Ids(tr) => Node(tr, p).dur \in Nat
  BY NodeType
<1>3. /\ new.id = x /\ new.parent = p /\ new.service = s /\ new.error = TRUE /\ new.dur \in Nat
      /\ new.dur = IF p \in Ids(tr) /\ Node(tr, p).dur > SlowMs THEN Node(tr, p).dur - SlowMs ELSE SlowMs
  BY <1>1, <1>2
<1>4. new \in Span
  <2>1. p \in SpanId \cup {NoParent}
    BY IdsFinite
  <2>2. (IF p \in Ids(tr) /\ Node(tr, p).dur > SlowMs THEN Node(tr, p).dur - SlowMs ELSE SlowMs) \in Nat
    BY <1>1, <1>2
  <2> QED BY <2>1, <2>2 DEF Span
<1>5. /\ tu \in Seq(Span) /\ DOMAIN tu = DOMAIN tr \cup {n} /\ n \notin DOMAIN tr
      /\ \A j \in DOMAIN tr : tu[j] = tr[j]
      /\ tu[n] = new
  BY <1>4, AppendSpan
<1> HIDE DEF tu, n
<1>6. x \notin Ids(tr) /\ x # NoParent /\ x # p
  BY <1>1 DEF Ids
<1>7. \A j, k \in DOMAIN tu : tu[j].id = tu[k].id => j = k
  BY <1>3, <1>5
<1>8. Ids(tu) = Ids(tr) \cup {x}
  BY <1>3, <1>5 DEF Ids
<1>9. EmittedBy(tr) \subseteq EmittedBy(tu) /\ <<x, s>> \in EmittedBy(tu)
  BY <1>3, <1>5 DEF EmittedBy
<1>10. \A id \in Ids(tr) : Node(tu, id) = Node(tr, id)
  <2> TAKE id \in Ids(tr)
  <2>1. PICK j \in DOMAIN tr : tr[j].id = id
    BY DEF Ids
  <2>2. Node(tr, tr[j].id) = tr[j]
    BY NodeOfSpan
  <2>3. j \in DOMAIN tu /\ Node(tu, tu[j].id) = tu[j]
    BY <1>5, <1>7, NodeOfSpan
  <2> QED BY <1>5, <2>1, <2>2, <2>3
<1>11. Node(tu, x) = new
  <2>1. Node(tu, tu[n].id) = tu[n]
    BY <1>5, <1>7, NodeOfSpan, SMTT(30)
  <2> QED BY <1>3, <1>5, <2>1
<1>12. ASSUME NEW y, Cause(tr, y) # NoParent PROVE Cause(tu, y) = Cause(tr, y)
  <2>1. PICK k \in CausesOf(tr, y) : Cause(tr, y) = tr[k].parent
    BY <1>12, CauseIs
  <2>2. k \in CausesOf(tu, y) /\ k \in DOMAIN tr
    BY <1>5 DEF CausesOf, Causing
  <2>3. PICK m \in CausesOf(tu, y) : Cause(tu, y) = tu[m].parent
    BY <1>5, <2>2, CauseIs
  <2>4. m = k
    BY <1>7, <2>2, <2>3 DEF CausesOf, Causing
  <2> QED BY <1>5, <2>1, <2>2, <2>3, <2>4
<1>13. \A id, c : <<id, c>> \in ParentOf(tu) <=> <<id, c>> \in ParentOf(tr) \/ (p # NoParent /\ id = p /\ c = x)
  <2>1. \A t, id, c : <<id, c>> \in ParentOf(t) <=>
                        \E j \in DOMAIN t : t[j].parent # NoParent /\ id = t[j].parent /\ c = t[j].id
    BY DEF ParentOf
  <2>2. \A id, c : <<id, c>> \in ParentOf(tr) => <<id, c>> \in ParentOf(tu)
    BY <1>5, <2>1
  <2>3. p # NoParent => <<p, x>> \in ParentOf(tu)
    BY <1>3, <1>5, <2>1
  <2>4. ASSUME NEW id, NEW c, <<id, c>> \in ParentOf(tu)
        PROVE  <<id, c>> \in ParentOf(tr) \/ (p # NoParent /\ id = p /\ c = x)
    <3>1. PICK j \in DOMAIN tu : tu[j].parent # NoParent /\ id = tu[j].parent /\ c = tu[j].id
      BY <2>1, <2>4
    <3>2. CASE j = n
      BY <1>3, <1>5, <3>1, <3>2
    <3>3. CASE j # n
      BY <1>5, <2>1, <3>1, <3>3
    <3> QED BY <3>2, <3>3
  <2> QED BY <2>2, <2>3, <2>4
<1>14. \A id : <<id, x>> \notin ParentOf(tr)
  BY DEF ParentOf
<1>15. \A id \in Ids(tr) \ {p} : SelfTime(tu, id) = SelfTime(tr, id)
  <2> TAKE id \in Ids(tr) \ {p}
  <2>1. ChildIds(tu, id) = ChildIds(tr, id) /\ ChildIds(tr, id) \subseteq Ids(tr)
    BY <1>8, <1>13, <1>14 DEF ChildIds
  <2> QED BY <1>5, <1>8, <1>10, <2>1, SelfTimeSame
<1>16. x \in ErrorIds(tu, s) \ ErrorIds(tr, s)
  BY <1>3, <1>6, <1>8, <1>9, <1>11 DEF ErrorIds
<1>17. \A id \in SlowIds(tr, s) \ {p} : id \in SlowIds(tu, s) /\ SelfTime(tu, id) = SelfTime(tr, id)
  BY <1>8, <1>10, <1>15 DEF SlowIds, Slow
<1>18. ASSUME p \in SlowIds(tr, s) PROVE SelfTime(tr, p) <= 1000 + Node(tu, x).dur
  <2>1. p \in Ids(tr) /\ SelfTime(tr, p) > SlowMs
    BY <1>18 DEF SlowIds, Slow
  <2>2. SelfTime(tr, p) \in Int /\ SelfTime(tr, p) <= Node(tr, p).dur
    BY <2>1, SelfTimeType
  <2>3. new.dur = Node(tr, p).dur - SlowMs
    BY <1>1, <1>2, <1>3, <2>1, <2>2
  <2> QED BY <1>1, <1>2, <1>11, <2>1, <2>2, <2>3
<1>19. \A id \in Ids(tr) : /\ Node(tu, id).service = Node(tr, id).service
                           /\ Node(tu, id).dur = Node(tr, id).dur
                           /\ Node(tr, id).error => Node(tu, id).error
  BY <1>10
<1>20. Ids(tr) \subseteq Ids(tu)
  BY <1>8
<1>21. MoreErrors(tr, tu, s, x, p)
  BY <1>9, <1>12, <1>16, <1>17, <1>18, <1>19, <1>20 DEF MoreErrors
<1>22. Score(tu, lg, s) >= Score(tr, lg, s)
  BY <1>5, <1>21, ErrorEvidence
<1> QED BY <1>22 DEF tu

(* The spans ranked are a trace that Tempo answered.                       *)
TraceInv == pc \in {"loki", "rank"} => spans \in Traces

LEMMA StepTrace == TraceInv /\ [Next]_vars => TraceInv'
<1> SUFFICES ASSUME TraceInv, [Next]_vars PROVE TraceInv'
  OBVIOUS
<1> USE DEF TraceInv
<1>1. ASSUME NEW t \in Traces, TempoAnswers(t) PROVE TraceInv'
  BY <1>1 DEF TempoAnswers
<1>2. ASSUME \/ \E f \in Failure : Retry(f)
             \/ \E l \in LogSets : LokiAnswers(l)
             \/ LokiLost
      PROVE  TraceInv'
  BY <1>2 DEF Retry, LokiAnswers, LokiLost
<1>3. ASSUME \/ TempoMalformed
             \/ \E f \in Failure : TempoGivesUp(f)
             \/ \E s \in Series : PromAnswers(s)
             \/ PromLost
             \/ Rank
             \/ Overflow
             \/ Detect
      PROVE  TraceInv'
  <2>1. pc' \in {"done", "detect"}
    BY <1>3 DEF TempoMalformed, TempoGivesUp, PromAnswers, PromLost, Rank, Overflow, Detect
  <2> QED BY <2>1
<1>4. CASE UNCHANGED vars
  BY <1>4 DEF vars
<1> QED BY <1>1, <1>2, <1>3, <1>4 DEF Next, Call, Done

\* More error evidence never lowers a service's score (design-spec.md:782), in any
\* trace, as long as the slow-span threshold is no more than the base weight of an
\* error span, as it is by default (config.rs:29, scoring.rs:48): a service may lose up
\* to that threshold of its self-time to the new span besides what the span brings.
THEOREM ErrorsOnlyRaise == SlowMs <= 1000 => (Spec => []ErrorsNeverLower)
<1> SUFFICES ASSUME SlowMs <= 1000 PROVE Spec => []ErrorsNeverLower
  OBVIOUS
<1>1. EngineInv /\ TraceInv => ErrorsNeverLower
  <2> SUFFICES ASSUME EngineInv, TraceInv, pc = "rank", UniqueIds PROVE ErrorsNeverLower
    BY DEF ErrorsNeverLower
  <2>1. spans \in Seq(Span) /\ logs \in Seq(Log)
    BY DEF EngineInv, TypeOK
  <2>2. \A i, j \in DOMAIN spans : spans[i].id = spans[j].id => i = j
    BY DEF UniqueIds
  <2>3. \A i \in DOMAIN spans :
          Score([spans EXCEPT ![i].error = TRUE], logs, spans[i].service) >= Score(spans, logs, spans[i].service)
    BY <2>1, <2>2, ErrorTurned
  <2>4. NewId \in SpanId /\ \A i \in DOMAIN spans : NewId \notin {spans[i].id, spans[i].parent}
    BY FreshIdAssumption DEF TraceInv, NewId
  <2> DEFINE New(p, s) == [id |-> NewId, parent |-> p, service |-> s, error |-> TRUE,
                           dur |-> IF p \in Ids(spans) /\ Node(spans, p).dur > SlowMs
                                     THEN Node(spans, p).dur - SlowMs ELSE SlowMs]
  <2>5. \A s \in Services(spans, logs) : \A p \in Ids(spans) \cup {NoParent} :
          Score(Append(spans, New(p, s)), logs, s) >= Score(spans, logs, s)
    <3> TAKE s \in Services(spans, logs)
    <3> TAKE p \in Ids(spans) \cup {NoParent}
    <3>1. s \in Service
      BY <2>1, ServicesFinite
    <3> QED BY <2>1, <2>2, <2>4, <3>1, ErrorAdded
  <2> QED BY <2>3, <2>5 DEF ErrorsNeverLower
<1>2. Init => TraceInv
  BY DEF Init, TraceInv
<1> QED BY <1>1, <1>2, InitEngine, StepEngine, StepTrace, PTL DEF Spec

-----------------------------------------------------------------------------
(* Blame along chains.  Where span ids are distinct, the chains of error    *)
(* spans that end in a service are the walks that lead to it, so what the   *)
(* walks bring is what the chains pass on.                                  *)

Distinct(tr) == \A i, j \in DOMAIN tr : tr[i].id = tr[j].id => i = j

ChainsOf(tr, k) ==
  {c \in [0..k -> DOMAIN tr] :
     \A j \in 0..(k - 1) : tr[c[j]].error /\ tr[c[j]].parent = tr[c[j + 1]].id}

\* the cause of an error span with a parent is that parent
LEMMA CauseOfSpan ==
  ASSUME NEW tr \in Seq(Span), Distinct(tr), NEW i \in DOMAIN tr, tr[i].error, tr[i].parent # NoParent
  PROVE  Cause(tr, tr[i].id) = tr[i].parent
<1>1. i \in CausesOf(tr, tr[i].id)
  BY DEF CausesOf, Causing
<1>2. PICK j \in CausesOf(tr, tr[i].id) : Cause(tr, tr[i].id) = tr[j].parent
  BY <1>1, CauseIs
<1>3. j \in DOMAIN tr /\ tr[j].id = tr[i].id
  BY <1>2 DEF CausesOf, Causing
<1> QED BY <1>2, <1>3 DEF Distinct

LEMMA ChainIsWalk ==
  ASSUME NEW tr \in Seq(Span), Distinct(tr), NEW k \in 1..MaxDepth, NEW c \in ChainsOf(tr, k)
  PROVE  \A j \in 0..k : Walk(tr, tr[c[0]].id)[j] = tr[c[j]].id
<1> DEFINE w == Walk(tr, tr[c[0]].id)
           Bad == {j \in 0..k : w[j] # tr[c[j]].id}
<1>1. MaxDepth \in Nat /\ k \in Nat /\ k <= MaxDepth
  BY GraphAssumption DEF GraphAssumption
<1>2. w[0] = tr[c[0]].id /\ \A j \in 1..MaxDepth : w[j] = Cause(tr, w[j - 1])
  BY WalkSteps
<1>3. /\ \A j \in 0..k : c[j] \in DOMAIN tr
      /\ \A j \in 0..(k - 1) : tr[c[j]].error /\ tr[c[j]].parent = tr[c[j + 1]].id
  BY DEF ChainsOf
<1>4. SUFFICES ASSUME Bad # {} PROVE FALSE
  OBVIOUS
<1> DEFINE m == Min(Bad)
<1>5. m \in Bad /\ \A x \in Bad : m <= x
  <2>1. Bad \in SUBSET Nat
    BY <1>1
  <2> HIDE DEF Bad
  <2> QED BY <1>4, <2>1, NatMinimal
<1>6. m \in 0..k /\ w[m] # tr[c[m]].id /\ m # 0
  BY <1>2, <1>5
<1>7. m - 1 \in 0..k /\ m - 1 \in 0..(k - 1) /\ m \in 1..MaxDepth /\ m - 1 < m /\ (m - 1) + 1 = m
  <2>1. m \in 0..k /\ m # 0
    BY <1>6
  <2> HIDE DEF m
  <2> QED BY <1>1, <2>1
<1>8. w[m - 1] = tr[c[m - 1]].id
  <2>1. m - 1 \notin Bad
    <3>1. \A y \in Bad : m <= y
      BY <1>5
    <3>2. m \in Nat
      <4> HIDE DEF m
      <4> QED BY <1>1, <1>6
    <3> HIDE DEF w, Bad, m
    <3> QED BY <1>7, <3>1, <3>2
  <2> QED BY <1>7, <2>1
<1> HIDE DEF m, w
<1>9. tr[c[m - 1]].error /\ tr[c[m - 1]].parent = tr[c[m]].id /\ c[m - 1] \in DOMAIN tr /\ c[m] \in DOMAIN tr
  BY <1>3, <1>6, <1>7
<1>10. tr[c[m]].id # NoParent
  BY <1>9, SpansTyped, GraphAssumption DEF GraphAssumption
<1>11. w[m] = Cause(tr, tr[c[m - 1]].id)
  BY <1>2, <1>7, <1>8
<1>12. Cause(tr, tr[c[m - 1]].id) = tr[c[m - 1]].parent
  BY <1>9, <1>10, CauseOfSpan
<1> QED BY <1>6, <1>9, <1>11, <1>12

\* a walk that is in the trace was in it all the way
LEMMA WalkStays ==
  ASSUME NEW tr \in Seq(Span), NEW id, NEW k \in 1..MaxDepth, Walk(tr, id)[k] \in Ids(tr)
  PROVE  \A j \in 0..k : Walk(tr, id)[j] \in Ids(tr)
<1> DEFINE w == Walk(tr, id)
<1>1. MaxDepth \in Nat /\ k \in Nat /\ k <= MaxDepth
  BY GraphAssumption DEF GraphAssumption
<1>2. \A j \in 1..MaxDepth : w[j] = Cause(tr, w[j - 1])
  BY WalkSteps
<1>3. \A j \in 1..MaxDepth : w[j] \in Ids(tr) => w[j - 1] \in Ids(tr)
  BY <1>2, CauseIs, IdsFinite
<1>4. SUFFICES ASSUME NEW j \in 0..k, w[j] \notin Ids(tr) PROVE FALSE
  OBVIOUS
<1> DEFINE In == {m \in j..k : w[m] \in Ids(tr)}
           m == Min(In)
<1>5. m \in In /\ \A x \in In : m <= x
  <2>1. In \in SUBSET Nat /\ k \in In
    BY <1>1
  <2> HIDE DEF In
  <2> QED BY <2>1, NatMinimal
<1>6. m \in j..k /\ w[m] \in Ids(tr) /\ m # j
  BY <1>4, <1>5
<1>7. m \in 1..MaxDepth /\ m - 1 \in j..k /\ m - 1 < m
  BY <1>1, <1>4, <1>6
<1>8. w[m - 1] \notin Ids(tr)
  <2>1. m - 1 \notin In
    <3> HIDE DEF w
    <3> QED BY <1>1, <1>5, <1>7
  <2> QED BY <1>7, <2>1
<1> HIDE DEF m, w
<1> QED BY <1>3, <1>6, <1>7, <1>8

LEMMA WalkIsChain ==
  ASSUME NEW tr \in Seq(Span), Distinct(tr), NEW id, NEW k \in 1..MaxDepth, Walk(tr, id)[k] \in Ids(tr)
  PROVE  \E c \in ChainsOf(tr, k) : tr[c[0]].id = id /\ tr[c[k]].id = Walk(tr, id)[k]
<1> DEFINE w == Walk(tr, id)
           c == [j \in 0..k |-> CHOOSE i \in DOMAIN tr : tr[i].id = w[j]]
<1>1. MaxDepth \in Nat /\ k \in Nat /\ k <= MaxDepth
  BY GraphAssumption DEF GraphAssumption
<1>2. w[0] = id /\ \A j \in 1..MaxDepth : w[j] = Cause(tr, w[j - 1])
  BY WalkSteps
<1>3. \A j \in 0..k : w[j] \in Ids(tr)
  BY WalkStays
<1>4. \A j \in 0..k : c[j] \in DOMAIN tr /\ tr[c[j]].id = w[j]
  BY <1>3 DEF Ids
<1>5. c \in [0..k -> DOMAIN tr]
  BY <1>4
<1>6. ASSUME NEW j \in 0..(k - 1) PROVE tr[c[j]].error /\ tr[c[j]].parent = tr[c[j + 1]].id
  <2>1. j \in 0..k /\ j + 1 \in 0..k /\ j + 1 \in 1..MaxDepth /\ (j + 1) - 1 = j
    BY <1>1
  <2>2. w[j + 1] = Cause(tr, w[j]) /\ w[j + 1] # NoParent
    BY <1>2, <1>3, <2>1, IdsFinite
  <2>3. PICK i \in CausesOf(tr, w[j]) : Cause(tr, w[j]) = tr[i].parent
    BY <2>2, CauseIs
  <2>4. i \in DOMAIN tr /\ tr[i].error /\ tr[i].id = w[j]
    BY <2>3 DEF CausesOf, Causing
  <2> HIDE DEF c, w
  <2>5. i = c[j]
    BY <1>4, <2>1, <2>4 DEF Distinct
  <2> QED BY <1>4, <2>1, <2>2, <2>3, <2>4, <2>5
<1>7. c \in ChainsOf(tr, k)
  <2> HIDE DEF c
  <2> QED BY <1>5, <1>6 DEF ChainsOf
<1>8. tr[c[0]].id = id /\ tr[c[k]].id = w[k]
  <2> HIDE DEF c, w
  <2> QED BY <1>1, <1>2, <1>4
<1> QED BY <1>7, <1>8

\* what the chains into a service pass on is what its hops bring
LEMMA ChainsBring ==
  ASSUME NEW tr \in Seq(Span), NEW lg \in Seq(Log), Distinct(tr), NEW s, NEW k \in 1..MaxDepth,
         NEW To, \A c : c \in To <=> c \in ChainsOf(tr, k) /\ tr[c[k]].service = s,
         NEW carried, \A c \in To : carried[c] = DirectError(tr, lg, tr[c[0]].service)
  PROVE  Total(SharedOver(tr, lg, Hops(tr, s)), {hop \in Hops(tr, s) : hop[2] = k})
           = (8 \div 2^k) * Total(carried, To)
<1> DEFINE H == Hops(tr, s)
           g == SharedOver(tr, lg, H)
           Here == {hop \in H : hop[2] = k}
           h == [c \in To |-> <<tr[c[0]].id, k>>]
           f == [c \in To |-> (8 \div 2^k) * carried[c]]
<1>1. k \in Nat /\ 0 \in 0..k /\ k \in 0..k
  BY GraphAssumption DEF GraphAssumption
<1>2. ASSUME NEW c \in To
      PROVE  /\ c[0] \in DOMAIN tr /\ c[k] \in DOMAIN tr
             /\ \A j \in 0..k : Walk(tr, tr[c[0]].id)[j] = tr[c[j]].id /\ c[j] \in DOMAIN tr
             /\ tr[c[k]].service = s
  <2>1. c \in ChainsOf(tr, k) /\ tr[c[k]].service = s
    OBVIOUS
  <2>2. \A j \in 0..k : c[j] \in DOMAIN tr
    BY <2>1 DEF ChainsOf
  <2>3. \A j \in 0..k : Walk(tr, tr[c[0]].id)[j] = tr[c[j]].id
    BY <2>1, ChainIsWalk
  <2> QED BY <1>1, <2>1, <2>2, <2>3
<1>3. ASSUME NEW c \in To PROVE h[c] \in Here /\ Node(tr, h[c][1]) = tr[c[0]]
  <2>1. /\ tr[c[0]].id \in Ids(tr) /\ Node(tr, tr[c[0]].id) = tr[c[0]]
        /\ tr[c[k]].id \in Ids(tr) /\ Node(tr, tr[c[k]].id) = tr[c[k]]
    <3>1. \A i \in DOMAIN tr : tr[i].id \in Ids(tr) /\ Node(tr, tr[i].id) = tr[i]
      BY NodeOfSpan DEF Distinct
    <3>2. c[0] \in DOMAIN tr /\ c[k] \in DOMAIN tr
      BY <1>2
    <3> QED BY <3>1, <3>2
  <2>2. h[c] = <<tr[c[0]].id, k>> /\ h[c] \in Ids(tr) \X (1..MaxDepth)
    BY <2>1
  <2>3. Walk(tr, h[c][1])[h[c][2]] = tr[c[k]].id
    BY <1>1, <1>2, <2>2
  <2>4. h[c] \in H
    BY <1>2, <2>1, <2>2, <2>3 DEF Hops
  <2> QED BY <2>1, <2>2, <2>4
<1>4. ASSUME NEW b \in To, NEW c \in To, h[b] = h[c] PROVE b = c
  <2>1. tr[b[0]].id = tr[c[0]].id
    BY <1>4
  <2>2. ASSUME NEW j \in 0..k PROVE b[j] = c[j]
    <3>1. Walk(tr, tr[b[0]].id)[j] = tr[b[j]].id /\ b[j] \in DOMAIN tr
      BY <1>2
    <3>2. Walk(tr, tr[c[0]].id)[j] = tr[c[j]].id /\ c[j] \in DOMAIN tr
      BY <1>2
    <3>3. tr[b[j]].id = tr[c[j]].id
      BY <2>1, <3>1, <3>2, Zenon
    <3> QED BY <3>1, <3>2, <3>3, Zenon DEF Distinct
  <2>3. b \in [0..k -> DOMAIN tr] /\ c \in [0..k -> DOMAIN tr]
    BY DEF ChainsOf
  <2> QED BY <2>2, <2>3
<1>5. ASSUME NEW hop \in Here PROVE \E c \in To : hop = h[c]
  <2>1. /\ hop \in Ids(tr) \X (1..MaxDepth) /\ hop[2] = k
        /\ Walk(tr, hop[1])[k] \in Ids(tr) /\ Node(tr, Walk(tr, hop[1])[k]).service = s
    BY DEF Hops
  <2>2. PICK c \in ChainsOf(tr, k) : tr[c[0]].id = hop[1] /\ tr[c[k]].id = Walk(tr, hop[1])[k]
    BY <2>1, WalkIsChain
  <2>3. c[k] \in DOMAIN tr
    BY <1>1, <2>2 DEF ChainsOf
  <2>4. Node(tr, tr[c[k]].id) = tr[c[k]]
    BY <2>3, NodeOfSpan DEF Distinct
  <2>5. c \in To
    BY <2>1, <2>2, <2>4
  <2>6. hop = <<tr[c[0]].id, k>>
    BY <2>1, <2>2
  <2> QED BY <2>5, <2>6
<1>6. Here = {h[c] : c \in To}
  <2>1. Here \subseteq {h[c] : c \in To}
    BY <1>5
  <2>2. {h[c] : c \in To} \subseteq Here
    BY <1>3
  <2> QED BY <2>1, <2>2
<1>7. IsFiniteSet(To)
  <2>1. IsFiniteSet(Here)
    BY PropagatedType, FS_Subset
  <2>2. h \in Injection(To, Here)
    <3>1. h \in [To -> Here]
      BY <1>3
    <3> HIDE DEF h, Here
    <3> QED BY <1>4, <3>1 DEF Injection, IsInjective
  <2> HIDE DEF h, Here
  <2> QED BY <2>1, <2>2, FS_Injection
<1>8. ASSUME NEW c \in To PROVE carried[c] \in Int /\ f[c] = (8 \div 2^k) * carried[c] /\ f[c] \in Int
  <2>1. carried[c] \in Nat
    BY DirectErrorType
  <2>2. 8 \div 2^k \in Nat
    BY HalvesType
  <2>3. \A x, y \in Nat : x * y \in Int
    OBVIOUS
  <2>4. f[c] = (8 \div 2^k) * carried[c]
    OBVIOUS
  <2> QED BY <2>1, <2>2, <2>3, <2>4
<1>9. ASSUME NEW c \in To PROVE g[h[c]] = f[c]
  <2>1. h[c] \in H /\ h[c] = <<tr[c[0]].id, k>> /\ Node(tr, h[c][1]) = tr[c[0]]
    BY <1>3
  <2>2. g[h[c]] = (8 \div 2^h[c][2]) * DirectError(tr, lg, Node(tr, h[c][1]).service)
    BY <2>1 DEF SharedOver, Shared
  <2>3. h[c][2] = k
    BY <2>1
  <2>4. carried[c] = DirectError(tr, lg, Node(tr, h[c][1]).service)
    BY <2>1
  <2> HIDE DEF h, g
  <2> QED BY <2>2, <2>3, <2>4
<1>10. 8 \div 2^k \in Int
  BY HalvesType
<1>11. Total(f, To) = (8 \div 2^k) * Total(carried, To)
  <2> DEFINE e == 8 \div 2^k
  <2>1. e \in Int /\ \A c \in To : carried[c] \in Int /\ f[c] = e * carried[c]
    BY <1>8, <1>10
  <2> HIDE DEF e, f
  <2>2. Total(f, To) = e * Total(carried, To)
    BY <1>7, <2>1, TotalScale, Zenon
  <2> QED BY <2>2 DEF e
<1>12. Total(g, {h[c] : c \in To}) = Total(f, To)
  <2>1. \A c \in To : f[c] \in Int /\ g[h[c]] = f[c]
    BY <1>8, <1>9, Zenon
  <2>2. \A b, c \in To : h[b] = h[c] => b = c
    BY <1>4, Zenon
  <2> HIDE DEF f, g, h
  <2> QED BY <1>7, <2>1, <2>2, TotalRenamed
<1> QED BY <1>6, <1>11, <1>12

\* A service gets the direct error weight of another, halved at every edge, for each
\* chain of at most MaxDepth CausedBy edges from a span of the other to a span of
\* its own (design-spec.md:192), and nothing else: the walks of
\* ranking/propagation.rs find each chain once, in any trace with distinct ids.
THEOREM ChainsPropagate == Spec => []PropagatesAlongChains
<1>1. EngineInv => PropagatesAlongChains
  <2> SUFFICES ASSUME EngineInv, pc = "rank", UniqueIds, NEW s \in Services(spans, logs)
               PROVE  LET To(k)   == {c \in Chains(k) : spans[c[k]].service = s}
                          Over(k) == (8 \div 2^k)
                            * Total([c \in To(k) |-> DirectError(spans, logs, spans[c[0]].service)], To(k))
                      IN Propagated(spans, logs, s) = Total([k \in 1..MaxDepth |-> Over(k)], 1..MaxDepth)
    BY DEF PropagatesAlongChains
  <2> DEFINE To(k)   == {c \in Chains(k) : spans[c[k]].service = s}
             Over(k) == (8 \div 2^k)
                          * Total([c \in To(k) |-> DirectError(spans, logs, spans[c[0]].service)], To(k))
             H == Hops(spans, s)
             f == SharedOver(spans, logs, H)
             key == [hop \in H |-> hop[2]]
             at == [k \in 1..MaxDepth |-> {hop \in H : hop[2] = k}]
             part == [k \in 1..MaxDepth |-> Over(k)]
  <2>1. spans \in Seq(Span) /\ logs \in Seq(Log) /\ Distinct(spans)
    BY DEF EngineInv, TypeOK, UniqueIds, Distinct
  <2>2. ASSUME NEW k \in 1..MaxDepth PROVE part[k] = Total(f, at[k])
    <3>1. To(k) = {c \in ChainsOf(spans, k) : spans[c[k]].service = s}
      BY DEF Chains, ChainsOf
    <3>2. at[k] = {hop \in H : hop[2] = k}
      OBVIOUS
    <3>3. part[k] = Over(k)
      OBVIOUS
    <3>4. Total(f, {hop \in H : hop[2] = k}) = Over(k)
      <4> DEFINE T == To(k)
                 carried == [c \in T |-> DirectError(spans, logs, spans[c[0]].service)]
      <4> HIDE DEF T
      <4>1. \A c : c \in T <=> c \in ChainsOf(spans, k) /\ spans[c[k]].service = s
        BY <3>1 DEF T
      <4>2. \A c \in T : carried[c] = DirectError(spans, logs, spans[c[0]].service)
        OBVIOUS
      <4> HIDE DEF carried
      <4>3. Total(SharedOver(spans, logs, Hops(spans, s)), {hop \in Hops(spans, s) : hop[2] = k})
              = (8 \div 2^k) * Total(carried, T)
        BY <2>1, <4>1, <4>2, ChainsBring
      <4> QED BY <4>3, Zenon DEF carried, T, H
    <3> QED BY <3>2, <3>3, <3>4
  <2>3. IsFiniteSet(H) /\ \A hop \in H : f[hop] \in Int /\ key[hop] \in 1..MaxDepth
    <3>1. H \subseteq Ids(spans) \X (1..MaxDepth)
      BY DEF Hops
    <3>2. \A hop \in H : f[hop] = Shared(spans, logs, hop) /\ key[hop] = hop[2]
      BY DEF SharedOver
    <3> QED BY <2>1, <3>1, <3>2, PropagatedType
  <2>4. IsFiniteSet(1..MaxDepth)
    BY FS_Interval, GraphAssumption DEF GraphAssumption
  <2>5. Total(f, H) = Total(part, 1..MaxDepth)
    <3> DEFINE D == 1..MaxDepth
    <3>1. \A k \in D : part[k] = Total(f, at[k])
      BY <2>2, Zenon
    <3>2. \A k \in D : \A hop : hop \in at[k] <=> hop \in H /\ key[hop] = k
      OBVIOUS
    <3>3. IsFiniteSet(D) /\ \A hop \in H : f[hop] \in Int /\ key[hop] \in D
      BY <2>3, <2>4
    <3> HIDE DEF H, f, key, part, at, D
    <3>4. Total(f, H) = Total(part, D)
      BY <2>3, <3>1, <3>2, <3>3, TotalByKey
    <3> QED BY <3>4 DEF D
  <2>6. Propagated(spans, logs, s) = Total(f, H)
    BY <2>1, PropagatedType
  <2> QED BY <2>5, <2>6, Zenon
<1> QED BY <1>1, InitEngine, StepEngine, PTL DEF Spec

-----------------------------------------------------------------------------
(* The span tree.  A path of level k starts at a root and goes on from each *)
(* span to one that has it as parent, k times.                              *)

\* the paths that go on from those of a level
Extended(tr, paths, k) ==
  UNION {{Append(p, i) : i \in {j \in DOMAIN tr : tr[j].parent = tr[p[k]].id}} : p \in paths}

Levels(f, tr, n) ==
  f = [k \in 0..n |-> IF k = 0 THEN {<<i>> : i \in Roots(tr)} ELSE Extended(tr, f[k - 1], k)]

LEMMA LevelsExist ==
  ASSUME NEW tr, NEW n \in Nat
  PROVE  \E f : Levels(f, tr, n)
<1> DEFINE Bad == {m \in Nat : ~ \E f : Levels(f, tr, m)}
<1>1. SUFFICES ASSUME Bad # {} PROVE FALSE
  OBVIOUS
<1> DEFINE m == Min(Bad)
           first == {<<i>> : i \in Roots(tr)}
<1>2. m \in Bad /\ \A k \in Bad : m <= k
  <2>1. Bad \in SUBSET Nat
    OBVIOUS
  <2> HIDE DEF Bad
  <2> QED BY <1>1, <2>1, NatMinimal
<1>3. m \in Nat /\ ~ \E f : Levels(f, tr, m)
  BY <1>2
<1>4. \A k \in Nat : k < m => \E f : Levels(f, tr, k)
  BY <1>2, <1>3
<1>5. \A f, k : Levels(f, tr, k)
        <=> f = [j \in 0..k |-> IF j = 0 THEN first ELSE Extended(tr, f[j - 1], j)]
  BY Zenon DEF Levels
<1> HIDE DEF Bad, m, first
<1>6. CASE m = 0
  <2> DEFINE h == [j \in 0..m |-> first]
  <2>1. h = [j \in 0..m |-> IF j = 0 THEN first ELSE Extended(tr, h[j - 1], j)]
    BY <1>6
  <2>2. Levels(h, tr, m)
    <3> HIDE DEF h
    <3> QED BY <1>5, <2>1, Zenon
  <2> QED BY <1>3, <2>2
<1>7. CASE m > 0
  <2>1. PICK g : Levels(g, tr, m - 1)
    BY <1>3, <1>4, <1>7
  <2> DEFINE h == [j \in 0..m |-> IF j = 0 THEN first ELSE Extended(tr, g[j - 1], j)]
  <2>2. \A j \in 0..(m - 1) : g[j] = IF j = 0 THEN first ELSE Extended(tr, g[j - 1], j)
    <3>1. g = [j \in 0..(m - 1) |-> IF j = 0 THEN first ELSE Extended(tr, g[j - 1], j)]
      BY <1>5, <2>1, Zenon
    <3> QED BY <3>1, Zenon
  <2>3. \A j \in 0..m : j # 0 => j - 1 \in 0..(m - 1) /\ j - 1 \in 0..m
    BY <1>3
  <2>4. \A j \in 0..m : j # 0 => h[j - 1] = g[j - 1]
    BY <2>2, <2>3, Zenon
  <2>5. h = [j \in 0..m |-> IF j = 0 THEN first ELSE Extended(tr, h[j - 1], j)]
    BY <2>4
  <2>6. Levels(h, tr, m)
    <3> HIDE DEF h
    <3> QED BY <1>5, <2>5, Zenon
  <2> QED BY <1>3, <2>6
<1> QED BY <1>3, <1>6, <1>7

LEMMA LevelSteps ==
  ASSUME NEW tr \in Seq(Span)
  PROVE  /\ TreeLevel(tr)[0] = {<<i>> : i \in Roots(tr)}
         /\ \A k \in 1..Len(tr) : TreeLevel(tr)[k] = Extended(tr, TreeLevel(tr)[k - 1], k)
<1> DEFINE n == Len(tr)
           first == {<<i>> : i \in Roots(tr)}
<1>1. n \in Nat
  OBVIOUS
<1> HIDE DEF n
<1>2. \E f : Levels(f, tr, n)
  BY <1>1, LevelsExist
<1>3. Levels(TreeLevel(tr), tr, n)
  BY <1>2, Zenon DEF TreeLevel, Levels, Extended, n
<1>4. \A k \in 0..n : TreeLevel(tr)[k] = IF k = 0 THEN first ELSE Extended(tr, TreeLevel(tr)[k - 1], k)
  BY <1>3, Zenon DEF Levels
<1>5. 0 \in 0..n /\ \A k \in 1..n : k \in 0..n /\ k # 0
  BY <1>1
<1>6. TreeLevel(tr)[0] = first /\ \A k \in 1..n : TreeLevel(tr)[k] = Extended(tr, TreeLevel(tr)[k - 1], k)
  BY <1>4, <1>5, Zenon
<1> QED BY <1>6 DEF n

IsPath(tr, p, k) ==
  /\ p \in [1..(k + 1) -> DOMAIN tr]
  /\ tr[p[1]].parent = NoParent
  /\ \A j \in 1..k : tr[p[j + 1]].parent = tr[p[j]].id

LEMMA LevelPaths ==
  ASSUME NEW tr \in Seq(Span)
  PROVE  \A k \in 0..Len(tr) : \A p \in TreeLevel(tr)[k] : IsPath(tr, p, k)
<1> DEFINE L == TreeLevel(tr)
           Bad == {k \in 0..Len(tr) : \E p \in L[k] : ~IsPath(tr, p, k)}
<1>1. Len(tr) \in Nat
  OBVIOUS
<1>2. L[0] = {<<i>> : i \in Roots(tr)} /\ \A k \in 1..Len(tr) : L[k] = Extended(tr, L[k - 1], k)
  BY LevelSteps
<1>3. SUFFICES ASSUME Bad # {} PROVE FALSE
  OBVIOUS
<1> DEFINE k == Min(Bad)
<1>4. k \in Bad /\ \A x \in Bad : k <= x
  <2>1. Bad \in SUBSET Nat
    BY <1>1
  <2> HIDE DEF Bad
  <2> QED BY <1>3, <2>1, NatMinimal
<1>5. k \in 0..Len(tr) /\ \E p \in L[k] : ~IsPath(tr, p, k)
  BY <1>4
<1>6. ASSUME NEW j \in 0..Len(tr), j < k PROVE \A p \in L[j] : IsPath(tr, p, j)
  <2>1. k \in Nat /\ \A x \in Bad : k <= x
    <3>1. k \in 0..Len(tr)
      BY <1>5
    <3> HIDE DEF k, Bad
    <3> QED BY <1>1, <1>4, <3>1
  <2> HIDE DEF k, L
  <2>2. ~(k <= j)
    BY <1>6, <2>1
  <2>3. j \notin Bad
    BY <2>1, <2>2, Zenon
  <2> QED BY <2>3
<1> HIDE DEF k, L, Bad
<1>7. PICK p \in L[k] : ~IsPath(tr, p, k)
  BY <1>5
<1>8. CASE k = 0
  <2>1. PICK i \in Roots(tr) : p = <<i>>
    BY <1>2, <1>7, <1>8
  <2>2. i \in DOMAIN tr /\ tr[i].parent = NoParent
    BY DEF Roots
  <2>3. p \in [1..1 -> DOMAIN tr] /\ p[1] = i
    BY <2>1, <2>2
  <2>4. IsPath(tr, p, 0)
    BY <2>2, <2>3 DEF IsPath
  <2> QED BY <1>7, <1>8, <2>4
<1>9. CASE k > 0
  <2>1. k \in Nat /\ k \in 1..Len(tr) /\ k - 1 \in 0..Len(tr) /\ k - 1 < k
    BY <1>1, <1>5, <1>9
  <2>2. PICK q \in L[k - 1], i \in DOMAIN tr : tr[i].parent = tr[q[k]].id /\ p = Append(q, i)
    <3>1. L[k] = Extended(tr, L[k - 1], k)
      BY <1>2, <2>1
    <3>2. \A r \in Extended(tr, L[k - 1], k) :
            \E q \in L[k - 1], i \in DOMAIN tr : tr[i].parent = tr[q[k]].id /\ r = Append(q, i)
      BY Zenon DEF Extended
    <3> QED BY <1>7, <3>1, <3>2, Zenon
  <2>3. IsPath(tr, q, k - 1)
    BY <1>6, <2>1
  <2>4. q \in [1..k -> DOMAIN tr] /\ tr[q[1]].parent = NoParent
        /\ \A j \in 1..(k - 1) : tr[q[j + 1]].parent = tr[q[j]].id
    BY <2>1, <2>3 DEF IsPath
  <2>5. q \in Seq(DOMAIN tr) /\ Len(q) = k
    BY <2>1, <2>4
  <2>6. /\ p \in [1..(k + 1) -> DOMAIN tr] /\ p[k + 1] = i
        /\ \A j \in 1..k : p[j] = q[j]
    <3>1. p \in Seq(DOMAIN tr) /\ Len(p) = k + 1
      BY <2>2, <2>5
    <3>2. p \in [1..(k + 1) -> DOMAIN tr]
      BY <3>1
    <3>3. p[k + 1] = i /\ \A j \in 1..k : p[j] = q[j]
      BY <2>1, <2>2, <2>5
    <3> QED BY <3>2, <3>3
  <2>7. ASSUME NEW j \in 1..k PROVE tr[p[j + 1]].parent = tr[p[j]].id
    <3>1. CASE j = k
      BY <2>2, <2>6, <3>1
    <3>2. CASE j # k
      <4>1. j \in 1..(k - 1) /\ j + 1 \in 1..k
        BY <2>1, <3>2
      <4> QED BY <2>4, <2>6, <4>1
    <3> QED BY <3>1, <3>2
  <2>8. tr[p[1]].parent = NoParent
    BY <2>1, <2>4, <2>6, <1>9
  <2>9. IsPath(tr, p, k)
    BY <2>6, <2>7, <2>8 DEF IsPath
  <2> QED BY <1>7, <2>9
<1> QED BY <1>1, <1>5, <1>8, <1>9

\* a path is determined by the span it ends in
LEMMA PathsBackTogether ==
  ASSUME NEW tr \in Seq(Span), Distinct(tr), NEW k \in Nat, NEW m \in Nat,
         NEW p, IsPath(tr, p, k), NEW q, IsPath(tr, q, m), p[k + 1] = q[m + 1]
  PROVE  \A j \in Nat : j <= k /\ j <= m => p[k + 1 - j] = q[m + 1 - j]
<1> DEFINE Bad == {j \in Nat : j <= k /\ j <= m /\ p[k + 1 - j] # q[m + 1 - j]}
<1>1. /\ p \in [1..(k + 1) -> DOMAIN tr] /\ q \in [1..(m + 1) -> DOMAIN tr]
      /\ \A j \in 1..k : tr[p[j + 1]].parent = tr[p[j]].id
      /\ \A j \in 1..m : tr[q[j + 1]].parent = tr[q[j]].id
  BY DEF IsPath
<1>2. SUFFICES ASSUME Bad # {} PROVE FALSE
  OBVIOUS
<1> DEFINE j == Min(Bad)
<1>3. j \in Bad /\ \A x \in Bad : j <= x
  <2>1. Bad \in SUBSET Nat
    OBVIOUS
  <2> HIDE DEF Bad
  <2> QED BY <1>2, <2>1, NatMinimal
<1>4. j \in Nat /\ j <= k /\ j <= m /\ p[k + 1 - j] # q[m + 1 - j]
  BY <1>3
<1>5. j # 0
  <2> HIDE DEF j
  <2>1. j = 0 => k + 1 - j = k + 1 /\ m + 1 - j = m + 1
    OBVIOUS
  <2> QED BY <1>4, <2>1
<1>6. /\ j - 1 \in Nat /\ j - 1 < j /\ j - 1 <= k /\ j - 1 <= m
      /\ k + 1 - (j - 1) = (k + 1 - j) + 1 /\ m + 1 - (j - 1) = (m + 1 - j) + 1
      /\ k + 1 - j \in 1..k /\ m + 1 - j \in 1..m
  <2> HIDE DEF j
  <2> QED BY <1>4, <1>5
<1>7. p[(k + 1 - j) + 1] = q[(m + 1 - j) + 1]
  <2>1. j - 1 \notin Bad
    <3>1. \A x \in Bad : j <= x
      BY <1>3
    <3> HIDE DEF Bad, j
    <3> QED BY <1>4, <1>6, <3>1
  <2>2. p[k + 1 - (j - 1)] = q[m + 1 - (j - 1)]
    BY <1>6, <2>1
  <2> HIDE DEF j
  <2> QED BY <1>6, <2>2
<1> DEFINE a == k + 1 - j
           b == m + 1 - j
<1> HIDE DEF j, a, b
<1>8. a \in 1..k /\ b \in 1..m /\ a \in 1..(k + 1) /\ b \in 1..(m + 1) /\ p[a + 1] = q[b + 1] /\ p[a] # q[b]
  BY <1>4, <1>6, <1>7 DEF a, b
<1>9. tr[p[a]].id = tr[q[b]].id /\ p[a] \in DOMAIN tr /\ q[b] \in DOMAIN tr
  <2>1. tr[p[a + 1]].parent = tr[p[a]].id /\ tr[q[b + 1]].parent = tr[q[b]].id
    BY <1>1, <1>8
  <2> QED BY <1>1, <1>8, <2>1
<1> QED BY <1>8, <1>9 DEF Distinct

LEMMA PathsNoLonger ==
  ASSUME NEW tr \in Seq(Span), Distinct(tr), NEW k \in Nat, NEW m \in Nat,
         NEW p, IsPath(tr, p, k), NEW q, IsPath(tr, q, m), p[k + 1] = q[m + 1]
  PROVE  m <= k
<1> SUFFICES ASSUME k < m PROVE FALSE
  OBVIOUS
<1>1. p[k + 1 - k] = q[m + 1 - k]
  <2>1. \A j \in Nat : j <= k /\ j <= m => p[k + 1 - j] = q[m + 1 - j]
    BY PathsBackTogether
  <2> QED BY <2>1
<1>2. k + 1 - k = 1 /\ m - k \in 1..m /\ m + 1 - k = (m - k) + 1 /\ m - k \in 1..(m + 1)
  OBVIOUS
<1> DEFINE a == m - k
<1> HIDE DEF a
<1>3. p[1] = q[a + 1] /\ a \in 1..m /\ a \in 1..(m + 1)
  BY <1>1, <1>2 DEF a
<1>4. tr[p[1]].parent = NoParent /\ tr[q[a + 1]].parent = tr[q[a]].id /\ q[a] \in DOMAIN tr
  BY <1>3 DEF IsPath
<1>5. tr[q[a]].id \in SpanId
  BY <1>4, SpansTyped
<1> QED BY <1>3, <1>4, <1>5, GraphAssumption DEF GraphAssumption

LEMMA OnePathToASpan ==
  ASSUME NEW tr \in Seq(Span), Distinct(tr), NEW k \in Nat, NEW m \in Nat,
         NEW p, IsPath(tr, p, k), NEW q, IsPath(tr, q, m), p[k + 1] = q[m + 1]
  PROVE  k = m /\ p = q
<1>1. k = m
  <2>1. m <= k /\ k <= m
    BY PathsNoLonger
  <2> QED BY <2>1
<1>2. ASSUME NEW i \in 1..(k + 1) PROVE p[i] = q[i]
  <2> DEFINE j == k + 1 - i
  <2>1. j \in Nat /\ j <= k /\ j <= m /\ k + 1 - j = i /\ m + 1 - j = i
    BY <1>1
  <2>2. \A x \in Nat : x <= k /\ x <= m => p[k + 1 - x] = q[m + 1 - x]
    BY PathsBackTogether
  <2> HIDE DEF j
  <2>3. p[k + 1 - j] = q[m + 1 - j]
    BY <2>1, <2>2
  <2> QED BY <2>1, <2>3
<1>3. p \in [1..(k + 1) -> DOMAIN tr] /\ q \in [1..(k + 1) -> DOMAIN tr]
  BY <1>1 DEF IsPath
<1> QED BY <1>1, <1>2, <1>3

\* no span stands twice on a path
LEMMA PathDistinct ==
  ASSUME NEW tr \in Seq(Span), Distinct(tr), NEW k \in Nat, NEW p, IsPath(tr, p, k)
  PROVE  \A a, b \in 1..(k + 1) : p[a] = p[b] => a = b
<1> DEFINE Up(a) == [j \in 1..((a - 1) + 1) |-> p[j]]
<1>1. ASSUME NEW a \in 1..(k + 1)
      PROVE  a - 1 \in Nat /\ IsPath(tr, Up(a), a - 1) /\ Up(a)[(a - 1) + 1] = p[a]
  <2>1. a \in Nat /\ a - 1 \in Nat /\ (a - 1) + 1 = a /\ 1 \in 1..a /\ a \in 1..a
    OBVIOUS
  <2>2. Up(a) = [j \in 1..a |-> p[j]]
    BY <2>1
  <2>3. Up(a) \in [1..a -> DOMAIN tr] /\ \A j \in 1..a : Up(a)[j] = p[j]
    BY <2>2 DEF IsPath
  <2>4. ASSUME NEW j \in 1..(a - 1) PROVE tr[Up(a)[j + 1]].parent = tr[Up(a)[j]].id
    <3>1. j \in 1..a /\ j + 1 \in 1..a /\ j \in 1..k
      OBVIOUS
    <3>2. tr[p[j + 1]].parent = tr[p[j]].id
      BY <3>1 DEF IsPath
    <3> HIDE DEF Up
    <3> QED BY <2>3, <3>1, <3>2
  <2>5. tr[Up(a)[1]].parent = NoParent
    <3> HIDE DEF Up
    <3> QED BY <2>1, <2>3 DEF IsPath
  <2> HIDE DEF Up
  <2> QED BY <2>1, <2>3, <2>4, <2>5 DEF IsPath
<1>2. ASSUME NEW a \in 1..(k + 1), NEW b \in 1..(k + 1), p[a] = p[b] PROVE a = b
  <2>1. a - 1 = b - 1
    <3> HIDE DEF Up
    <3> QED BY <1>1, <1>2, OnePathToASpan
  <2> QED BY <2>1
<1> QED BY <1>2

LEMMA TreeIsFinite ==
  ASSUME NEW tr \in Seq(Span), Distinct(tr)
  PROVE  TreeLevel(tr)[Len(tr)] = {}
<1> DEFINE n == Len(tr)
<1>1. n \in Nat /\ DOMAIN tr = 1..n /\ IsFiniteSet(DOMAIN tr) /\ Cardinality(DOMAIN tr) = n
  BY SpansTyped
<1>2. SUFFICES ASSUME NEW p \in TreeLevel(tr)[n] PROVE FALSE
  OBVIOUS
<1>3. IsPath(tr, p, n)
  BY <1>1, LevelPaths
<1> HIDE DEF n
<1>4. p \in [1..(n + 1) -> DOMAIN tr]
  BY <1>3 DEF IsPath
<1>5. IsFiniteSet(1..(n + 1)) /\ Cardinality(1..(n + 1)) = n + 1
  BY <1>1, FS_Interval
<1>6. Cardinality(DOMAIN tr) < Cardinality(1..(n + 1))
  BY <1>1, <1>5
<1>7. \E a, b \in 1..(n + 1) : a # b /\ p[a] = p[b]
  <2> DEFINE S == 1..(n + 1)
             D == DOMAIN tr
  <2>1. IsFiniteSet(S) /\ IsFiniteSet(D) /\ Cardinality(D) < Cardinality(S) /\ p \in [S -> D]
    BY <1>1, <1>4, <1>5, <1>6
  <2> HIDE DEF S, D
  <2>2. \E a, b \in S : a # b /\ p[a] = p[b]
    BY <2>1, FS_PigeonHole
  <2> QED BY <2>2 DEF S
<1> QED BY <1>1, <1>3, <1>7, PathDistinct

\* where every parent comes before its children, each span is on some path
LEMMA TreeIsComplete ==
  ASSUME NEW tr \in Seq(Span), Distinct(tr),
         \A i \in DOMAIN tr : tr[i].parent = NoParent \/ \E j \in 1..(i - 1) : tr[j].id = tr[i].parent
  PROVE  \A i \in DOMAIN tr :
           \E k \in 0..(Len(tr) - 1) : \E p \in TreeLevel(tr)[k] : p[k + 1] = i
<1> DEFINE n == Len(tr)
           L == TreeLevel(tr)
           Reached(i) == \E k \in 0..(n - 1) : \E p \in L[k] : p[k + 1] = i
           Bad == {i \in DOMAIN tr : ~Reached(i)}
<1>1. n \in Nat /\ DOMAIN tr = 1..n
  OBVIOUS
<1>2. L[0] = {<<i>> : i \in Roots(tr)} /\ \A k \in 1..n : L[k] = Extended(tr, L[k - 1], k)
  BY LevelSteps
<1>3. L[n] = {}
  BY TreeIsFinite
<1>4. \A k \in 0..n : \A p \in L[k] : IsPath(tr, p, k)
  BY LevelPaths
<1>5. SUFFICES ASSUME Bad # {} PROVE FALSE
  OBVIOUS
<1> DEFINE i == Min(Bad)
<1>6. i \in Bad /\ \A x \in Bad : i <= x
  <2>1. Bad \in SUBSET Nat
    BY <1>1
  <2> HIDE DEF Bad
  <2> QED BY <1>5, <2>1, NatMinimal
<1>7. i \in DOMAIN tr /\ ~Reached(i)
  BY <1>6
<1>8. ASSUME NEW j \in DOMAIN tr, j < i PROVE Reached(j)
  <2>1. \A x \in Bad : i <= x
    BY <1>6
  <2>2. i \in Nat /\ j \in Nat
    <3> HIDE DEF i
    <3> QED BY <1>1, <1>7
  <2>3. j \notin Bad
    <3> HIDE DEF Bad, i
    <3> QED BY <1>8, <2>1, <2>2
  <2> QED BY <2>3
<1> HIDE DEF i, Bad, L, n
<1>9. CASE tr[i].parent = NoParent
  <2>1. <<i>> \in L[0]
    BY <1>2, <1>7, <1>9 DEF Roots
  <2>2. 0 \in 0..(n - 1) /\ <<i>>[0 + 1] = i
    BY <1>1, <1>7
  <2> QED BY <1>7, <2>1, <2>2
<1>10. CASE tr[i].parent # NoParent
  <2>1. PICK j \in 1..(i - 1) : tr[j].id = tr[i].parent
    BY <1>7, <1>10
  <2>2. j \in DOMAIN tr /\ j < i
    BY <1>1, <1>7
  <2>3. PICK k \in 0..(n - 1) : \E p \in L[k] : p[k + 1] = j
    BY <1>8, <2>2
  <2>p. PICK p \in L[k] : p[k + 1] = j
    BY <2>3
  <2>4. k + 1 \in 1..n /\ k \in 0..n /\ (k + 1) - 1 = k /\ k \in Nat
    BY <1>1
  <2>5. p \in Seq(DOMAIN tr) /\ Len(p) = k + 1
    <3>1. p \in [1..(k + 1) -> DOMAIN tr]
      BY <1>4, <2>4 DEF IsPath
    <3> QED BY <2>4, <3>1
  <2>6. Append(p, i) \in L[k + 1]
    <3>1. L[k + 1] = Extended(tr, L[k], k + 1)
      BY <1>2, <2>4
    <3>2. tr[i].parent = tr[p[k + 1]].id
      BY <2>1, <2>p
    <3>3. i \in {x \in DOMAIN tr : tr[x].parent = tr[p[k + 1]].id}
      BY <1>7, <3>2
    <3>4. Append(p, i) \in Extended(tr, L[k], k + 1)
      <4> DEFINE next == {Append(p, x) : x \in {y \in DOMAIN tr : tr[y].parent = tr[p[k + 1]].id}}
      <4>1. Append(p, i) \in next
        BY <3>3
      <4>2. next \subseteq Extended(tr, L[k], k + 1)
        <5> DEFINE After(q) == {Append(q, x) : x \in {y \in DOMAIN tr : tr[y].parent = tr[q[k + 1]].id}}
        <5>1. Extended(tr, L[k], k + 1) = UNION {After(q) : q \in L[k]}
          BY Zenon DEF Extended
        <5>2. next = After(p)
          OBVIOUS
        <5> HIDE DEF After, next
        <5> QED BY <2>p, <5>1, <5>2
      <4> QED BY <4>1, <4>2
    <3> QED BY <3>1, <3>4
  <2>7. k + 1 # n
    BY <1>3, <2>6
  <2>8. k + 1 \in 0..(n - 1)
    BY <1>1, <2>4, <2>7
  <2>9. Append(p, i)[(k + 1) + 1] = i
    BY <1>7, <2>4, <2>5
  <2> QED BY <1>7, <2>6, <2>8, <2>9
<1> QED BY <1>9, <1>10

\* With distinct ids build_tree (engine.rs:323-349) ends, shows no span twice, and shows
\* all of a trace whose spans come after their parents.  The crash of a request
\* is therefore only reached through an id that occurs twice.
THEOREM TreeSound == Spec => []TreeIsForest
<1>1. EngineInv => TreeIsForest
  <2> SUFFICES ASSUME EngineInv, pc = "rank", UniqueIds PROVE TreeIsForest
    BY DEF TreeIsForest
  <2> DEFINE n == Len(spans)
  <2>1. spans \in Seq(Span) /\ Distinct(spans) /\ n \in Nat /\ DOMAIN spans = 1..n
    <3>1. spans \in Seq(Span)
      BY DEF EngineInv, TypeOK
    <3>2. Distinct(spans)
      BY DEF UniqueIds, Distinct
    <3> QED BY <3>1, <3>2
  <2>2. TreeEnds(spans)
    BY <2>1, TreeIsFinite DEF TreeEnds
  <2>3. \A p \in TreePaths(spans) : \E k \in 0..(n - 1) : p \in TreeLevel(spans)[k]
    BY Zenon DEF TreePaths
  <2>4. ASSUME NEW k \in 0..(n - 1), NEW p \in TreeLevel(spans)[k]
        PROVE  k \in Nat /\ IsPath(spans, p, k) /\ Len(p) = k + 1 /\ p[k + 1] \in DOMAIN spans
               /\ p \in TreePaths(spans)
    <3>1. k \in Nat /\ k \in 0..n /\ k + 1 \in 1..(k + 1)
      BY <2>1
    <3>2. IsPath(spans, p, k)
      BY <2>1, <3>1, LevelPaths
    <3>3. p \in [1..(k + 1) -> DOMAIN spans]
      BY <3>2 DEF IsPath
    <3>4. Len(p) = k + 1
      BY <3>1, <3>3
    <3>5. p \in TreePaths(spans)
      BY Zenon DEF TreePaths
    <3> QED BY <3>1, <3>2, <3>3, <3>4, <3>5
  <2>5. ASSUME NEW p \in TreePaths(spans), NEW q \in TreePaths(spans), p[Len(p)] = q[Len(q)]
        PROVE  p = q
    <3>1. PICK k \in 0..(n - 1) : p \in TreeLevel(spans)[k]
      BY <2>3
    <3>2. PICK m \in 0..(n - 1) : q \in TreeLevel(spans)[m]
      BY <2>3
    <3>3. k \in Nat /\ m \in Nat /\ IsPath(spans, p, k) /\ IsPath(spans, q, m) /\ p[k + 1] = q[m + 1]
      BY <2>4, <2>5, <3>1, <3>2
    <3> QED BY <2>1, <3>3, OnePathToASpan
  <2>6. ASSUME \A i \in DOMAIN spans :
                 spans[i].parent = NoParent \/ \E j \in 1..(i - 1) : spans[j].id = spans[i].parent
        PROVE  {p[Len(p)] : p \in TreePaths(spans)} = DOMAIN spans
    <3>1. \A p \in TreePaths(spans) : p[Len(p)] \in DOMAIN spans
      BY <2>3, <2>4
    <3>2. ASSUME NEW i \in DOMAIN spans PROVE \E p \in TreePaths(spans) : p[Len(p)] = i
      <4>1. PICK k \in 0..(n - 1) : \E p \in TreeLevel(spans)[k] : p[k + 1] = i
        BY <2>1, <2>6, TreeIsComplete
      <4> QED BY <2>4, <4>1
    <3> QED BY <3>1, <3>2
  <2> QED BY <2>2, <2>5, <2>6 DEF TreeIsForest
<1> QED BY <1>1, InitEngine, StepEngine, PTL DEF Spec

-----------------------------------------------------------------------------
(* The suspects of an incident about spans, against their specification.   *)
SuspectsInOrder ==
  pc = "done" /\ answer.outcome = "incident" /\ spans # <<>> =>
    LET names == Services(spans, logs)
        ranked == answer.suspects
    IN /\ {ranked[i] : i \in DOMAIN ranked} = names
       /\ \A i, j \in DOMAIN ranked : i < j =>
            \/ Score(spans, logs, ranked[i]) > Score(spans, logs, ranked[j])
            \/ Score(spans, logs, ranked[i]) = Score(spans, logs, ranked[j]) /\ ranked[i] < ranked[j]

\* An incident about a trace names every service of its spans and logs exactly
\* once, a service with more weight before one with less and equal ones by name
\* (scoring.rs:148-161), whatever Tempo and Loki answered.
THEOREM SuspectsRanked == Spec => []SuspectsInOrder
<1>1. EngineInv => SuspectsInOrder
  <2> SUFFICES ASSUME EngineInv, pc = "done", answer.outcome = "incident", spans # <<>>
               PROVE  SuspectsInOrder
    BY DEF SuspectsInOrder
  <2> DEFINE names == Services(spans, logs)
             score == [s \in names |-> Score(spans, logs, s)]
             n == Cardinality(names)
             ranked == answer.suspects
  <2>1. spans \in Seq(Span) /\ logs \in Seq(Log)
    BY DEF EngineInv, TypeOK
  <2>2. IsFiniteSet(names) /\ names \subseteq Nat /\ score \in [names -> Int] /\ n \in Nat
    <3>1. IsFiniteSet(names) /\ names \subseteq Nat
      BY <2>1, ServicesFinite, GraphAssumption DEF GraphAssumption
    <3>2. score \in [names -> Int]
      BY <2>1, ScoreType
    <3> HIDE DEF names, score
    <3> QED BY <3>1, <3>2, FS_CardinalityType
  <2>3. ranked = Sorted(names, score)
    <3>1. ranked = RankSuspects(spans, logs)
      BY DEF EngineInv
    <3> QED BY <3>1, Zenon DEF RankSuspects
  <2>4. /\ ranked \in [1..n -> names]
        /\ \A s \in names : ranked[RankOf(names, score, s)] = s
        /\ \A i, j \in 1..n : i < j => Outranks(score, ranked[i], ranked[j])
    <3> DEFINE f == Sorted(names, score)
    <3> HIDE DEF names, score, ranked
    <3>1. /\ f \in [1..n -> names]
          /\ \A s \in names : f[RankOf(names, score, s)] = s
          /\ \A i, j \in 1..n : i < j => Outranks(score, f[i], f[j])
      BY <2>2, RankingSound, Zenon
    <3>2. ranked = f
      BY <2>3
    <3> HIDE DEF f, n
    <3> QED BY <3>1, <3>2
  <2>5. \A s \in names : RankOf(names, score, s) \in 1..n
    <3> HIDE DEF names, score
    <3> QED BY <2>2, RankInRange
  <2>6. {ranked[i] : i \in DOMAIN ranked} = names
    <3> HIDE DEF names, score, n, ranked
    <3> QED BY <2>4, <2>5
  <2>7. ASSUME NEW i \in DOMAIN ranked, NEW j \in DOMAIN ranked, i < j
        PROVE  \/ Score(spans, logs, ranked[i]) > Score(spans, logs, ranked[j])
               \/ Score(spans, logs, ranked[i]) = Score(spans, logs, ranked[j]) /\ ranked[i] < ranked[j]
    <3>1. i \in 1..n /\ j \in 1..n
      <4> HIDE DEF names, score, n, ranked
      <4> QED BY <2>4
    <3>2. Outranks(score, ranked[i], ranked[j])
      BY <2>4, <2>7, <3>1
    <3>3. ranked[i] \in names /\ ranked[j] \in names
      <4> HIDE DEF names, score, n, ranked
      <4> QED BY <2>4, <3>1
    <3>4. score[ranked[i]] = Score(spans, logs, ranked[i]) /\ score[ranked[j]] = Score(spans, logs, ranked[j])
      BY <3>3
    <3> HIDE DEF score, names, ranked
    <3> QED BY <3>2, <3>4 DEF Outranks
  <2> QED BY <2>6, <2>7 DEF SuspectsInOrder
<1> QED BY <1>1, InitEngine, StepEngine, PTL DEF Spec

=============================================================================
