--------------------------- MODULE EvalSuite_proofs ---------------------------
(***************************************************************************)
(* Theorems of EvalSuite, for any suites, files, labels and incidents.     *)
(***************************************************************************)
EXTENDS EvalSuite, FiniteSetTheorems, WellFoundedInduction, TLAPS

(* The score *)

LEMMA TopRanksCount ==
  ASSUME NEW q, NEW S
  PROVE  /\ IsFiniteSet(TopRanks(q, 3, S))
         /\ Cardinality(TopRanks(q, 3, S)) \in 0..3
<1>1. IsFiniteSet(1..3) /\ Cardinality(1..3) = 3
  <2>1. 1 \in Int /\ 3 \in Int
    OBVIOUS
  <2>2. IsFiniteSet(1..3) /\ Cardinality(1..3) = IF 1 > 3 THEN 0 ELSE 3 - 1 + 1
    BY ONLY <2>1, FS_Interval, Zenon
  <2> QED
    BY <2>2
<1>2. TopRanks(q, 3, S) \subseteq 1..3
  BY DEF TopRanks
<1>3. IsFiniteSet(TopRanks(q, 3, S)) /\ Cardinality(TopRanks(q, 3, S)) <= 3
  BY <1>1, <1>2, FS_Subset
<1>4. Cardinality(TopRanks(q, 3, S)) \in Nat
  BY <1>3, FS_CardinalityType
<1> QED
  BY <1>3, <1>4

LEMMA QuotientBound ==
  ASSUME NEW n \in Nat, NEW d \in Nat, d > 0, n <= d
  PROVE  (120 * n) \div d \in 0..120
<1>1. PICK x \in Int : x = (120 * n) \div d
  OBVIOUS
<1>2. d * x <= 120 * n /\ 120 * n < d * (x + 1)
  BY <1>1
<1>3. x <= 120
  <2>1. SUFFICES ASSUME x >= 121 PROVE FALSE
    BY <1>1
  <2>2. d * x >= d * 121
    BY <2>1
  <2> QED
    BY <1>2, <2>2
<1>4. x >= 0
  <2>1. SUFFICES ASSUME x + 1 <= 0 PROVE FALSE
    BY <1>1
  <2>2. d * (x + 1) <= 0
    BY <2>1
  <2> QED
    BY <1>2, <2>2
<1> QED
  BY <1>1, <1>3, <1>4

LEMMA ShareBound ==
  ASSUME NEW n \in Nat, NEW d \in Nat, d > 0, n <= d
  PROVE  Share(n, d) \in 0..Unit
BY QuotientBound DEF Share, Unit

\* Precision and the share of clean services go by thirds.
LEMMA Thirds ==
  ASSUME NEW n \in 0..3
  PROVE  Share(n, 3) = 40 * n
BY DEF Share, Unit

LEMMA DocumentFields ==
  ASSUME NEW d \in Document
  PROVE  /\ d.suspects \in Seq(Service) /\ d.traces \in Nat /\ d.errorLogs \in Nat
         /\ d.anomalies \subseteq Metric /\ d.spans \in Nat /\ d.rooted \in Nat
         /\ d.seconds \in Nat /\ d.rooted <= d.spans
BY DEF Document

LEMMA CompletenessBound ==
  ASSUME NEW d \in Document, NEW t \in Truth
  PROVE  Completeness(d, t) \in 0..Unit
<1>1. TraceCoverage(d) \in 0..Unit /\ ErrorLogCoverage(d) \in 0..Unit
  <2>1. \A n \in Nat : AtMostOne(Share(n, 1)) \in 0..Unit
    BY DEF AtMostOne, Share, Unit
  <2> QED
    BY <2>1, DocumentFields DEF TraceCoverage, ErrorLogCoverage
<1>2. TreeIntegrity(d) \in 0..Unit
  <2>1. CASE d.spans = 0
    BY <2>1 DEF TreeIntegrity, Unit
  <2>2. CASE d.spans # 0
    BY <2>2, DocumentFields, ShareBound DEF TreeIntegrity
  <2> QED
    BY <2>1, <2>2
<1>3. AnomalyCoverage(d, t.expected) \in 0..Unit
  <2>1. IsFiniteSet(t.expected)
    BY MetricAssumption, FS_Subset DEF Truth
  <2>2. /\ IsFiniteSet(t.expected \intersect d.anomalies)
        /\ Cardinality(t.expected \intersect d.anomalies) <= Cardinality(t.expected)
    BY <2>1, FS_Subset
  <2>3. /\ Cardinality(t.expected) \in Nat
        /\ Cardinality(t.expected \intersect d.anomalies) \in Nat
    BY <2>1, <2>2, FS_CardinalityType
  <2>4. CASE t.expected = {}
    BY <2>4 DEF AnomalyCoverage, Unit
  <2>5. CASE t.expected # {}
    <3>1. Cardinality(t.expected) > 0
      BY <2>1, <2>3, <2>5, FS_EmptySet
    <3> QED
      BY <2>2, <2>3, <2>5, <3>1, ShareBound DEF AnomalyCoverage
  <2> QED
    BY <2>4, <2>5
<1> QED
  <2>1. \A n, m, k, l \in 0..120 : (n + m + k + l) \div 4 \in 0..120
    OBVIOUS
  <2> QED
    BY <1>1, <1>2, <1>3, <2>1 DEF Completeness, Unit

LEMMA TimeBound ==
  ASSUME NEW k \in Nat
  PROVE  TimeTerm(k) \in 0..Unit
BY DEF TimeTerm, Share, Unit

LEMMA PenaltyBound ==
  ASSUME NEW q, NEW t
  PROVE  Share(CleanFps(q, t), 3) \in 0..Unit
BY TopRanksCount, Thirds DEF CleanFps, Unit

LEMMA PrecisionBound ==
  ASSUME NEW q, NEW t
  PROVE  /\ PrecisionAt(q, t, 3) \in 0..Unit
         /\ RecallAt(q, t.primary, 3) = Unit => PrecisionAt(q, t, 3) >= 40
<1> DEFINE T == TopRanks(q, 3, {t.primary} \union t.blast)
<1>1. IsFiniteSet(T) /\ Cardinality(T) \in 0..3
  BY TopRanksCount
<1>2. PrecisionAt(q, t, 3) = 40 * Cardinality(T)
  BY <1>1, Thirds DEF PrecisionAt
<1>3. ASSUME RecallAt(q, t.primary, 3) = Unit
      PROVE  Cardinality(T) >= 1
  <2>1. TopRanks(q, 3, {t.primary}) # {}
    BY <1>3 DEF RecallAt, Unit
  <2>2. T # {}
    BY <2>1 DEF TopRanks
  <2> QED
    BY <1>1, <2>2, FS_EmptySet
<1> HIDE DEF T
<1> QED
  BY <1>1, <1>2, <1>3 DEF Unit

\* Composite, by its terms
Sum5(r, p, k, s, f) == 50 * r + 10 * p + 25 * k + 10 * s - 5 * f
Terms(x, t) ==
  Sum5(RecallAt(x.suspects, t.primary, 3), PrecisionAt(x.suspects, t, 3), Completeness(x, t),
       TimeTerm(x.seconds), Share(CleanFps(x.suspects, t), 3))

LEMMA CompositeTerms ==
  ASSUME NEW x, NEW t
  PROVE  Composite(x, t) = Terms(x, t)
BY DEF Composite, Weights, Terms, Sum5

LEMMA CompositeRange ==
  ASSUME NEW x \in Document, NEW t \in Truth
  PROVE  /\ RecallAt(x.suspects, t.primary, 3) \in {0, Unit}
         /\ Composite(x, t) \in Int
         /\ RecallAt(x.suspects, t.primary, 3) = Unit => Composite(x, t) >= 5800
         /\ RecallAt(x.suspects, t.primary, 3) = 0 => Composite(x, t) <= 5400
<1> DEFINE r == RecallAt(x.suspects, t.primary, 3)
           p == PrecisionAt(x.suspects, t, 3)
           k == Completeness(x, t)
           s == TimeTerm(x.seconds)
           f == Share(CleanFps(x.suspects, t), 3)
<1>1. r \in {0, 120}
  BY DEF RecallAt, Unit
<1>2. p \in 0..120 /\ (r = 120 => p >= 40)
  BY PrecisionBound DEF Unit
<1>3. k \in 0..120 /\ s \in 0..120 /\ f \in 0..120
  BY CompletenessBound, DocumentFields, TimeBound, PenaltyBound DEF Unit
<1>4. Composite(x, t) = Sum5(r, p, k, s, f)
  BY CompositeTerms DEF Terms
<1> HIDE DEF r, p, k, s, f
<1>5. /\ Sum5(r, p, k, s, f) \in Int
      /\ r = 120 => Sum5(r, p, k, s, f) >= 5800
      /\ r = 0 => Sum5(r, p, k, s, f) <= 5400
  BY <1>1, <1>2, <1>3 DEF Sum5
<1>6. /\ r \in {0, Unit}
      /\ Composite(x, t) \in Int
      /\ r = Unit => Composite(x, t) >= 5800
      /\ r = 0 => Composite(x, t) <= 5400
  BY <1>1, <1>4, <1>5 DEF Unit
<1> QED
  BY <1>6 DEF r

\* Naming the culprit among three outweighs everything else the score counts.
LEMMA RecallDominates ==
  ASSUME NEW c \in Document, NEW d \in Document, NEW t \in Truth,
         RecallAt(c.suspects, t.primary, 3) = Unit,
         RecallAt(d.suspects, t.primary, 3) = 0
  PROVE  Composite(c, t) > Composite(d, t)
<1>1. Composite(c, t) \in Int /\ Composite(c, t) >= 5800
  BY CompositeRange
<1>2. Composite(d, t) \in Int /\ Composite(d, t) <= 5400
  BY CompositeRange
<1> QED
  BY <1>1, <1>2

-----------------------------------------------------------------------------
(* Types *)

\* A suite that is scoring is at one of the ids it ran.
Busy == {"trace", "anomaly", "record"}
AtInv == \A s \in Suite : pc[s] \in Busy => at[s] \in DOMAIN ran[s]

TInv == TypeOK /\ AtInv

LEMMA DegradedIsDocument == DegradedIncident \in Document
BY DEF DegradedIncident, Document

LEMMA InitTInv == Init => TInv
<1> SUFFICES ASSUME Init PROVE TInv
  OBVIOUS
<1> USE DEF Init
<1>1. labels \in [Experiment -> Writer \union {NoRow}] /\ overwritten \subseteq Suite \X Experiment
  BY DEF Writer
<1>2. ran \in [Suite -> Seq(Experiment)] /\ \A s \in Suite : todo[s] \subseteq DOMAIN ran[s]
  OBVIOUS
<1>3. doc \in [Suite -> Document]
  BY DegradedIsDocument
<1>4. TypeOK
  BY <1>1, <1>2, <1>3 DEF TypeOK, Place, Mode
<1>5. AtInv
  BY DEF AtInv, Busy
<1> QED
  BY <1>4, <1>5 DEF TInv

LEMMA WriteTypes ==
  ASSUME TypeOK, NEW p \in Writer, NEW e \in Experiment, Write(p, e)
  PROVE  /\ labels' \in [Experiment -> Writer \union {NoRow}]
         /\ overwritten' \subseteq Suite \X Experiment
BY DEF TypeOK, Write, Writer

LEMMA DiscoveredDocument ==
  ASSUME NEW e \in Experiment, NEW discovery, NEW d \in TraceDocuments(e, discovery)
  PROVE  d \in Document
BY SuiteAssumption, DegradedIsDocument DEF TraceDocuments

LEMMA AnomalyDocument ==
  ASSUME NEW e \in Experiment, NEW d \in AnomalyDocuments(e)
  PROVE  d \in Document
BY SuiteAssumption, DegradedIsDocument DEF AnomalyDocuments

LEMMA CorrelatedTypes ==
  ASSUME TInv, NEW s \in Suite, pc[s] \in Busy, NEW m \in Mode, NEW d \in Document,
         Correlated(s, m, d)
  PROVE  TInv'
<1> USE DEF TInv, Correlated
<1>1. ran[s][at[s]] \in Experiment /\ at[s] \in Nat
  BY DEF TypeOK, AtInv
<1>2. incidents' \subseteq Row
  BY <1>1 DEF TypeOK, Persisted, Row
<1>3. /\ mode' \in [Suite -> Mode] /\ doc' \in [Suite -> Document]
      /\ pc' \in [Suite -> Place \union Ended]
  BY DEF TypeOK, Place
<1>4. TypeOK'
  BY <1>2, <1>3 DEF TypeOK, scoring
<1>5. AtInv'
  BY DEF AtInv, TypeOK, Busy
<1> QED
  BY <1>4, <1>5

LEMMA RowType ==
  ASSUME TInv, NEW s \in Suite, pc[s] = "record", NEW now \in Writer
  PROVE  /\ ran[s][at[s]] \in Experiment
         /\ ScoredRow(s, now) \in Result
         /\ ScoredRow(s, now).suite = s
         /\ ScoredRow(s, now).exp = ran[s][at[s]]
         /\ ScoredRow(s, now).labels = {read[s], now}
<1>1. ran[s][at[s]] \in Experiment /\ at[s] \in Nat
  BY DEF TInv, TypeOK, AtInv, Busy
<1>2. Labels[ran[s][at[s]]] \in Truth /\ doc[s] \in Document /\ read[s] \in Writer \union {NoRow}
  BY <1>1, SuiteAssumption DEF TInv, TypeOK
<1>3. /\ RecallAt(doc[s].suspects, Labels[ran[s][at[s]]].primary, 3) \in Int
      /\ Composite(doc[s], Labels[ran[s][at[s]]]) \in Int
  BY <1>2, CompositeRange DEF Unit
<1>4. mode[s] \in Mode
  BY DEF TInv, TypeOK
<1> QED
  BY <1>1, <1>2, <1>3, <1>4 DEF ScoredRow, Result

LEMMA RunFileTypes ==
  ASSUME TInv, NEW s \in Suite, NEW ended \in {"ok", "early", "late"}, RunFile(s, ended)
  PROVE  TInv'
<1> USE DEF RunFile
<1> DEFINE e == Files[s][next[s]]
<1>1. e \in Experiment
  <2>1. Files[s] \in Seq(Experiment)
    BY SuiteAssumption
  <2>2. next[s] \in Nat \ {0} /\ next[s] <= Len(Files[s])
    BY DEF TInv, TypeOK
  <2> QED
    BY <2>1, <2>2
<1>2. /\ labels' \in [Experiment -> Writer \union {NoRow}]
      /\ overwritten' \subseteq Suite \X Experiment
      /\ UNCHANGED <<evalRuns, incidents, results>>
  <2>1. CASE ended = "early"
    BY <2>1 DEF TInv, TypeOK, db
  <2>2. CASE ended # "early"
    BY <1>1, <2>2, WriteTypes DEF TInv, Write, Writer
  <2> QED
    BY <2>1, <2>2
<1>3. /\ ran' \in [Suite -> Seq(Experiment)]
      /\ \A n \in Suite : DOMAIN ran[n] \subseteq DOMAIN ran'[n]
  <2>1. Append(ran[s], e) \in Seq(Experiment) /\ DOMAIN ran[s] \subseteq DOMAIN Append(ran[s], e)
    BY <1>1 DEF TInv, TypeOK
  <2>2. ran \in [Suite -> Seq(Experiment)] /\ (ran' = ran \/ ran' = [ran EXCEPT ![s] = Append(@, e)])
    BY DEF TInv, TypeOK
  <2> QED
    BY <2>1, <2>2
<1>4. next' \in [Suite -> Nat \ {0}]
  BY DEF TInv, TypeOK
<1>5. todo' \in [Suite -> SUBSET Nat] /\ \A n \in Suite : todo'[n] \subseteq DOMAIN ran'[n]
  BY <1>3 DEF TInv, TypeOK, scoring
<1>6. TypeOK'
  BY <1>2, <1>3, <1>4, <1>5 DEF TInv, TypeOK, scoring
<1>7. AtInv'
  BY <1>3 DEF TInv, AtInv, scoring
<1> QED
  BY <1>6, <1>7 DEF TInv

LEMMA ReadLabelsTypes ==
  ASSUME TInv, NEW s \in Suite, ReadLabels(s)
  PROVE  TInv'
<1> USE DEF ReadLabels, TInv
<1>1. PICK i \in todo[s] :
        /\ labels[ran[s][i]] # NoRow
        /\ at' = [at EXCEPT ![s] = i]
        /\ todo' = [todo EXCEPT ![s] = @ \ {i}]
        /\ read' = [read EXCEPT ![s] = labels[ran[s][i]]]
  OBVIOUS
<1>2. i \in DOMAIN ran[s] /\ i \in Nat /\ ran[s][i] \in Experiment
  BY DEF TypeOK
<1>3. /\ at' \in [Suite -> Nat] /\ read' \in [Suite -> Writer \union {NoRow}]
      /\ mode' \in [Suite -> Mode] /\ pc' \in [Suite -> Place \union Ended]
  BY <1>1, <1>2 DEF TypeOK, Mode, Place
<1>4. todo' \in [Suite -> SUBSET Nat] /\ \A n \in Suite : todo'[n] \subseteq DOMAIN ran'[n]
  BY <1>1 DEF TypeOK
<1>5. TypeOK'
  BY <1>3, <1>4 DEF TypeOK, db
<1>6. AtInv'
  <2> SUFFICES ASSUME NEW n \in Suite, pc'[n] \in Busy PROVE at'[n] \in DOMAIN ran'[n]
    BY DEF AtInv
  <2>1. CASE n = s
    BY <1>1, <1>2, <2>1 DEF TypeOK
  <2>2. CASE n # s
    BY <1>1, <2>2 DEF TypeOK, AtInv
  <2> QED
    BY <2>1, <2>2
<1> QED
  BY <1>5, <1>6

LEMMA RecordTypes ==
  ASSUME TInv, NEW s \in Suite, Record(s)
  PROVE  TInv'
<1> USE DEF Record, TInv
<1>1. PICK now \in Writer : results' = Insert(ScoredRow(s, now))
  <2>1. ran[s][at[s]] \in Experiment
    BY DEF TypeOK, AtInv, Busy
  <2> QED
    BY <2>1 DEF TypeOK
<1>2. results' \subseteq Result
  BY <1>1, RowType DEF Insert, TypeOK
<1>3. pc' \in [Suite -> Place \union Ended]
  BY DEF TypeOK, AfterMode, NextPlace, Place
<1>4. TypeOK'
  BY <1>2, <1>3 DEF TypeOK, scoring
<1>5. AtInv'
  BY DEF AtInv, TypeOK, Busy, AfterMode, NextPlace, scoring
<1> QED
  BY <1>4, <1>5

LEMMA SettleTypes ==
  ASSUME TInv, NEW s \in Suite, Settle(s)
  PROVE  TInv'
<1> USE DEF Settle, TInv
<1>1. Scheduled(ran[s]) \subseteq DOMAIN ran[s] /\ Scheduled(ran[s]) \subseteq Nat
  BY DEF TypeOK, Scheduled
<1>2. /\ todo' \in [Suite -> SUBSET Nat] /\ \A n \in Suite : todo'[n] \subseteq DOMAIN ran'[n]
      /\ pc' \in [Suite -> Place \union Ended]
  BY <1>1 DEF TypeOK, Place
<1>3. TypeOK'
  BY <1>2 DEF TypeOK, db
<1>4. AtInv'
  BY DEF AtInv, TypeOK, Busy
<1> QED
  BY <1>3, <1>4

LEMMA StepTInv == TInv /\ [Next]_vars => TInv'
<1> SUFFICES ASSUME TInv, [Next]_vars PROVE TInv'
  OBVIOUS
<1>1. ASSUME NEW s \in Suite, NEW ended \in {"ok", "early", "late"}, RunFile(s, ended) PROVE TInv'
  BY <1>1, RunFileTypes
<1>2. ASSUME NEW s \in Suite, Settle(s) PROVE TInv'
  BY <1>2, SettleTypes
<1>3. ASSUME NEW s \in Suite, Bail(s) PROVE TInv'
  BY <1>3 DEF Bail, TInv, TypeOK, AtInv, Busy, db, scoring, Ended
<1>4. ASSUME NEW s \in Suite, OpenRun(s) PROVE TInv'
  BY <1>4 DEF OpenRun, NextPlace, TInv, TypeOK, AtInv, Busy, scoring, Place
<1>5. ASSUME NEW s \in Suite, ReadLabels(s) PROVE TInv'
  BY <1>5, ReadLabelsTypes
<1>6. ASSUME NEW s \in Suite, CorrelateTrace(s) PROVE TInv'
  <2>1. ran[s][at[s]] \in Experiment /\ pc[s] \in Busy
    BY <1>6 DEF CorrelateTrace, TInv, TypeOK, AtInv, Busy
  <2> QED
    BY <1>6, <2>1, DiscoveredDocument, CorrelatedTypes DEF CorrelateTrace, Mode
<1>7. ASSUME NEW s \in Suite, CorrelateAnomaly(s) PROVE TInv'
  <2>1. ran[s][at[s]] \in Experiment /\ pc[s] \in Busy
    BY <1>7 DEF CorrelateAnomaly, TInv, TypeOK, AtInv, Busy
  <2> QED
    BY <1>7, <2>1, AnomalyDocument, CorrelatedTypes DEF CorrelateAnomaly, Mode
<1>8. ASSUME NEW s \in Suite, Record(s) PROVE TInv'
  BY <1>8, RecordTypes
<1>9. ASSUME NEW s \in Suite, CloseRun(s) PROVE TInv'
  BY <1>9 DEF CloseRun, TInv, TypeOK, AtInv, Busy, scoring, Ended
<1>10. ASSUME NEW s \in Suite, Stop(s) PROVE TInv'
  BY <1>10 DEF Stop, TInv, TypeOK, AtInv, Busy, db, scoring, Ended
<1>11. ASSUME NEW e \in Experiment, RunByOther(e) PROVE TInv'
  <2>1. Other \in Writer /\ Write(Other, e)
    BY <1>11 DEF RunByOther, Writer
  <2>2. /\ labels' \in [Experiment -> Writer \union {NoRow}]
        /\ overwritten' \subseteq Suite \X Experiment
    BY <2>1, WriteTypes DEF TInv
  <2> QED
    BY <1>11, <2>2 DEF RunByOther, Write, TInv, TypeOK, AtInv, scoring
<1>12. CASE UNCHANGED vars
  BY <1>12 DEF vars, db, scoring, TInv, TypeOK, AtInv
<1> QED
  BY <1>1, <1>2, <1>3, <1>4, <1>5, <1>6, <1>7, <1>8, <1>9, <1>10, <1>11, <1>12 DEF Next, Step

\* Every variable keeps its type, for any suites, files, labels and answers.
THEOREM TypeCorrect == Spec => []TypeOK
<1>1. Spec => []TInv
  BY InitTInv, StepTInv, PTL DEF Spec
<1> QED
  BY <1>1, PTL DEF TInv

-----------------------------------------------------------------------------
(* Scores of results *)

ScoreInv ==
  \A r \in results : \E d \in Document :
    /\ r.recall = RecallAt(d.suspects, Labels[r.exp].primary, 3)
    /\ r.composite = Composite(d, Labels[r.exp])

LEMMA RowOfRecord ==
  ASSUME TInv, NEW s \in Suite, Record(s)
  PROVE  \E now \in Writer : now = labels[ran[s][at[s]]] /\ results' = Insert(ScoredRow(s, now))
BY DEF Record, TInv, TypeOK, AtInv, Busy

LEMMA RecordScores ==
  ASSUME TInv, ScoreInv, NEW s \in Suite, Record(s)
  PROVE  ScoreInv'
<1>1. PICK now \in Writer : results' = Insert(ScoredRow(s, now))
  BY RowOfRecord
<1>2. \A r \in results' : r \in results \/ r = ScoredRow(s, now)
  BY <1>1 DEF Insert
<1>3. doc[s] \in Document
  BY DEF TInv, TypeOK
<1>4. /\ ScoredRow(s, now).exp = ran[s][at[s]]
      /\ ScoredRow(s, now).recall = RecallAt(doc[s].suspects, Labels[ran[s][at[s]]].primary, 3)
      /\ ScoredRow(s, now).composite = Composite(doc[s], Labels[ran[s][at[s]]])
  BY DEF ScoredRow
<1> QED
  BY <1>2, <1>3, <1>4 DEF ScoreInv

LEMMA OnlyRecordScores ==
  ASSUME [Next]_vars
  PROVE  results' = results \/ \E s \in Suite : Record(s)
BY DEF Next, Step, RunFile, Write, Settle, Bail, OpenRun, ReadLabels, CorrelateTrace, CorrelateAnomaly,
       Correlated, CloseRun, Stop, RunByOther, vars, db

\* However slow, bare and wrong otherwise, an incident that names the culprit
\* among its first three scores above every incident that does not.
THEOREM CulpritRanksFirst == Spec => []CulpritWins
<1>1. Init => ScoreInv
  BY DEF Init, ScoreInv
<1>2. TInv /\ ScoreInv /\ [Next]_vars => ScoreInv'
  BY OnlyRecordScores, RecordScores DEF ScoreInv
<1>3. TInv /\ ScoreInv => CulpritWins
  <2> SUFFICES ASSUME TInv, ScoreInv, NEW r \in results, NEW q \in results,
                      r.exp = q.exp, r.recall = Unit, q.recall = 0
               PROVE  r.composite > q.composite
    BY DEF CulpritWins
  <2>1. Labels[r.exp] \in Truth
    BY SuiteAssumption DEF TInv, TypeOK, Result
  <2>2. PICK c \in Document : /\ r.recall = RecallAt(c.suspects, Labels[r.exp].primary, 3)
                             /\ r.composite = Composite(c, Labels[r.exp])
    BY DEF ScoreInv
  <2>3. PICK d \in Document : /\ q.recall = RecallAt(d.suspects, Labels[q.exp].primary, 3)
                             /\ q.composite = Composite(d, Labels[q.exp])
    BY DEF ScoreInv
  <2> QED
    BY <2>1, <2>2, <2>3, RecallDominates
<1> QED
  BY <1>1, <1>2, <1>3, InitTInv, StepTInv, PTL DEF Spec

-----------------------------------------------------------------------------
(* Whose labels a result was scored with *)

Owned(s, e) == labels[e] = s \/ <<s, e>> \in overwritten

\* The row of every id a suite ran is its own until somebody overwrites it; so is
\* the one a scoring began with; and no result is there before the last run_file.
ScopeInv ==
  /\ \A s \in Suite : \A i \in DOMAIN ran[s] : Owned(s, ran[s][i])
  /\ \A s \in Suite : pc[s] \in Busy => read[s] = s \/ <<s, ran[s][at[s]]>> \in overwritten
  /\ \A r \in results : pc[r.suite] \notin {"experiments", "open"}
  /\ ScopedToInvocation

LEMMA WriteOwned ==
  ASSUME TypeOK, NEW p \in Writer, NEW e \in Experiment, Write(p, e)
  PROVE  /\ \A s \in Suite : \A x \in Experiment : Owned(s, x) => Owned(s, x)'
         /\ \A o \in overwritten : o \in overwritten' \/ o = <<p, e>>
         /\ labels'[e] = p
<1>1. labels'[e] = p /\ \A x \in Experiment \ {e} : labels'[x] = labels[x]
  BY DEF Write, TypeOK
<1>2. \A o \in overwritten : o \in overwritten' \/ o = <<p, e>>
  BY DEF Write
<1>3. ASSUME NEW s \in Suite, NEW x \in Experiment, Owned(s, x) PROVE Owned(s, x)'
  <2>1. CASE x # e
    BY <1>1, <1>2, <1>3, <2>1 DEF Owned
  <2>2. CASE x = e /\ s = p
    BY <1>1, <2>2 DEF Owned
  <2>3. CASE x = e /\ s # p
    <3>1. <<s, e>> # <<p, e>>
      BY <2>3
    <3>2. CASE labels[e] = s
      <4>1. s \in Suite \intersect {labels[e]}
        BY <3>2
      <4>2. <<s, e>> \in {<<n, e>> : n \in Suite \intersect {labels[e]}}
        BY <4>1
      <4>3. <<s, e>> \in overwritten'
        BY <3>1, <4>2 DEF Write
      <4> QED
        BY <2>3, <4>3 DEF Owned
    <3>3. CASE <<s, e>> \in overwritten
      BY <1>2, <2>3, <3>1, <3>3 DEF Owned
    <3> QED
      BY <1>3, <2>3, <3>2, <3>3 DEF Owned
  <2> QED
    BY <2>1, <2>2, <2>3
<1> QED
  BY <1>1, <1>2, <1>3

LEMMA RunFileScope ==
  ASSUME TInv, ScopeInv, NEW s \in Suite, NEW ended \in {"ok", "early", "late"}, RunFile(s, ended)
  PROVE  ScopeInv'
<1> USE DEF RunFile
<1>1. PICK e \in Experiment : e = Files[s][next[s]]
  <2>1. Files[s] \in Seq(Experiment)
    BY SuiteAssumption
  <2>2. next[s] \in Nat \ {0} /\ next[s] <= Len(Files[s])
    BY DEF TInv, TypeOK
  <2> QED
    BY <2>1, <2>2
<1>2. /\ ended # "early" => Write(s, e)
      /\ ended = "early" => UNCHANGED db
      /\ UNCHANGED <<results, pc, at, read>>
  BY <1>1 DEF Write, db, scoring
<1>3. /\ \A n \in Suite : \A x \in Experiment : Owned(n, x) => Owned(n, x)'
      /\ \A o \in overwritten : o \in overwritten' \/ o = <<s, e>>
  BY <1>1, <1>2, WriteOwned DEF Owned, db, TInv, Writer
<1>4. Kept(ended) => Owned(s, e)'
  BY <1>1, <1>2, WriteOwned DEF Kept, Owned, TInv, Writer
<1>5. \A n \in Suite : \A i \in DOMAIN ran'[n] : labels'[ran'[n][i]] = n \/ <<n, ran'[n][i]>> \in overwritten'
  <2> SUFFICES ASSUME NEW n \in Suite, NEW i \in DOMAIN ran'[n]
               PROVE  labels'[ran'[n][i]] = n \/ <<n, ran'[n][i]>> \in overwritten'
    OBVIOUS
  <2>1. ran \in [Suite -> Seq(Experiment)]
    BY DEF TInv, TypeOK
  <2>2. CASE i \in DOMAIN ran[n] /\ ran'[n][i] = ran[n][i]
    <3>1. ran[n][i] \in Experiment /\ Owned(n, ran[n][i])
      BY <2>1, <2>2 DEF ScopeInv
    <3>2. PICK x \in Experiment : x = ran[n][i]
      BY <3>1
    <3>3. Owned(n, x)'
      BY <1>3, <3>1, <3>2
    <3> QED
      BY <2>2, <3>2, <3>3 DEF Owned
  <2>3. CASE n = s /\ Kept(ended) /\ ran'[n][i] = e
    BY <1>4, <2>3 DEF Owned
  <2>4. \/ i \in DOMAIN ran[n] /\ ran'[n][i] = ran[n][i]
        \/ n = s /\ Kept(ended) /\ ran'[n][i] = e
    <3>1. CASE n = s /\ Kept(ended)
      <4>1. ran'[n] = Append(ran[n], e) /\ ran[n] \in Seq(Experiment)
        BY <1>1, <2>1, <3>1
      <4> QED
        BY <1>1, <3>1, <4>1
    <3>2. CASE ~(n = s /\ Kept(ended))
      <4>1. ran'[n] = ran[n]
        BY <2>1, <3>2
      <4> QED
        BY <4>1
    <3> QED
      BY <3>1, <3>2
  <2> QED
    BY <2>2, <2>3, <2>4
<1>6. \A n \in Suite : pc'[n] \in Busy => read'[n] = n \/ <<n, ran'[n][at'[n]]>> \in overwritten'
  <2> SUFFICES ASSUME NEW n \in Suite, pc[n] \in Busy
               PROVE  read[n] = n \/ <<n, ran'[n][at[n]]>> \in overwritten'
    BY <1>2
  <2>1. n # s
    BY DEF Busy
  <2>2. ran'[n] = ran[n]
    BY <2>1 DEF TInv, TypeOK
  <2>3. read[n] = n \/ <<n, ran[n][at[n]]>> \in overwritten
    BY DEF ScopeInv
  <2> QED
    BY <1>3, <2>1, <2>2, <2>3
<1>7. \A r \in results : r.suite # s
  BY DEF ScopeInv
<1>8. ScopedToInvocation'
  BY <1>2, <1>3, <1>7 DEF ScopedToInvocation, ScopeInv
<1> QED
  BY <1>2, <1>5, <1>6, <1>8 DEF ScopeInv, Owned

LEMMA ByOtherScope ==
  ASSUME TInv, ScopeInv, NEW e \in Experiment, RunByOther(e)
  PROVE  ScopeInv'
<1>1. Write(Other, e) /\ Other \in Writer /\ UNCHANGED <<results, pc, ran, at, read>>
  BY DEF RunByOther, Write, Writer, scoring
<1>2. /\ \A n \in Suite : \A x \in Experiment : Owned(n, x) => Owned(n, x)'
      /\ \A o \in overwritten : o \in overwritten' \/ o = <<Other, e>>
  BY <1>1, WriteOwned DEF TInv
<1>3. \A n \in Suite : n # Other
  BY SuiteAssumption
<1>4. \A n \in Suite : \A x : <<n, x>> \in overwritten => <<n, x>> \in overwritten'
  BY <1>2, <1>3
<1>5. \A n \in Suite : \A i \in DOMAIN ran[n] : Owned(n, ran[n][i])'
  BY <1>1, <1>2 DEF ScopeInv, TInv, TypeOK
<1>6. \A r \in results : r.suite \in Suite
  BY DEF TInv, TypeOK, Result
<1>7. ScopedToInvocation'
  BY <1>1, <1>4, <1>6 DEF ScopedToInvocation, ScopeInv
<1> QED
  BY <1>1, <1>4, <1>5, <1>7 DEF ScopeInv

LEMMA ReadLabelsScope ==
  ASSUME TInv, ScopeInv, NEW s \in Suite, ReadLabels(s)
  PROVE  ScopeInv'
<1>1. PICK i \in todo[s] :
        /\ at' = [at EXCEPT ![s] = i]
        /\ read' = [read EXCEPT ![s] = labels[ran[s][i]]]
  BY DEF ReadLabels
<1>2. UNCHANGED <<labels, overwritten, results, ran>> /\ pc' = [pc EXCEPT ![s] = "trace"] /\ pc[s] = "labels"
  BY DEF ReadLabels, db
<1>3. \A n \in Suite : pc'[n] \in Busy => read'[n] = n \/ <<n, ran'[n][at'[n]]>> \in overwritten'
  <2> SUFFICES ASSUME NEW n \in Suite, pc'[n] \in Busy
               PROVE  read'[n] = n \/ <<n, ran[n][at'[n]]>> \in overwritten
    BY <1>2
  <2>1. CASE n = s
    <3>1. i \in DOMAIN ran[s] /\ read'[s] = labels[ran[s][i]] /\ at'[s] = i
      BY <1>1 DEF TInv, TypeOK
    <3>2. Owned(s, ran[s][i])
      BY <3>1 DEF ScopeInv
    <3> QED
      BY <2>1, <3>1, <3>2 DEF Owned
  <2>2. CASE n # s
    BY <1>1, <1>2, <2>2 DEF ScopeInv, TInv, TypeOK
  <2> QED
    BY <2>1, <2>2
<1>4. \A r \in results : pc'[r.suite] \notin {"experiments", "open"}
  BY <1>2 DEF ScopeInv, TInv, TypeOK, Result
<1> QED
  BY <1>2, <1>3, <1>4 DEF ScopeInv, Owned, ScopedToInvocation

LEMMA RecordScope ==
  ASSUME TInv, ScopeInv, NEW s \in Suite, Record(s)
  PROVE  ScopeInv'
<1>1. PICK now \in Writer : now = labels[ran[s][at[s]]] /\ results' = Insert(ScoredRow(s, now))
  BY RowOfRecord
<1>2. /\ UNCHANGED <<labels, overwritten, ran, at, read>> /\ pc[s] = "record"
      /\ pc' = [pc EXCEPT ![s] = AfterMode(s)]
      /\ AfterMode(s) \in {"anomaly", "labels", "close"}
  BY DEF Record, scoring, AfterMode, NextPlace
<1>3. \A r \in results' : r \in results \/ r = ScoredRow(s, now)
  BY <1>1 DEF Insert
<1>4. /\ ScoredRow(s, now).suite = s /\ ScoredRow(s, now).exp = ran[s][at[s]]
      /\ ScoredRow(s, now).labels = {read[s], now}
  BY DEF ScoredRow
<1>5. <<s, ran[s][at[s]]>> \notin overwritten => read[s] = s /\ now = s
  <2>1. at[s] \in DOMAIN ran[s]
    BY <1>2 DEF TInv, AtInv, Busy
  <2>2. Owned(s, ran[s][at[s]])
    BY <2>1 DEF ScopeInv
  <2> QED
    BY <1>1, <1>2, <2>2 DEF ScopeInv, Owned, Busy
<1>6. ScopedToInvocation'
  BY <1>2, <1>3, <1>4, <1>5 DEF ScopedToInvocation, ScopeInv
<1>7. \A r \in results' : pc'[r.suite] \notin {"experiments", "open"}
  BY <1>2, <1>3, <1>4 DEF ScopeInv, TInv, TypeOK, Result
<1>8. \A n \in Suite : pc'[n] \in Busy => read'[n] = n \/ <<n, ran'[n][at'[n]]>> \in overwritten'
  BY <1>2 DEF ScopeInv, TInv, TypeOK, Busy
<1> QED
  BY <1>2, <1>6, <1>7, <1>8 DEF ScopeInv, Owned

\* The other steps change no row of labels.db, nothing that was read, no result.
LEMMA QuietScope ==
  ASSUME TInv, ScopeInv, UNCHANGED <<labels, overwritten, results, ran, at, read>>,
         NEW s \in Suite, NEW place, pc' = [pc EXCEPT ![s] = place],
         place \in Busy => pc[s] \in Busy,
         place \in {"experiments", "open"} => pc[s] \in {"experiments", "open"}
  PROVE  ScopeInv'
<1>1. \A n \in Suite : pc'[n] \in Busy => pc[n] \in Busy
  BY DEF TInv, TypeOK
<1>2. \A n \in Suite : pc'[n] \in {"experiments", "open"} => pc[n] \in {"experiments", "open"}
  BY DEF TInv, TypeOK
<1>3. \A r \in results : r.suite \in Suite
  BY DEF TInv, TypeOK, Result
<1> QED
  BY <1>1, <1>2, <1>3 DEF ScopeInv, Owned, ScopedToInvocation

LEMMA StepScope == TInv /\ ScopeInv /\ [Next]_vars => ScopeInv'
<1> SUFFICES ASSUME TInv, ScopeInv, [Next]_vars PROVE ScopeInv'
  OBVIOUS
<1>1. ASSUME NEW s \in Suite, NEW ended \in {"ok", "early", "late"}, RunFile(s, ended) PROVE ScopeInv'
  BY <1>1, RunFileScope
<1>2. ASSUME NEW s \in Suite, ReadLabels(s) PROVE ScopeInv'
  BY <1>2, ReadLabelsScope
<1>3. ASSUME NEW s \in Suite, Record(s) PROVE ScopeInv'
  BY <1>3, RecordScope
<1>4. ASSUME NEW e \in Experiment, RunByOther(e) PROVE ScopeInv'
  BY <1>4, ByOtherScope
<1>5. ASSUME NEW s \in Suite, Settle(s) \/ Bail(s) PROVE ScopeInv'
  BY <1>5, QuietScope DEF Settle, Bail, FilesDone, db, scoring, Busy
<1>6. ASSUME NEW s \in Suite, OpenRun(s) PROVE ScopeInv'
  BY <1>6, QuietScope DEF OpenRun, NextPlace, scoring, Busy
<1>7. ASSUME NEW s \in Suite, CorrelateTrace(s) \/ CorrelateAnomaly(s) PROVE ScopeInv'
  BY <1>7, QuietScope DEF CorrelateTrace, CorrelateAnomaly, Correlated, Busy
<1>8. ASSUME NEW s \in Suite, CloseRun(s) \/ Stop(s) PROVE ScopeInv'
  BY <1>8, QuietScope DEF CloseRun, Stop, db, scoring, Busy
<1>9. CASE UNCHANGED vars
  BY <1>9 DEF vars, db, scoring, ScopeInv, Owned, ScopedToInvocation
<1> QED
  BY <1>1, <1>2, <1>3, <1>4, <1>5, <1>6, <1>7, <1>8, <1>9 DEF Next, Step

\* A result is scored with the labels of the suite's own run of the experiment,
\* unless another process has run the same experiment since.
THEOREM ScoredWithOwnLabels == Spec => []ScopedToInvocation
<1>1. Init => ScopeInv
  BY DEF Init, ScopeInv, ScopedToInvocation, Busy
<1>2. ScopeInv => ScopedToInvocation
  BY DEF ScopeInv
<1> QED
  BY <1>1, <1>2, InitTInv, StepTInv, StepScope, PTL DEF Spec

-----------------------------------------------------------------------------
(* Which results there are *)

HasRow(s, e, m) == \E r \in results : r.suite = s /\ r.exp = e /\ r.mode = m
Handling(s, i) == pc[s] \in Busy /\ i = at[s]
TraceDone(s) == pc[s] = "anomaly" \/ (pc[s] = "record" /\ mode[s] = "anomaly")

\* Every scheduled position is still to be scored, is being scored, or has both
\* its results; and a run is closed when none is left.
JobOf(s) ==
  /\ pc[s] \notin {"experiments", "failed"} =>
       \A i \in Scheduled(ran[s]) :
         i \in todo[s] \/ Handling(s, i) \/ (\A m \in Mode : HasRow(s, ran[s][i], m))
  /\ TraceDone(s) => HasRow(s, ran[s][at[s]], "trace")
  /\ pc[s] \in {"close", "done"} => todo[s] = {}
  /\ evalRuns[s] = "ended" => pc[s] = "done"
JobInv == \A s \in Suite : JobOf(s)

\* Every id is scheduled, at the first of its positions.
LEMMA FirstPosition ==
  ASSUME NEW ids \in Seq(Experiment), NEW i \in DOMAIN ids
  PROVE  \E j \in Scheduled(ids) : ids[j] = ids[i]
<1> DEFINE T == {k \in 1..Len(ids) : ids[k] = ids[i]}
           R == OpToRel(<, Nat)
<1>1. T \subseteq Nat /\ T # {}
  OBVIOUS
<1>2. IsWellFoundedOn(R, Nat)
  BY NatLessThanWellFounded
<1>3. PICK j \in T : \A k \in T : <<k, j>> \notin R
  <2> HIDE DEF T, R
  <2> QED
    BY <1>1, <1>2, WFMin
<1>4. \A k \in T : ~(k < j)
  BY <1>1, <1>3 DEF OpToRel
<1>5. j \in 1..Len(ids) /\ ids[j] = ids[i]
  OBVIOUS
<1>6. \A k \in 1..(j - 1) : ids[k] # ids[j]
  <2> SUFFICES ASSUME NEW k \in 1..(j - 1), ids[k] = ids[j] PROVE FALSE
    OBVIOUS
  <2>1. k \in T /\ k < j
    BY <1>5
  <2> QED
    BY <1>4, <2>1
<1> QED
  BY <1>5, <1>6 DEF Scheduled

\* No id is scheduled twice.
LEMMA ScheduledOnce ==
  ASSUME NEW ids \in Seq(Experiment), NEW i \in Scheduled(ids), NEW j \in Scheduled(ids),
         ids[i] = ids[j]
  PROVE  i = j
<1>1. i \in 1..Len(ids) /\ j \in 1..Len(ids)
  BY DEF Scheduled
<1>2. ~(i < j) /\ ~(j < i)
  BY <1>1 DEF Scheduled
<1> QED
  BY <1>1, <1>2

LEMMA InsertKeeps ==
  ASSUME NEW row, results' = Insert(row)
  PROVE  /\ \A s, e, m : HasRow(s, e, m) =>
               \E r \in results' : r.suite = s /\ r.exp = e /\ r.mode = m
         /\ row \in results'
<1>1. row \in results'
  BY DEF Insert
<1>2. ASSUME NEW r \in results
      PROVE  r \in results' \/ (row.suite = r.suite /\ row.exp = r.exp /\ row.mode = r.mode)
  BY DEF Insert, SameKey
<1> QED
  BY <1>1, <1>2 DEF HasRow

LEMMA RecordJob ==
  ASSUME TInv, JobInv, NEW s \in Suite, Record(s)
  PROVE  JobInv'
<1>1. PICK now \in Writer : results' = Insert(ScoredRow(s, now))
  BY RowOfRecord
<1> DEFINE Row2(n, e, m) == \E r \in results' : r.suite = n /\ r.exp = e /\ r.mode = m
<1>2. /\ UNCHANGED <<evalRuns, ran, todo, at, mode>> /\ pc[s] = "record"
      /\ pc' = [pc EXCEPT ![s] = AfterMode(s)]
  BY DEF Record, scoring
<1>3. \A n, e, m : HasRow(n, e, m) => Row2(n, e, m)
  BY <1>1, InsertKeeps
<1>4. Row2(s, ran[s][at[s]], mode[s])
  <2>1. ScoredRow(s, now) \in results'
    BY <1>1, InsertKeeps
  <2> QED
    BY <2>1 DEF ScoredRow
<1>5. mode[s] \in {"trace", "anomaly"} /\ pc'[s] = AfterMode(s)
  BY <1>2 DEF TInv, TypeOK, Mode
<1>6. \A n \in Suite : pc'[n] \notin {"experiments", "failed"} =>
        \A i \in Scheduled(ran[n]) :
          i \in todo[n] \/ (pc'[n] \in Busy /\ i = at[n]) \/ (\A m \in Mode : Row2(n, ran[n][i], m))
  <2> SUFFICES ASSUME NEW n \in Suite, pc'[n] \notin {"experiments", "failed"},
                      NEW i \in Scheduled(ran[n])
               PROVE  i \in todo[n] \/ (pc'[n] \in Busy /\ i = at[n]) \/ (\A m \in Mode : Row2(n, ran[n][i], m))
    OBVIOUS
  <2>1. CASE n = s
    <3>1. i \in todo[s] \/ i = at[s] \/ (\A m \in Mode : HasRow(s, ran[s][i], m))
      BY <1>2, <2>1 DEF JobInv, JobOf, Handling
    <3>2. CASE i = at[s] /\ mode[s] = "trace"
      BY <1>5, <2>1, <3>2 DEF AfterMode, Busy
    <3>3. CASE i = at[s] /\ mode[s] = "anomaly"
      <4>1. HasRow(s, ran[s][at[s]], "trace")
        BY <1>2, <3>3 DEF JobInv, JobOf, TraceDone
      <4> QED
        BY <1>3, <1>4, <2>1, <3>3, <4>1 DEF Mode
    <3> QED
      BY <1>3, <1>5, <2>1, <3>1, <3>2, <3>3
  <2>2. CASE n # s
    <3>1. pc'[n] = pc[n]
      BY <1>2, <2>2 DEF TInv, TypeOK
    <3> QED
      BY <1>3, <3>1 DEF JobInv, JobOf, Handling
  <2> QED
    BY <2>1, <2>2
<1>7. \A n \in Suite : (pc'[n] = "anomaly" \/ (pc'[n] = "record" /\ mode[n] = "anomaly")) =>
        Row2(n, ran[n][at[n]], "trace")
  <2> SUFFICES ASSUME NEW n \in Suite, pc'[n] = "anomaly" \/ (pc'[n] = "record" /\ mode[n] = "anomaly")
               PROVE  Row2(n, ran[n][at[n]], "trace")
    OBVIOUS
  <2>1. CASE n = s
    <3>1. mode[s] = "trace"
      BY <1>5, <2>1 DEF AfterMode, NextPlace
    <3> QED
      BY <1>4, <2>1, <3>1
  <2>2. CASE n # s
    <3>1. pc'[n] = pc[n]
      BY <1>2, <2>2 DEF TInv, TypeOK
    <3> QED
      BY <1>3, <3>1 DEF JobInv, JobOf, TraceDone
  <2> QED
    BY <2>1, <2>2
<1>8. \A n \in Suite : pc'[n] \in {"close", "done"} => todo[n] = {}
  BY <1>2 DEF JobInv, JobOf, TInv, TypeOK, AfterMode, NextPlace
<1>9. \A n \in Suite : evalRuns[n] = "ended" => pc'[n] = "done"
  BY <1>2 DEF JobInv, JobOf, TInv, TypeOK
<1> QED
  BY <1>2, <1>6, <1>7, <1>8, <1>9 DEF JobInv, JobOf, HasRow, Handling, TraceDone

LEMMA OneSuiteJob ==
  ASSUME TInv, JobInv, NEW s \in Suite, results' = results, JobOf(s)',
         \A n \in Suite \ {s} : /\ pc'[n] = pc[n] /\ todo'[n] = todo[n] /\ at'[n] = at[n]
                                /\ mode'[n] = mode[n] /\ ran'[n] = ran[n] /\ evalRuns'[n] = evalRuns[n]
  PROVE  JobInv'
<1> SUFFICES ASSUME NEW n \in Suite PROVE JobOf(n)'
  BY DEF JobInv
<1>1. CASE n = s
  BY <1>1
<1>2. CASE n # s
  BY <1>2 DEF JobInv, JobOf, Handling, HasRow, TraceDone
<1> QED
  BY <1>1, <1>2

LEMMA StepJob == TInv /\ JobInv /\ [Next]_vars => JobInv'
<1> SUFFICES ASSUME TInv, JobInv, [Next]_vars PROVE JobInv'
  OBVIOUS
<1> USE DEF TInv, TypeOK
<1>1. ASSUME NEW s \in Suite, NEW ended \in {"ok", "early", "late"}, RunFile(s, ended) PROVE JobInv'
  <2>1. UNCHANGED <<results, evalRuns, pc, todo, at, mode>> /\ pc[s] = "experiments"
    BY <1>1 DEF RunFile, Write, db, scoring
  <2>2. \A n \in Suite \ {s} : ran'[n] = ran[n]
    BY <1>1 DEF RunFile
  <2>3. JobOf(s)'
    BY <2>1 DEF JobInv, JobOf, TraceDone
  <2> QED
    BY <2>1, <2>2, <2>3, OneSuiteJob
<1>2. ASSUME NEW s \in Suite, Settle(s) PROVE JobInv'
  <2>1. /\ UNCHANGED <<results, evalRuns, at, mode, ran>> /\ pc' = [pc EXCEPT ![s] = "open"]
        /\ todo' = [todo EXCEPT ![s] = Scheduled(ran[s])] /\ pc[s] = "experiments"
    BY <1>2 DEF Settle, FilesDone, db
  <2>2. JobOf(s)'
    BY <2>1 DEF JobInv, JobOf, TraceDone
  <2> QED
    BY <2>1, <2>2, OneSuiteJob
<1>3. ASSUME NEW s \in Suite, Bail(s) \/ Stop(s) PROVE JobInv'
  <2>1. /\ UNCHANGED <<results, evalRuns, at, mode, ran, todo>> /\ pc' = [pc EXCEPT ![s] = "failed"]
        /\ pc[s] # "done"
    BY <1>3 DEF Bail, Stop, FilesDone, db, scoring, Ended
  <2>2. JobOf(s)'
    BY <2>1 DEF JobInv, JobOf, TraceDone
  <2> QED
    BY <2>1, <2>2, OneSuiteJob
<1>4. ASSUME NEW s \in Suite, OpenRun(s) PROVE JobInv'
  <2>1. /\ UNCHANGED <<results, at, mode, ran, todo>> /\ pc' = [pc EXCEPT ![s] = NextPlace(s)]
        /\ evalRuns' = [evalRuns EXCEPT ![s] = "open"] /\ pc[s] = "open"
    BY <1>4 DEF OpenRun, scoring
  <2>2. /\ \A i \in Scheduled(ran[s]) : i \in todo[s] \/ (\A m \in Mode : HasRow(s, ran[s][i], m))
        /\ pc'[s] \in {"close", "labels"} /\ (pc'[s] = "close" => todo[s] = {})
        /\ evalRuns'[s] = "open"
    BY <2>1 DEF JobInv, JobOf, Handling, Busy, NextPlace
  <2>3. JobOf(s)'
    BY <2>1, <2>2 DEF JobOf, TraceDone, HasRow
  <2> QED
    BY <2>1, <2>3, OneSuiteJob
<1>5. ASSUME NEW s \in Suite, ReadLabels(s) PROVE JobInv'
  <2>1. PICK j \in todo[s] : at' = [at EXCEPT ![s] = j] /\ todo' = [todo EXCEPT ![s] = @ \ {j}]
    BY <1>5 DEF ReadLabels
  <2>2. /\ UNCHANGED <<results, evalRuns, ran>> /\ pc' = [pc EXCEPT ![s] = "trace"] /\ pc[s] = "labels"
        /\ mode' = [mode EXCEPT ![s] = "trace"]
    BY <1>5 DEF ReadLabels, db
  <2>3. /\ \A i \in Scheduled(ran[s]) : i \in todo[s] \/ (\A m \in Mode : HasRow(s, ran[s][i], m))
        /\ evalRuns[s] # "ended"
    BY <2>2 DEF JobInv, JobOf, Handling, Busy
  <2>4. pc'[s] = "trace" /\ at'[s] = j /\ todo'[s] = todo[s] \ {j}
    BY <2>1, <2>2
  <2>5. JobOf(s)'
    BY <2>2, <2>3, <2>4 DEF JobOf, TraceDone, HasRow, Handling, Busy
  <2> QED
    BY <2>1, <2>2, <2>5, OneSuiteJob
<1>6. ASSUME NEW s \in Suite, CorrelateTrace(s) \/ CorrelateAnomaly(s) PROVE JobInv'
  <2>1. PICK m \in Mode : /\ pc[s] = m /\ mode' = [mode EXCEPT ![s] = m]
                         /\ pc' = [pc EXCEPT ![s] = "record"]
                         /\ UNCHANGED <<results, evalRuns, ran, todo, at>>
    BY <1>6 DEF CorrelateTrace, CorrelateAnomaly, Correlated, Mode
  <2>2. pc'[s] = "record" /\ mode'[s] = m
    BY <2>1
  <2>3. \A i : Handling(s, i) => pc'[s] \in Busy /\ i = at'[s]
    BY <2>1, <2>2 DEF Handling, Busy
  <2>4. m = "anomaly" => HasRow(s, ran[s][at[s]], "trace")
    BY <2>1 DEF JobInv, JobOf, TraceDone
  <2>5. evalRuns[s] # "ended"
    BY <2>1 DEF JobInv, JobOf, Mode
  <2>6. \A i \in Scheduled(ran[s]) :
          i \in todo[s] \/ Handling(s, i) \/ (\A k \in Mode : HasRow(s, ran[s][i], k))
    BY <2>1 DEF JobInv, JobOf, Mode
  <2>7. JobOf(s)'
    BY <2>1, <2>2, <2>3, <2>4, <2>5, <2>6 DEF JobOf, TraceDone, HasRow, Handling
  <2> QED
    BY <2>1, <2>7, OneSuiteJob
<1>7. ASSUME NEW s \in Suite, Record(s) PROVE JobInv'
  BY <1>7, RecordJob
<1>8. ASSUME NEW s \in Suite, CloseRun(s) PROVE JobInv'
  <2>1. /\ UNCHANGED <<results, at, mode, ran, todo>> /\ pc' = [pc EXCEPT ![s] = "done"]
        /\ evalRuns' = [evalRuns EXCEPT ![s] = "ended"] /\ pc[s] = "close"
    BY <1>8 DEF CloseRun, scoring
  <2>2. /\ \A i \in Scheduled(ran[s]) : i \in todo[s] \/ (\A m \in Mode : HasRow(s, ran[s][i], m))
        /\ todo[s] = {} /\ pc'[s] = "done"
    BY <2>1 DEF JobInv, JobOf, Handling, Busy
  <2>3. JobOf(s)'
    BY <2>1, <2>2 DEF JobOf, TraceDone, HasRow
  <2> QED
    BY <2>1, <2>3, OneSuiteJob
<1>9. ASSUME NEW e \in Experiment, RunByOther(e) PROVE JobInv'
  BY <1>9 DEF RunByOther, Write, scoring, JobInv, JobOf, Handling, TraceDone, HasRow
<1>10. CASE UNCHANGED vars
  BY <1>10 DEF vars, db, scoring, JobInv, JobOf, Handling, TraceDone, HasRow
<1> QED
  BY <1>1, <1>2, <1>3, <1>4, <1>5, <1>6, <1>7, <1>8, <1>9, <1>10 DEF Next, Step

\* A run is given its end only with both results for every experiment it ran.
THEOREM EndedRunsComplete == Spec => []EndedIsComplete
<1>1. Init => JobInv
  BY DEF Init, JobInv, JobOf, TraceDone
<1>2. TInv /\ JobInv => EndedIsComplete
  <2> SUFFICES ASSUME TInv, JobInv, NEW s \in Suite, evalRuns[s] = "ended",
                      NEW i \in DOMAIN ran[s], NEW m \in Mode
               PROVE  \E r \in results : r.suite = s /\ r.exp = ran[s][i] /\ r.mode = m
    BY DEF EndedIsComplete
  <2>1. ran[s] \in Seq(Experiment)
    BY DEF TInv, TypeOK
  <2>2. PICK j \in Scheduled(ran[s]) : ran[s][j] = ran[s][i]
    BY <2>1, FirstPosition
  <2>3. pc[s] = "done" /\ todo[s] = {}
    BY DEF JobInv, JobOf
  <2>4. HasRow(s, ran[s][j], m)
    BY <2>3 DEF JobInv, JobOf, Handling, Busy
  <2> QED
    BY <2>2, <2>4 DEF HasRow
<1> QED
  BY <1>1, <1>2, InitTInv, StepTInv, StepJob, PTL DEF Spec

-----------------------------------------------------------------------------
(* Results and incidents *)

RowOf(s) == [suite |-> s, at |-> at[s], mode |-> mode[s], exp |-> ran[s][at[s]], doc |-> doc[s]]

\* A result is written after its run's row and after its incident.
BackInv ==
  /\ ResultsBacked
  /\ \A s \in Suite : pc[s] = "record" => RowOf(s) \in incidents
  /\ \A s \in Suite : pc[s] \in Busy \union {"labels", "close", "done"} => evalRuns[s] # "none"

LEMMA BackedSame ==
  ASSUME ResultsBacked, UNCHANGED results, incidents \subseteq incidents',
         \A s \in Suite : evalRuns[s] # "none" => evalRuns'[s] # "none", TInv
  PROVE  ResultsBacked'
<1>1. \A r \in results : r.suite \in Suite
  BY DEF TInv, TypeOK, Result
<1> QED
  BY <1>1 DEF ResultsBacked, IncidentOf

LEMMA RecordBack ==
  ASSUME TInv, BackInv, NEW s \in Suite, Record(s)
  PROVE  BackInv'
<1>1. PICK now \in Writer : results' = Insert(ScoredRow(s, now))
  BY RowOfRecord
<1>2. /\ UNCHANGED <<evalRuns, incidents, ran, at, mode, doc>> /\ pc[s] = "record"
      /\ pc' = [pc EXCEPT ![s] = AfterMode(s)]
      /\ AfterMode(s) \in {"anomaly", "labels", "close"}
  BY DEF Record, scoring, AfterMode, NextPlace
<1>3. \A r \in results' : r \in results \/ r = ScoredRow(s, now)
  BY <1>1 DEF Insert
<1> DEFINE row == ScoredRow(s, now)
           ic == RowOf(s)
<1>4. /\ row.suite = s /\ row.exp = ran[s][at[s]] /\ row.mode = mode[s] /\ row.at = at[s]
      /\ row.composite = Composite(doc[s], Labels[ran[s][at[s]]])
  BY DEF ScoredRow
<1>5. /\ ic \in incidents /\ ic.suite = s /\ ic.at = at[s] /\ ic.mode = mode[s]
      /\ ic.exp = ran[s][at[s]] /\ ic.doc = doc[s]
  BY <1>2 DEF BackInv, RowOf
<1>6. evalRuns[s] # "none"
  BY <1>2 DEF BackInv, Busy
<1> HIDE DEF row, ic
<1>7. \A r \in results' : r \in results \/ r = row
  BY <1>3 DEF row
<1>8. ResultsBacked'
  <2> SUFFICES ASSUME NEW r \in results'
               PROVE  /\ evalRuns[r.suite] # "none"
                      /\ \E i \in incidents : /\ i.suite = r.suite /\ i.at = r.at /\ i.mode = r.mode
                                             /\ i.exp = r.exp /\ r.composite = Composite(i.doc, Labels[r.exp])
    BY <1>2 DEF ResultsBacked, IncidentOf
  <2>1. CASE r \in results
    BY <2>1 DEF BackInv, ResultsBacked, IncidentOf
  <2>2. CASE r = row
    <3>1. r.composite = Composite(ic.doc, Labels[r.exp])
      BY <1>4, <1>5, <2>2
    <3>2. ic.suite = r.suite /\ ic.at = r.at /\ ic.mode = r.mode /\ ic.exp = r.exp
      BY <1>4, <1>5, <2>2
    <3>3. evalRuns[r.suite] # "none"
      BY <1>4, <1>6, <2>2
    <3> QED
      BY <1>5, <3>1, <3>2, <3>3
  <2> QED
    BY <1>7, <2>1, <2>2
<1>9. \A n \in Suite : pc'[n] = "record" => pc[n] = "record"
  BY <1>2 DEF TInv, TypeOK
<1>10. \A n \in Suite : pc'[n] \in Busy \union {"labels", "close", "done"} =>
         pc[n] \in Busy \union {"labels", "close", "done"}
  BY <1>2 DEF TInv, TypeOK, Busy
<1> QED
  BY <1>2, <1>8, <1>9, <1>10 DEF BackInv, RowOf

LEMMA CorrelatedBack ==
  ASSUME TInv, BackInv, NEW s \in Suite, pc[s] \in Busy, NEW m \in Mode, NEW d, Correlated(s, m, d)
  PROVE  BackInv'
<1>1. /\ UNCHANGED <<evalRuns, ran, at, results>> /\ pc' = [pc EXCEPT ![s] = "record"]
      /\ mode' = [mode EXCEPT ![s] = m] /\ doc' = [doc EXCEPT ![s] = d]
      /\ incidents \subseteq incidents'
      /\ [suite |-> s, at |-> at[s], mode |-> m, exp |-> ran[s][at[s]], doc |-> d] \in incidents'
  BY DEF Correlated, Persisted
<1>2. ResultsBacked'
  BY <1>1, BackedSame DEF BackInv
<1>3. \A n \in Suite : pc'[n] = "record" => RowOf(n)' \in incidents'
  <2> SUFFICES ASSUME NEW n \in Suite, pc'[n] = "record"
               PROVE  [suite |-> n, at |-> at[n], mode |-> mode'[n], exp |-> ran[n][at[n]], doc |-> doc'[n]]
                        \in incidents'
    BY <1>1 DEF RowOf
  <2>1. CASE n = s
    <3>1. mode'[n] = m /\ doc'[n] = d
      BY <1>1, <2>1 DEF TInv, TypeOK
    <3> QED
      BY <1>1, <2>1, <3>1
  <2>2. CASE n # s
    <3>1. mode'[n] = mode[n] /\ doc'[n] = doc[n] /\ pc[n] = "record"
      BY <1>1, <2>2 DEF TInv, TypeOK
    <3> QED
      BY <1>1, <3>1 DEF BackInv, RowOf
  <2> QED
    BY <2>1, <2>2
<1>4. \A n \in Suite : pc'[n] \in Busy \union {"labels", "close", "done"} => evalRuns'[n] # "none"
  BY <1>1 DEF BackInv, TInv, TypeOK
<1> QED
  BY <1>2, <1>3, <1>4 DEF BackInv

\* A step that leaves incidents and results alone, and no suite at an INSERT of a
\* result it was not at before.
LEMMA QuietBack ==
  ASSUME TInv, BackInv, UNCHANGED <<incidents, results>>,
         \A s \in Suite : evalRuns[s] # "none" => evalRuns'[s] # "none",
         \A s \in Suite : pc'[s] = "record" =>
           pc[s] = "record" /\ at'[s] = at[s] /\ mode'[s] = mode[s] /\ ran'[s] = ran[s] /\ doc'[s] = doc[s],
         \A s \in Suite : pc'[s] \in Busy \union {"labels", "close", "done"} =>
           evalRuns'[s] # "none" \/ pc[s] \in Busy \union {"labels", "close", "done"}
  PROVE  BackInv'
<1>1. ResultsBacked'
  BY BackedSame DEF BackInv
<1>2. \A s \in Suite : pc'[s] = "record" => RowOf(s)' \in incidents'
  BY DEF BackInv, RowOf
<1>3. \A s \in Suite : pc'[s] \in Busy \union {"labels", "close", "done"} => evalRuns'[s] # "none"
  BY DEF BackInv
<1> QED
  BY <1>1, <1>2, <1>3 DEF BackInv

LEMMA StepBack == TInv /\ BackInv /\ [Next]_vars => BackInv'
<1> SUFFICES ASSUME TInv, BackInv, [Next]_vars PROVE BackInv'
  OBVIOUS
<1>1. ASSUME NEW s \in Suite, NEW ended \in {"ok", "early", "late"}, RunFile(s, ended) PROVE BackInv'
  <2>1. UNCHANGED <<incidents, results, evalRuns, pc, at, mode, doc>> /\ pc[s] = "experiments"
    BY <1>1 DEF RunFile, Write, db, scoring
  <2>2. \A n \in Suite \ {s} : ran'[n] = ran[n]
    BY <1>1 DEF RunFile, TInv, TypeOK
  <2> QED
    BY <2>1, <2>2, QuietBack
<1>2. ASSUME NEW s \in Suite, Settle(s) \/ Bail(s) \/ Stop(s) PROVE BackInv'
  <2>1. /\ UNCHANGED <<incidents, results, evalRuns, ran, at, mode, doc>>
        /\ pc' = [pc EXCEPT ![s] = "open"] \/ pc' = [pc EXCEPT ![s] = "failed"]
    BY <1>2 DEF Settle, Bail, Stop, db, scoring
  <2> QED
    BY <2>1, QuietBack DEF TInv, TypeOK, Busy
<1>3. ASSUME NEW s \in Suite, OpenRun(s) PROVE BackInv'
  <2>1. /\ UNCHANGED <<incidents, results, ran, at, mode, doc>> /\ pc' = [pc EXCEPT ![s] = NextPlace(s)]
        /\ evalRuns' = [evalRuns EXCEPT ![s] = "open"] /\ NextPlace(s) # "record"
    BY <1>3 DEF OpenRun, scoring, NextPlace
  <2> QED
    BY <2>1, QuietBack DEF TInv, TypeOK, Busy
<1>4. ASSUME NEW s \in Suite, ReadLabels(s) PROVE BackInv'
  <2>1. /\ UNCHANGED <<incidents, results, evalRuns, ran, doc>> /\ pc' = [pc EXCEPT ![s] = "trace"]
        /\ pc[s] = "labels" /\ \A n \in Suite \ {s} : at'[n] = at[n] /\ mode'[n] = mode[n]
    BY <1>4 DEF ReadLabels, db, TInv, TypeOK
  <2> QED
    BY <2>1, QuietBack DEF TInv, TypeOK, Busy
<1>5. ASSUME NEW s \in Suite, CorrelateTrace(s) \/ CorrelateAnomaly(s) PROVE BackInv'
  <2>1. PICK m \in Mode : (\E d : Correlated(s, m, d)) /\ pc[s] \in Busy
    BY <1>5 DEF CorrelateTrace, CorrelateAnomaly, Mode, Busy
  <2> QED
    BY <2>1, CorrelatedBack
<1>6. ASSUME NEW s \in Suite, Record(s) PROVE BackInv'
  BY <1>6, RecordBack
<1>7. ASSUME NEW s \in Suite, CloseRun(s) PROVE BackInv'
  <2>1. /\ UNCHANGED <<incidents, results, ran, at, mode, doc>> /\ pc' = [pc EXCEPT ![s] = "done"]
        /\ evalRuns' = [evalRuns EXCEPT ![s] = "ended"]
    BY <1>7 DEF CloseRun, scoring
  <2> QED
    BY <2>1, QuietBack DEF TInv, TypeOK, Busy
<1>8. ASSUME NEW e \in Experiment, RunByOther(e) PROVE BackInv'
  BY <1>8, QuietBack DEF RunByOther, Write, scoring
<1>9. CASE UNCHANGED vars
  BY <1>9, QuietBack DEF vars, db, scoring
<1> QED
  BY <1>1, <1>2, <1>3, <1>4, <1>5, <1>6, <1>7, <1>8, <1>9 DEF Next, Step

\* Every result has its eval run and its incident, with the score it shows.
THEOREM ResultsTraceable == Spec => []ResultsBacked
<1>1. Init => BackInv
  BY DEF Init, BackInv, ResultsBacked, Busy
<1>2. BackInv => ResultsBacked
  BY DEF BackInv
<1> QED
  BY <1>1, <1>2, InitTInv, StepTInv, StepBack, PTL DEF Spec

-----------------------------------------------------------------------------
(* No incident without a result *)

HasResult(i) == \E r \in results : r.suite = i.suite /\ r.at = i.at /\ r.mode = i.mode

\* What is scored is scheduled, so no two positions of an id are, and a result
\* replaces only one of the same position.
OrphanInv ==
  /\ NoOrphans
  /\ \A s \in Suite : pc[s] = "experiments" => todo[s] = {}
  /\ \A s \in Suite : todo[s] \subseteq Scheduled(ran[s])
  /\ \A s \in Suite : pc[s] \in Busy => at[s] \in Scheduled(ran[s])
  /\ \A r \in results : r.at \in Scheduled(ran[r.suite]) /\ r.exp = ran[r.suite][r.at]

LEMMA RecordOrphan ==
  ASSUME TInv, OrphanInv, NEW s \in Suite, Record(s)
  PROVE  OrphanInv'
<1>1. PICK now \in Writer : results' = Insert(ScoredRow(s, now))
  BY RowOfRecord
<1> DEFINE row == ScoredRow(s, now)
<1>2. /\ UNCHANGED <<incidents, ran, at, mode, todo>> /\ pc[s] = "record"
      /\ pc' = [pc EXCEPT ![s] = AfterMode(s)]
      /\ AfterMode(s) \in {"anomaly", "labels", "close"}
  BY DEF Record, scoring, AfterMode, NextPlace
<1>3. row.suite = s /\ row.exp = ran[s][at[s]] /\ row.mode = mode[s] /\ row.at = at[s]
  BY DEF ScoredRow
<1>4. results' = Insert(row)
  BY <1>1
<1> HIDE DEF row
<1>5. row \in results' /\ \A r \in results' : r \in results \/ r = row
  BY <1>4 DEF Insert
<1>6. ran[s] \in Seq(Experiment) /\ at[s] \in Scheduled(ran[s])
  BY <1>2 DEF TInv, TypeOK, OrphanInv, Busy
<1>7. \A r \in results : r \in results' \/ (r.suite = s /\ r.at = at[s] /\ r.mode = mode[s])
  <2> SUFFICES ASSUME NEW r \in results, r \notin results'
               PROVE  r.suite = s /\ r.at = at[s] /\ r.mode = mode[s]
    OBVIOUS
  <2>1. r.suite = s /\ r.exp = ran[s][at[s]] /\ r.mode = mode[s]
    BY <1>3, <1>4 DEF Insert, SameKey
  <2>2. r.at \in Scheduled(ran[s]) /\ ran[s][r.at] = ran[s][at[s]]
    BY <2>1 DEF OrphanInv
  <2> QED
    BY <1>6, <2>1, <2>2, ScheduledOnce
<1>8. NoOrphans'
  <2> SUFFICES ASSUME NEW i \in incidents
               PROVE  \/ \E r \in results' : r.suite = i.suite /\ r.at = i.at /\ r.mode = i.mode
                      \/ /\ pc'[i.suite] \in {"record", "failed"}
                         /\ at[i.suite] = i.at /\ mode[i.suite] = i.mode
    BY <1>2 DEF NoOrphans
  <2>1. CASE i.suite = s /\ i.at = at[s] /\ i.mode = mode[s]
    BY <1>3, <1>5, <2>1
  <2>2. CASE ~(i.suite = s /\ i.at = at[s] /\ i.mode = mode[s])
    <3>1. CASE HasResult(i)
      BY <1>7, <2>2, <3>1 DEF HasResult
    <3>2. CASE ~HasResult(i)
      <4>1. pc[i.suite] \in {"record", "failed"} /\ at[i.suite] = i.at /\ mode[i.suite] = i.mode
        BY <3>2 DEF OrphanInv, NoOrphans, HasResult
      <4>2. i.suite # s
        BY <2>2, <4>1
      <4>3. i.suite \in Suite
        BY DEF TInv, TypeOK, Row
      <4> QED
        BY <1>2, <4>1, <4>2, <4>3 DEF TInv, TypeOK
    <3> QED
      BY <3>1, <3>2
  <2> QED
    BY <2>1, <2>2
<1>9. \A r \in results' : r.at \in Scheduled(ran[r.suite]) /\ r.exp = ran[r.suite][r.at]
  BY <1>3, <1>5, <1>6 DEF OrphanInv
<1>10. \A n \in Suite : (pc'[n] = "experiments" => pc[n] = "experiments") /\ (pc'[n] \in Busy => pc[n] \in Busy)
  BY <1>2 DEF TInv, TypeOK, Busy
<1> QED
  BY <1>2, <1>8, <1>9, <1>10 DEF OrphanInv

LEMMA CorrelatedOrphan ==
  ASSUME TInv, OrphanInv, NEW s \in Suite, pc[s] \in {"trace", "anomaly"},
         NEW m \in Mode, NEW d, Correlated(s, m, d)
  PROVE  OrphanInv'
<1>1. /\ UNCHANGED <<ran, at, todo, results>> /\ pc' = [pc EXCEPT ![s] = "record"]
      /\ mode' = [mode EXCEPT ![s] = m]
  BY DEF Correlated
<1>2. \A i \in incidents' : i \in incidents \/ (i.suite = s /\ i.at = at[s] /\ i.mode = m)
  BY DEF Correlated, Persisted
<1>3. NoOrphans'
  <2> SUFFICES ASSUME NEW i \in incidents', ~HasResult(i)
               PROVE  /\ pc'[i.suite] \in {"record", "failed"}
                      /\ at[i.suite] = i.at /\ mode'[i.suite] = i.mode
    BY <1>1 DEF NoOrphans, HasResult
  <2>1. CASE i \in incidents
    <3>1. pc[i.suite] \in {"record", "failed"} /\ at[i.suite] = i.at /\ mode[i.suite] = i.mode
      BY <2>1 DEF OrphanInv, NoOrphans, HasResult
    <3>2. i.suite \in Suite /\ i.suite # s
      BY <2>1, <3>1 DEF TInv, TypeOK, Row
    <3> QED
      BY <1>1, <3>1, <3>2 DEF TInv, TypeOK
  <2>2. CASE i.suite = s /\ i.at = at[s] /\ i.mode = m
    BY <1>1, <2>2 DEF TInv, TypeOK
  <2> QED
    BY <1>2, <2>1, <2>2
<1>4. \A n \in Suite : (pc'[n] = "experiments" => pc[n] = "experiments") /\ (pc'[n] \in Busy => pc[n] \in Busy)
  BY <1>1 DEF TInv, TypeOK, Busy
<1> QED
  BY <1>1, <1>3, <1>4 DEF OrphanInv

LEMMA ReadLabelsOrphan ==
  ASSUME TInv, OrphanInv, NEW s \in Suite, ReadLabels(s)
  PROVE  OrphanInv'
<1>1. PICK j \in todo[s] : at' = [at EXCEPT ![s] = j] /\ todo' = [todo EXCEPT ![s] = @ \ {j}]
  BY DEF ReadLabels
<1>2. /\ UNCHANGED <<incidents, results, ran>> /\ pc' = [pc EXCEPT ![s] = "trace"] /\ pc[s] = "labels"
      /\ mode' = [mode EXCEPT ![s] = "trace"]
  BY DEF ReadLabels, db
<1>3. NoOrphans'
  <2> SUFFICES ASSUME NEW i \in incidents, ~HasResult(i)
               PROVE  /\ pc'[i.suite] \in {"record", "failed"}
                      /\ at'[i.suite] = i.at /\ mode'[i.suite] = i.mode
    BY <1>2 DEF NoOrphans, HasResult
  <2>1. pc[i.suite] \in {"record", "failed"} /\ at[i.suite] = i.at /\ mode[i.suite] = i.mode
    BY DEF OrphanInv, NoOrphans, HasResult
  <2>2. i.suite \in Suite /\ i.suite # s
    BY <1>2, <2>1 DEF TInv, TypeOK, Row
  <2> QED
    BY <1>1, <1>2, <2>1, <2>2 DEF TInv, TypeOK
<1>4. \A n \in Suite : todo'[n] \subseteq todo[n]
  BY <1>1 DEF TInv, TypeOK
<1>5. \A n \in Suite : pc'[n] \in Busy => at'[n] \in Scheduled(ran[n])
  BY <1>1, <1>2 DEF OrphanInv, TInv, TypeOK
<1>6. \A n \in Suite : pc'[n] = "experiments" => pc[n] = "experiments"
  BY <1>2 DEF TInv, TypeOK
<1> QED
  BY <1>2, <1>3, <1>4, <1>5, <1>6 DEF OrphanInv

LEMMA RunFileOrphan ==
  ASSUME TInv, OrphanInv, ScopeInv, NEW s \in Suite, NEW ended \in {"ok", "early", "late"}, RunFile(s, ended)
  PROVE  OrphanInv'
<1>1. /\ UNCHANGED <<incidents, results, pc, at, mode, todo>> /\ pc[s] = "experiments"
      /\ \A n \in Suite \ {s} : ran'[n] = ran[n]
  BY DEF RunFile, Write, db, scoring, TInv, TypeOK
<1>2. \A r \in results : r.suite \in Suite \ {s}
  BY <1>1 DEF ScopeInv, TInv, TypeOK, Result
<1>3. todo[s] = {}
  BY <1>1 DEF OrphanInv
<1>4. NoOrphans'
  BY <1>1 DEF OrphanInv, NoOrphans
<1>5. \A n \in Suite : todo'[n] \subseteq Scheduled(ran'[n])
  BY <1>1, <1>3 DEF OrphanInv
<1>6. \A n \in Suite : pc'[n] \in Busy => at'[n] \in Scheduled(ran'[n])
  BY <1>1 DEF OrphanInv, Busy
<1>7. \A r \in results' : r.at \in Scheduled(ran'[r.suite]) /\ r.exp = ran'[r.suite][r.at]
  BY <1>1, <1>2 DEF OrphanInv
<1> QED
  BY <1>1, <1>4, <1>5, <1>6, <1>7 DEF OrphanInv

\* A step to another place that makes no incident and no result.
LEMMA QuietOrphan ==
  ASSUME TInv, OrphanInv, UNCHANGED <<incidents, results, ran, at, mode>>,
         NEW s \in Suite, NEW place, pc' = [pc EXCEPT ![s] = place],
         place \notin Busy \union {"experiments"}, pc[s] = "record" => place = "failed",
         pc[s] # "failed",
         \A n \in Suite : todo'[n] = todo[n] \/ (todo'[n] = Scheduled(ran[n]) /\ n = s)
  PROVE  OrphanInv'
<1>1. \A n \in Suite :
        /\ pc'[n] = "experiments" => (pc[n] = "experiments" /\ n # s)
        /\ pc'[n] \in Busy => pc[n] \in Busy
        /\ pc[n] \in {"record", "failed"} => pc'[n] \in {"record", "failed"}
  BY DEF TInv, TypeOK
<1>2. \A i \in incidents : i.suite \in Suite
  BY DEF TInv, TypeOK, Row
<1>3. NoOrphans'
  BY <1>1, <1>2 DEF OrphanInv, NoOrphans
<1>4. \A n \in Suite : todo'[n] \subseteq Scheduled(ran[n])
  BY DEF OrphanInv
<1>5. ASSUME NEW n \in Suite, pc'[n] = "experiments" PROVE todo'[n] = {}
  <2>1. n # s /\ pc[n] = "experiments"
    BY <1>1, <1>5
  <2> QED
    BY <2>1 DEF OrphanInv
<1> QED
  BY <1>1, <1>3, <1>4, <1>5 DEF OrphanInv

LEMMA StepOrphan == TInv /\ ScopeInv /\ OrphanInv /\ [Next]_vars => OrphanInv'
<1> SUFFICES ASSUME TInv, ScopeInv, OrphanInv, [Next]_vars PROVE OrphanInv'
  OBVIOUS
<1>1. ASSUME NEW s \in Suite, NEW ended \in {"ok", "early", "late"}, RunFile(s, ended) PROVE OrphanInv'
  BY <1>1, RunFileOrphan
<1>2. ASSUME NEW s \in Suite, Settle(s) PROVE OrphanInv'
  <2>1. \A n \in Suite : todo'[n] = todo[n] \/ (todo'[n] = Scheduled(ran[n]) /\ n = s)
    BY <1>2 DEF Settle, TInv, TypeOK
  <2> QED
    <3>1. /\ UNCHANGED <<incidents, results, ran, at, mode>> /\ pc' = [pc EXCEPT ![s] = "open"]
          /\ pc[s] = "experiments" /\ "open" \notin Busy \union {"experiments"}
      BY <1>2 DEF Settle, FilesDone, db, Busy
    <3> QED
      BY <2>1, <3>1, QuietOrphan
<1>3. ASSUME NEW s \in Suite, Bail(s) \/ Stop(s) PROVE OrphanInv'
  <2>1. /\ UNCHANGED <<incidents, results, ran, at, mode, todo>> /\ pc' = [pc EXCEPT ![s] = "failed"]
        /\ pc[s] # "failed" /\ "failed" \notin Busy \union {"experiments"}
    BY <1>3 DEF Bail, Stop, FilesDone, db, scoring, Busy, Ended
  <2> QED
    BY <2>1, QuietOrphan
<1>4. ASSUME NEW s \in Suite, OpenRun(s) PROVE OrphanInv'
  <2>1. /\ UNCHANGED <<incidents, results, ran, at, mode, todo>> /\ pc' = [pc EXCEPT ![s] = NextPlace(s)]
        /\ pc[s] = "open" /\ NextPlace(s) \notin Busy \union {"experiments"}
    BY <1>4 DEF OpenRun, NextPlace, scoring, Busy
  <2> QED
    BY <2>1, QuietOrphan
<1>5. ASSUME NEW s \in Suite, ReadLabels(s) PROVE OrphanInv'
  BY <1>5, ReadLabelsOrphan
<1>6. ASSUME NEW s \in Suite, CorrelateTrace(s) \/ CorrelateAnomaly(s) PROVE OrphanInv'
  BY <1>6, CorrelatedOrphan DEF CorrelateTrace, CorrelateAnomaly, Mode
<1>7. ASSUME NEW s \in Suite, Record(s) PROVE OrphanInv'
  BY <1>7, RecordOrphan
<1>8. ASSUME NEW s \in Suite, CloseRun(s) PROVE OrphanInv'
  <2>1. /\ UNCHANGED <<incidents, results, ran, at, mode, todo>> /\ pc' = [pc EXCEPT ![s] = "done"]
        /\ pc[s] = "close" /\ "done" \notin Busy \union {"experiments"}
    BY <1>8 DEF CloseRun, scoring, Busy
  <2> QED
    BY <2>1, QuietOrphan
<1>9. ASSUME NEW e \in Experiment, RunByOther(e) PROVE OrphanInv'
  BY <1>9 DEF RunByOther, Write, scoring, OrphanInv, NoOrphans
<1>10. CASE UNCHANGED vars
  BY <1>10 DEF vars, db, scoring, OrphanInv, NoOrphans
<1> QED
  BY <1>1, <1>2, <1>3, <1>4, <1>5, <1>6, <1>7, <1>8, <1>9, <1>10 DEF Next, Step

\* An incident is without a result only where its suite was interrupted between
\* the two INSERTs.
THEOREM OrphansOnlyInFlight == Spec => []NoOrphans
<1>1. Init => ScopeInv
  BY DEF Init, ScopeInv, ScopedToInvocation, Busy
<1>2. Init => OrphanInv
  BY DEF Init, OrphanInv, NoOrphans, Busy
<1>3. OrphanInv => NoOrphans
  BY DEF OrphanInv
<1> QED
  BY <1>1, <1>2, <1>3, InitTInv, StepTInv, StepScope, StepOrphan, PTL DEF Spec

=============================================================================
