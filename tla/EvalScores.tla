------------------------------ MODULE EvalScores ------------------------------
(***************************************************************************)
(* What the eval harness makes of an incident and the labels of its        *)
(* experiment: eval-harness/src/scoring.rs, coverage.rs and the scoring    *)
(* half of score_and_record.                                               *)
(*                                                                         *)
(* Shares of one (recall, precision, coverage) are counted in parts of     *)
(* Unit, which the small denominators of the runs divide, and weights in   *)
(* hundredths, so the scores below are exact, but for the mean of the four *)
(* coverages in Completeness, which is rounded down to a whole part.       *)
(***************************************************************************)
EXTENDS Integers, Sequences, FiniteSets

CONSTANTS Service, Metric

ASSUME MetricAssumption == IsFiniteSet(Metric)

Unit == 120

\* scoring.rs:28-37 and configs/scoring.toml
Weights == [recall |-> 50, precision |-> 10, completeness |-> 25, time |-> 10, fpPenalty |-> 5]

\* The parts of an IncidentContext that are scored: of the spans, how many there
\* are and how many have their parent (or need none) in the document.
Document ==
  {d \in [suspects: Seq(Service), traces: Nat, errorLogs: Nat, anomalies: SUBSET Metric,
          spans: Nat, rooted: Nat, seconds: Nat] : d.rooted <= d.spans}

\* runner.rs:234-262: no evidence, no time taken
DegradedIncident ==
  [suspects |-> <<>>, traces |-> 0, errorLogs |-> 0, anomalies |-> {},
   spans |-> 0, rooted |-> 0, seconds |-> 0]

\* The ground truth of an experiment, from its row in labels.db and the
\* expected metrics of its class.
Truth ==
  [primary: Service, blast: SUBSET Service, clean: SUBSET Service, expected: SUBSET Metric]

Share(n, d) == (Unit * n) \div d
AtMostOne(share) == IF share > Unit THEN Unit ELSE share

\* The ranks 1..k (of those there are) at which a service of S stands.
TopRanks(suspects, k, S) == {i \in 1..k : i <= Len(suspects) /\ suspects[i] \in S}

RecallAt(suspects, primary, k) == IF TopRanks(suspects, k, {primary}) = {} THEN 0 ELSE Unit

PrecisionAt(suspects, truth, k) ==
  Share(Cardinality(TopRanks(suspects, k, {truth.primary} \union truth.blast)), k)

CleanFps(suspects, truth) == Cardinality(TopRanks(suspects, 3, truth.clean))

TraceCoverage(doc) == AtMostOne(Share(doc.traces, 1))
ErrorLogCoverage(doc) == AtMostOne(Share(doc.errorLogs, 1))

AnomalyCoverage(doc, expected) ==
  IF expected = {} THEN Unit
  ELSE Share(Cardinality(expected \intersect doc.anomalies), Cardinality(expected))

TreeIntegrity(doc) == IF doc.spans = 0 THEN Unit ELSE Share(doc.rooted, doc.spans)

Completeness(doc, truth) ==
  (TraceCoverage(doc) + ErrorLogCoverage(doc) + AnomalyCoverage(doc, truth.expected)
     + TreeIntegrity(doc)) \div 4

\* mutant: without the .max(0.0) of scoring.rs:50
TimeTerm_Unclamped(seconds) == Unit - Share(seconds, 10)

\* the share of ten seconds that was left, never negative
TimeTerm(seconds) == IF seconds > 10 THEN 0 ELSE Unit - Share(seconds, 10)

Composite(doc, truth) ==
  Weights.recall * RecallAt(doc.suspects, truth.primary, 3)
    + Weights.precision * PrecisionAt(doc.suspects, truth, 3)
    + Weights.completeness * Completeness(doc, truth)
    + Weights.time * TimeTerm(doc.seconds)
    - Weights.fpPenalty * Share(CleanFps(doc.suspects, truth), 3)

=============================================================================
