---------------------------- MODULE AnomalyDetector ----------------------------
(***************************************************************************)
(* The z-score detector of correlation-core: median and median absolute    *)
(* deviation over the whole window.  Values are integers; a median of an   *)
(* even number of them may lie halfway, so it is kept doubled.             *)
(***************************************************************************)
EXTENDS Integers, Sequences, FiniteSets

CONSTANTS
  K,          \* anomaly_zscore_k
  MinBaseline \* min_baseline_sec, used as a number of points

ASSUME DetectorAssumption == K \in Nat /\ MinBaseline \in Nat

Abs(x) == IF x < 0 THEN -x ELSE x

\* the k-th smallest of a sequence of values
Smallest(vals, k) ==
  vals[CHOOSE i \in DOMAIN vals :
    /\ Cardinality({j \in DOMAIN vals : vals[j] < vals[i]}) < k
    /\ k <= Cardinality({j \in DOMAIN vals : vals[j] <= vals[i]})]

Median2_Lower(vals) == 2 * Smallest(vals, (Len(vals) + 1) \div 2)
\* twice the median
Median2(vals) ==
  LET n == Len(vals) IN
  IF n % 2 = 1 THEN 2 * Smallest(vals, n \div 2 + 1)
               ELSE Smallest(vals, n \div 2) + Smallest(vals, n \div 2 + 1)

\* twice the deviation of each value, and four times the MAD
Deviation2(vals) == [i \in DOMAIN vals |-> Abs(2 * vals[i] - Median2(vals))]
Mad4(vals) == Median2(Deviation2(vals))

\* 0.6745 * dev / mad > k, or any deviation at all when the MAD is zero
Flagged_ZeroMadSafe(vals, i) == 13490 * Deviation2(vals)[i] > 10000 * K * Mad4(vals) /\ Mad4(vals) > 0
Flagged(vals, i) ==
  IF Mad4(vals) > 0 THEN 13490 * Deviation2(vals)[i] > 10000 * K * Mad4(vals)
                    ELSE Deviation2(vals)[i] > 0

\* the positions of the hits
Hits(vals) ==
  IF Len(vals) < MinBaseline + 1 THEN {} ELSE {i \in DOMAIN vals : Flagged(vals, i)}

\* hits.last(), where there is one
LastHit_First(vals) == CHOOSE i \in Hits(vals) : \A j \in Hits(vals) : i <= j
LastHit(vals) == CHOOSE i \in Hits(vals) : \A j \in Hits(vals) : j <= i

=============================================================================
