----------------------------- MODULE EvidenceGraph -----------------------------
(***************************************************************************)
(* The evidence graph of correlation-core for one trace and its logs, the  *)
(* ranking of suspects over it and the span tree, as operators on what the *)
(* backends answered.  A span is identified by its id, as in the graph; a  *)
(* trace may hold an id twice and may lack a parent.                       *)
(***************************************************************************)
EXTENDS Integers, Sequences, FiniteSets, Sums

CONSTANTS
  Service,  \* service names, numbered in their (string) order
  SpanId,   \* span ids, those of parents outside the trace included
  MaxDepth, \* causal_propagation_max_depth
  SlowMs,   \* slow_span_self_ms
  NoParent  \* a root span's parent_id

ASSUME GraphAssumption ==
  /\ Service \subseteq Nat
  /\ MaxDepth \in 0..3
  /\ SlowMs \in Nat
  /\ NoParent \notin SpanId

Span == [id : SpanId, parent : SpanId \cup {NoParent}, service : Service,
         error : BOOLEAN, dur : Nat]

\* bucket: the log_bucket_sec bucket of the record's time
Log == [service : Service, error : BOOLEAN, bucket : Nat]

-----------------------------------------------------------------------------
(* build_from.  add_node keeps the node an id already has, edges are a set. *)

Ids(spans) == {spans[i].id : i \in DOMAIN spans}

\* the span node of an id
Node(spans, id) == spans[Min({i \in DOMAIN spans : spans[i].id = id})]

EmittedBy(spans) == {<<spans[i].id, spans[i].service>> : i \in DOMAIN spans}

ParentOf(spans) ==
  {<<spans[i].parent, spans[i].id>> : i \in {j \in DOMAIN spans : spans[j].parent # NoParent}}

\* the spans that get a CausedBy edge to their parent
Causing(spans) == {i \in DOMAIN spans : spans[i].error /\ spans[i].parent # NoParent}
CausedBy(spans) == {<<spans[i].id, spans[i].parent>> : i \in Causing(spans)}

\* the log batches: one per (service, level, bucket)
Batches(logs) == {logs[i] : i \in DOMAIN logs}
Count(logs, batch) == Cardinality({i \in DOMAIN logs : logs[i] = batch})

Services(spans, logs) ==
  {spans[i].service : i \in DOMAIN spans} \cup {logs[i].service : i \in DOMAIN logs}

-----------------------------------------------------------------------------
(* rank_suspects and propagate.  Weights are in thousandths; what is       *)
(* propagated over k edges is divided by 2^k (beta = 1/2), so scores are   *)
(* in eighths of a thousandth.                                             *)

\* the square root of a count, in thousandths and rounded; searched for from
\* the root in tenths
Sqrt(n) ==
  LET tenths == CHOOSE t \in 0..(10 * n) : t * t <= 100 * n /\ 100 * n < (t + 1) * (t + 1)
  IN CHOOSE r \in (100 * tenths)..(100 * tenths + 100) :
       /\ (2 * r - 1) * (2 * r - 1) <= 4000000 * n
       /\ 4000000 * n < (2 * r + 1) * (2 * r + 1)

SpanWeight_NoBase(span) == span.dur
SpanWeight(span) == 1000 + span.dur

DirectError_PerSpan(spans, logs, s) ==
  LET errors  == {i \in DOMAIN spans : spans[i].service = s /\ spans[i].error}
      batches == {b \in Batches(logs) : b.service = s /\ b.error}
  IN Total([i \in errors |-> SpanWeight(spans[i])], errors)
       + Total([b \in batches |-> Sqrt(Count(logs, b))], batches)
DirectError_MeanBatch(spans, logs, s) ==
  LET errors  == {id \in Ids(spans) : <<id, s>> \in EmittedBy(spans) /\ Node(spans, id).error}
      batches == {b \in Batches(logs) : b.service = s /\ b.error}
  IN Total([id \in errors |-> SpanWeight(Node(spans, id))], errors)
       + (IF batches = {} THEN 0
          ELSE Total([b \in batches |-> Sqrt(Count(logs, b))], batches) \div Cardinality(batches))
DirectError(spans, logs, s) ==
  LET errors  == {id \in Ids(spans) : <<id, s>> \in EmittedBy(spans) /\ Node(spans, id).error}
      batches == {b \in Batches(logs) : b.service = s /\ b.error}
  IN Total([id \in errors |-> SpanWeight(Node(spans, id))], errors)
       + Total([b \in batches |-> Sqrt(Count(logs, b))], batches)

\* where the first CausedBy edge of a span leads
Cause_Any(spans, id) ==
  LET out == {i \in DOMAIN spans : spans[i].id = id /\ spans[i].parent # NoParent} IN
  IF out = {} THEN NoParent ELSE spans[Min(out)].parent
Cause(spans, id) ==
  LET out == {i \in Causing(spans) : spans[i].id = id} IN
  IF out = {} THEN NoParent ELSE spans[Min(out)].parent

\* the walk from a span: where it is after k edges, NoParent when it has ended
Walk(spans, id) ==
  LET at[k \in 0..MaxDepth] == IF k = 0 THEN id ELSE Cause(spans, at[k - 1])
  IN at

\* each of the spans passes on its whole service's direct weight
Propagated(spans, logs, s) ==
  LET hops == {hop \in Ids(spans) \X (1..MaxDepth) :
                 LET target == Walk(spans, hop[1])[hop[2]] IN
                 target \in Ids(spans) /\ Node(spans, target).service = s}
      Share(hop) == (8 \div 2^hop[2]) * DirectError(spans, logs, Node(spans, hop[1]).service)
  IN Total([hop \in hops |-> Share(hop)], hops)

\* duration less the durations of the children the trace has
SelfTime_Total(spans, id) == Node(spans, id).dur
SelfTime(spans, id) ==
  LET children == {c \in Ids(spans) : <<id, c>> \in ParentOf(spans)}
  IN Node(spans, id).dur - Total([c \in children |-> Node(spans, c).dur], children)

Slow(spans, id) == ~Node(spans, id).error /\ SelfTime(spans, id) > SlowMs

DirectLatency(spans, s) ==
  LET slow == {id \in Ids(spans) : Node(spans, id).service = s /\ Slow(spans, id)}
  IN Total([id \in slow |-> SelfTime(spans, id)], slow)

Score(spans, logs, s) ==
  8 * DirectError(spans, logs, s) + Propagated(spans, logs, s) + 8 * DirectLatency(spans, s)

\* sort_by score, the highest first, then by name
Outranks_ByName(score, s, t) == s < t
Outranks(score, s, t) == score[s] > score[t] \/ (score[s] = score[t] /\ s < t)

RankOf(names, score, s) == 1 + Cardinality({t \in names : Outranks(score, t, s)})

Sorted(names, score) ==
  [r \in 1..Cardinality(names) |-> CHOOSE s \in names : RankOf(names, score, s) = r]

RankSuspects(spans, logs) ==
  LET names == Services(spans, logs)
  IN Sorted(names, [s \in names |-> Score(spans, logs, s)])

-----------------------------------------------------------------------------
(* build_tree: a node for each way to get to a span from a root along      *)
(* parent ids; a path lists the positions of the spans gone through.       *)

Roots_Unseen(spans) ==
  {i \in DOMAIN spans : \A j \in DOMAIN spans : spans[j].id = spans[i].parent => i < j}
Roots(spans) == {i \in DOMAIN spans : spans[i].parent = NoParent}

TreeLevel(spans) ==
  LET at[k \in 0..Len(spans)] ==
        IF k = 0
          THEN {<<i>> : i \in Roots(spans)}
          ELSE UNION {{Append(p, i) : i \in {j \in DOMAIN spans : spans[j].parent = spans[p[k]].id}}
                       : p \in at[k - 1]}
  IN at

TreePaths(spans) == UNION {TreeLevel(spans)[k] : k \in 0..(Len(spans) - 1)}

\* a path longer than the trace goes round in a circle: the recursion never ends
TreeEnds(spans) == TreeLevel(spans)[Len(spans)] = {}

=============================================================================
