--------------------------- MODULE CorrelationEngine ---------------------------
(***************************************************************************)
(* One request to the correlation engine: correlate_trace asks Tempo for   *)
(* the spans and Loki for the logs, builds the evidence graph and ranks    *)
(* the suspects; correlate_anomaly asks Prometheus for a metric's window   *)
(* and runs the z-score detector over it.  Each adapter repeats a failed   *)
(* call under the RetryPolicy.                                             *)
(***************************************************************************)
EXTENDS EvidenceGraph, AnomalyDetector

Sequence == INSTANCE SequencesExt

CONSTANTS
  Queried,  \* the service an anomaly request names
  From,     \* the sample its window starts with: those before come from the expansion
  Attempts, \* RetryPolicy.attempts
  Traces,   \* what Tempo may answer, sequences of spans
  LogSets,  \* what Loki may answer, sequences of records
  Series,   \* what Prometheus may answer, sequences of metric series
  NoError   \* no call has failed

\* a series of the answer: values[i] is its sample at the i-th step
MetricSeries == [service : Service, values : Seq(Int)]

ASSUME EngineAssumption ==
  /\ Queried \in Service
  /\ From \in Nat
  /\ Attempts \in Nat \ {0}
  /\ Traces \subseteq Seq(Span)
  /\ LogSets \subseteq Seq(Log)
  /\ Series \subseteq Seq(MetricSeries)
  /\ NoError \notin {"404", "send", "other"}

\* there is always an id that a trace does not use
ASSUME FreshIdAssumption ==
  \A t \in Traces : \E id \in SpanId : \A i \in DOMAIN t : id \notin {t[i].id, t[i].parent}

\* how a call fails: the server says 404, the request cannot be sent or gets
\* no response, or anything else (an error status, a body that is not JSON)
Failure == {"404", "send", "other"}

Request == [kind : {"trace", "anomaly"},
            id : {"plain", "with 404"}] \* does the trace id have 404 in it?

VARIABLES
  pc,       \* the backend the request waits for, or where it is
  request,
  tries,    \* calls to the backend that have failed
  lastErr,  \* last_err: how the latest of them did
  spans, logs, points,
  answer,   \* what the caller gets
  lost      \* (history) backends whose evidence was given up

vars == <<pc, request, tries, lastErr, spans, logs, points, answer, lost>>

\* notes: what the strings in `notes` are about; peak: the step of the sample whose
\* value and score an anomaly incident reports (it does not tell the step), or 0
Incident(suspects, notes) == [outcome |-> "incident", suspects |-> suspects, notes |-> notes, peak |-> 0]
Error(kind)               == [outcome |-> kind, suspects |-> <<>>, notes |-> {}, peak |-> 0]
NoAnswer                  == Error("none")

Init ==
  /\ request \in Request
  /\ pc = IF request.kind = "trace" THEN "tempo" ELSE "prom"
  /\ tries = 0 /\ lastErr = NoError
  /\ spans = <<>> /\ logs = <<>> /\ points = <<>>
  /\ answer = NoAnswer
  /\ lost = {}

LastTry(n) == n >= Attempts

Waiting == pc \in {"tempo", "loki", "prom"}

\* a failed call that is tried again, after a pause
Retry(failure) ==
  /\ Waiting
  /\ ~LastTry(tries + 1)
  /\ tries' = tries + 1
  /\ lastErr' = failure
  /\ UNCHANGED <<pc, request, spans, logs, points, answer, lost>>

\* the adapter's call has an answer, or is given up silently: the next one
\* starts from no tries
Reset == tries' = 0 /\ lastErr' = NoError

\* to_string() of the last error: a 404 says so, the error of a request that
\* was not answered names the URL and with it the trace id
Mentions404(failure) == failure = "404" \/ (failure = "send" /\ request.id = "with 404")

TempoAnswers(trace) ==
  /\ pc = "tempo"
  /\ spans' = trace
  /\ IF trace = <<>>
       THEN pc' = "done" /\ answer' = Incident(<<>>, {"not found"})
       ELSE pc' = "loki" /\ UNCHANGED answer
  /\ Reset
  /\ UNCHANGED <<request, logs, points, lost>>

\* a body that is JSON but no trace
TempoMalformed ==
  /\ pc = "tempo"
  /\ pc' = "done"
  /\ answer' = Error("malformed")
  /\ Reset
  /\ UNCHANGED <<request, spans, logs, points, lost>>

TempoGivesUp(failure) ==
  /\ pc = "tempo"
  /\ LastTry(tries + 1)
  /\ pc' = "done"
  /\ tries' = tries + 1
  /\ lastErr' = failure
  /\ answer' = IF Mentions404(failure) THEN Incident(<<>>, {"not found"}) ELSE Error("unreachable")
  /\ UNCHANGED <<request, spans, logs, points, lost>>

LokiAnswers(records) ==
  /\ pc = "loki"
  /\ logs' = records
  /\ pc' = "rank"
  /\ Reset
  /\ UNCHANGED <<request, spans, points, answer, lost>>

\* unwrap_or_default: out of tries, or an answer that is no query result, at
\* whichever try; either way there are no logs
LokiLost ==
  /\ pc = "loki"
  /\ logs' = <<>>
  /\ pc' = "rank"
  /\ Reset
  /\ lost' = {"loki"}
  /\ UNCHANGED <<request, spans, points, answer>>

\* build_from, rank_suspects, build_tree and the incident of a trace
Rank ==
  /\ pc = "rank"
  /\ TreeEnds(spans)
  /\ answer' = Incident(RankSuspects(spans, logs), {})
  /\ pc' = "done"
  /\ UNCHANGED <<request, tries, lastErr, spans, logs, points, lost>>

\* build_tree does not return: the stack overflows and the process dies
Overflow ==
  /\ pc = "rank"
  /\ ~TreeEnds(spans)
  /\ answer' = Error("crash")
  /\ pc' = "done"
  /\ UNCHANGED <<request, tries, lastErr, spans, logs, points, lost>>

\* parse_prom_points: the samples of all series, one series after the other
Samples(s) == [i \in DOMAIN s.values |-> [service |-> s.service, at |-> i, value |-> s.values[i]]]
Points(series) == Sequence!FlattenSeq([k \in DOMAIN series |-> Samples(series[k])])

PromAnswers(series) ==
  /\ pc = "prom"
  /\ points' = Points(series)
  /\ pc' = "detect"
  /\ Reset
  /\ UNCHANGED <<request, spans, logs, answer, lost>>

PromLost ==
  /\ pc = "prom"
  /\ points' = <<>>
  /\ pc' = "detect"
  /\ Reset
  /\ lost' = {"prom"}
  /\ UNCHANGED <<request, spans, logs, answer>>

\* the samples of the service the request names
OwnAt == {i \in DOMAIN points : points[i].service = Queried}
Own   == [k \in 1..Cardinality(OwnAt) |->
            points[CHOOSE i \in OwnAt : Cardinality({j \in OwnAt : j <= i}) = k]]
Values(samples) == [i \in DOMAIN samples |-> samples[i].value]

\* an incident about the queried service and its last hit, or an empty one
Detect ==
  /\ pc = "detect"
  /\ answer' = IF Hits(Values(Own)) = {}
                 THEN Incident(<<>>, {"no anomaly"})
                 ELSE [Incident(<<Queried>>, {}) EXCEPT !.peak = Own[LastHit(Values(Own))].at]
  /\ pc' = "done"
  /\ UNCHANGED <<request, tries, lastErr, spans, logs, points, lost>>

-----------------------------------------------------------------------------
Call ==
  \/ \E f \in Failure : Retry(f)
  \/ \E t \in Traces : TempoAnswers(t)
  \/ TempoMalformed
  \/ \E f \in Failure : TempoGivesUp(f)
  \/ \E l \in LogSets : LokiAnswers(l)
  \/ LokiLost
  \/ \E s \in Series : PromAnswers(s)
  \/ PromLost
  \/ Rank
  \/ Overflow
  \/ Detect

Done == pc = "done" /\ UNCHANGED vars
Next == Call \/ Done

Spec == Init /\ [][Next]_vars

-----------------------------------------------------------------------------
(* Properties.                                                             *)

TypeOK ==
  /\ pc \in {"tempo", "loki", "prom", "rank", "detect", "done"}
  /\ request \in Request
  /\ tries \in 0..Attempts
  /\ lastErr \in Failure \cup {NoError}
  /\ tries = Attempts => pc = "done" /\ request.kind = "trace"
  /\ spans \in Seq(Span)
  /\ logs \in Seq(Log)
  /\ points \in Seq([service : Service, at : Nat, value : Int])
  /\ answer \in [outcome : {"none", "incident", "malformed", "unreachable", "crash"},
                 suspects : Seq(Service),
                 notes : SUBSET {"not found", "no anomaly"}, peak : Nat]
  /\ lost \subseteq {"loki", "prom"}

UniqueIds == \A i, j \in DOMAIN spans : spans[i].id = spans[j].id => i = j

\* "It blames the slow worker, not a caller merely blocked waiting on it"
\* (README.md:93-94).  In a trace without errors in which every span with
\* children lasts little longer than one of them, the services blamed are those
\* with a slow span that calls nobody, and one of them ranks first.
Children(i) == {c \in DOMAIN spans : spans[c].parent = spans[i].id}
Blocked(i)  == \E c \in Children(i) : spans[i].dur <= spans[c].dur + SlowMs
SlowLeaves  == {i \in DOMAIN spans : Children(i) = {} /\ spans[i].dur > SlowMs}

SlowWorkerBlamed ==
  /\ pc = "done" /\ answer.outcome = "incident" /\ UniqueIds
  /\ \A i \in DOMAIN spans : ~spans[i].error /\ (Children(i) # {} => Blocked(i))
  /\ \A i \in DOMAIN logs : ~logs[i].error
  => LET culprits == {spans[i].service : i \in SlowLeaves} IN
     /\ \A s \in Services(spans, logs) : Score(spans, logs, s) > 0 <=> s \in culprits
     /\ culprits # {} => answer.suspects[1] \in culprits

\* design-spec.md:782: adding error evidence never decreases a service's score.
\* Here for a span that turns from ok to error, and for one more error span
\* anywhere under the trace, though it shortens its parent's self-time, here by
\* so much that the parent is slow no more.
NewId == CHOOSE id \in SpanId : \A i \in DOMAIN spans : id \notin {spans[i].id, spans[i].parent}

ErrorsNeverLower ==
  pc = "rank" /\ UniqueIds =>
    /\ \A i \in DOMAIN spans :
         Score([spans EXCEPT ![i].error = TRUE], logs, spans[i].service)
           >= Score(spans, logs, spans[i].service)
    /\ \A s \in Services(spans, logs) :
         LET before == Score(spans, logs, s)
             New(p) == [id |-> NewId, parent |-> p, service |-> s, error |-> TRUE,
                        dur |-> IF p \in Ids(spans) /\ Node(spans, p).dur > SlowMs
                                  THEN Node(spans, p).dur - SlowMs ELSE SlowMs]
         IN \A p \in Ids(spans) \cup {NoParent} : Score(Append(spans, New(p)), logs, s) >= before

\* The same for a log record more (scoring.rs:54-62), here an error of any service
\* in the bucket of a record there is or in one of its own: no score goes down, and
\* that service's goes up although its batches weigh but the root of their size.
Buckets == {0} \cup {logs[i].bucket : i \in DOMAIN logs} \cup {logs[i].bucket + 1 : i \in DOMAIN logs}

ErrorLogsNeverLower ==
  pc = "rank" =>
    \A t \in Service, b \in Buckets :
      LET more == Append(logs, [service |-> t, error |-> TRUE, bucket |-> b]) IN
      /\ \A s \in Services(spans, logs) : Score(spans, more, s) >= Score(spans, logs, s)
      /\ Score(spans, more, t) > Score(spans, logs, t)

\* design-spec.md:192: blame is propagated along CausedBy edges, halved at every
\* edge, over at most MaxDepth of them.  The chains are those of error spans,
\* each the child of the next; what a chain passes on is all the direct error
\* weight of the service it starts in.
Chains(k) ==
  {c \in [0..k -> DOMAIN spans] :
     \A j \in 0..(k - 1) : spans[c[j]].error /\ spans[c[j]].parent = spans[c[j + 1]].id}

PropagatesAlongChains ==
  pc = "rank" /\ UniqueIds =>
    \A s \in Services(spans, logs) :
      LET To(k)   == {c \in Chains(k) : spans[c[k]].service = s}
          Over(k) == (8 \div 2^k)
                       * Total([c \in To(k) |-> DirectError(spans, logs, spans[c[0]].service)], To(k))
      IN Propagated(spans, logs, s) = Total([k \in 1..MaxDepth |-> Over(k)], 1..MaxDepth)

\* A span the backend lists twice counts once: it changes no score.
DuplicatesCountOnce ==
  pc = "rank" =>
    \A i \in DOMAIN spans, s \in Services(spans, logs) :
      Score(Append(spans, spans[i]), logs, s) = Score(spans, logs, s)

\* With distinct span ids the span tree is finite and holds each span at most
\* once, and a trace without missing parents and cycles is in it completely.
TreeIsForest ==
  pc = "rank" /\ UniqueIds =>
    /\ TreeEnds(spans)
    /\ \A p, q \in TreePaths(spans) : p[Len(p)] = q[Len(q)] => p = q
    /\ (\A i \in DOMAIN spans : spans[i].parent = NoParent \/ \E j \in 1..(i - 1) : spans[j].id = spans[i].parent)
         => {p[Len(p)] : p \in TreePaths(spans)} = DOMAIN spans

\* Fewer than half of the points of a series are ever flagged, so a steady state
\* is not; and a single point that differs from all others is.
FlaggedAreFew ==
  pc = "detect" =>
    LET vals == Values(Own) IN
    /\ Hits(vals) # {} => 2 * Cardinality(Hits(vals)) < Len(vals)
    /\ \A i \in DOMAIN vals :
         /\ Len(vals) > MinBaseline /\ Len(vals) > 2
         /\ \A j, k \in DOMAIN vals \ {i} : vals[j] = vals[k] /\ vals[i] # vals[j]
         => Hits(vals) = {i}

\* The series fetched starts well before the window asked about (engine.rs:174-178)
\* and one hit of it is reported, without its time.  An old spike is never
\* reported in place of one within the window, provided Prometheus has one
\* series of the service; and what other services' series do is no reason to
\* report or to withhold one.
InOrder == \A i, j \in DOMAIN Own : i < j => Own[i].at < Own[j].at

SpikeInWindowReported ==
  pc = "done" /\ request.kind = "anomaly" /\ InOrder =>
    LET flagged == {Own[i].at : i \in Hits(Values(Own))} IN
    /\ answer.peak \in flagged \cup {0}
    /\ (\E a \in flagged : a >= From) => answer.peak >= From
    /\ answer.suspects = <<>> <=> flagged = {}

\* design-spec.md:20: an adapter failure is attributed in notes[] rather than
\* silently affecting scores.
NoSilentLoss == pc = "done" /\ answer.outcome = "incident" /\ lost # {} => answer.notes # {}

=============================================================================
