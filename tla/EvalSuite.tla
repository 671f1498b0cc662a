------------------------------- MODULE EvalSuite -------------------------------
(***************************************************************************)
(* eval-harness run_suite: the experiments of a suite are run one after    *)
(* another, then each is looked up in labels.db, correlated in two modes   *)
(* and scored, with one row per incident in incidents.db and one per       *)
(* result in eval_runs.db. Several processes share the three databases;    *)
(* any of them may fail at a query or die between two.                     *)
(*                                                                         *)
(* A call of run_file is one step here, its INSERT into labels.db; module  *)
(* ExperimentRunner has its inside. An incident is named by the suite, the *)
(* position in ran_ids it was made for and its mode (the code draws a      *)
(* fresh UUID). Ids are scored in any order, which stands for the sorting. *)
(***************************************************************************)
EXTENDS EvalScores

CONSTANTS
  Suite,          \* eval-harness run processes, each with its eval_run_id
  Experiment,     \* experiment ids
  Files,          \* the experiment of each file the glob finds, by suite
  Other,          \* a process that runs experiments without an eval run
  NoRow,          \* a row that is not there
  Labels,         \* ground truth, by experiment: whoever runs an id runs the same YAML
  Incident        \* what the engine may answer with, by experiment

ASSUME SuiteAssumption ==
  /\ Files \in [Suite -> Seq(Experiment)]
  /\ Labels \in [Experiment -> Truth]
  /\ Incident \in [Experiment -> SUBSET Document]
  /\ Other \notin Suite /\ NoRow \notin Suite \union {Other}

VARIABLES
  labels,         \* who wrote the experiments row of an id last
  overwritten,    \* history: <<s, e>> when s wrote e's row and somebody else has since
  evalRuns,       \* eval_runs rows: none, open (ended_at a placeholder), ended
  incidents,      \* incidents rows
  results,        \* eval_results rows
  pc,             \* where each suite is
  next,           \* the file it runs next
  ran,            \* ran_ids: what run_file returned Ok for, in order
  todo,           \* the positions of ran_ids still to be scored
  at,             \* the position being scored
  mode,           \* the mode it is scored in
  doc,            \* the incident being scored
  read            \* whose labels row the scoring of this position began with

db == <<labels, overwritten, evalRuns, incidents, results>>
scoring == <<todo, at, mode, doc, read>>
vars == <<db, scoring, pc, next, ran>>

Mode == {"trace", "anomaly"}
Writer == Suite \union {Other}
Ended == {"done", "failed"}
Place == {"experiments", "open", "labels", "trace", "anomaly", "record", "close"}
Row == [suite: Suite, at: Nat, mode: Mode, exp: Experiment, doc: Document]
Result ==
  [suite: Suite, exp: Experiment, mode: Mode, at: Nat, labels: SUBSET (Writer \union {NoRow}),
   recall: Int, composite: Int]

Init ==
  /\ labels \in [Experiment -> {Other, NoRow}]
  /\ overwritten = {} /\ incidents = {} /\ results = {}
  /\ evalRuns = [s \in Suite |-> "none"]
  /\ pc = [s \in Suite |-> "experiments"]
  /\ next = [s \in Suite |-> 1]
  /\ ran = [s \in Suite |-> <<>>]
  /\ todo = [s \in Suite |-> {}]
  /\ at = [s \in Suite |-> 0]
  /\ mode = [s \in Suite |-> "trace"]
  /\ doc = [s \in Suite |-> DegradedIncident]
  /\ read = [s \in Suite |-> NoRow]

-----------------------------------------------------------------------------
(* 1. The experiments *)

\* Process p writes the experiments row of e (INSERT OR REPLACE).
Write(p, e) ==
  /\ labels' = [labels EXCEPT ![e] = p]
  /\ overwritten' =
       {o \in overwritten \union {<<s, e>> : s \in Suite \intersect {labels[e]}} : o # <<p, e>>}
  /\ UNCHANGED <<evalRuns, incidents, results>>

\* mutant: an id is kept although its run_file returned Err
Kept_Always(ended) == TRUE

\* Whether the id of a file is kept, by how its run_file ended.
Kept(ended) == ended = "ok"

\* run_file returns: Ok, an error before its first INSERT (any of its early
\* returns), or one at the INSERT of a fault, when the experiments row is there.
RunFile(s, ended) ==
  /\ pc[s] = "experiments" /\ next[s] <= Len(Files[s])
  /\ LET e == Files[s][next[s]] IN
     /\ IF ended = "early" THEN UNCHANGED db ELSE Write(s, e)
     /\ ran' = IF Kept(ended) THEN [ran EXCEPT ![s] = Append(@, e)] ELSE ran
  /\ next' = [next EXCEPT ![s] = @ + 1]
  /\ UNCHANGED <<scoring, pc>>

\* mutant: the list is sorted but not freed of duplicates
Scheduled_NoDedup(ids) == 1..Len(ids)

\* mutant: positions are counted from zero
Scheduled_FromZero(ids) == {i \in 0..(Len(ids) - 1) : \A j \in 1..(i - 1) : ids[j] # ids[i]}

\* sort and dedup: every id once, at its first position
Scheduled(ids) == {i \in 1..Len(ids) : \A j \in 1..(i - 1) : ids[j] # ids[i]}

FilesDone(s) == pc[s] = "experiments" /\ next[s] > Len(Files[s])

Settle(s) ==
  /\ FilesDone(s) /\ ran[s] # <<>>
  /\ pc' = [pc EXCEPT ![s] = "open"]
  /\ todo' = [todo EXCEPT ![s] = Scheduled(ran[s])]
  /\ UNCHANGED <<db, at, mode, doc, read, next, ran>>

Bail(s) ==
  /\ FilesDone(s) /\ ran[s] = <<>>
  /\ pc' = [pc EXCEPT ![s] = "failed"]
  /\ UNCHANGED <<db, scoring, next, ran>>

-----------------------------------------------------------------------------
(* 2. Scoring *)

NextPlace(s) == IF todo[s] = {} THEN "close" ELSE "labels"

OpenRun(s) ==
  /\ pc[s] = "open"
  /\ evalRuns' = [evalRuns EXCEPT ![s] = "open"]
  /\ pc' = [pc EXCEPT ![s] = NextPlace(s)]
  /\ UNCHANGED <<labels, overwritten, incidents, results, scoring, next, ran>>

\* The loop takes the next id and reads its row.
ReadLabels(s) ==
  /\ pc[s] = "labels"
  /\ \E i \in todo[s] :
       /\ labels[ran[s][i]] # NoRow
       /\ at' = [at EXCEPT ![s] = i]
       /\ todo' = [todo EXCEPT ![s] = @ \ {i}]
       /\ read' = [read EXCEPT ![s] = labels[ran[s][i]]]
  /\ mode' = [mode EXCEPT ![s] = "trace"]
  /\ pc' = [pc EXCEPT ![s] = "trace"]
  /\ UNCHANGED <<db, doc, next, ran>>

\* discover_trace_id: error traces, then slow ones, then any; only the last
\* search tells an unreachable Tempo from a window without traces.
Search == {"hits", "no hits", "failed"}
Discovery(errors, slow, any) ==
  IF "hits" \in {errors, slow, any} THEN "found"
  ELSE IF any = "failed" THEN "unreachable" ELSE "none found"
Discoveries == {Discovery(errors, slow, any) : errors, slow, any \in Search}

\* What is scored after a discovery: the engine's answer for a trace that was
\* found, or, without one or when the engine returns Err, the degraded incident.
TraceDocuments(e, discovery) ==
  {DegradedIncident} \union (IF discovery = "found" THEN Incident[e] ELSE {})

\* What correlate_anomaly may come to; an Err of it is degraded as well.
AnomalyDocuments(e) == Incident[e] \union {DegradedIncident}

\* mutant: only what the engine produced is persisted
Persisted_OnlyReal(s, m, d) ==
  IF d = DegradedIncident THEN incidents
  ELSE incidents \union {[suite |-> s, at |-> at[s], mode |-> m, exp |-> ran[s][at[s]], doc |-> d]}

\* persist_incident; the Markdown file written next cannot fail the run
Persisted(s, m, d) ==
  incidents \union {[suite |-> s, at |-> at[s], mode |-> m, exp |-> ran[s][at[s]], doc |-> d]}

\* A correlation changes nothing anybody else sees, so it is one step with the
\* INSERT of its incident.
Correlated(s, m, d) ==
  /\ mode' = [mode EXCEPT ![s] = m]
  /\ doc' = [doc EXCEPT ![s] = d]
  /\ incidents' = Persisted(s, m, d)
  /\ pc' = [pc EXCEPT ![s] = "record"]
  /\ UNCHANGED <<labels, overwritten, evalRuns, results, todo, at, read, next, ran>>

CorrelateTrace(s) ==
  /\ pc[s] = "trace"
  /\ \E discovery \in Discoveries :
       \E d \in TraceDocuments(ran[s][at[s]], discovery) : Correlated(s, "trace", d)

CorrelateAnomaly(s) ==
  /\ pc[s] = "anomaly"
  /\ \E d \in AnomalyDocuments(ran[s][at[s]]) : Correlated(s, "anomaly", d)

ScoredRow(s, now) ==
  LET e == ran[s][at[s]] IN
  [suite |-> s, exp |-> e, mode |-> mode[s], at |-> at[s], labels |-> {read[s], now},
   recall |-> RecallAt(doc[s].suspects, Labels[e].primary, 3),
   composite |-> Composite(doc[s], Labels[e])]

SameKey(r, q) == r.suite = q.suite /\ r.exp = q.exp /\ r.mode = q.mode

\* INSERT OR REPLACE, under the primary key of eval_results
Insert(row) == {r \in results : ~SameKey(r, row)} \union {row}

\* mutant: trace mode is the last mode of the last experiment
AfterMode_StopsEarly(s) == IF mode[s] = "trace" /\ todo[s] # {} THEN "anomaly" ELSE NextPlace(s)

AfterMode(s) == IF mode[s] = "trace" THEN "anomaly" ELSE NextPlace(s)

\* score_and_record reads the blast radius and the clean services anew, scores
\* and writes. The second read is folded into the write: a row written by
\* somebody else between the two is one written between this step and the next.
Record(s) ==
  /\ pc[s] = "record"
  /\ LET now == labels[ran[s][at[s]]] IN
     /\ now # NoRow
     /\ results' = Insert(ScoredRow(s, now))
  /\ pc' = [pc EXCEPT ![s] = AfterMode(s)]
  /\ UNCHANGED <<labels, overwritten, evalRuns, incidents, scoring, next, ran>>

CloseRun(s) ==
  /\ pc[s] = "close"
  /\ evalRuns' = [evalRuns EXCEPT ![s] = "ended"]
  /\ pc' = [pc EXCEPT ![s] = "done"]
  /\ UNCHANGED <<labels, overwritten, incidents, results, scoring, next, ran>>

-----------------------------------------------------------------------------
(* 3. What goes wrong, and the others *)

\* The suite stops short: a query returns an error (a database that is locked or
\* full, a row that is missing) and the ? operator ends it, or the process dies.
\* Queries are made in every place but those where the engine is called, and
\* death may come in any.
Stop(s) ==
  /\ pc[s] \notin Ended
  /\ pc' = [pc EXCEPT ![s] = "failed"]
  /\ UNCHANGED <<db, scoring, next, ran>>

\* Another process runs an experiment of the same id to its end.
RunByOther(e) == Write(Other, e) /\ UNCHANGED <<scoring, pc, next, ran>>

Step(s) ==
  \/ \E ended \in {"ok", "early", "late"} : RunFile(s, ended)
  \/ Settle(s) \/ Bail(s)
  \/ OpenRun(s) \/ ReadLabels(s)
  \/ CorrelateTrace(s) \/ CorrelateAnomaly(s)
  \/ Record(s) \/ CloseRun(s)
  \/ Stop(s)

Next == (\E s \in Suite : Step(s)) \/ (\E e \in Experiment : RunByOther(e))

Spec == Init /\ [][Next]_vars

-----------------------------------------------------------------------------
(* Properties *)

TypeOK ==
  /\ labels \in [Experiment -> Writer \union {NoRow}]
  /\ overwritten \subseteq Suite \X Experiment
  /\ evalRuns \in [Suite -> {"none", "open", "ended"}]
  /\ incidents \subseteq Row
  /\ results \subseteq Result
  /\ pc \in [Suite -> Place \union Ended]
  /\ next \in [Suite -> Nat \ {0}]
  /\ ran \in [Suite -> Seq(Experiment)]
  /\ todo \in [Suite -> SUBSET Nat] /\ \A s \in Suite : todo[s] \subseteq DOMAIN ran[s]
  /\ at \in [Suite -> Nat]
  /\ mode \in [Suite -> Mode]
  /\ doc \in [Suite -> Document]
  /\ read \in [Suite -> Writer \union {NoRow}]

\* The incident row a result row was scored from.
IncidentOf(r) == {i \in incidents : i.suite = r.suite /\ i.at = r.at /\ i.mode = r.mode}

\* Every result row can be traced back: its eval run has a row (the foreign key
\* of migrations_eval/0001_init.sql) and its incident is in incidents.db, made
\* for the same experiment and with the same score, degraded ones included.
ResultsBacked ==
  \A r \in results :
    /\ evalRuns[r.suite] # "none"
    /\ \E i \in IncidentOf(r) :
         i.exp = r.exp /\ r.composite = Composite(i.doc, Labels[r.exp])

\* An eval run gets its ended_at only with a result in both modes for every
\* experiment it ran, whatever failed in correlating them (runner.rs:74-159).
EndedIsComplete ==
  \A s \in Suite : evalRuns[s] = "ended" =>
    \A i \in DOMAIN ran[s] : \A m \in Mode :
      \E r \in results : r.suite = s /\ r.exp = ran[s][i] /\ r.mode = m

\* runner.rs:35-37: scoring is scoped to this invocation, though labels.db holds
\* other runs. Both reads of the labels a result was scored with found the row
\* of the suite's own run of the experiment, unless another process has run the
\* same experiment since.
ScopedToInvocation ==
  \A r \in results : <<r.suite, r.exp>> \notin overwritten => r.labels = {r.suite}

\* A suite persists an incident that has no result row only where it is
\* interrupted between the two INSERTs: such a row is the last one it made.
NoOrphans ==
  \A i \in incidents :
    \/ \E r \in results : r.suite = i.suite /\ r.at = i.at /\ r.mode = i.mode
    \/ /\ pc[i.suite] \in {"record", "failed"}
       /\ at[i.suite] = i.at /\ mode[i.suite] = i.mode

\* The composite sorts results (design-spec.md:587-600: recall is the headline,
\* time does not dominate): of two results for an experiment, the one that names
\* the culprit among three scores higher, however slow, bare and full of false
\* accusations it is and however complete the other.
CulpritWins ==
  \A r, q \in results :
    r.exp = q.exp /\ r.recall = Unit /\ q.recall = 0 => r.composite > q.composite

=============================================================================
