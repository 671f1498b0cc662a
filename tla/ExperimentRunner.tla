--------------------------- MODULE ExperimentRunner ---------------------------
(***************************************************************************)
(* run_file of crate experiment-runner: one call takes an experiment YAML  *)
(* through lock, validation, toxiproxy reset, the timeline of fault        *)
(* injections and reverts, recovery detection and the rows of labels.db.   *)
(* Each element of Run is one such call (of the CLI, of its `suite`        *)
(* command or of the eval harness).  The runs share the lock files, one    *)
(* toxiproxy and one labels.db.  The body of the recovery loop is module   *)
(* RecoveryLoop; here it only yields recovered or not.                     *)
(***************************************************************************)
EXTENDS Integers, Sequences

CONSTANTS
  Run,      \* the calls of run_file
  Dir,      \* directories std::env::temp_dir() may name
  DirOf,    \* [Run -> Dir]: the temp directory of the process that makes the call
  Exp,      \* the texts of experiment YAMLs that parse
  Id,       \* experiment ids
  IdOf,     \* [Exp -> Id]: several texts may carry one id (an edited YAML)
  Toxic,    \* pairs of a toxiproxy proxy and a toxic name
  Faults,   \* [Exp -> Seq(Fault)]: the fault list of each text
  MaxFaults,\* the longest fault list of a text
  Lag,      \* how long a toxiproxy or pumba call may take beyond what it must
  Failures, \* which environment failures can happen, see FailureKind
  None      \* no run, no toxic, no YAML

FailureKind == {"tmp",      \* the lock file cannot be opened
                "refused",  \* an HTTP call fails without effect
                "pumba",    \* pumba is missing or exits nonzero
                "lost",     \* an HTTP call takes effect and its response is lost
                "restart",  \* toxiproxy restarts and forgets its toxics
                "crash",    \* the process of a run dies
                "db"}       \* an INSERT fails

\* A fault of kind toxiproxy names its toxic; a pumba fault has toxic None
\* and keeps the pumba process, hence the call, busy for `blocks`.
Fault == [at : Nat, until : Nat, toxic : Toxic \cup {None}, blocks : Nat]

ASSUME ConstantsAssumption ==
  /\ DirOf \in [Run -> Dir]
  /\ IdOf \in [Exp -> Id]
  /\ MaxFaults \in Nat
  /\ Faults \in [Exp -> Seq(Fault)]
  /\ \A e \in Exp : Len(Faults[e]) <= MaxFaults
  /\ Lag \subseteq Nat
  /\ Failures \subseteq FailureKind
  /\ None \notin Run \cup Exp \cup Toxic

VARIABLES
  pc,          \* where each run is
  exp,         \* the YAML text each run was given, None: unreadable or unparsable
  lock,        \* per directory, the run that holds experiment-runner.lock
  fired,       \* the schedule's events each run has gone through
  handles,     \* the faults whose slot in `handles` is Some
  clock,       \* time since t=0 of each run
  status,      \* the `status` variable of each run
  stages,      \* is some load stage task of the run still unfinished?
  active,      \* toxiproxy: per toxic, the run that added it
  cursor,      \* the next fault_events sequence_no of each run
  experiments, \* table experiments: per id, the run and status of the row
  faultRows,   \* table fault_events: per id and sequence_no, the run that wrote it
  cleanStart,  \* (history) did the reset at the run's start take effect?
  evicted      \* (history) runs that lost a toxic to someone else

runVars    == <<exp, fired, handles, clock, status, cursor>>
proxyVars  == <<active, evicted>>
labelVars  == <<experiments, faultRows>>
vars == <<pc, lock, cleanStart, runVars, stages, proxyVars, labelVars>>

Underway  == {"read", "reset", "warmup", "schedule", "cleanup", "recovery", "record", "faults"}
Returned  == {"busy", "rejected", "dry", "aborted", "dberror", "ok", "crashed"}
PC        == {"new"} \cup Underway \cup Returned
Status    == {"clean", "dirty", "no_recovery"}
NoRow     == [run |-> None, status |-> "clean"]
Row       == [run : Run \cup {None}, status : Status]

-----------------------------------------------------------------------------
(* The merged schedule.  An event is <<fault index, is it the revert?>>. *)

Event == (1..MaxFaults) \X BOOLEAN
Events(e) == (DOMAIN Faults[e]) \X BOOLEAN

TimeOf(e, ev) == IF ev[2] THEN Faults[e][ev[1]].until ELSE Faults[e][ev[1]].at

\* sort_by_key on (time, is revert); the sort is stable and faults were
\* pushed in index order
Before_RevertsFirst(e, a, b) ==
  \/ TimeOf(e, a) < TimeOf(e, b)
  \/ /\ TimeOf(e, a) = TimeOf(e, b)
     /\ \/ a[2] /\ ~b[2]
        \/ a[2] = b[2] /\ a[1] < b[1]

Before_RevertsAtEnd(e, a, b) ==
  \/ ~a[2] /\ b[2]
  \/ /\ a[2] = b[2]
     /\ \/ TimeOf(e, a) < TimeOf(e, b)
        \/ TimeOf(e, a) = TimeOf(e, b) /\ a[1] < b[1]

Before(e, a, b) ==
  \/ TimeOf(e, a) < TimeOf(e, b)
  \/ /\ TimeOf(e, a) = TimeOf(e, b)
     /\ \/ ~a[2] /\ b[2]
        \/ a[2] = b[2] /\ a[1] < b[1]

Pending(n) == Events(exp[n]) \ fired[n]

\* the event the `for` loop is at
Due(n, ev) ==
  /\ pc[n] = "schedule"
  /\ ev \in Pending(n)
  /\ \A other \in Pending(n) \ {ev} : Before(exp[n], ev, other)

\* the up-front validation of the fault windows
Valid(e) == \A i \in DOMAIN Faults[e] : Faults[e][i].until >= Faults[e][i].at

FaultAt(n, i) == Faults[exp[n]][i]

-----------------------------------------------------------------------------
(* External toxiproxy.  `ok` is what the caller is told. *)

\* runs other than n whose toxic disappears in this step
RecordEvictions(n) ==
  evicted' = evicted \cup {m \in Run \ {n} : \E k \in Toxic : active[k] = m /\ active'[k] # m}

AddToxic(n, k, ok) ==
  \/ /\ active[k] = None
     /\ active' = [active EXCEPT ![k] = n]
     /\ ok \/ "lost" \in Failures
  \/ /\ ~ok
     /\ active[k] # None \/ "refused" \in Failures
     /\ UNCHANGED active

RemoveToxic(k, ok) ==
  \/ /\ active[k] # None
     /\ active' = [active EXCEPT ![k] = None]
     /\ ok \/ "lost" \in Failures
  \/ /\ ~ok
     /\ active[k] = None \/ "refused" \in Failures
     /\ UNCHANGED active

ProxyRestart ==
  /\ "restart" \in Failures
  /\ \E k \in Toxic : active[k] # None
  /\ active' = [k \in Toxic |-> None]
  /\ evicted' = evicted \cup {m \in Run : \E k \in Toxic : active[k] = m}
  /\ UNCHANGED <<pc, lock, cleanStart, runVars, stages, labelVars>>

\* the pumba process: status() awaits its exit
Pumba(ok) == ok \/ "pumba" \in Failures

\* FaultDriver::apply and ::revert: a pumba fault leaves toxiproxy alone,
\* and reverting it is a successful no-op
ApplyFault(n, f, ok) ==
  IF f.toxic # None
    THEN AddToxic(n, f.toxic, ok)
    ELSE Pumba(ok) /\ UNCHANGED active

RevertFault_Forgotten(f, ok) == ok /\ UNCHANGED active
RevertFault(f, ok) ==
  IF f.toxic # None THEN RemoveToxic(f.toxic, ok) ELSE ok /\ UNCHANGED active

-----------------------------------------------------------------------------
Init ==
  /\ pc = [n \in Run |-> "new"]
  /\ exp = [n \in Run |-> None]
  /\ lock = [d \in Dir |-> None]
  /\ fired = [n \in Run |-> {}]
  /\ handles = [n \in Run |-> {}]
  /\ clock = [n \in Run |-> 0]
  /\ status = [n \in Run |-> "clean"]
  /\ stages = [n \in Run |-> FALSE]
  /\ active = [k \in Toxic |-> None]
  /\ cursor = [n \in Run |-> 1]
  /\ experiments = [id \in Id |-> NoRow]
  /\ faultRows = [id \in Id |-> [s \in 1..MaxFaults |-> None]]
  /\ cleanStart = [n \in Run |-> FALSE]
  /\ evicted = {}

\* every return drops lock_file, which releases the flock
Return_KeepsLock(n, result) ==
  /\ pc' = [pc EXCEPT ![n] = result]
  /\ UNCHANGED lock

Return(n, result) ==
  /\ pc' = [pc EXCEPT ![n] = result]
  /\ lock' = [lock EXCEPT ![DirOf[n]] = None]

\* try_lock_exclusive on <temp dir>/experiment-runner.lock, then read the file
Lockable_Always(n) == TRUE
Lockable(n) == lock[DirOf[n]] = None

Start(n) ==
  /\ pc[n] = "new"
  /\ Lockable(n)
  /\ lock' = [lock EXCEPT ![DirOf[n]] = n]
  /\ pc' = [pc EXCEPT ![n] = "read"]
  /\ \E e \in Exp \cup {None} : exp' = [exp EXCEPT ![n] = e]
  /\ UNCHANGED <<fired, handles, clock, status, cursor, cleanStart, stages, proxyVars, labelVars>>

\* another experiment has the lock, or the lock file cannot be opened
Busy(n) ==
  /\ pc[n] = "new"
  /\ ~Lockable(n) \/ "tmp" \in Failures
  /\ pc' = [pc EXCEPT ![n] = "busy"]
  /\ UNCHANGED <<lock, cleanStart, runVars, stages, proxyVars, labelVars>>

\* readable, parsable, and no fault window inverted
Acceptable(n) == exp[n] # None /\ Valid(exp[n])

RejectYaml(n) ==
  /\ pc[n] = "read"
  /\ ~Acceptable(n)
  /\ Return(n, "rejected")
  /\ UNCHANGED <<cleanStart, runVars, stages, proxyVars, labelVars>>

DryRun(n) ==
  /\ pc[n] = "read"
  /\ Acceptable(n)
  /\ Return(n, "dry")
  /\ UNCHANGED <<cleanStart, runVars, stages, proxyVars, labelVars>>

Validate(n) ==
  /\ pc[n] = "read"
  /\ Acceptable(n)
  /\ pc' = [pc EXCEPT ![n] = "reset"]
  /\ UNCHANGED <<lock, cleanStart, runVars, stages, proxyVars, labelVars>>

\* POST /reset; a failure, or a lost response, is only a warning
ResetEffect_Skipped(n, done) == UNCHANGED active
ResetEffect(n, done) == active' = IF done THEN [k \in Toxic |-> None] ELSE active

Reset(n) ==
  /\ pc[n] = "reset"
  /\ \E done \in BOOLEAN :
       /\ done \/ "refused" \in Failures
       /\ ResetEffect(n, done)
       /\ cleanStart' = [cleanStart EXCEPT ![n] = done]
  /\ RecordEvictions(n)
  /\ pc' = [pc EXCEPT ![n] = "warmup"]
  /\ UNCHANGED <<lock, runVars, stages, labelVars>>

\* warm-up is over: t=0, the load stages are spawned
Begin(n) ==
  /\ pc[n] = "warmup"
  /\ pc' = [pc EXCEPT ![n] = "schedule"]
  /\ stages' = [stages EXCEPT ![n] = TRUE]
  /\ UNCHANGED <<lock, cleanStart, runVars, proxyVars, labelVars>>

\* sleep_until(base + t), no sleep when that instant has passed, then the call
Elapse(n, ev, busy) ==
  LET t == TimeOf(exp[n], ev) IN
  \E d \in Lag : clock' = [clock EXCEPT ![n] = (IF @ < t THEN t ELSE @) + busy + d]

Inject(n, i) ==
  /\ Due(n, <<i, FALSE>>)
  /\ Elapse(n, <<i, FALSE>>, FaultAt(n, i).blocks)
  /\ fired' = [fired EXCEPT ![n] = @ \cup {<<i, FALSE>>}]
  /\ \/ /\ ApplyFault(n, FaultAt(n, i), TRUE)
        /\ handles' = [handles EXCEPT ![n] = @ \cup {i}]
        /\ UNCHANGED pc
     \/ /\ ApplyFault(n, FaultAt(n, i), FALSE)
        /\ pc' = [pc EXCEPT ![n] = "cleanup"]
        /\ UNCHANGED handles
  /\ UNCHANGED <<exp, lock, status, cursor, cleanStart, evicted, stages, labelVars>>

\* handles[i].take(), then revert it if it was Some; an error marks the run dirty
StatusAfterRevert_Ignored(s, ok) == s
StatusAfterRevert(s, ok) == IF ok THEN s ELSE "dirty"

Revert(n, i) ==
  /\ Due(n, <<i, TRUE>>)
  /\ Elapse(n, <<i, TRUE>>, 0)
  /\ fired' = [fired EXCEPT ![n] = @ \cup {<<i, TRUE>>}]
  /\ handles' = [handles EXCEPT ![n] = @ \ {i}]
  /\ \E ok \in BOOLEAN :
       /\ IF i \in handles[n] THEN RevertFault(FaultAt(n, i), ok) ELSE ok /\ UNCHANGED active
       /\ status' = [status EXCEPT ![n] = StatusAfterRevert(@, ok)]
  /\ RecordEvictions(n)
  /\ UNCHANGED <<pc, exp, lock, cursor, cleanStart, stages, labelVars>>

\* a fault failed to inject: revert what was applied, in index order, and
\* only warn when that fails.  handles[n] is what the iterator still has to visit.
Cleanup_RetriesUntilOk(n) ==
  /\ pc[n] = "cleanup"
  /\ \E i \in handles[n] :
       /\ \A j \in handles[n] : i <= j
       /\ RevertFault(FaultAt(n, i), TRUE)
       /\ handles' = [handles EXCEPT ![n] = @ \ {i}]
  /\ RecordEvictions(n)
  /\ UNCHANGED <<pc, exp, lock, fired, clock, status, cursor, cleanStart, stages, labelVars>>

Cleanup(n) ==
  /\ pc[n] = "cleanup"
  /\ \E i \in handles[n] :
       /\ \A j \in handles[n] : i <= j
       /\ \E ok \in BOOLEAN : RevertFault(FaultAt(n, i), ok)
       /\ handles' = [handles EXCEPT ![n] = @ \ {i}]
  /\ RecordEvictions(n)
  /\ UNCHANGED <<pc, exp, lock, fired, clock, status, cursor, cleanStart, stages, labelVars>>

\* then abort the load stages and return the error
Abort(n) ==
  /\ pc[n] = "cleanup"
  /\ handles[n] = {}
  /\ stages' = [stages EXCEPT ![n] = FALSE]
  /\ Return(n, "aborted")
  /\ UNCHANGED <<cleanStart, runVars, proxyVars, labelVars>>

\* the loop has ended and every load stage task was joined
FinishTimeline_OnDirty(n) ==
  /\ pc[n] = "schedule"
  /\ Pending(n) = {} \/ status[n] = "dirty"
  /\ ~stages[n]
  /\ pc' = [pc EXCEPT ![n] = "recovery"]
  /\ UNCHANGED <<lock, cleanStart, runVars, stages, proxyVars, labelVars>>

FinishTimeline(n) ==
  /\ pc[n] = "schedule"
  /\ Pending(n) = {}
  /\ ~stages[n]
  /\ pc' = [pc EXCEPT ![n] = "recovery"]
  /\ UNCHANGED <<lock, cleanStart, runVars, stages, proxyVars, labelVars>>

\* "no_recovery" never overwrites "dirty"
Recovery(n) ==
  /\ pc[n] = "recovery"
  /\ \E recovered \in BOOLEAN :
       status' = [status EXCEPT ![n] =
                    IF ~recovered /\ @ = "clean" THEN "no_recovery" ELSE @]
  /\ pc' = [pc EXCEPT ![n] = "record"]
  /\ UNCHANGED <<exp, lock, fired, handles, clock, cursor, cleanStart, stages, proxyVars, labelVars>>

\* INSERT OR REPLACE INTO experiments; no transaction spans the two tables
RecordExperiment(n) ==
  /\ pc[n] = "record"
  /\ experiments' = [experiments EXCEPT ![IdOf[exp[n]]] = [run |-> n, status |-> status[n]]]
  /\ pc' = [pc EXCEPT ![n] = "faults"]
  /\ UNCHANGED <<lock, cleanStart, runVars, stages, proxyVars, faultRows>>

FaultsToRecord_AllButLast(e) == Len(Faults[e]) - 1
FaultsToRecord(e) == Len(Faults[e])

\* INSERT OR REPLACE INTO fault_events, one row per fault of the YAML
RecordFault(n) ==
  /\ pc[n] = "faults"
  /\ cursor[n] <= FaultsToRecord(exp[n])
  /\ faultRows' = [faultRows EXCEPT ![IdOf[exp[n]]][cursor[n]] = n]
  /\ cursor' = [cursor EXCEPT ![n] = @ + 1]
  /\ UNCHANGED <<pc, exp, lock, fired, handles, clock, status, cleanStart, stages, proxyVars, experiments>>

InsertFails(n) ==
  /\ "db" \in Failures
  /\ \/ pc[n] = "record"
     \/ pc[n] = "faults" /\ cursor[n] <= FaultsToRecord(exp[n])
  /\ Return(n, "dberror")
  /\ UNCHANGED <<cleanStart, runVars, stages, proxyVars, labelVars>>

Finish(n) ==
  /\ pc[n] = "faults"
  /\ cursor[n] > FaultsToRecord(exp[n])
  /\ Return(n, "ok")
  /\ UNCHANGED <<cleanStart, runVars, stages, proxyVars, labelVars>>

\* the process dies: the system releases the flock and closes its
\* connections, toxics stay
Crash(n) ==
  /\ "crash" \in Failures
  /\ pc[n] \in Underway
  /\ Return(n, "crashed")
  /\ handles' = [handles EXCEPT ![n] = {}]
  /\ stages' = [stages EXCEPT ![n] = FALSE]
  /\ UNCHANGED <<exp, fired, clock, status, cursor, cleanStart, proxyVars, labelVars>>

-----------------------------------------------------------------------------
(* the last stage task of run_stage reaches its `end` (module LoadStage has *)
(* the requests)                                                           *)

StagesEnd(n) ==
  /\ stages[n]
  /\ stages' = [stages EXCEPT ![n] = FALSE]
  /\ UNCHANGED <<pc, lock, cleanStart, runVars, proxyVars, labelVars>>

-----------------------------------------------------------------------------
Step(n) ==
  \/ Start(n) \/ Busy(n) \/ RejectYaml(n) \/ DryRun(n) \/ Validate(n) \/ Reset(n) \/ Begin(n)
  \/ \E i \in 1..MaxFaults : Inject(n, i) \/ Revert(n, i)
  \/ Cleanup(n) \/ Abort(n) \/ FinishTimeline(n) \/ Recovery(n)
  \/ RecordExperiment(n) \/ RecordFault(n) \/ InsertFails(n) \/ Finish(n)

\* every call has returned: nothing is left to happen
Quiescent ==
  /\ \A n \in Run : pc[n] \in Returned
  /\ UNCHANGED vars

Next ==
  \/ \E n \in Run : Step(n) \/ StagesEnd(n) \/ Crash(n)
  \/ ProxyRestart
  \/ Quiescent

Spec == Init /\ [][Next]_vars

\* A run that is not crashed keeps going: every HTTP call, pumba process and
\* INSERT it awaits comes back (with success or an error), and a load stage
\* reaches its `end` instant.
Fairness == \A n \in Run : WF_vars(Step(n) /\ pc[n] # "new") /\ WF_vars(StagesEnd(n))

FairSpec == Spec /\ Fairness

-----------------------------------------------------------------------------
(* Properties.                                                             *)

TypeOK ==
  /\ pc \in [Run -> PC]
  /\ exp \in [Run -> Exp \cup {None}]
  /\ lock \in [Dir -> Run \cup {None}]
  /\ fired \in [Run -> SUBSET Event]
  /\ handles \in [Run -> SUBSET (1..MaxFaults)]
  /\ clock \in [Run -> Nat]
  /\ status \in [Run -> Status]
  /\ stages \in [Run -> BOOLEAN]
  /\ active \in [Toxic -> Run \cup {None}]
  /\ cursor \in [Run -> 1..(MaxFaults + 1)]
  /\ experiments \in [Id -> Row]
  /\ faultRows \in [Id -> [1..MaxFaults -> Run \cup {None}]]
  /\ cleanStart \in [Run -> BOOLEAN]
  /\ evicted \subseteq Run

AfterTimeline == {"recovery", "record", "faults", "dberror", "ok"}
OnTheSystem   == {"reset", "warmup", "schedule", "cleanup", "recovery", "record", "faults"}

\* When the event loop ends every handle was taken (runner.rs:110-112), also
\* for a fault whose window is empty (at = until).
HandlesDrained == \A n \in Run : pc[n] \in AfterTimeline => handles[n] = {}

WindowsMeet(f, g) == f.at <= g.until /\ g.at <= f.until

\* "Faults may overlap or nest correctly" (runner.rs:93-96): however late the
\* calls make the schedule, two toxics of a run are in force together only if the
\* YAML gives them windows that meet.  A revert that fails leaves its toxic in force
\* while later faults are injected (runner.rs:138-145); from then on the run is dirty.
WindowsRespected ==
  \A n \in Run : pc[n] = "schedule" /\ status[n] # "dirty" =>
    \A k, l \in {t \in Toxic : active[t] = n} :
      \E i, j \in DOMAIN Faults[exp[n]] :
        /\ FaultAt(n, i).toxic = k /\ FaultAt(n, j).toxic = l
        /\ WindowsMeet(FaultAt(n, i), FaultAt(n, j))

\* A run that will be recorded as anything but dirty has left none of its
\* toxics behind.
CleanMeansReverted ==
  \A n \in Run : pc[n] \in AfterTimeline /\ status[n] # "dirty" =>
    \A k \in Toxic : active[k] # n

\* design-spec.md:359: experiments must not overlap.
NoOverlap ==
  \A m, n \in Run : pc[m] \in OnTheSystem /\ pc[n] \in OnTheSystem => m = n

\* During the timeline of a run whose reset took effect, no toxic of an
\* earlier run (crashed, aborted or dirty) is in force (runner.rs:65-67).
NoBleed ==
  \A n \in Run : pc[n] = "schedule" /\ cleanStart[n] =>
    \A k \in Toxic : active[k] \in {None, n}

\* If anything but the run itself took one of its toxics away during the
\* timeline (a toxiproxy restart, another run), the run is recorded as dirty:
\* the label of a clean run is a fault that was in force for its whole window.
InterferenceIsLabelled ==
  \A n \in Run : pc[n] \in AfterTimeline /\ status[n] # "dirty" => n \notin evicted

\* A run that failed to inject a fault leaves no toxic active (runner.rs:122-126).
FailureLeavesNothing ==
  \A n \in Run : pc[n] = "aborted" => \A k \in Toxic : active[k] # n

\* The rows a successful run leaves are all its own, as long as the row of
\* table experiments is still that run's.
OkRowsComplete ==
  \A n \in Run : pc[n] = "ok" /\ experiments[IdOf[exp[n]]].run = n =>
    \A s \in 1..Len(Faults[exp[n]]) : faultRows[IdOf[exp[n]]][s] = n

\* runner.rs:73-75: labels match exactly when faults were injected: a toxic
\* becomes active at the at_sec its fault_events row will show.
LabelsMatchInjection ==
  [][\A n \in Run : \A i \in handles'[n] \ handles[n] :
       FaultAt(n, i).toxic # None => clock'[n] = FaultAt(n, i).at]_vars

\* A row of table experiments comes from a run that went through its whole
\* timeline, and a run that reports an error or crashes before that changes no row.
RowsOnlyAfterTimeline ==
  [][\A id \in Id : experiments'[id] # experiments[id] =>
       LET n == experiments'[id].run IN
       /\ pc[n] = "record"
       /\ Events(exp[n]) \subseteq fired[n]]_vars

\* Every run that got the lock returns or crashes, and the lock file is free
\* again and again.
RunReturns == \A n \in Run : pc[n] \in Underway ~> pc[n] \in Returned
LockFreed == \A d \in Dir : []<>(lock[d] = None)

-----------------------------------------------------------------------------
(* The inductive invariant: who holds the lock, what the schedule has gone   *)
(* through, what the handles and the toxics are.  It holds for any number  *)
(* of runs in any number of directories.                                   *)

\* whatever touches the system has a valid experiment
ValidExp == \A n \in Run : pc[n] \in OnTheSystem \cup {"ok"} => exp[n] \in Exp /\ Valid(exp[n])

TypeInv == TypeOK /\ ValidExp

NoTimeline == {"new", "read", "reset", "warmup", "busy", "rejected", "dry"}

\* a run between lock and return holds the lock of its directory
LockHeld == \A n \in Run : pc[n] \in Underway => lock[DirOf[n]] = n

\* no event fires before the timeline, all have when it ended, and the events
\* gone through come before all others in the order of the schedule
ScheduleInOrder ==
  \A n \in Run :
    /\ pc[n] \in NoTimeline => fired[n] = {} /\ handles[n] = {}
    /\ pc[n] = "schedule" => \A a \in fired[n], b \in Pending(n) : Before(exp[n], a, b)
    /\ pc[n] \in AfterTimeline => Pending(n) = {}

\* a handle is held for a fault that was applied and whose revert is to come
HandlesOpen ==
  \A n \in Run : pc[n] \in {"schedule", "recovery", "record", "faults", "dberror", "ok"} =>
    \A i \in handles[n] : /\ i \in DOMAIN Faults[exp[n]]
                          /\ <<i, FALSE>> \in fired[n]
                          /\ <<i, TRUE>> \notin fired[n]

\* a toxic of a run has a handle that will remove it, unless the run has been
\* marked dirty or has failed
ToxicsOwned ==
  \A n \in Run : \A k \in Toxic : active[k] = n =>
    \/ pc[n] \in {"cleanup", "aborted", "crashed"}
    \/ status[n] = "dirty"
    \/ \E i \in handles[n] : FaultAt(n, i).toxic = k

ControlInv == TypeInv /\ LockHeld /\ ScheduleInOrder /\ HandlesOpen /\ ToxicsOwned

(* What holds in addition when every call to toxiproxy that has no effect, or *)
(* has one, is reported as such.                                           *)

AnswersTruthful == Failures \cap {"refused", "lost"} = {}

\* a toxic of a run has a handle that will remove it, unless the process has died
ToxicsHandled ==
  \A n \in Run : \A k \in Toxic : active[k] = n =>
    pc[n] = "crashed" \/ \E i \in handles[n] : FaultAt(n, i).toxic = k

\* `aborted` is reported once the cleanup has visited every handle
AbortedDrained == \A n \in Run : pc[n] = "aborted" => handles[n] = {}

(* What holds in addition when all runs share one temp directory, so that    *)
(* they are serialized.                                                    *)

OneDirectory == \A m, n \in Run : DirOf[m] = DirOf[n]

\* from a reset that took effect to the end of the timeline only the run's own
\* toxics are in force
ResetHolds ==
  \A n \in Run : pc[n] \in {"warmup", "schedule"} /\ cleanStart[n] =>
    \A k \in Toxic : active[k] \in {None, n}

\* a toxic a run has a handle for is not someone else's
HandlesExclusive ==
  \A n \in Run : pc[n] = "schedule" =>
    \A i \in handles[n] : FaultAt(n, i).toxic # None => active[FaultAt(n, i).toxic] \in {None, n}

\* one of the run's reverts is bound to fail: of the handles for a toxic, not
\* more than one can remove it, and none can when it is gone
RevertBoundToFail(n) ==
  \E i \in handles[n] :
    /\ FaultAt(n, i).toxic # None
    /\ \/ active[FaultAt(n, i).toxic] # n
       \/ \E j \in handles[n] \ {i} : FaultAt(n, j).toxic = FaultAt(n, i).toxic

EvictionsCaught ==
  \A n \in evicted : \/ pc[n] \in {"cleanup", "aborted", "crashed"}
                     \/ status[n] = "dirty"
                     \/ pc[n] = "schedule" /\ RevertBoundToFail(n)

\* a run that records its faults, or has, owns the rows up to its cursor
RowsOwned ==
  \A n \in Run :
    LET id == IdOf[exp[n]] IN
    /\ pc[n] = "faults" => experiments[id].run = n
    /\ pc[n] \in NoTimeline \cup {"schedule", "recovery", "record"} => cursor[n] = 1
    /\ pc[n] \in {"faults", "ok"} /\ experiments[id].run = n =>
         \A s \in 1..(cursor[n] - 1) : faultRows[id][s] = n
    /\ pc[n] = "ok" => cursor[n] > Len(Faults[exp[n]])

SerialInv == ControlInv /\ ResetHolds /\ HandlesExclusive /\ EvictionsCaught /\ RowsOwned

=============================================================================
