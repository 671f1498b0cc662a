------------------------- MODULE SerialRunner_proofs -------------------------
(* Theorems about ExperimentRunner when all runs share one temp directory:   *)
(* what the lock file buys.                                                *)
EXTENDS ExperimentRunner_proofs

-----------------------------------------------------------------------------
LEMMA OneActor ==
  ASSUME OneDirectory, ControlInv
  PROVE  NoOverlap
  BY DEF OneDirectory, ControlInv, LockHeld, NoOverlap, OnTheSystem, Underway

\* toxics a run has in force: it has failed, is dirty, or is in its timeline
LEMMA ToxicHolder ==
  ASSUME ControlInv, NEW n \in Run, NEW k \in Toxic, active[k] = n
  PROVE  \/ pc[n] \in {"cleanup", "aborted", "crashed"}
         \/ status[n] = "dirty"
         \/ pc[n] = "schedule" /\ \E i \in handles[n] : FaultAt(n, i).toxic = k
<1>1. SUFFICES ASSUME NEW i \in handles[n], FaultAt(n, i).toxic = k,
                      pc[n] \notin {"cleanup", "aborted", "crashed"}
               PROVE  pc[n] = "schedule"
  BY DEF ControlInv, ToxicsOwned
<1>2. pc[n] \in PC
  BY DEF ControlInv, TypeInv, TypeOK
<1>3. pc[n] \notin NoTimeline
  BY DEF ControlInv, ScheduleInOrder
<1>4. pc[n] \notin AfterTimeline
  <2>1. pc[n] \in AfterTimeline => <<i, TRUE>> \in Events(exp[n]) /\ <<i, TRUE>> \notin fired[n]
    BY DEF ControlInv, HandlesOpen, AfterTimeline, Events
  <2>2. QED
    BY <2>1 DEF ControlInv, ScheduleInOrder, Pending
<1>5. QED
  BY <1>1, <1>2, <1>3, <1>4 DEF PC, Underway, Returned, NoTimeline, AfterTimeline

\* what the steps do to toxiproxy
LEMMA InjectEffect ==
  ASSUME TypeInv, NEW n \in Run, NEW i \in 1..MaxFaults, Inject(n, i)
  PROVE  /\ pc[n] = "schedule" /\ FaultAt(n, i) \in Fault
         /\ HandlesOpen => i \notin handles[n]
         /\ \A k \in Toxic : active'[k] = active[k] \/ (active'[k] = n /\ k = FaultAt(n, i).toxic)
         /\ UNCHANGED <<exp, status, cursor, cleanStart, evicted, labelVars>>
         /\ \/ /\ UNCHANGED pc /\ handles' = [handles EXCEPT ![n] = @ \cup {i}]
               /\ FaultAt(n, i).toxic # None =>
                    active[FaultAt(n, i).toxic] = None /\ active'[FaultAt(n, i).toxic] = n
            \/ pc' = [pc EXCEPT ![n] = "cleanup"] /\ UNCHANGED handles
<1>0. active \in [Toxic -> Run \cup {None}] /\ handles \in [Run -> SUBSET (1..MaxFaults)]
  BY DEF TypeInv, TypeOK
<1>1. Due(n, <<i, FALSE>>) /\ UNCHANGED <<exp, status, cursor, cleanStart, evicted, labelVars>>
  BY DEF Inject
<1>2. pc[n] = "schedule" /\ FaultAt(n, i) \in Fault
  BY <1>1, DueFacts
<1>3. HandlesOpen => i \notin handles[n]
  <2>1. <<i, FALSE>> \notin fired[n]
    BY <1>1 DEF Due, Pending
  <2>2. QED
    BY <1>2, <2>1 DEF HandlesOpen
<1>4. FaultAt(n, i).toxic \in Toxic \cup {None}
  BY <1>2 DEF Fault
<1>5. \A k \in Toxic : active'[k] = active[k] \/ (active'[k] = n /\ k = FaultAt(n, i).toxic)
  <2>1. PICK ok \in BOOLEAN : ApplyFault(n, FaultAt(n, i), ok)
    BY DEF Inject
  <2>2. CASE UNCHANGED active
    BY <2>2
  <2>3. CASE active' = [active EXCEPT ![FaultAt(n, i).toxic] = n]
    BY <1>0, <2>3
  <2>4. QED
    BY <2>1, <2>2, <2>3 DEF ApplyFault, AddToxic
<1>6. ApplyFault(n, FaultAt(n, i), TRUE) /\ FaultAt(n, i).toxic # None =>
        active[FaultAt(n, i).toxic] = None /\ active'[FaultAt(n, i).toxic] = n
  BY <1>0, <1>4 DEF ApplyFault, AddToxic
<1>7. \/ UNCHANGED pc /\ handles' = [handles EXCEPT ![n] = @ \cup {i}]
         /\ ApplyFault(n, FaultAt(n, i), TRUE)
      \/ pc' = [pc EXCEPT ![n] = "cleanup"] /\ UNCHANGED handles
  BY DEF Inject
<1>8. QED
  BY <1>1, <1>2, <1>3, <1>5, <1>6, <1>7

LEMMA RevertEffect ==
  ASSUME TypeInv, NEW n \in Run, NEW i \in 1..MaxFaults, Revert(n, i)
  PROVE  /\ pc[n] = "schedule" /\ FaultAt(n, i) \in Fault
         /\ handles' = [handles EXCEPT ![n] = @ \ {i}]
         /\ \A k \in Toxic : active'[k] \in {active[k], None}
         /\ i \notin handles[n] => UNCHANGED <<active, status>>
         /\ i \in handles[n] /\ FaultAt(n, i).toxic # None =>
              \/ status'[n] = "dirty"
              \/ active[FaultAt(n, i).toxic] # None /\ active'[FaultAt(n, i).toxic] = None
         /\ \A m \in Run : status[m] = "dirty" => status'[m] = "dirty"
         /\ UNCHANGED <<pc, exp, cursor, cleanStart, labelVars>>
<1>0. /\ active \in [Toxic -> Run \cup {None}]
      /\ status \in [Run -> Status]
  BY DEF TypeInv, TypeOK
<1>1. Due(n, <<i, TRUE>>) /\ UNCHANGED <<pc, exp, cursor, cleanStart, labelVars>>
      /\ handles' = [handles EXCEPT ![n] = @ \ {i}]
  BY DEF Revert
<1>2. pc[n] = "schedule" /\ FaultAt(n, i) \in Fault
  BY <1>1, DueFacts
<1>3. FaultAt(n, i).toxic \in Toxic \cup {None}
  BY <1>2 DEF Fault
<1>4. PICK ok \in BOOLEAN :
        /\ IF i \in handles[n] THEN RevertFault(FaultAt(n, i), ok) ELSE ok /\ UNCHANGED active
        /\ status' = [status EXCEPT ![n] = StatusAfterRevert(@, ok)]
  BY DEF Revert
<1>5. \A k \in Toxic : active'[k] \in {active[k], None}
  BY <1>0, <1>4 DEF RevertFault, RemoveToxic
<1>6. i \notin handles[n] => UNCHANGED <<active, status>>
  <2>1. SUFFICES ASSUME i \notin handles[n] PROVE ok /\ UNCHANGED <<active, status>>
    OBVIOUS
  <2>2. ok /\ UNCHANGED active
    BY <1>4, <2>1
  <2>3. status' = [status EXCEPT ![n] = status[n]]
    BY <1>4, <2>2 DEF StatusAfterRevert
  <2>4. QED
    BY <1>0, <2>2, <2>3
<1>7. i \in handles[n] /\ FaultAt(n, i).toxic # None =>
        \/ status'[n] = "dirty"
        \/ active[FaultAt(n, i).toxic] # None /\ active'[FaultAt(n, i).toxic] = None
  <2>1. SUFFICES ASSUME i \in handles[n], FaultAt(n, i).toxic # None
                 PROVE  \/ status'[n] = "dirty"
                        \/ /\ active[FaultAt(n, i).toxic] # None
                           /\ active'[FaultAt(n, i).toxic] = None
    OBVIOUS
  <2>2. CASE ok
    BY <1>0, <1>3, <1>4, <2>1, <2>2 DEF RevertFault, RemoveToxic
  <2>3. CASE ~ok
    BY <1>0, <1>4, <2>3 DEF StatusAfterRevert
  <2>4. QED
    BY <2>2, <2>3
<1>8. \A m \in Run : status[m] = "dirty" => status'[m] = "dirty"
  BY <1>0, <1>4 DEF StatusAfterRevert
<1>9. QED
  BY <1>1, <1>2, <1>5, <1>6, <1>7, <1>8

LEMMA CleanupEffect ==
  ASSUME TypeInv, NEW n \in Run, Cleanup(n)
  PROVE  /\ pc[n] = "cleanup"
         /\ \A m \in Run \ {n} : handles'[m] = handles[m]
         /\ \A k \in Toxic : active'[k] \in {active[k], None}
         /\ UNCHANGED <<pc, exp, status, cursor, cleanStart, labelVars>>
<1>0. active \in [Toxic -> Run \cup {None}] /\ handles \in [Run -> SUBSET (1..MaxFaults)]
  BY DEF TypeInv, TypeOK
<1>1. \A k \in Toxic : active'[k] \in {active[k], None}
  BY <1>0 DEF Cleanup, RevertFault, RemoveToxic
<1>2. QED
  BY <1>0, <1>1 DEF Cleanup

\* the steps that leave toxics, handles and evictions alone
Aside(n) ==
  \/ Busy(n) \/ RejectYaml(n) \/ DryRun(n) \/ Validate(n) \/ Begin(n) \/ Abort(n)
  \/ FinishTimeline(n) \/ Recovery(n) \/ RecordExperiment(n) \/ RecordFault(n)
  \/ InsertFails(n) \/ Finish(n) \/ StagesEnd(n)

LEMMA AsideEffect ==
  ASSUME TypeInv, NEW n \in Run, Aside(n)
  PROVE  /\ UNCHANGED <<exp, handles, cleanStart, active, evicted>>
         /\ \A m \in Run : status[m] = "dirty" => status'[m] = "dirty"
         /\ \A m \in Run \ {n} : pc'[m] = pc[m] /\ status'[m] = status[m]
         /\ pc'[n] = "warmup" => pc[n] = "warmup"
         /\ pc'[n] = "schedule" => pc[n] = "schedule" \/ (pc[n] = "warmup" /\ Begin(n))
         /\ pc[n] = "schedule" => pc'[n] = "schedule" \/ (pc'[n] = "recovery" /\ Pending(n) = {})
         /\ pc[n] = "cleanup" => pc'[n] \in {"cleanup", "aborted"}
         /\ pc[n] \in {"aborted", "crashed"} => pc'[n] = pc[n]
<1>0. pc \in [Run -> PC] /\ status \in [Run -> Status]
  BY DEF TypeInv, TypeOK
<1>1. CASE Recovery(n)
  BY <1>0, <1>1 DEF Recovery, proxyVars
<1>2. CASE RecordFault(n) \/ StagesEnd(n)
  BY <1>0, <1>2 DEF RecordFault, StagesEnd, proxyVars, runVars
<1>3. CASE Busy(n) \/ RejectYaml(n) \/ DryRun(n) \/ Validate(n) \/ Begin(n) \/ Abort(n)
  BY <1>0, <1>3 DEF Busy, RejectYaml, DryRun, Validate, Begin, Abort, Return, proxyVars, runVars
<1>4. CASE FinishTimeline(n) \/ RecordExperiment(n) \/ InsertFails(n) \/ Finish(n)
  BY <1>0, <1>4 DEF FinishTimeline, RecordExperiment, InsertFails, Finish, Return, proxyVars, runVars
<1>5. QED
  BY <1>1, <1>2, <1>3, <1>4 DEF Aside

LEMMA StepCases ==
  ASSUME [Next]_vars
  PROVE  \/ \E n \in Run : \/ Start(n) \/ Reset(n) \/ Cleanup(n) \/ Crash(n) \/ Aside(n)
                           \/ \E i \in 1..MaxFaults : Inject(n, i) \/ Revert(n, i)
         \/ ProxyRestart
         \/ UNCHANGED vars
  BY DEF Next, Step, Quiescent, Aside

-----------------------------------------------------------------------------
(* The toxics of a serialized run.                                         *)

LEMMA StepResetHolds ==
  ASSUME OneDirectory, ControlInv, ResetHolds, [Next]_vars
  PROVE  ResetHolds'
<1>0. /\ pc \in [Run -> PC]
      /\ active \in [Toxic -> Run \cup {None}]
      /\ cleanStart \in [Run -> BOOLEAN]
      /\ TypeInv /\ NoOverlap
  BY OneActor DEF ControlInv, TypeInv, TypeOK
<1>1. ASSUME NEW n \in Run, Start(n) PROVE ResetHolds'
  BY <1>0, <1>1 DEF Start, proxyVars, ResetHolds
<1>2. ASSUME NEW n \in Run, Reset(n) PROVE ResetHolds'
  <2>1. PICK done \in BOOLEAN : ResetEffect(n, done) /\ cleanStart' = [cleanStart EXCEPT ![n] = done]
    BY <1>2 DEF Reset
  <2>2. pc[n] = "reset" /\ pc' = [pc EXCEPT ![n] = "warmup"]
    BY <1>2 DEF Reset
  <2>3. done => \A k \in Toxic : active'[k] = None
    BY <2>1 DEF ResetEffect
  <2>4. \A m \in Run \ {n} : pc'[m] \notin {"warmup", "schedule"}
    BY <1>0, <2>2 DEF NoOverlap, OnTheSystem
  <2>5. QED
    BY <1>0, <2>1, <2>3, <2>4 DEF ResetHolds
<1>3. ASSUME NEW n \in Run, NEW i \in 1..MaxFaults, Inject(n, i) PROVE ResetHolds'
  <2>1. /\ pc[n] = "schedule" /\ UNCHANGED cleanStart
        /\ \A k \in Toxic : active'[k] \in {active[k], n}
        /\ UNCHANGED pc \/ pc' = [pc EXCEPT ![n] = "cleanup"]
    BY <1>0, <1>3, InjectEffect
  <2>2. \A m \in Run \ {n} : pc'[m] \notin {"warmup", "schedule"}
    BY <1>0, <2>1 DEF NoOverlap, OnTheSystem
  <2>3. QED
    BY <1>0, <2>1, <2>2 DEF ResetHolds
<1>4. ASSUME NEW n \in Run, NEW i \in 1..MaxFaults, Revert(n, i) PROVE ResetHolds'
  BY <1>0, <1>4, RevertEffect DEF ResetHolds
<1>5. ASSUME NEW n \in Run, Cleanup(n) PROVE ResetHolds'
  BY <1>0, <1>5, CleanupEffect DEF ResetHolds
<1>6. ASSUME NEW n \in Run, Crash(n) PROVE ResetHolds'
  BY <1>0, <1>6 DEF Crash, Return, proxyVars, ResetHolds
<1>7. ASSUME NEW n \in Run, Aside(n) PROVE ResetHolds'
  <2>1. UNCHANGED <<active, cleanStart>>
    BY <1>0, <1>7, AsideEffect
  <2>2. \A m \in Run : pc'[m] \in {"warmup", "schedule"} => pc[m] \in {"warmup", "schedule"}
    BY <1>0, <1>7, AsideEffect
  <2>3. QED
    BY <2>1, <2>2 DEF ResetHolds
<1>8. CASE ProxyRestart
  BY <1>8 DEF ProxyRestart, ResetHolds
<1>9. CASE UNCHANGED vars
  BY <1>9 DEF vars, proxyVars, ResetHolds
<1>10. QED
  BY <1>1, <1>2, <1>3, <1>4, <1>5, <1>6, <1>7, <1>8, <1>9, StepCases

LEMMA StepHandlesExclusive ==
  ASSUME OneDirectory, ControlInv, HandlesExclusive, [Next]_vars
  PROVE  HandlesExclusive'
<1>0. /\ pc \in [Run -> PC]
      /\ handles \in [Run -> SUBSET (1..MaxFaults)]
      /\ active \in [Toxic -> Run \cup {None}]
      /\ TypeInv /\ NoOverlap
  BY OneActor DEF ControlInv, TypeInv, TypeOK
<1>1. \A n \in Run : pc[n] = "schedule" =>
        \A i \in handles[n] : FaultAt(n, i).toxic \in Toxic \cup {None}
  <2>1. SUFFICES ASSUME NEW n \in Run, pc[n] = "schedule", NEW i \in handles[n]
                 PROVE  FaultAt(n, i).toxic \in Toxic \cup {None}
    OBVIOUS
  <2>2. exp[n] \in Exp /\ i \in DOMAIN Faults[exp[n]]
    BY <2>1 DEF ControlInv, TypeInv, ValidExp, OnTheSystem, HandlesOpen
  <2>3. QED
    BY <2>2, FaultFacts DEF FaultAt, Fault
<1>2. ASSUME UNCHANGED <<exp>>, \A k \in Toxic : active'[k] \in {active[k], None},
             \A m \in Run : pc'[m] = "schedule" => /\ pc[m] = "schedule"
                                                   /\ handles'[m] \subseteq handles[m]
      PROVE  HandlesExclusive'
  BY <1>1, <1>2 DEF HandlesExclusive, FaultAt
<1>3. ASSUME NEW n \in Run, Start(n) PROVE HandlesExclusive'
  <2>1. \A m \in Run : pc'[m] = "schedule" => m # n
    BY <1>0, <1>3 DEF Start
  <2>2. /\ \A m \in Run \ {n} : pc'[m] = pc[m] /\ exp'[m] = exp[m]
        /\ UNCHANGED <<active, handles>>
    BY <1>0, <1>3 DEF Start, proxyVars, TypeInv, TypeOK
  <2>3. QED
    BY <2>1, <2>2 DEF HandlesExclusive, FaultAt
<1>4. ASSUME NEW n \in Run, Reset(n) PROVE HandlesExclusive'
  <2>1. pc[n] = "reset" /\ pc' = [pc EXCEPT ![n] = "warmup"]
    BY <1>4 DEF Reset
  <2>2. \A m \in Run : pc'[m] # "schedule"
    BY <1>0, <2>1 DEF NoOverlap, OnTheSystem
  <2>3. QED
    BY <2>2 DEF HandlesExclusive
<1>5. ASSUME NEW n \in Run, NEW i \in 1..MaxFaults, Inject(n, i) PROVE HandlesExclusive'
  <2>1. pc[n] = "schedule" /\ UNCHANGED exp
    BY <1>0, <1>5, InjectEffect
  <2>2. \A m \in Run \ {n} : pc'[m] # "schedule"
    <3>1. \A m \in Run \ {n} : pc'[m] = pc[m]
      BY <1>0, <1>5, InjectEffect
    <3>2. QED
      BY <1>0, <2>1, <3>1 DEF NoOverlap, OnTheSystem
  <2>3. CASE pc' = [pc EXCEPT ![n] = "cleanup"]
    BY <1>0, <2>2, <2>3 DEF HandlesExclusive
  <2>4. CASE /\ UNCHANGED pc /\ handles' = [handles EXCEPT ![n] = @ \cup {i}]
             /\ FaultAt(n, i).toxic # None =>
                  active[FaultAt(n, i).toxic] = None /\ active'[FaultAt(n, i).toxic] = n
    <3>1. \A j \in handles'[n] : j = i \/ j \in handles[n]
      BY <1>0, <2>4
    <3>2. \A k \in Toxic : active'[k] \in {active[k], n}
      BY <1>0, <1>5, InjectEffect
    <3>3. \A j : FaultAt(n, j)' = FaultAt(n, j)
      BY <2>1 DEF FaultAt
    <3>4. QED
      BY <1>1, <2>1, <2>2, <2>4, <3>1, <3>2, <3>3 DEF HandlesExclusive
  <2>5. QED
    BY <1>0, <1>5, <2>3, <2>4, InjectEffect
<1>6. ASSUME NEW n \in Run, NEW i \in 1..MaxFaults, Revert(n, i) PROVE HandlesExclusive'
  BY <1>0, <1>2, <1>6, RevertEffect
<1>7. ASSUME NEW n \in Run, Cleanup(n) PROVE HandlesExclusive'
  BY <1>0, <1>2, <1>7, CleanupEffect
<1>8. ASSUME NEW n \in Run, Crash(n) PROVE HandlesExclusive'
  BY <1>0, <1>2, <1>8 DEF Crash, Return, proxyVars
<1>9. ASSUME NEW n \in Run, Aside(n) PROVE HandlesExclusive'
  <2>1. CASE Begin(n)
    <3>1. handles[n] = {} /\ pc[n] = "warmup"
      BY <2>1 DEF Begin, ControlInv, ScheduleInOrder, NoTimeline
    <3>2. /\ UNCHANGED <<exp, handles, active>>
          /\ \A m \in Run \ {n} : pc'[m] = pc[m]
      BY <1>0, <1>9, AsideEffect
    <3>3. QED
      BY <3>1, <3>2 DEF HandlesExclusive, FaultAt
  <2>2. CASE ~Begin(n)
    BY <1>0, <1>2, <1>9, <2>2, AsideEffect
  <2>3. QED
    BY <2>1, <2>2
<1>10. CASE ProxyRestart
  BY <1>2, <1>10 DEF ProxyRestart, runVars
<1>11. CASE UNCHANGED vars
  BY <1>2, <1>11 DEF vars, runVars, proxyVars
<1>12. QED
  BY <1>3, <1>4, <1>5, <1>6, <1>7, <1>8, <1>9, <1>10, <1>11, StepCases

\* a run of another call that loses a toxic has failed, is dirty, or the step
\* is not one of a run that is on the system
LEMMA OthersEvicted ==
  ASSUME OneDirectory, ControlInv, NEW n \in Run, pc[n] \in OnTheSystem, RecordEvictions(n),
         NEW m \in evicted' \ evicted
  PROVE  m \in Run \ {n} /\ (pc[m] \in {"aborted", "crashed"} \/ status[m] = "dirty")
<1>1. m \in Run \ {n} /\ \E k \in Toxic : active[k] = m
  BY DEF RecordEvictions
<1>2. pc[m] \notin OnTheSystem
  BY <1>1, OneActor DEF NoOverlap
<1>3. QED
  BY <1>1, <1>2, ToxicHolder DEF OnTheSystem

LEMMA StepEvictionsCaught ==
  ASSUME OneDirectory, ControlInv, HandlesExclusive, EvictionsCaught, [Next]_vars
  PROVE  EvictionsCaught'
<1>0. /\ pc \in [Run -> PC]
      /\ handles \in [Run -> SUBSET (1..MaxFaults)]
      /\ status \in [Run -> Status]
      /\ active \in [Toxic -> Run \cup {None}]
      /\ evicted \subseteq Run
      /\ None \notin Run
      /\ TypeInv /\ NoOverlap /\ HandlesOpen
  BY OneActor, ConstantTypes DEF ControlInv, TypeInv, TypeOK
<1>1. ASSUME NEW n \in Run, Start(n) PROVE EvictionsCaught'
  <2>1. pc[n] = "new" /\ pc' = [pc EXCEPT ![n] = "read"]
        /\ UNCHANGED <<handles, status, active, evicted>>
    BY <1>1 DEF Start, proxyVars
  <2>2. \A m \in Run \ {n} : pc'[m] = pc[m] /\ exp'[m] = exp[m]
    BY <1>0, <1>1 DEF Start, TypeInv, TypeOK
  <2>3. ASSUME NEW m \in evicted, pc[m] = "schedule", RevertBoundToFail(m)
        PROVE  RevertBoundToFail(m)'
    BY <1>0, <2>1, <2>2, <2>3 DEF RevertBoundToFail, FaultAt
  <2>4. QED
    BY <1>0, <2>1, <2>2, <2>3 DEF EvictionsCaught
<1>2. ASSUME NEW n \in Run, Reset(n) PROVE EvictionsCaught'
  <2>1. pc[n] = "reset" /\ pc' = [pc EXCEPT ![n] = "warmup"] /\ UNCHANGED status
    BY <1>2 DEF Reset, runVars
  <2>2. ASSUME NEW m \in evicted' \ evicted PROVE pc'[m] \in {"aborted", "crashed"} \/ status'[m] = "dirty"
    BY <1>0, <1>2, <2>1, OthersEvicted DEF Reset, OnTheSystem
  <2>3. \A m \in Run : pc[m] # "schedule"
    BY <1>0, <2>1 DEF NoOverlap, OnTheSystem
  <2>4. ASSUME NEW m \in evicted PROVE pc'[m] \in {"cleanup", "aborted", "crashed"} \/ status'[m] = "dirty"
    BY <1>0, <2>1, <2>3 DEF EvictionsCaught
  <2>5. QED
    BY <2>2, <2>4 DEF EvictionsCaught
<1>3. ASSUME NEW n \in Run, NEW i \in 1..MaxFaults, Inject(n, i) PROVE EvictionsCaught'
  <2>1. /\ pc[n] = "schedule" /\ UNCHANGED <<exp, status, evicted>>
        /\ i \notin handles[n]
        /\ \A k \in Toxic : active'[k] = active[k] \/ (active'[k] = n /\ k = FaultAt(n, i).toxic)
    BY <1>0, <1>3, InjectEffect
  <2>2. \A m \in Run \ {n} : pc[m] # "schedule"
    BY <1>0, <2>1 DEF NoOverlap, OnTheSystem
  <2>3. CASE pc' = [pc EXCEPT ![n] = "cleanup"]
    <3>1. SUFFICES ASSUME NEW m \in evicted
                   PROVE  pc'[m] \in {"cleanup", "aborted", "crashed"} \/ status'[m] = "dirty"
      BY <2>1 DEF EvictionsCaught
    <3>2. QED
      BY <1>0, <2>1, <2>2, <2>3 DEF EvictionsCaught
  <2>4. CASE /\ UNCHANGED pc /\ handles' = [handles EXCEPT ![n] = @ \cup {i}]
             /\ FaultAt(n, i).toxic # None =>
                  active[FaultAt(n, i).toxic] = None /\ active'[FaultAt(n, i).toxic] = n
    <3>1. ASSUME RevertBoundToFail(n) PROVE RevertBoundToFail(n)'
      <4>1. PICK h \in handles[n] :
              /\ FaultAt(n, h).toxic # None
              /\ \/ active[FaultAt(n, h).toxic] # n
                 \/ \E j \in handles[n] \ {h} : FaultAt(n, j).toxic = FaultAt(n, h).toxic
        BY <3>1 DEF RevertBoundToFail
      <4>2. h # i /\ h \in handles'[n] /\ i \in handles'[n] /\ handles[n] \subseteq handles'[n]
        BY <1>0, <2>1, <2>4
      <4>3. \A j : FaultAt(n, j)' = FaultAt(n, j)
        BY <2>1 DEF FaultAt
      <4>4. FaultAt(n, h).toxic \in Toxic
        <5>1. exp[n] \in Exp /\ h \in DOMAIN Faults[exp[n]]
          BY <2>1 DEF ControlInv, TypeInv, ValidExp, OnTheSystem, HandlesOpen
        <5>2. QED
          BY <4>1, <5>1, FaultFacts DEF FaultAt, Fault
      <4>5. CASE FaultAt(n, i).toxic = FaultAt(n, h).toxic
        BY <4>1, <4>2, <4>3, <4>5 DEF RevertBoundToFail
      <4>6. CASE FaultAt(n, i).toxic # FaultAt(n, h).toxic
        <5>1. active'[FaultAt(n, h).toxic] = active[FaultAt(n, h).toxic]
          BY <2>1, <4>4, <4>6
        <5>2. QED
          BY <4>1, <4>2, <4>3, <5>1 DEF RevertBoundToFail
      <4>7. QED
        BY <4>5, <4>6
    <3>2. QED
      BY <1>0, <2>1, <2>2, <2>4, <3>1 DEF EvictionsCaught
  <2>5. QED
    BY <1>0, <1>3, <2>3, <2>4, InjectEffect
<1>4. ASSUME NEW n \in Run, NEW i \in 1..MaxFaults, Revert(n, i) PROVE EvictionsCaught'
  <2>1. /\ pc[n] = "schedule" /\ UNCHANGED <<pc, exp>>
        /\ handles' = [handles EXCEPT ![n] = @ \ {i}]
        /\ \A k \in Toxic : active'[k] \in {active[k], None}
        /\ i \notin handles[n] => UNCHANGED <<active, status>>
        /\ i \in handles[n] /\ FaultAt(n, i).toxic # None =>
              \/ status'[n] = "dirty"
              \/ active[FaultAt(n, i).toxic] # None /\ active'[FaultAt(n, i).toxic] = None
        /\ \A m \in Run : status[m] = "dirty" => status'[m] = "dirty"
    BY <1>0, <1>4, RevertEffect
  <2>2. \A m \in Run \ {n} : pc[m] # "schedule"
    BY <1>0, <2>1 DEF NoOverlap, OnTheSystem
  <2>3. ASSUME NEW m \in evicted' \ evicted PROVE pc'[m] \in {"aborted", "crashed"} \/ status'[m] = "dirty"
    BY <1>0, <1>4, <2>1, OthersEvicted DEF Revert, OnTheSystem
  <2>4. ASSUME RevertBoundToFail(n), status'[n] # "dirty" PROVE RevertBoundToFail(n)'
    <3>1. PICK h \in handles[n] :
            /\ FaultAt(n, h).toxic # None
            /\ \/ active[FaultAt(n, h).toxic] # n
               \/ \E j \in handles[n] \ {h} : FaultAt(n, j).toxic = FaultAt(n, h).toxic
      BY <2>4 DEF RevertBoundToFail
    <3>2. \A j : FaultAt(n, j)' = FaultAt(n, j)
      BY <2>1 DEF FaultAt
    <3>3. handles'[n] = handles[n] \ {i}
      BY <1>0, <2>1
    <3>4. FaultAt(n, h).toxic \in Toxic
      <4>1. exp[n] \in Exp /\ h \in DOMAIN Faults[exp[n]]
        BY <2>1, <3>1 DEF ControlInv, TypeInv, ValidExp, OnTheSystem, HandlesOpen
      <4>2. QED
        BY <3>1, <4>1, FaultFacts DEF FaultAt, Fault
    <3>5. active[FaultAt(n, h).toxic] \in {None, n}
      BY <2>1, <3>1 DEF HandlesExclusive
    <3>6. n # None
      BY <1>0
    <3>7. CASE h = i
      <4>1. active[FaultAt(n, h).toxic] = n /\ active'[FaultAt(n, h).toxic] = None
        BY <2>1, <2>4, <3>1, <3>5, <3>7
      <4>2. PICK j \in handles[n] \ {h} : FaultAt(n, j).toxic = FaultAt(n, h).toxic
        BY <3>1, <4>1
      <4>3. j \in handles'[n] /\ FaultAt(n, j).toxic # None /\ active'[FaultAt(n, j).toxic] # n
        BY <3>1, <3>3, <3>6, <3>7, <4>1, <4>2
      <4>4. QED
        BY <3>2, <4>3 DEF RevertBoundToFail
    <3>8. CASE h # i
      <4>1. h \in handles'[n]
        BY <3>1, <3>3, <3>8
      <4>2. CASE active[FaultAt(n, h).toxic] # n
        <5>1. active'[FaultAt(n, h).toxic] # n
          BY <2>1, <3>4, <3>6, <4>2
        <5>2. QED
          BY <3>1, <3>2, <4>1, <5>1 DEF RevertBoundToFail
      <4>3. CASE \E j \in handles[n] \ {h} : FaultAt(n, j).toxic = FaultAt(n, h).toxic
        <5>1. PICK j \in handles[n] \ {h} : FaultAt(n, j).toxic = FaultAt(n, h).toxic
          BY <4>3
        <5>2. CASE j = i
          <6>1. active'[FaultAt(n, h).toxic] = None
            BY <2>1, <2>4, <3>1, <5>1, <5>2
          <6>2. QED
            BY <3>1, <3>2, <3>6, <4>1, <6>1 DEF RevertBoundToFail
        <5>3. CASE j # i
          BY <3>1, <3>2, <3>3, <4>1, <5>1, <5>3 DEF RevertBoundToFail
        <5>4. QED
          BY <5>2, <5>3
      <4>4. QED
        BY <3>1, <4>2, <4>3
    <3>9. QED
      BY <3>7, <3>8
  <2>5. QED
    BY <1>0, <2>1, <2>2, <2>3, <2>4 DEF EvictionsCaught
<1>5. ASSUME NEW n \in Run, Cleanup(n) PROVE EvictionsCaught'
  <2>1. pc[n] = "cleanup" /\ UNCHANGED <<pc, status>>
    BY <1>0, <1>5, CleanupEffect
  <2>2. ASSUME NEW m \in evicted' \ evicted PROVE pc'[m] \in {"aborted", "crashed"} \/ status'[m] = "dirty"
    BY <1>0, <1>5, <2>1, OthersEvicted DEF Cleanup, OnTheSystem
  <2>3. \A m \in Run : pc[m] # "schedule"
    BY <1>0, <2>1 DEF NoOverlap, OnTheSystem
  <2>4. QED
    BY <1>0, <2>1, <2>2, <2>3 DEF EvictionsCaught
<1>6. ASSUME NEW n \in Run, Crash(n) PROVE EvictionsCaught'
  <2>1. /\ pc' = [pc EXCEPT ![n] = "crashed"] /\ UNCHANGED <<exp, status, active, evicted>>
        /\ \A m \in Run \ {n} : handles'[m] = handles[m]
    BY <1>0, <1>6 DEF Crash, Return, proxyVars
  <2>2. ASSUME NEW m \in Run \ {n}, RevertBoundToFail(m) PROVE RevertBoundToFail(m)'
    BY <2>1, <2>2 DEF RevertBoundToFail, FaultAt
  <2>3. QED
    BY <1>0, <2>1, <2>2 DEF EvictionsCaught
<1>7. ASSUME NEW n \in Run, Aside(n) PROVE EvictionsCaught'
  <2>1. /\ UNCHANGED <<exp, handles, active, evicted>>
        /\ \A m \in Run : status[m] = "dirty" => status'[m] = "dirty"
        /\ \A m \in Run \ {n} : pc'[m] = pc[m]
        /\ pc[n] = "schedule" => pc'[n] = "schedule" \/ (pc'[n] = "recovery" /\ Pending(n) = {})
        /\ pc[n] = "cleanup" => pc'[n] \in {"cleanup", "aborted"}
        /\ pc[n] \in {"aborted", "crashed"} => pc'[n] = pc[n]
    BY <1>0, <1>7, AsideEffect
  <2>2. \A m \in Run : RevertBoundToFail(m) => RevertBoundToFail(m)'
    BY <2>1 DEF RevertBoundToFail, FaultAt
  <2>3. pc[n] = "schedule" /\ Pending(n) = {} => ~RevertBoundToFail(n)
    <3>1. SUFFICES ASSUME pc[n] = "schedule", NEW i \in handles[n] PROVE Pending(n) # {}
      BY DEF RevertBoundToFail
    <3>2. <<i, TRUE>> \in Pending(n)
      BY <1>0, <3>1 DEF HandlesOpen, Pending, Events
    <3>3. QED
      BY <3>2
  <2>4. QED
    BY <1>0, <2>1, <2>2, <2>3 DEF EvictionsCaught
<1>8. CASE ProxyRestart
  <2>1. /\ UNCHANGED <<pc, exp, handles, status>>
        /\ active' = [k \in Toxic |-> None]
        /\ evicted' = evicted \cup {m \in Run : \E k \in Toxic : active[k] = m}
    BY <1>8 DEF ProxyRestart, runVars
  <2>2. ASSUME NEW m \in Run, pc[m] = "schedule",
               NEW i \in handles[m], FaultAt(m, i).toxic # None
        PROVE  RevertBoundToFail(m)'
    <3>1. exp[m] \in Exp /\ i \in DOMAIN Faults[exp[m]]
      BY <2>2 DEF ControlInv, TypeInv, ValidExp, OnTheSystem, HandlesOpen
    <3>2. FaultAt(m, i).toxic \in Toxic
      BY <2>2, <3>1, FaultFacts DEF FaultAt, Fault
    <3>3. active'[FaultAt(m, i).toxic] # m
      BY <1>0, <2>1, <3>2
    <3>4. i \in handles'[m] /\ FaultAt(m, i)' = FaultAt(m, i)
      BY <2>1 DEF FaultAt
    <3>5. QED
      BY <2>2, <3>3, <3>4 DEF RevertBoundToFail
  <2>3. ASSUME NEW m \in Run, NEW k \in Toxic, active[k] = m
        PROVE  \/ pc[m] \in {"cleanup", "aborted", "crashed"}
               \/ status[m] = "dirty"
               \/ pc[m] = "schedule" /\ RevertBoundToFail(m)'
    BY <2>2, <2>3, ToxicHolder, ConstantTypes
  <2>4. ASSUME NEW m \in Run, pc[m] = "schedule", RevertBoundToFail(m) PROVE RevertBoundToFail(m)'
    BY <2>2, <2>4 DEF RevertBoundToFail
  <2>5. QED
    BY <1>0, <2>1, <2>3, <2>4 DEF EvictionsCaught
<1>9. CASE UNCHANGED vars
  BY <1>9 DEF vars, runVars, proxyVars, EvictionsCaught, RevertBoundToFail, FaultAt
<1>10. QED
  BY <1>1, <1>2, <1>3, <1>4, <1>5, <1>6, <1>7, <1>8, <1>9, StepCases

-----------------------------------------------------------------------------
(* The rows of a serialized run.                                           *)

LEMMA StepRowsOwned ==
  ASSUME OneDirectory, ControlInv, RowsOwned, [Next]_vars
  PROVE  RowsOwned'
<1> DEFINE Fresh == NoTimeline \cup {"schedule", "recovery", "record"}
<1> DEFINE Owned(n) ==
      /\ pc[n] = "faults" => experiments[IdOf[exp[n]]].run = n
      /\ pc[n] \in Fresh => cursor[n] = 1
      /\ pc[n] \in {"faults", "ok"} /\ experiments[IdOf[exp[n]]].run = n =>
           \A s \in 1..(cursor[n] - 1) : faultRows[IdOf[exp[n]]][s] = n
      /\ pc[n] = "ok" => cursor[n] > Len(Faults[exp[n]])
<1>0. /\ pc \in [Run -> PC]
      /\ exp \in [Run -> Exp \cup {None}]
      /\ cursor \in [Run -> 1..(MaxFaults + 1)]
      /\ experiments \in [Id -> Row]
      /\ faultRows \in [Id -> [1..MaxFaults -> Run \cup {None}]]
      /\ TypeInv /\ NoOverlap
      /\ \A n \in Run : Owned(n)
  BY OneActor DEF ControlInv, TypeInv, TypeOK, RowsOwned
<1>1. ASSUME NEW n \in Run, UNCHANGED <<cursor, labelVars>>,
             \A m \in Run \ {n} : pc'[m] = pc[m] /\ exp'[m] = exp[m],
             pc'[n] = pc[n] \/ pc'[n] \notin {"faults", "ok"}, pc'[n] \in Fresh => pc[n] \in Fresh,
             pc'[n] \in {"faults", "ok"} => exp'[n] = exp[n]
      PROVE  RowsOwned'
  <2>1. ASSUME NEW m \in Run PROVE Owned(m)'
    BY <1>0, <1>1 DEF labelVars
  <2>2. QED
    BY <2>1 DEF RowsOwned
<1>2. ASSUME NEW n \in Run, Start(n) PROVE RowsOwned'
  <2>1. /\ UNCHANGED <<cursor, labelVars>>
        /\ \A m \in Run \ {n} : pc'[m] = pc[m] /\ exp'[m] = exp[m]
        /\ pc[n] = "new" /\ pc'[n] = "read"
    BY <1>0, <1>2 DEF Start
  <2>2. QED
    BY <1>1, <2>1 DEF NoTimeline
<1>3. ASSUME NEW n \in Run, \/ Busy(n) \/ RejectYaml(n) \/ DryRun(n) \/ Validate(n) \/ Reset(n)
                            \/ Begin(n) \/ Abort(n) \/ FinishTimeline(n) \/ StagesEnd(n)
                            \/ Recovery(n) \/ InsertFails(n) \/ Crash(n) \/ Cleanup(n)
                            \/ \E i \in 1..MaxFaults : Inject(n, i) \/ Revert(n, i)
      PROVE  RowsOwned'
  <2>1. UNCHANGED <<exp, cursor, labelVars>>
    BY <1>3 DEF Busy, RejectYaml, DryRun, Validate, Reset, Begin, Abort, FinishTimeline, StagesEnd,
       Recovery, InsertFails, Crash, Cleanup, Inject, Revert, Return, runVars
  <2>2. \/ UNCHANGED pc
        \/ \E q \in {"busy", "rejected", "dry", "reset", "warmup", "schedule", "cleanup", "aborted",
                     "recovery", "record", "dberror", "crashed"} :
             /\ pc' = [pc EXCEPT ![n] = q]
             /\ q \in Fresh => pc[n] \in Fresh
    BY <1>3 DEF Busy, RejectYaml, DryRun, Validate, Reset, Begin, Abort, FinishTimeline, StagesEnd,
       Recovery, InsertFails, Crash, Cleanup, Inject, Revert, Due, Return, NoTimeline
  <2>3. QED
    BY <1>0, <1>1, <2>1, <2>2
<1>4. ASSUME NEW n \in Run, RecordExperiment(n) PROVE RowsOwned'
  <2>1. /\ pc[n] = "record" /\ pc' = [pc EXCEPT ![n] = "faults"]
        /\ experiments' = [experiments EXCEPT ![IdOf[exp[n]]] = [run |-> n, status |-> status[n]]]
        /\ UNCHANGED <<exp, cursor, faultRows>>
    BY <1>4 DEF RecordExperiment, runVars
  <2>2. IdOf[exp[n]] \in Id
    BY <1>0, <2>1, ConstantTypes DEF TypeInv, ValidExp, OnTheSystem
  <2>3. experiments'[IdOf[exp[n]]].run = n
    BY <1>0, <2>1, <2>2
  <2>4. \A id \in Id : experiments'[id].run = experiments[id].run \/ experiments'[id].run = n
    BY <1>0, <2>1
  <2>5. Owned(n)'
    BY <1>0, <2>1, <2>3 DEF NoTimeline
  <2>6. ASSUME NEW m \in Run \ {n} PROVE Owned(m)'
    <3>1. pc[m] # "faults"
      BY <1>0, <2>1 DEF NoOverlap, OnTheSystem
    <3>2. pc'[m] = pc[m]
      BY <1>0, <2>1
    <3>3. pc[m] = "ok" => IdOf[exp[m]] \in Id
      BY <1>0, ConstantTypes DEF TypeInv, ValidExp
    <3>4. pc[m] = "ok" /\ experiments'[IdOf[exp[m]]].run = m => experiments[IdOf[exp[m]]].run = m
      BY <2>4, <3>3
    <3>5. QED
      BY <1>0, <2>1, <3>1, <3>2, <3>4
  <2>7. QED
    BY <2>5, <2>6 DEF RowsOwned
<1>5. ASSUME NEW n \in Run, RecordFault(n) PROVE RowsOwned'
  <2>1. /\ pc[n] = "faults" /\ cursor[n] <= Len(Faults[exp[n]])
        /\ faultRows' = [faultRows EXCEPT ![IdOf[exp[n]]][cursor[n]] = n]
        /\ cursor' = [cursor EXCEPT ![n] = @ + 1]
        /\ UNCHANGED <<pc, exp, experiments>>
    BY <1>5 DEF RecordFault, FaultsToRecord
  <2>2. exp[n] \in Exp /\ IdOf[exp[n]] \in Id
    BY <1>0, <2>1, ConstantTypes DEF TypeInv, ValidExp, OnTheSystem
  <2>3. cursor[n] \in 1..MaxFaults
    BY <1>0, <2>1, <2>2, FaultFacts, ConstantTypes
  <2>4. \A id \in Id, s \in 1..MaxFaults :
          faultRows'[id][s] = IF id = IdOf[exp[n]] /\ s = cursor[n] THEN n ELSE faultRows[id][s]
    BY <1>0, <2>1, <2>2, <2>3
  <2>5. Owned(n)'
    <3>1. cursor'[n] = cursor[n] + 1
      BY <1>0, <2>1
    <3>2. \A s \in 1..(cursor'[n] - 1) : s \in 1..MaxFaults /\ (s = cursor[n] \/ s \in 1..(cursor[n] - 1))
      BY <2>3, <3>1, ConstantTypes
    <3>3. \A s \in 1..(cursor'[n] - 1) : faultRows'[IdOf[exp[n]]][s] = n
      BY <1>0, <2>1, <2>2, <2>4, <3>2
    <3>4. QED
      BY <1>0, <2>1, <3>3 DEF NoTimeline
  <2>6. ASSUME NEW m \in Run \ {n} PROVE Owned(m)'
    <3>1. pc[m] # "faults" /\ cursor'[m] = cursor[m]
      BY <1>0, <2>1 DEF NoOverlap, OnTheSystem
    <3>2. pc[m] = "ok" => IdOf[exp[m]] \in Id /\ cursor[m] - 1 \in 0..MaxFaults
      BY <1>0, ConstantTypes DEF TypeInv, ValidExp
    <3>3. experiments[IdOf[exp[n]]].run = n
      BY <1>0, <2>1
    <3>4. pc[m] = "ok" /\ experiments[IdOf[exp[m]]].run = m =>
            \A s \in 1..(cursor[m] - 1) : faultRows'[IdOf[exp[m]]][s] = m
      <4>1. SUFFICES ASSUME pc[m] = "ok", experiments[IdOf[exp[m]]].run = m,
                            NEW s \in 1..(cursor[m] - 1)
                     PROVE  faultRows'[IdOf[exp[m]]][s] = m
        OBVIOUS
      <4>2. IdOf[exp[m]] # IdOf[exp[n]]
        BY <3>3, <4>1
      <4>3. s \in 1..MaxFaults
        BY <3>2, <4>1, ConstantTypes
      <4>4. QED
        BY <1>0, <2>4, <3>2, <4>1, <4>2, <4>3, SMTT(30)
    <3>5. QED
      BY <1>0, <2>1, <3>1, <3>4
  <2>7. QED
    BY <2>5, <2>6 DEF RowsOwned
<1>6. ASSUME NEW n \in Run, Finish(n) PROVE RowsOwned'
  <2>1. /\ pc[n] = "faults" /\ cursor[n] > Len(Faults[exp[n]])
        /\ pc' = [pc EXCEPT ![n] = "ok"]
        /\ UNCHANGED <<exp, cursor, experiments, faultRows>>
    BY <1>6 DEF Finish, FaultsToRecord, Return, runVars, labelVars
  <2>2. ASSUME NEW m \in Run PROVE Owned(m)'
    BY <1>0, <2>1, <2>2 DEF NoTimeline
  <2>3. QED
    BY <2>2 DEF RowsOwned
<1>7. CASE ProxyRestart \/ UNCHANGED vars
  BY <1>7 DEF ProxyRestart, vars, runVars, labelVars, RowsOwned
<1>8. QED
  BY <1>2, <1>3, <1>4, <1>5, <1>6, <1>7 DEF Next, Step, Quiescent

-----------------------------------------------------------------------------
LEMMA InitSerial == Init => SerialInv
<1> SUFFICES ASSUME Init PROVE SerialInv
  OBVIOUS
<1>1. ControlInv
  BY InitControl
<1>2. ResetHolds /\ HandlesExclusive /\ EvictionsCaught
  BY DEF Init, ResetHolds, HandlesExclusive, EvictionsCaught
<1>3. RowsOwned
  BY DEF Init, RowsOwned, NoTimeline
<1>4. QED
  BY <1>1, <1>2, <1>3 DEF SerialInv

\* The inductive invariant of runs that share one lock file (runner.rs:19-30):
\* what the reset, the handles and the rows promise is never undone by another run.
THEOREM SerialInvariant == OneDirectory => (Spec => []SerialInv)
<1> SUFFICES ASSUME OneDirectory PROVE Spec => []SerialInv
  OBVIOUS
<1>1. SerialInv /\ [Next]_vars => SerialInv'
  BY StepControl, StepResetHolds, StepHandlesExclusive, StepEvictionsCaught, StepRowsOwned DEF SerialInv
<1>2. QED
  BY <1>1, InitSerial, PTL DEF Spec

\* No toxic of an earlier run is in force during a timeline that began with a
\* reset that took effect (runner.rs:65-70).
THEOREM NothingBleeds == OneDirectory => (Spec => []NoBleed)
<1> SUFFICES ASSUME OneDirectory PROVE Spec => []NoBleed
  OBVIOUS
<1>1. SerialInv => NoBleed
  BY DEF SerialInv, ResetHolds, NoBleed
<1>2. QED
  BY <1>1, SerialInvariant, PTL

\* A run that lost a toxic to a toxiproxy restart is recorded as dirty: one of
\* its reverts fails (runner.rs:138-145).
THEOREM InterferenceLabelled == OneDirectory => (Spec => []InterferenceIsLabelled)
<1> SUFFICES ASSUME OneDirectory PROVE Spec => []InterferenceIsLabelled
  OBVIOUS
<1>1. SerialInv => InterferenceIsLabelled
  BY DEF SerialInv, EvictionsCaught, InterferenceIsLabelled, AfterTimeline
<1>2. QED
  BY <1>1, SerialInvariant, PTL

\* The fault_events rows of a run that returned Ok are its own as long as
\* its experiments row is (runner.rs:204-225).
THEOREM RowsComplete == OneDirectory => (Spec => []OkRowsComplete)
<1> SUFFICES ASSUME OneDirectory PROVE Spec => []OkRowsComplete
  OBVIOUS
<1>1. SerialInv => OkRowsComplete
  <2> SUFFICES ASSUME SerialInv, NEW n \in Run, pc[n] = "ok", experiments[IdOf[exp[n]]].run = n,
                      NEW s \in 1..Len(Faults[exp[n]])
               PROVE  faultRows[IdOf[exp[n]]][s] = n
    BY DEF OkRowsComplete
  <2>1. exp[n] \in Exp /\ cursor[n] \in 1..(MaxFaults + 1)
    BY DEF SerialInv, ControlInv, TypeInv, TypeOK, ValidExp
  <2>2. cursor[n] > Len(Faults[exp[n]]) /\ \A r \in 1..(cursor[n] - 1) : faultRows[IdOf[exp[n]]][r] = n
    BY DEF SerialInv, RowsOwned
  <2>3. s \in 1..(cursor[n] - 1)
    BY <2>1, <2>2, FaultFacts, ConstantTypes
  <2>4. QED
    BY <2>2, <2>3
<1>2. QED
  BY <1>1, SerialInvariant, PTL

\* A row of table experiments is written only by a run that went through
\* its whole timeline (runner.rs:116-204), whatever the directories.
THEOREM RowsAfterTimeline == Spec => RowsOnlyAfterTimeline
<1>1. ControlInv /\ [Next]_vars => [\A id \in Id : experiments'[id] # experiments[id] =>
                                      LET n == experiments'[id].run IN
                                      /\ pc[n] = "record"
                                      /\ Events(exp[n]) \subseteq fired[n]]_vars
  <2> SUFFICES ASSUME ControlInv, [Next]_vars, NEW id \in Id, experiments'[id] # experiments[id]
               PROVE  /\ pc[experiments'[id].run] = "record"
                      /\ Events(exp[experiments'[id].run]) \subseteq fired[experiments'[id].run]
    OBVIOUS
  <2>1. PICK n \in Run : RecordExperiment(n)
    <3>1. experiments' # experiments
      OBVIOUS
    <3>2. ASSUME NEW n \in Run, Start(n) \/ Reset(n) \/ Cleanup(n) \/ Crash(n) PROVE UNCHANGED experiments
      BY <3>2 DEF Start, Reset, Cleanup, Crash, labelVars
    <3>3. ASSUME NEW n \in Run, NEW i \in 1..MaxFaults, Inject(n, i) \/ Revert(n, i)
          PROVE  UNCHANGED experiments
      BY <3>3 DEF Inject, Revert, labelVars
    <3>4. ASSUME NEW n \in Run, Aside(n), ~RecordExperiment(n) PROVE UNCHANGED experiments
      BY <3>4 DEF Aside, Busy, RejectYaml, DryRun, Validate, Begin, Abort, FinishTimeline, Recovery,
         RecordFault, InsertFails, Finish, StagesEnd, labelVars
    <3>5. ProxyRestart \/ UNCHANGED vars => UNCHANGED experiments
      BY DEF ProxyRestart, vars, labelVars
    <3>6. QED
      BY <3>1, <3>2, <3>3, <3>4, <3>5, StepCases
  <2>2. /\ pc[n] = "record"
        /\ experiments' = [experiments EXCEPT ![IdOf[exp[n]]] = [run |-> n, status |-> status[n]]]
    BY <2>1 DEF RecordExperiment
  <2>3. experiments \in [Id -> Row]
    BY DEF ControlInv, TypeInv, TypeOK
  <2>4. experiments'[id].run = n
    BY <2>2, <2>3
  <2>5. Pending(n) = {}
    BY <2>2 DEF ControlInv, ScheduleInOrder, AfterTimeline
  <2>6. QED
    BY <2>2, <2>4, <2>5 DEF Pending
<1>2. QED
  BY <1>1, ControlInvariant, PTL DEF Spec, RowsOnlyAfterTimeline

=============================================================================
