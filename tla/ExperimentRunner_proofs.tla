----------------------- MODULE ExperimentRunner_proofs -----------------------
(* Theorems about ExperimentRunner, for every value of its constants. *)
EXTENDS ExperimentRunner, TLAPS

-----------------------------------------------------------------------------
(* Type correctness.  What a step does to clock and handles is typed only  *)
(* because a run that touches the system has a valid experiment.           *)

LEMMA ConstantTypes ==
  /\ DirOf \in [Run -> Dir]
  /\ IdOf \in [Exp -> Id]
  /\ MaxFaults \in Nat
  /\ Lag \subseteq Nat
  /\ None \notin Run \cup Exp \cup Toxic
  BY ConstantsAssumption

LEMMA FaultFacts ==
  ASSUME NEW e \in Exp
  PROVE  /\ DOMAIN Faults[e] = 1..Len(Faults[e])
         /\ Len(Faults[e]) \in Nat
         /\ Len(Faults[e]) <= MaxFaults
         /\ DOMAIN Faults[e] \subseteq 1..MaxFaults
         /\ \A i \in DOMAIN Faults[e] : Faults[e][i] \in Fault
  BY ConstantsAssumption

LEMMA TimeIsNat ==
  ASSUME NEW e \in Exp, NEW ev \in Events(e)
  PROVE  TimeOf(e, ev) \in Nat
  BY FaultFacts DEF Events, TimeOf, Fault

LEMMA ElapseType ==
  ASSUME clock \in [Run -> Nat], NEW n \in Run, NEW ev, NEW busy \in Nat,
         TimeOf(exp[n], ev) \in Nat, Elapse(n, ev, busy)
  PROVE  clock' \in [Run -> Nat]
  BY ConstantTypes DEF Elapse

LEMMA ProxyCallsKeepType ==
  ASSUME active \in [Toxic -> Run \cup {None}], NEW n \in Run, NEW f \in Fault, NEW ok \in BOOLEAN
  PROVE  /\ ApplyFault(n, f, ok) => active' \in [Toxic -> Run \cup {None}]
         /\ RevertFault(f, ok) => active' \in [Toxic -> Run \cup {None}]
  BY DEF Fault, ApplyFault, RevertFault, AddToxic, RemoveToxic

\* what an event that is due says about its fault
LEMMA DueFacts ==
  ASSUME TypeInv, NEW n \in Run, NEW i, NEW r \in BOOLEAN, Due(n, <<i, r>>)
  PROVE  /\ pc[n] = "schedule"
         /\ exp[n] \in Exp
         /\ Valid(exp[n])
         /\ i \in DOMAIN Faults[exp[n]]
         /\ i \in 1..MaxFaults
         /\ FaultAt(n, i) \in Fault
         /\ TimeOf(exp[n], <<i, r>>) \in Nat
<1>1. pc[n] = "schedule" /\ <<i, r>> \in Events(exp[n])
  BY DEF Due, Pending
<1>2. exp[n] \in Exp /\ Valid(exp[n])
  BY <1>1 DEF TypeInv, ValidExp, OnTheSystem
<1>3. i \in DOMAIN Faults[exp[n]]
  BY <1>1 DEF Events
<1>4. QED
  BY <1>1, <1>2, <1>3, FaultFacts, TimeIsNat DEF FaultAt

LEMMA InitTypeInv == Init => TypeInv
  BY ConstantTypes DEF Init, TypeInv, TypeOK, ValidExp, PC, Status, Row, NoRow, OnTheSystem

LEMMA StepTypeInv == TypeInv /\ [Next]_vars => TypeInv'
<1> SUFFICES ASSUME TypeInv, [Next]_vars PROVE TypeInv'
  OBVIOUS
<1>1. ASSUME NEW n \in Run, Start(n) PROVE TypeInv'
  <2>1. PICK e \in Exp \cup {None} : exp' = [exp EXCEPT ![n] = e]
    BY <1>1 DEF Start
  <2>2. /\ pc' = [pc EXCEPT ![n] = "read"]
        /\ lock' = [lock EXCEPT ![DirOf[n]] = n]
        /\ UNCHANGED <<fired, handles, clock, status, cursor, cleanStart, stages, proxyVars, labelVars>>
    BY <1>1 DEF Start
  <2>3. TypeOK'
    BY <2>1, <2>2, ConstantTypes DEF proxyVars, labelVars, TypeInv, TypeOK, PC, Underway
  <2>4. ValidExp'
    BY <2>1, <2>2 DEF TypeInv, TypeOK, ValidExp, OnTheSystem
  <2>5. QED
    BY <2>3, <2>4 DEF TypeInv
<1>2. ASSUME NEW n \in Run, Busy(n) PROVE TypeInv'
  BY <1>2, ConstantTypes DEF Busy, runVars, proxyVars, labelVars, TypeInv, TypeOK, ValidExp,
     PC, Underway, Returned, OnTheSystem
<1>3. ASSUME NEW n \in Run, RejectYaml(n) PROVE TypeInv'
  BY <1>3, ConstantTypes DEF RejectYaml, Return, runVars, proxyVars, labelVars, TypeInv,
     TypeOK, ValidExp, PC, Underway, Returned, OnTheSystem
<1>4. ASSUME NEW n \in Run, DryRun(n) PROVE TypeInv'
  BY <1>4, ConstantTypes DEF DryRun, Return, runVars, proxyVars, labelVars, TypeInv, TypeOK,
     ValidExp, PC, Underway, Returned, OnTheSystem
<1>5. ASSUME NEW n \in Run, Validate(n) PROVE TypeInv'
  BY <1>5, ConstantTypes DEF Validate, Acceptable, runVars, proxyVars, labelVars, TypeInv,
     TypeOK, ValidExp, PC, Underway, Returned, OnTheSystem
<1>6. ASSUME NEW n \in Run, Reset(n) PROVE TypeInv'
  BY <1>6, ConstantTypes DEF Reset, ResetEffect, RecordEvictions, runVars, labelVars,
     TypeInv, TypeOK, ValidExp, PC, Underway, Returned, OnTheSystem
<1>7. ASSUME NEW n \in Run, Begin(n) PROVE TypeInv'
  BY <1>7, ConstantTypes DEF Begin, runVars, proxyVars, labelVars, TypeInv, TypeOK, ValidExp,
     PC, Underway, Returned, OnTheSystem
<1>8. ASSUME NEW n \in Run, NEW i \in 1..MaxFaults, Inject(n, i) PROVE TypeInv'
  <2>1. Due(n, <<i, FALSE>>)
    BY <1>8 DEF Inject
  <2>2. FaultAt(n, i) \in Fault /\ TimeOf(exp[n], <<i, FALSE>>) \in Nat
    BY <2>1, DueFacts
  <2>3. FaultAt(n, i).blocks \in Nat
    BY <2>2 DEF Fault
  <2>4. clock' \in [Run -> Nat]
    BY <1>8, <2>2, <2>3, ElapseType DEF Inject, TypeInv, TypeOK
  <2>5. active \in [Toxic -> Run \cup {None}]
    BY DEF TypeInv, TypeOK
  <2>6. active' \in [Toxic -> Run \cup {None}]
    BY <1>8, <2>2, <2>5, ProxyCallsKeepType DEF Inject
  <2>7. /\ pc' = pc \/ pc' = [pc EXCEPT ![n] = "cleanup"]
        /\ exp[n] \in Exp /\ Valid(exp[n])
    BY <1>8, <2>1, DueFacts DEF Inject
  <2>8. /\ handles' \in [Run -> SUBSET (1..MaxFaults)]
        /\ fired' \in [Run -> SUBSET Event]
    <3>0. <<i, FALSE>> \in Event
      BY DEF Event
    <3>1. fired' = [fired EXCEPT ![n] = @ \cup {<<i, FALSE>>}]
      BY <1>8 DEF Inject
    <3>2. handles' = handles \/ handles' = [handles EXCEPT ![n] = @ \cup {i}]
      BY <1>8 DEF Inject
    <3>3. fired' \in [Run -> SUBSET Event]
      BY <3>0, <3>1 DEF TypeInv, TypeOK
    <3>4. handles \in [Run -> SUBSET (1..MaxFaults)]
      BY DEF TypeInv, TypeOK
    <3>5. handles[n] \cup {i} \in SUBSET (1..MaxFaults)
      BY <3>4
    <3>6. QED
      BY <3>2, <3>3, <3>4, <3>5
  <2>9. UNCHANGED <<exp, lock, status, cursor, cleanStart, evicted, stages, labelVars>>
    BY <1>8 DEF Inject
  <2>10. TypeOK'
    BY <2>4, <2>6, <2>7, <2>8, <2>9 DEF labelVars, TypeInv, TypeOK, PC, Underway
  <2>11. ValidExp'
    BY <2>7, <2>9 DEF TypeInv, TypeOK, ValidExp, OnTheSystem
  <2>12. QED
    BY <2>10, <2>11 DEF TypeInv
<1>9. ASSUME NEW n \in Run, NEW i \in 1..MaxFaults, Revert(n, i) PROVE TypeInv'
  <2>1. Due(n, <<i, TRUE>>)
    BY <1>9 DEF Revert
  <2>2. FaultAt(n, i) \in Fault /\ TimeOf(exp[n], <<i, TRUE>>) \in Nat
    BY <2>1, DueFacts
  <2>3. clock' \in [Run -> Nat]
    BY <1>9, <2>2, ElapseType DEF Revert, TypeInv, TypeOK
  <2>4. active \in [Toxic -> Run \cup {None}]
    BY DEF TypeInv, TypeOK
  <2>5. active' \in [Toxic -> Run \cup {None}]
    BY <1>9, <2>2, <2>4, ProxyCallsKeepType DEF Revert
  <2>6. status' \in [Run -> Status]
    BY <1>9 DEF Revert, StatusAfterRevert, Status, TypeInv, TypeOK
  <2>7. /\ handles' \in [Run -> SUBSET (1..MaxFaults)]
        /\ fired' \in [Run -> SUBSET Event]
        /\ evicted' \subseteq Run
    <3>0. <<i, TRUE>> \in Event
      BY DEF Event
    <3>1. fired' = [fired EXCEPT ![n] = @ \cup {<<i, TRUE>>}]
      BY <1>9 DEF Revert
    <3>2. handles' = [handles EXCEPT ![n] = @ \ {i}]
      BY <1>9 DEF Revert
    <3>3. RecordEvictions(n)
      BY <1>9 DEF Revert
    <3>4. QED
      BY <3>0, <3>1, <3>2, <3>3 DEF RecordEvictions, TypeInv, TypeOK
  <2>8. UNCHANGED <<pc, exp, lock, cursor, cleanStart, stages, labelVars>>
    BY <1>9 DEF Revert
  <2>9. QED
    BY <2>3, <2>5, <2>6, <2>7, <2>8 DEF labelVars, TypeInv, TypeOK, ValidExp, PC, Underway,
       Returned, OnTheSystem
<1>10. ASSUME NEW n \in Run, Cleanup(n) PROVE TypeInv'
  <2>1. active' \in [Toxic -> Run \cup {None}]
    BY <1>10 DEF Cleanup, RevertFault, RemoveToxic, TypeInv, TypeOK
  <2>2. QED
    BY <1>10, <2>1 DEF Cleanup, RecordEvictions, labelVars, TypeInv, TypeOK, ValidExp, PC,
       Underway, Returned, OnTheSystem
<1>11. ASSUME NEW n \in Run, Abort(n) PROVE TypeInv'
  BY <1>11, ConstantTypes DEF Abort, Return, runVars, proxyVars, labelVars, TypeInv, TypeOK,
     ValidExp, PC, Underway, Returned, OnTheSystem
<1>12. ASSUME NEW n \in Run, FinishTimeline(n) PROVE TypeInv'
  BY <1>12, ConstantTypes DEF FinishTimeline, runVars, proxyVars, labelVars, TypeInv, TypeOK,
     ValidExp, PC, Underway, Returned, OnTheSystem
<1>13. ASSUME NEW n \in Run, Recovery(n) PROVE TypeInv'
  BY <1>13, ConstantTypes DEF Recovery, Status, proxyVars, labelVars, TypeInv, TypeOK,
     ValidExp, PC, Underway, Returned, OnTheSystem
<1>14. ASSUME NEW n \in Run, RecordExperiment(n) PROVE TypeInv'
  BY <1>14, ConstantTypes DEF RecordExperiment, Row, runVars, proxyVars, TypeInv, TypeOK,
     ValidExp, PC, Underway, Returned, OnTheSystem
<1>15. ASSUME NEW n \in Run, RecordFault(n) PROVE TypeInv'
  <2>1. exp[n] \in Exp /\ cursor[n] \in 1..MaxFaults /\ IdOf[exp[n]] \in Id
    BY <1>15, FaultFacts, ConstantTypes DEF RecordFault, FaultsToRecord, TypeInv, TypeOK,
       ValidExp, PC, Underway, Returned, OnTheSystem
  <2>2. QED
    BY <1>15, <2>1, ConstantTypes DEF RecordFault, proxyVars, TypeInv, TypeOK, ValidExp, PC,
       Underway, Returned, OnTheSystem
<1>16. ASSUME NEW n \in Run, InsertFails(n) PROVE TypeInv'
  BY <1>16, ConstantTypes DEF InsertFails, Return, runVars, proxyVars, labelVars, TypeInv,
     TypeOK, ValidExp, PC, Underway, Returned, OnTheSystem
<1>17. ASSUME NEW n \in Run, Finish(n) PROVE TypeInv'
  BY <1>17, ConstantTypes DEF Finish, Return, runVars, proxyVars, labelVars, TypeInv, TypeOK,
     ValidExp, PC, Underway, Returned, OnTheSystem
<1>18. ASSUME NEW n \in Run, StagesEnd(n) PROVE TypeInv'
  BY <1>18 DEF StagesEnd, runVars, proxyVars, labelVars, TypeInv, TypeOK, ValidExp, PC,
     Underway, Returned, OnTheSystem
<1>19. ASSUME NEW n \in Run, Crash(n) PROVE TypeInv'
  BY <1>19, ConstantTypes DEF Crash, Return, proxyVars, labelVars, TypeInv, TypeOK, ValidExp,
     PC, Underway, Returned, OnTheSystem
<1>20. CASE ProxyRestart
  BY <1>20 DEF ProxyRestart, runVars, labelVars, TypeInv, TypeOK, ValidExp, PC, Underway,
     Returned, OnTheSystem
<1>21. CASE UNCHANGED vars
  BY <1>21 DEF vars, runVars, proxyVars, labelVars, TypeInv, TypeOK, ValidExp, PC, Underway,
     Returned, OnTheSystem
<1>22. QED
  BY <1>1, <1>2, <1>3, <1>4, <1>5, <1>6, <1>7, <1>8, <1>9, <1>10, <1>11, <1>12, <1>13, <1>14,
     <1>15, <1>16, <1>17, <1>18, <1>19, <1>20, <1>21 DEF Next, Step, Quiescent

LEMMA TypeInvariant == Spec => []TypeInv
  BY InitTypeInv, StepTypeInv, PTL DEF Spec

\* Every variable keeps its type.
THEOREM TypeCorrect == Spec => []TypeOK
<1>1. TypeInv => TypeOK
  BY DEF TypeInv
<1>2. QED
  BY <1>1, TypeInvariant, PTL

-----------------------------------------------------------------------------
(* The lock.                                                               *)

LEMMA StepLockHeld == TypeInv /\ LockHeld /\ [Next]_vars => LockHeld'
<1> SUFFICES ASSUME TypeInv, LockHeld, [Next]_vars PROVE LockHeld'
  OBVIOUS
<1>0. pc \in [Run -> PC] /\ lock \in [Dir -> Run \cup {None}]
  BY DEF TypeInv, TypeOK
<1>1. ASSUME NEW n \in Run, pc[n] \in Underway, NEW r \in Returned, Return(n, r) PROVE LockHeld'
  BY <1>0, <1>1, ConstantTypes DEF Return, LockHeld, Underway, Returned
<1>2. ASSUME NEW n \in Run, Start(n) PROVE LockHeld'
  BY <1>0, <1>2, ConstantTypes DEF Start, Lockable, LockHeld, Underway
<1>3. ASSUME NEW n \in Run, pc[n] \in Underway, NEW q \in PC, pc' = [pc EXCEPT ![n] = q], UNCHANGED lock
      PROVE  LockHeld'
  BY <1>0, <1>3 DEF LockHeld
<1>4. ASSUME NEW n \in Run, RejectYaml(n) \/ DryRun(n) \/ Abort(n) \/ InsertFails(n) \/ Finish(n) \/ Crash(n)
      PROVE  LockHeld'
  <2>1. pc[n] \in Underway /\ \E r \in Returned : Return(n, r)
    BY <1>4 DEF RejectYaml, DryRun, Abort, InsertFails, Finish, Crash, Underway, Returned
  <2>2. QED
    BY <1>1, <2>1
<1>5. ASSUME NEW n \in Run,
             Validate(n) \/ Reset(n) \/ Begin(n) \/ FinishTimeline(n) \/ Recovery(n) \/ RecordExperiment(n)
      PROVE  LockHeld'
  <2>1. /\ pc[n] \in Underway /\ UNCHANGED lock
        /\ \E q \in PC : pc' = [pc EXCEPT ![n] = q]
    BY <1>5 DEF Validate, Reset, Begin, FinishTimeline, Recovery, RecordExperiment, PC, Underway
  <2>2. QED
    BY <1>3, <2>1
<1>6. ASSUME NEW n \in Run, NEW i \in 1..MaxFaults, Inject(n, i) PROVE LockHeld'
  <2>1. UNCHANGED lock /\ pc[n] = "schedule" /\ (UNCHANGED pc \/ pc' = [pc EXCEPT ![n] = "cleanup"])
    BY <1>6, DueFacts DEF Inject
  <2>2. QED
    BY <1>0, <2>1 DEF LockHeld, Underway
<1>7. ASSUME NEW n \in Run, Busy(n) PROVE LockHeld'
  BY <1>0, <1>7 DEF Busy, LockHeld, Underway
<1>8. ASSUME UNCHANGED <<pc, lock>> PROVE LockHeld'
  BY <1>8 DEF LockHeld
<1>9. ASSUME NEW n \in Run, NEW i \in 1..MaxFaults, Revert(n, i) PROVE LockHeld'
  BY <1>8, <1>9 DEF Revert
<1>10. ASSUME NEW n \in Run, Cleanup(n) \/ RecordFault(n) \/ StagesEnd(n) PROVE LockHeld'
  BY <1>8, <1>10 DEF Cleanup, RecordFault, StagesEnd
<1>11. CASE ProxyRestart \/ UNCHANGED vars
  BY <1>8, <1>11 DEF ProxyRestart, vars
<1>12. QED
  BY <1>2, <1>4, <1>5, <1>6, <1>7, <1>9, <1>10, <1>11 DEF Next, Step, Quiescent

-----------------------------------------------------------------------------
(* The schedule.                                                           *)

\* going through the event that is due leaves the past before the future
LEMMA FireKeepsOrder ==
  ASSUME NEW n \in Run, NEW ev, Due(n, ev),
         \A a \in fired[n], b \in Pending(n) : Before(exp[n], a, b),
         fired'[n] = fired[n] \cup {ev}, exp' = exp
  PROVE  \A a \in fired'[n], b \in Pending(n)' : Before(exp'[n], a, b)
  BY DEF Due, Pending

LEMMA StepScheduleInOrder == TypeInv /\ ScheduleInOrder /\ [Next]_vars => ScheduleInOrder'
<1> SUFFICES ASSUME TypeInv, ScheduleInOrder, [Next]_vars PROVE ScheduleInOrder'
  OBVIOUS
<1>0. /\ pc \in [Run -> PC]
      /\ fired \in [Run -> SUBSET Event]
      /\ handles \in [Run -> SUBSET (1..MaxFaults)]
  BY DEF TypeInv, TypeOK
<1>1. ASSUME NEW n \in Run, NEW ev, Due(n, ev),
             fired' = [fired EXCEPT ![n] = @ \cup {ev}], exp' = exp,
             UNCHANGED pc \/ pc' = [pc EXCEPT ![n] = "cleanup"],
             \A m \in Run \ {n} : handles'[m] = handles[m]
      PROVE  ScheduleInOrder'
  <2>1. pc[n] = "schedule"
    BY <1>1 DEF Due
  <2>2. \A a \in fired'[n], b \in Pending(n)' : Before(exp'[n], a, b)
    BY <1>0, <1>1, <2>1, FireKeepsOrder DEF ScheduleInOrder
  <2>3. pc'[n] \in {"schedule", "cleanup"} /\ \A m \in Run \ {n} : pc'[m] = pc[m]
    BY <1>0, <1>1, <2>1
  <2>4. \A m \in Run \ {n} : fired'[m] = fired[m] /\ Pending(m)' = Pending(m)
    BY <1>0, <1>1 DEF Pending
  <2>5. QED
    BY <1>1, <2>2, <2>3, <2>4 DEF ScheduleInOrder, NoTimeline, AfterTimeline
<1>2. ASSUME NEW n \in Run, NEW i \in 1..MaxFaults, Inject(n, i) PROVE ScheduleInOrder'
  BY <1>0, <1>1, <1>2 DEF Inject
<1>3. ASSUME NEW n \in Run, NEW i \in 1..MaxFaults, Revert(n, i) PROVE ScheduleInOrder'
  BY <1>0, <1>1, <1>3 DEF Revert
<1>4. ASSUME NEW n \in Run, Start(n) PROVE ScheduleInOrder'
  <2>1. /\ pc[n] = "new" /\ pc' = [pc EXCEPT ![n] = "read"]
        /\ UNCHANGED <<fired, handles>>
        /\ \A m \in Run \ {n} : exp'[m] = exp[m]
    BY <1>4 DEF Start, TypeInv, TypeOK
  <2>2. QED
    BY <1>0, <2>1 DEF ScheduleInOrder, NoTimeline, AfterTimeline, Pending
<1>5. ASSUME NEW n \in Run, Cleanup(n) PROVE ScheduleInOrder'
  BY <1>0, <1>5 DEF Cleanup, ScheduleInOrder, NoTimeline, AfterTimeline, Pending
<1>6. ASSUME NEW n \in Run, Crash(n) PROVE ScheduleInOrder'
  BY <1>0, <1>6 DEF Crash, Return, ScheduleInOrder, NoTimeline, AfterTimeline, Pending
<1>7. ASSUME NEW n \in Run, NEW q,
             pc' = [pc EXCEPT ![n] = q], UNCHANGED <<exp, fired, handles>>,
             q \in NoTimeline => pc[n] \in NoTimeline,
             q = "schedule" => pc[n] = "warmup",
             q \in AfterTimeline => pc[n] \in AfterTimeline \/ Pending(n) = {}
      PROVE  ScheduleInOrder'
  BY <1>0, <1>7 DEF ScheduleInOrder, NoTimeline, AfterTimeline, Pending
<1>8. ASSUME NEW n \in Run,
             Busy(n) \/ RejectYaml(n) \/ DryRun(n) \/ Validate(n) \/ Reset(n) \/ Begin(n) \/ Abort(n)
      PROVE  ScheduleInOrder'
  <2>1. UNCHANGED <<exp, fired, handles>>
    BY <1>8 DEF Busy, RejectYaml, DryRun, Validate, Reset, Begin, Abort, runVars
  <2>2. \E q \in {"busy", "rejected", "dry", "reset", "warmup", "schedule", "aborted"} :
          /\ pc' = [pc EXCEPT ![n] = q]
          /\ q \notin {"schedule", "aborted"} => pc[n] \in {"new", "read", "reset"}
          /\ q = "schedule" => pc[n] = "warmup"
    BY <1>8 DEF Busy, RejectYaml, DryRun, Validate, Reset, Begin, Abort, Return
  <2>3. QED
    BY <1>7, <2>1, <2>2 DEF NoTimeline, AfterTimeline
<1>9. ASSUME NEW n \in Run,
             FinishTimeline(n) \/ Recovery(n) \/ RecordExperiment(n) \/ InsertFails(n) \/ Finish(n)
      PROVE  ScheduleInOrder'
  <2>1. UNCHANGED <<exp, fired, handles>>
    BY <1>9 DEF FinishTimeline, Recovery, RecordExperiment, InsertFails, Finish, runVars
  <2>2. /\ \E q \in {"recovery", "record", "faults", "dberror", "ok"} : pc' = [pc EXCEPT ![n] = q]
        /\ pc[n] \in {"recovery", "record", "faults"} \/ Pending(n) = {}
    BY <1>9 DEF FinishTimeline, Recovery, RecordExperiment, InsertFails, Finish, Return
  <2>3. QED
    BY <1>7, <2>1, <2>2 DEF NoTimeline, AfterTimeline
<1>10. ASSUME UNCHANGED <<pc, exp, fired, handles>> PROVE ScheduleInOrder'
  BY <1>10 DEF ScheduleInOrder, Pending
<1>11. ASSUME NEW n \in Run, RecordFault(n) \/ StagesEnd(n) PROVE ScheduleInOrder'
  BY <1>10, <1>11 DEF RecordFault, StagesEnd, runVars
<1>12. CASE ProxyRestart \/ UNCHANGED vars
  BY <1>10, <1>12 DEF ProxyRestart, vars, runVars
<1>13. QED
  BY <1>2, <1>3, <1>4, <1>5, <1>6, <1>8, <1>9, <1>11, <1>12 DEF Next, Step, Quiescent

-----------------------------------------------------------------------------
(* The handles.                                                            *)

\* in the order of the schedule a revert never precedes its own apply,
\* whether the window is empty or not
LEMMA ApplyBeforeRevert ==
  ASSUME NEW e \in Exp, Valid(e), NEW i \in DOMAIN Faults[e]
  PROVE  ~Before(e, <<i, TRUE>>, <<i, FALSE>>)
<1>1. Faults[e][i] \in Fault /\ Faults[e][i].at <= Faults[e][i].until
  BY FaultFacts DEF Valid
<1>2. QED
  BY <1>1 DEF Before, TimeOf, Fault

LEMMA StepHandlesOpen == TypeInv /\ ScheduleInOrder /\ HandlesOpen /\ [Next]_vars => HandlesOpen'
<1> SUFFICES ASSUME TypeInv, ScheduleInOrder, HandlesOpen, [Next]_vars PROVE HandlesOpen'
  OBVIOUS
<1> DEFINE Open == {"schedule", "recovery", "record", "faults", "dberror", "ok"}
<1>0. /\ pc \in [Run -> PC]
      /\ fired \in [Run -> SUBSET Event]
      /\ handles \in [Run -> SUBSET (1..MaxFaults)]
  BY DEF TypeInv, TypeOK
<1>1. ASSUME NEW n \in Run, NEW i \in 1..MaxFaults, Inject(n, i) PROVE HandlesOpen'
  <2>1. Due(n, <<i, FALSE>>) /\ UNCHANGED exp /\ fired' = [fired EXCEPT ![n] = @ \cup {<<i, FALSE>>}]
    BY <1>1 DEF Inject
  <2>2. pc[n] = "schedule" /\ exp[n] \in Exp /\ Valid(exp[n]) /\ i \in DOMAIN Faults[exp[n]]
    BY <2>1, DueFacts
  <2>3. <<i, TRUE>> \notin fired[n]
    <3>1. <<i, FALSE>> \in Pending(n)
      BY <2>1 DEF Due
    <3>2. <<i, TRUE>> \in fired[n] => Before(exp[n], <<i, TRUE>>, <<i, FALSE>>)
      BY <2>2, <3>1 DEF ScheduleInOrder
    <3>3. QED
      BY <2>2, <3>2, ApplyBeforeRevert
  <2>4. \/ UNCHANGED pc /\ handles' = [handles EXCEPT ![n] = @ \cup {i}]
        \/ pc' = [pc EXCEPT ![n] = "cleanup"] /\ UNCHANGED handles
    BY <1>1 DEF Inject
  <2>5. \A m \in Run : (m # n => fired'[m] = fired[m]) /\ fired[m] \subseteq fired'[m]
    BY <1>0, <2>1
  <2>6. <<i, FALSE>> \in fired'[n] /\ (<<i, TRUE>> \in fired'[n] => <<i, TRUE>> \in fired[n])
    BY <1>0, <2>1
  <2>7. \A j : <<j, TRUE>> \in fired'[n] => <<j, TRUE>> \in fired[n]
    BY <1>0, <2>1
  <2>8. \A m \in Run : exp'[m] = exp[m]
    BY <2>1
  <2>9. CASE UNCHANGED pc /\ handles' = [handles EXCEPT ![n] = @ \cup {i}]
    BY <1>0, <2>2, <2>3, <2>5, <2>6, <2>7, <2>8, <2>9, ZenonT(30) DEF HandlesOpen
  <2>10. CASE pc' = [pc EXCEPT ![n] = "cleanup"] /\ UNCHANGED handles
    BY <1>0, <2>5, <2>7, <2>8, <2>10 DEF HandlesOpen
  <2>11. QED
    BY <2>4, <2>9, <2>10
<1>2. ASSUME NEW n \in Run, NEW i \in 1..MaxFaults, Revert(n, i) PROVE HandlesOpen'
  BY <1>0, <1>2 DEF Revert, HandlesOpen
<1>3. ASSUME NEW n \in Run, Start(n) PROVE HandlesOpen'
  <2>1. /\ pc' = [pc EXCEPT ![n] = "read"]
        /\ UNCHANGED <<fired, handles>>
        /\ \A m \in Run \ {n} : exp'[m] = exp[m]
    BY <1>3 DEF Start, TypeInv, TypeOK
  <2>2. QED
    BY <1>0, <2>1 DEF HandlesOpen
<1>4. ASSUME NEW n \in Run, Cleanup(n) PROVE HandlesOpen'
  BY <1>0, <1>4 DEF Cleanup, HandlesOpen
<1>5. ASSUME NEW n \in Run, Crash(n) PROVE HandlesOpen'
  BY <1>0, <1>5 DEF Crash, Return, HandlesOpen
<1>6. ASSUME NEW n \in Run, NEW q,
             pc' = [pc EXCEPT ![n] = q], UNCHANGED <<exp, fired, handles>>,
             q \in Open => pc[n] \in Open \/ handles[n] = {}
      PROVE  HandlesOpen'
  BY <1>0, <1>6 DEF HandlesOpen
<1>7. ASSUME NEW n \in Run, Begin(n) PROVE HandlesOpen'
  <2>1. handles[n] = {}
    BY <1>7 DEF Begin, ScheduleInOrder, NoTimeline
  <2>2. QED
    BY <1>6, <1>7, <2>1 DEF Begin, runVars
<1>8. ASSUME NEW n \in Run,
             Busy(n) \/ RejectYaml(n) \/ DryRun(n) \/ Validate(n) \/ Reset(n) \/ Abort(n)
      PROVE  HandlesOpen'
  <2>1. UNCHANGED <<exp, fired, handles>>
    BY <1>8 DEF Busy, RejectYaml, DryRun, Validate, Reset, Abort, runVars
  <2>2. \E q \in {"busy", "rejected", "dry", "reset", "warmup", "aborted"} : pc' = [pc EXCEPT ![n] = q]
    BY <1>8 DEF Busy, RejectYaml, DryRun, Validate, Reset, Abort, Return
  <2>3. QED
    BY <1>6, <2>1, <2>2
<1>9. ASSUME NEW n \in Run,
             FinishTimeline(n) \/ Recovery(n) \/ RecordExperiment(n) \/ InsertFails(n) \/ Finish(n)
      PROVE  HandlesOpen'
  <2>1. UNCHANGED <<exp, fired, handles>>
    BY <1>9 DEF FinishTimeline, Recovery, RecordExperiment, InsertFails, Finish, runVars
  <2>2. \E q \in Open : pc' = [pc EXCEPT ![n] = q] /\ pc[n] \in Open
    BY <1>9 DEF FinishTimeline, Recovery, RecordExperiment, InsertFails, Finish, Return
  <2>3. QED
    BY <1>6, <2>1, <2>2
<1>10. ASSUME UNCHANGED <<pc, exp, fired, handles>> PROVE HandlesOpen'
  BY <1>10 DEF HandlesOpen
<1>11. ASSUME NEW n \in Run, RecordFault(n) \/ StagesEnd(n) PROVE HandlesOpen'
  BY <1>10, <1>11 DEF RecordFault, StagesEnd, runVars
<1>12. CASE ProxyRestart \/ UNCHANGED vars
  BY <1>10, <1>12 DEF ProxyRestart, vars, runVars
<1>13. QED
  BY <1>1, <1>2, <1>3, <1>4, <1>5, <1>7, <1>8, <1>9, <1>11, <1>12 DEF Next, Step, Quiescent

-----------------------------------------------------------------------------
(* The toxics.                                                             *)

LEMMA StepToxicsOwned ==
  TypeInv /\ ScheduleInOrder /\ HandlesOpen /\ ToxicsOwned /\ [Next]_vars => ToxicsOwned'
<1> SUFFICES ASSUME TypeInv, ScheduleInOrder, HandlesOpen, ToxicsOwned, [Next]_vars PROVE ToxicsOwned'
  OBVIOUS
<1>0. /\ pc \in [Run -> PC]
      /\ exp \in [Run -> Exp \cup {None}]
      /\ handles \in [Run -> SUBSET (1..MaxFaults)]
      /\ status \in [Run -> Status]
      /\ active \in [Toxic -> Run \cup {None}]
  BY DEF TypeInv, TypeOK
<1>1. ASSUME NEW n \in Run, NEW i \in 1..MaxFaults, Inject(n, i) PROVE ToxicsOwned'
  <2>1. Due(n, <<i, FALSE>>) /\ UNCHANGED <<exp, status>>
    BY <1>1 DEF Inject
  <2>2. pc[n] = "schedule" /\ FaultAt(n, i) \in Fault
    BY <2>1, DueFacts
  <2>3. \A m \in Run : \A k \in Toxic : active'[k] = m =>
          active[k] = m \/ (m = n /\ FaultAt(n, i).toxic = k)
    <3>1. PICK ok \in BOOLEAN : ApplyFault(n, FaultAt(n, i), ok)
      BY <1>1 DEF Inject
    <3>2. CASE UNCHANGED active
      BY <3>2
    <3>3. CASE active' = [active EXCEPT ![FaultAt(n, i).toxic] = n]
      BY <1>0, <3>3
    <3>4. QED
      BY <3>1, <3>2, <3>3 DEF ApplyFault, AddToxic
  <2>4. \A m \in Run, j \in Nat : FaultAt(m, j)' = FaultAt(m, j)
    BY <2>1 DEF FaultAt
  <2>5. CASE UNCHANGED pc /\ handles' = [handles EXCEPT ![n] = @ \cup {i}]
    BY <1>0, <2>1, <2>3, <2>4, <2>5, ConstantTypes DEF ToxicsOwned
  <2>6. CASE pc' = [pc EXCEPT ![n] = "cleanup"] /\ UNCHANGED handles
    BY <1>0, <2>1, <2>3, <2>4, <2>6, ConstantTypes DEF ToxicsOwned
  <2>7. QED
    BY <1>1, <2>5, <2>6 DEF Inject
<1>2. ASSUME NEW n \in Run, NEW i \in 1..MaxFaults, Revert(n, i) PROVE ToxicsOwned'
  <2>1. UNCHANGED <<pc, exp>> /\ handles' = [handles EXCEPT ![n] = @ \ {i}]
    BY <1>2 DEF Revert
  <2>2. PICK ok \in BOOLEAN :
          /\ IF i \in handles[n] THEN RevertFault(FaultAt(n, i), ok) ELSE ok /\ UNCHANGED active
          /\ status' = [status EXCEPT ![n] = StatusAfterRevert(@, ok)]
    BY <1>2 DEF Revert
  <2>3. \A k \in Toxic : active'[k] \in {active[k], None}
    BY <1>0, <2>2 DEF RevertFault, RemoveToxic
  <2>4. \A k \in Toxic : i \in handles[n] /\ FaultAt(n, i).toxic = k /\ ok => active'[k] = None
    BY <1>0, <2>2, ConstantTypes DEF RevertFault, RemoveToxic
  <2>5. \A m \in Run : status[m] = "dirty" => status'[m] = "dirty"
    BY <1>0, <2>2 DEF StatusAfterRevert
  <2>6. i \in handles[n] /\ ~ok => status'[n] = "dirty"
    BY <1>0, <2>2 DEF StatusAfterRevert
  <2>7. \A m \in Run, j \in Nat : FaultAt(m, j)' = FaultAt(m, j)
    BY <2>1 DEF FaultAt
  <2>8. QED
    BY <1>0, <2>1, <2>3, <2>4, <2>5, <2>6, <2>7, ConstantTypes DEF ToxicsOwned
<1>3. ASSUME NEW n \in Run, Start(n) PROVE ToxicsOwned'
  <2>1. handles[n] = {}
    BY <1>3 DEF Start, ScheduleInOrder, NoTimeline
  <2>2. /\ pc[n] = "new" /\ pc' = [pc EXCEPT ![n] = "read"]
        /\ UNCHANGED <<handles, status, active>>
        /\ \A m \in Run \ {n} : exp'[m] = exp[m]
    BY <1>0, <1>3 DEF Start, proxyVars
  <2>3. QED
    BY <1>0, <2>1, <2>2 DEF ToxicsOwned, FaultAt
<1>4. ASSUME NEW n \in Run, Cleanup(n) PROVE ToxicsOwned'
  <2>1. \A k \in Toxic : active'[k] \in {active[k], None}
    BY <1>0, <1>4 DEF Cleanup, RevertFault, RemoveToxic
  <2>2. /\ pc[n] = "cleanup" /\ UNCHANGED <<pc, exp, status>>
        /\ \A m \in Run \ {n} : handles'[m] = handles[m]
    BY <1>0, <1>4 DEF Cleanup
  <2>3. QED
    BY <1>0, <2>1, <2>2, ConstantTypes DEF ToxicsOwned, FaultAt
<1>5. ASSUME NEW n \in Run, Crash(n) PROVE ToxicsOwned'
  BY <1>0, <1>5 DEF Crash, Return, proxyVars, ToxicsOwned, FaultAt
<1>6. ASSUME NEW n \in Run, NEW q,
             pc' = [pc EXCEPT ![n] = q], UNCHANGED <<exp, handles, status>>,
             \A k \in Toxic : active'[k] \in {active[k], None},
             pc[n] = "cleanup" => q \in {"aborted", "crashed"},
             pc[n] \notin {"aborted", "crashed"}
      PROVE  ToxicsOwned'
  BY <1>0, <1>6, ConstantTypes DEF ToxicsOwned, FaultAt
<1>7. ASSUME NEW n \in Run,
             \/ Busy(n) \/ RejectYaml(n) \/ DryRun(n) \/ Validate(n) \/ Begin(n) \/ Abort(n)
             \/ FinishTimeline(n) \/ RecordExperiment(n) \/ InsertFails(n) \/ Finish(n)
      PROVE  ToxicsOwned'
  <2>1. UNCHANGED <<exp, handles, status, active>>
    BY <1>7 DEF Busy, RejectYaml, DryRun, Validate, Begin, Abort, FinishTimeline, RecordExperiment,
       InsertFails, Finish, runVars, proxyVars
  <2>2. /\ \E q : pc' = [pc EXCEPT ![n] = q] /\ (pc[n] = "cleanup" => q = "aborted")
        /\ pc[n] \notin {"aborted", "crashed"}
    BY <1>7 DEF Busy, RejectYaml, DryRun, Validate, Begin, Abort, FinishTimeline, RecordExperiment,
       InsertFails, Finish, Return
  <2>3. QED
    BY <1>6, <2>1, <2>2
<1>8. ASSUME NEW n \in Run, Reset(n) PROVE ToxicsOwned'
  BY <1>0, <1>6, <1>8 DEF Reset, ResetEffect, runVars
<1>9. ASSUME NEW n \in Run, Recovery(n) PROVE ToxicsOwned'
  <2>1. \A m \in Run : status[m] = "dirty" => status'[m] = "dirty"
    BY <1>0, <1>9 DEF Recovery
  <2>2. UNCHANGED <<exp, handles, active>> /\ pc[n] = "recovery" /\ pc' = [pc EXCEPT ![n] = "record"]
    BY <1>9 DEF Recovery, proxyVars
  <2>3. QED
    BY <1>0, <2>1, <2>2 DEF ToxicsOwned, FaultAt
<1>10. ASSUME NEW n \in Run, RecordFault(n) \/ StagesEnd(n) PROVE ToxicsOwned'
  BY <1>10 DEF RecordFault, StagesEnd, runVars, proxyVars, ToxicsOwned, FaultAt
<1>11. CASE ProxyRestart
  BY <1>0, <1>11, ConstantTypes DEF ProxyRestart, runVars, ToxicsOwned, FaultAt
<1>12. CASE UNCHANGED vars
  BY <1>12 DEF vars, runVars, proxyVars, ToxicsOwned, FaultAt
<1>13. QED
  BY <1>1, <1>2, <1>3, <1>4, <1>5, <1>7, <1>8, <1>9, <1>10, <1>11, <1>12 DEF Next, Step, Quiescent

\* With truthful answers a toxic is never given up: an injection that failed
\* added none, and a revert that failed found none.
LEMMA StepToxicsHandled ==
  ASSUME AnswersTruthful, TypeInv, ScheduleInOrder, ToxicsHandled, [Next]_vars
  PROVE  ToxicsHandled'
<1>0. /\ pc \in [Run -> PC]
      /\ exp \in [Run -> Exp \cup {None}]
      /\ handles \in [Run -> SUBSET (1..MaxFaults)]
      /\ active \in [Toxic -> Run \cup {None}]
  BY DEF TypeInv, TypeOK
<1>t. "refused" \notin Failures /\ "lost" \notin Failures
  BY DEF AnswersTruthful
<1>1. ASSUME NEW n \in Run, NEW i \in 1..MaxFaults, Inject(n, i) PROVE ToxicsHandled'
  <2>1. Due(n, <<i, FALSE>>) /\ UNCHANGED exp
    BY <1>1 DEF Inject
  <2>2. \A m \in Run, j \in Nat : FaultAt(m, j)' = FaultAt(m, j)
    BY <2>1 DEF FaultAt
  <2>3. pc[n] = "schedule"
    BY <2>1, DueFacts
  <2>4. CASE /\ ApplyFault(n, FaultAt(n, i), TRUE)
             /\ handles' = [handles EXCEPT ![n] = @ \cup {i}]
             /\ UNCHANGED pc
    <3>1. \A k \in Toxic : active'[k] = active[k] \/ (active'[k] = n /\ FaultAt(n, i).toxic = k)
      BY <1>0, <2>4 DEF ApplyFault, AddToxic
    <3>2. QED
      BY <1>0, <2>2, <2>4, <3>1, ConstantTypes DEF ToxicsHandled
  <2>5. CASE /\ ApplyFault(n, FaultAt(n, i), FALSE)
             /\ pc' = [pc EXCEPT ![n] = "cleanup"]
             /\ UNCHANGED handles
    <3>1. UNCHANGED active
      BY <1>t, <2>5 DEF ApplyFault, AddToxic
    <3>2. QED
      BY <1>0, <2>2, <2>3, <2>5, <3>1, ConstantTypes DEF ToxicsHandled
  <2>6. QED
    BY <1>1, <2>4, <2>5 DEF Inject
<1>2. ASSUME NEW n \in Run, NEW i \in 1..MaxFaults, UNCHANGED <<pc, exp>>,
             handles' = [handles EXCEPT ![n] = @ \ {i}],
             \/ \E ok \in BOOLEAN : RevertFault(FaultAt(n, i), ok)
             \/ i \notin handles[n] /\ UNCHANGED active
      PROVE  ToxicsHandled'
  <2>1. \A m \in Run, j \in Nat : FaultAt(m, j)' = FaultAt(m, j)
    BY <1>2 DEF FaultAt
  <2>2. \A k \in Toxic : active'[k] \in {active[k], None}
    BY <1>0, <1>2 DEF RevertFault, RemoveToxic
  <2>3. \A k \in Toxic : i \in handles[n] /\ FaultAt(n, i).toxic = k => active'[k] = None
    BY <1>0, <1>t, <1>2, ConstantTypes DEF RevertFault, RemoveToxic
  <2>4. QED
    BY <1>0, <1>2, <2>1, <2>2, <2>3, ConstantTypes DEF ToxicsHandled
<1>3. ASSUME NEW n \in Run, NEW i \in 1..MaxFaults, Revert(n, i) PROVE ToxicsHandled'
  <2>1. UNCHANGED <<pc, exp>> /\ handles' = [handles EXCEPT ![n] = @ \ {i}]
    BY <1>3 DEF Revert
  <2>2. \/ \E ok \in BOOLEAN : RevertFault(FaultAt(n, i), ok)
        \/ i \notin handles[n] /\ UNCHANGED active
    BY <1>3 DEF Revert
  <2>3. QED
    BY <1>2, <2>1, <2>2
<1>4. ASSUME NEW n \in Run, Cleanup(n) PROVE ToxicsHandled'
  <2>1. PICK i \in handles[n] : /\ \E ok \in BOOLEAN : RevertFault(FaultAt(n, i), ok)
                                /\ handles' = [handles EXCEPT ![n] = @ \ {i}]
    BY <1>4 DEF Cleanup
  <2>2. UNCHANGED <<pc, exp>> /\ i \in 1..MaxFaults
    BY <1>0, <1>4 DEF Cleanup
  <2>3. QED
    BY <1>2, <2>1, <2>2
<1>5. ASSUME NEW n \in Run, Start(n) PROVE ToxicsHandled'
  <2>1. handles[n] = {}
    BY <1>5 DEF Start, ScheduleInOrder, NoTimeline
  <2>2. /\ pc[n] = "new" /\ pc' = [pc EXCEPT ![n] = "read"]
        /\ UNCHANGED <<handles, active>>
        /\ \A m \in Run \ {n} : exp'[m] = exp[m]
    BY <1>0, <1>5 DEF Start, proxyVars
  <2>3. QED
    BY <1>0, <2>1, <2>2 DEF ToxicsHandled, FaultAt
<1>6. ASSUME NEW n \in Run, Crash(n) PROVE ToxicsHandled'
  BY <1>0, <1>6 DEF Crash, Return, proxyVars, ToxicsHandled, FaultAt
<1>7. ASSUME NEW n \in Run, NEW q,
             pc' = [pc EXCEPT ![n] = q], pc[n] # "crashed", UNCHANGED <<exp, handles>>,
             \A k \in Toxic : active'[k] \in {active[k], None}
      PROVE  ToxicsHandled'
  BY <1>0, <1>7, ConstantTypes DEF ToxicsHandled, FaultAt
<1>8. ASSUME NEW n \in Run,
             \/ Busy(n) \/ RejectYaml(n) \/ DryRun(n) \/ Validate(n) \/ Begin(n) \/ Abort(n)
             \/ FinishTimeline(n) \/ RecordExperiment(n) \/ InsertFails(n) \/ Finish(n)
      PROVE  ToxicsHandled'
  <2>1. UNCHANGED <<exp, handles, active>>
    BY <1>8 DEF Busy, RejectYaml, DryRun, Validate, Begin, Abort, FinishTimeline, RecordExperiment,
       InsertFails, Finish, runVars, proxyVars
  <2>2. pc[n] # "crashed" /\ \E q : pc' = [pc EXCEPT ![n] = q]
    BY <1>8 DEF Busy, RejectYaml, DryRun, Validate, Begin, Abort, FinishTimeline, RecordExperiment,
       InsertFails, Finish, Return
  <2>3. QED
    BY <1>7, <2>1, <2>2
<1>9. ASSUME NEW n \in Run, Reset(n) \/ Recovery(n) PROVE ToxicsHandled'
  <2>1. UNCHANGED <<exp, handles>> /\ \A k \in Toxic : active'[k] \in {active[k], None}
    BY <1>0, <1>9 DEF Reset, ResetEffect, Recovery, runVars, proxyVars
  <2>2. pc[n] # "crashed" /\ \E q : pc' = [pc EXCEPT ![n] = q]
    BY <1>9 DEF Reset, Recovery
  <2>3. QED
    BY <1>7, <2>1, <2>2
<1>10. ASSUME NEW n \in Run, RecordFault(n) \/ StagesEnd(n) PROVE ToxicsHandled'
  BY <1>10 DEF RecordFault, StagesEnd, runVars, proxyVars, ToxicsHandled, FaultAt
<1>11. CASE ProxyRestart
  BY <1>0, <1>11, ConstantTypes DEF ProxyRestart, runVars, ToxicsHandled, FaultAt
<1>12. CASE UNCHANGED vars
  BY <1>12 DEF vars, runVars, proxyVars, ToxicsHandled, FaultAt
<1>13. QED
  BY <1>1, <1>3, <1>4, <1>5, <1>6, <1>8, <1>9, <1>10, <1>11, <1>12 DEF Next, Step, Quiescent

-----------------------------------------------------------------------------
(* What follows from the control invariant.                                *)

LEMMA InitControl == Init => ControlInv
<1>1. Init => TypeInv
  BY InitTypeInv
<1>2. Init => LockHeld /\ ScheduleInOrder /\ HandlesOpen /\ ToxicsOwned
  BY ConstantTypes DEF Init, LockHeld, ScheduleInOrder, HandlesOpen, ToxicsOwned,
     Underway, NoTimeline, AfterTimeline
<1>3. QED
  BY <1>1, <1>2 DEF ControlInv

LEMMA StepControl == ControlInv /\ [Next]_vars => ControlInv'
  BY StepTypeInv, StepLockHeld, StepScheduleInOrder, StepHandlesOpen, StepToxicsOwned DEF ControlInv

\* The inductive invariant holds, for any number of runs and directories.
THEOREM ControlInvariant == Spec => []ControlInv
  BY InitControl, StepControl, PTL DEF Spec

\* When the event loop ends every handle was taken (runner.rs:110-112): an open
\* handle has its revert still to come, and no event is left.
THEOREM DrainedHandles == Spec => []HandlesDrained
<1>1. ControlInv => HandlesDrained
  <2> SUFFICES ASSUME ControlInv, NEW n \in Run, pc[n] \in AfterTimeline, NEW i \in handles[n]
               PROVE  FALSE
    BY DEF HandlesDrained
  <2>1. i \in DOMAIN Faults[exp[n]] /\ <<i, TRUE>> \notin fired[n]
    BY DEF ControlInv, HandlesOpen, AfterTimeline
  <2>2. <<i, TRUE>> \in Events(exp[n])
    BY <2>1 DEF Events
  <2>3. QED
    BY <2>1, <2>2 DEF ControlInv, ScheduleInOrder, Pending
<1>2. QED
  BY <1>1, ControlInvariant, PTL

\* Two toxics of a run that is not dirty are in force together only if their faults'
\* windows meet, however late the calls make the schedule (runner.rs:93-108).
THEOREM RespectedWindows == Spec => []WindowsRespected
<1>1. ASSUME ControlInv, NEW n \in Run, pc[n] = "schedule", NEW i \in handles[n], NEW j \in handles[n]
      PROVE  FaultAt(n, i).at <= FaultAt(n, j).until
  <2>1. exp[n] \in Exp
    BY <1>1 DEF ControlInv, TypeInv, ValidExp, OnTheSystem
  <2>2. /\ i \in DOMAIN Faults[exp[n]] /\ <<i, FALSE>> \in fired[n]
        /\ j \in DOMAIN Faults[exp[n]] /\ <<j, TRUE>> \notin fired[n]
    BY <1>1 DEF ControlInv, HandlesOpen
  <2>3. <<j, TRUE>> \in Pending(n)
    BY <2>2 DEF Pending, Events
  <2>4. Before(exp[n], <<i, FALSE>>, <<j, TRUE>>)
    BY <1>1, <2>2, <2>3 DEF ControlInv, ScheduleInOrder
  <2>5. Faults[exp[n]][i] \in Fault /\ Faults[exp[n]][j] \in Fault
    BY <2>1, <2>2, FaultFacts
  <2>6. QED
    BY <2>4, <2>5 DEF Before, TimeOf, Fault, FaultAt
<1>2. ControlInv => WindowsRespected
  <2> SUFFICES ASSUME ControlInv, NEW n \in Run, pc[n] = "schedule", status[n] # "dirty",
                      NEW k \in {t \in Toxic : active[t] = n}, NEW l \in {t \in Toxic : active[t] = n}
               PROVE  \E i, j \in DOMAIN Faults[exp[n]] :
                        /\ FaultAt(n, i).toxic = k /\ FaultAt(n, j).toxic = l
                        /\ WindowsMeet(FaultAt(n, i), FaultAt(n, j))
    BY DEF WindowsRespected
  <2>1. PICK i \in handles[n] : FaultAt(n, i).toxic = k
    BY DEF ControlInv, ToxicsOwned
  <2>2. PICK j \in handles[n] : FaultAt(n, j).toxic = l
    BY DEF ControlInv, ToxicsOwned
  <2>3. i \in DOMAIN Faults[exp[n]] /\ j \in DOMAIN Faults[exp[n]]
    BY DEF ControlInv, HandlesOpen
  <2>4. WindowsMeet(FaultAt(n, i), FaultAt(n, j))
    BY <1>1 DEF WindowsMeet
  <2>5. QED
    BY <2>1, <2>2, <2>3, <2>4
<1>3. QED
  BY <1>2, ControlInvariant, PTL

\* A run recorded as anything but dirty has none of its toxics in force.
THEOREM CleanRunsReverted == Spec => []CleanMeansReverted
<1>1. ControlInv /\ HandlesDrained => CleanMeansReverted
  BY DEF ControlInv, HandlesDrained, ToxicsOwned, CleanMeansReverted, AfterTimeline
<1>2. QED
  BY <1>1, ControlInvariant, DrainedHandles, PTL

\* With one temp directory the runs are serialized (design-spec.md:359).
THEOREM NoOverlapInOneDir ==
  OneDirectory => (Spec => []NoOverlap)
<1> SUFFICES ASSUME OneDirectory PROVE Spec => []NoOverlap
  OBVIOUS
<1>1. ControlInv => NoOverlap
  BY DEF OneDirectory, ControlInv, LockHeld, NoOverlap, OnTheSystem, Underway
<1>2. QED
  BY <1>1, ControlInvariant, PTL

LEMMA StepAbortedDrained ==
  ASSUME TypeInv, AbortedDrained, [Next]_vars
  PROVE  AbortedDrained'
<1>0. pc \in [Run -> PC] /\ handles \in [Run -> SUBSET (1..MaxFaults)]
  BY DEF TypeInv, TypeOK
<1>1. ASSUME NEW n \in Run, NEW i \in 1..MaxFaults, Inject(n, i) \/ Revert(n, i) PROVE AbortedDrained'
  <2>1. pc[n] = "schedule" /\ pc' \in {pc, [pc EXCEPT ![n] = "cleanup"]}
        /\ \A m \in Run \ {n} : handles'[m] = handles[m]
    BY <1>0, <1>1 DEF Inject, Revert, Due
  <2>2. QED
    BY <1>0, <2>1 DEF AbortedDrained
<1>2. ASSUME NEW n \in Run, Cleanup(n) \/ Abort(n) PROVE AbortedDrained'
  BY <1>0, <1>2 DEF Cleanup, Abort, Return, runVars, AbortedDrained
<1>3. ASSUME NEW n \in Run, Crash(n) PROVE AbortedDrained'
  BY <1>0, <1>3 DEF Crash, Return, AbortedDrained
<1>4. ASSUME NEW n \in Run,
             \/ Start(n) \/ Busy(n) \/ RejectYaml(n) \/ DryRun(n) \/ Validate(n) \/ Reset(n) \/ Begin(n)
             \/ FinishTimeline(n) \/ Recovery(n) \/ RecordExperiment(n) \/ InsertFails(n) \/ Finish(n)
      PROVE  AbortedDrained'
  <2>1. UNCHANGED handles /\ \E q \in PC \ {"aborted"} : pc' = [pc EXCEPT ![n] = q]
    BY <1>4 DEF Start, Busy, RejectYaml, DryRun, Validate, Reset, Begin, FinishTimeline, Recovery,
       RecordExperiment, InsertFails, Finish, Return, runVars, PC, Underway, Returned
  <2>2. QED
    BY <1>0, <2>1 DEF AbortedDrained
<1>5. ASSUME UNCHANGED <<pc, handles>> PROVE AbortedDrained'
  BY <1>5 DEF AbortedDrained
<1>6. QED
  BY <1>1, <1>2, <1>3, <1>4, <1>5
  DEF Next, Step, Quiescent, RecordFault, StagesEnd, ProxyRestart, vars, runVars

\* A run that failed to inject a fault leaves none of its toxics behind
\* (runner.rs:122-126), whatever other runs, a toxiproxy restart or pumba do and
\* in whichever directories the runs lock, as long as toxiproxy carries out the
\* calls it is sent and its answers arrive: the cleanup tries each revert once.
THEOREM NothingLeftByFailure == AnswersTruthful => (Spec => []FailureLeavesNothing)
<1> SUFFICES ASSUME AnswersTruthful PROVE Spec => []FailureLeavesNothing
  OBVIOUS
<1>1. Init => ToxicsHandled /\ AbortedDrained
  BY ConstantTypes DEF Init, ToxicsHandled, AbortedDrained
<1>2. ControlInv /\ ToxicsHandled /\ AbortedDrained /\ [Next]_vars => ToxicsHandled' /\ AbortedDrained'
  BY StepToxicsHandled, StepAbortedDrained DEF ControlInv
<1>3. ToxicsHandled /\ AbortedDrained => FailureLeavesNothing
  BY DEF ToxicsHandled, AbortedDrained, FailureLeavesNothing
<1>4. QED
  BY <1>1, <1>2, <1>3, ControlInvariant, PTL DEF Spec

-----------------------------------------------------------------------------
(* When the labels do match.  LabelsMatchInjection is violated by a run of *)
(* the code; the two causes the counterexamples show, a call that takes    *)
(* time and a pumba process that keeps the schedule, are the only ones.    *)

\* calls to toxiproxy take no time, and no fault is due while a pumba process of
\* an earlier one is awaited
NothingDelays ==
  /\ Lag \subseteq {0}
  /\ \A e \in Exp : \A i \in DOMAIN Faults[e] :
       /\ Faults[e][i].toxic # None => Faults[e][i].blocks = 0
       /\ \A j \in DOMAIN Faults[e] : Before(e, <<i, FALSE>>, <<j, FALSE>>) =>
            Faults[e][i].at + Faults[e][i].blocks <= Faults[e][j].at

\* t=0 is the start of the timeline, and the instant of a fault still to be
\* injected has not passed
OnTime ==
  \A n \in Run :
    /\ pc[n] \in NoTimeline => clock[n] = 0
    /\ pc[n] = "schedule" => \A i \in DOMAIN Faults[exp[n]] :
         <<i, FALSE>> \in Pending(n) => clock[n] <= FaultAt(n, i).at

\* with no lag the call of an event starts at its instant or when the one
\* before it ended
LEMMA ElapseWithoutLag ==
  ASSUME Lag \subseteq {0}, clock \in [Run -> Nat], NEW n \in Run, NEW ev, NEW busy \in Nat,
         TimeOf(exp[n], ev) \in Nat, Elapse(n, ev, busy)
  PROVE  /\ clock'[n] = (IF clock[n] < TimeOf(exp[n], ev) THEN TimeOf(exp[n], ev) ELSE clock[n]) + busy
         /\ \A m \in Run \ {n} : clock'[m] = clock[m]
  BY DEF Elapse

\* The event that is due leaves those still pending in the future: an injection
\* comes no later than any pending event, and what it waits for is over by then.
LEMMA FireKeepsOnTime ==
  ASSUME NothingDelays, TypeInv, OnTime, NEW n \in Run, NEW i \in 1..MaxFaults, NEW r \in BOOLEAN,
         Due(n, <<i, r>>), UNCHANGED exp,
         Elapse(n, <<i, r>>, IF r THEN 0 ELSE FaultAt(n, i).blocks),
         fired' = [fired EXCEPT ![n] = @ \cup {<<i, r>>}],
         \E q \in {"schedule", "cleanup"} : pc' = [pc EXCEPT ![n] = q]
  PROVE  /\ OnTime'
         /\ ~r /\ FaultAt(n, i).toxic # None => clock'[n] = FaultAt(n, i).at
<1> DEFINE busy == IF r THEN 0 ELSE FaultAt(n, i).blocks
           t == TimeOf(exp[n], <<i, r>>)
<1>0. /\ clock \in [Run -> Nat]
      /\ pc \in [Run -> PC]
      /\ fired \in [Run -> SUBSET Event]
  BY DEF TypeInv, TypeOK
<1>1. /\ pc[n] = "schedule"
      /\ exp[n] \in Exp
      /\ i \in DOMAIN Faults[exp[n]]
      /\ FaultAt(n, i) \in Fault
      /\ t \in Nat
  BY DueFacts
<1>2. busy \in Nat
  BY <1>1 DEF Fault
<1>3. /\ clock'[n] = (IF clock[n] < t THEN t ELSE clock[n]) + busy
      /\ \A m \in Run \ {n} : clock'[m] = clock[m]
  <2>1. Lag \subseteq {0} /\ Elapse(n, <<i, r>>, busy)
    BY DEF NothingDelays
  <2>2. QED
    BY <1>0, <1>1, <1>2, <2>1, ElapseWithoutLag
<1>4. ~r => /\ clock'[n] = FaultAt(n, i).at + FaultAt(n, i).blocks
            /\ FaultAt(n, i).at \in Nat
            /\ FaultAt(n, i).blocks \in Nat
  <2> SUFFICES ASSUME ~r
               PROVE  /\ clock'[n] = FaultAt(n, i).at + FaultAt(n, i).blocks
                      /\ FaultAt(n, i).at \in Nat
                      /\ FaultAt(n, i).blocks \in Nat
    OBVIOUS
  <2>1. <<i, FALSE>> \in Pending(n)
    BY DEF Due
  <2>2. clock[n] <= FaultAt(n, i).at
    BY <1>1, <2>1 DEF OnTime
  <2>3. t = FaultAt(n, i).at /\ busy = FaultAt(n, i).blocks
    BY DEF TimeOf, FaultAt
  <2>4. FaultAt(n, i).at \in Nat /\ FaultAt(n, i).blocks \in Nat
    BY <1>1 DEF Fault
  <2>5. QED
    BY <1>0, <1>3, <2>2, <2>3, <2>4
<1>5. ASSUME NEW j \in DOMAIN Faults[exp[n]], <<j, FALSE>> \in Pending(n) \ {<<i, r>>}
      PROVE  clock'[n] <= FaultAt(n, j).at
  <2>1. Before(exp[n], <<i, r>>, <<j, FALSE>>)
    BY <1>5 DEF Due
  <2>2. FaultAt(n, j).at \in Nat /\ clock[n] <= FaultAt(n, j).at
    BY <1>1, <1>5, FaultFacts DEF OnTime, FaultAt, Fault
  <2>3. CASE r
    <3>1. t <= FaultAt(n, j).at
      BY <1>1, <2>1, <2>2, <2>3 DEF Before, TimeOf, FaultAt
    <3>2. QED
      BY <1>0, <1>1, <1>3, <2>2, <2>3, <3>1
  <2>4. CASE ~r
    <3>1. FaultAt(n, i).at + FaultAt(n, i).blocks <= FaultAt(n, j).at
      BY <1>1, <2>1, <2>4 DEF NothingDelays, FaultAt
    <3>2. QED
      BY <1>4, <2>4, <3>1
  <2>5. QED
    BY <2>3, <2>4
<1>6. OnTime'
  <2>1. ASSUME NEW m \in Run \ {n}
        PROVE  pc'[m] = pc[m] /\ clock'[m] = clock[m] /\ Pending(m)' = Pending(m)
    BY <1>0, <1>3 DEF Pending
  <2>2. pc'[n] \in {"schedule", "cleanup"} /\ Pending(n)' = Pending(n) \ {<<i, r>>}
    BY <1>0 DEF Pending
  <2>3. QED
    BY <1>5, <2>1, <2>2 DEF OnTime, NoTimeline, FaultAt
<1>7. ~r /\ FaultAt(n, i).toxic # None => clock'[n] = FaultAt(n, i).at
  <2>1. FaultAt(n, i).toxic # None => FaultAt(n, i).blocks = 0
    BY <1>1 DEF NothingDelays, FaultAt
  <2>2. QED
    BY <1>4, <2>1
<1>8. QED
  BY <1>6, <1>7

LEMMA StepOnTime ==
  ASSUME NothingDelays, TypeInv, OnTime, [Next]_vars
  PROVE  OnTime'
<1>0. /\ pc \in [Run -> PC]
      /\ exp \in [Run -> Exp \cup {None}]
      /\ clock \in [Run -> Nat]
  BY DEF TypeInv, TypeOK
<1>1. ASSUME NEW n \in Run, NEW i \in 1..MaxFaults, Inject(n, i) PROVE OnTime'
  <2>1. Due(n, <<i, FALSE>>) /\ UNCHANGED exp
        /\ Elapse(n, <<i, FALSE>>, FaultAt(n, i).blocks)
        /\ fired' = [fired EXCEPT ![n] = @ \cup {<<i, FALSE>>}]
    BY <1>1 DEF Inject
  <2>2. \E q \in {"schedule", "cleanup"} : pc' = [pc EXCEPT ![n] = q]
    BY <1>0, <1>1 DEF Inject, Due
  <2>3. QED
    BY <2>1, <2>2, FireKeepsOnTime
<1>2. ASSUME NEW n \in Run, NEW i \in 1..MaxFaults, Revert(n, i) PROVE OnTime'
  <2>1. Due(n, <<i, TRUE>>) /\ UNCHANGED exp /\ Elapse(n, <<i, TRUE>>, 0)
        /\ fired' = [fired EXCEPT ![n] = @ \cup {<<i, TRUE>>}]
    BY <1>2 DEF Revert
  <2>2. \E q \in {"schedule", "cleanup"} : pc' = [pc EXCEPT ![n] = q]
    BY <1>0, <1>2 DEF Revert, Due
  <2>3. QED
    BY <2>1, <2>2, FireKeepsOnTime
<1>3. ASSUME NEW n \in Run, Start(n) PROVE OnTime'
  <2>1. /\ pc[n] = "new" /\ pc' = [pc EXCEPT ![n] = "read"]
        /\ UNCHANGED <<fired, clock>>
        /\ \A m \in Run \ {n} : exp'[m] = exp[m]
    BY <1>0, <1>3 DEF Start
  <2>2. QED
    BY <1>0, <2>1 DEF OnTime, NoTimeline, Pending, FaultAt
<1>4. ASSUME NEW n \in Run, Begin(n) PROVE OnTime'
  <2>1. /\ pc[n] = "warmup" /\ pc' = [pc EXCEPT ![n] = "schedule"]
        /\ UNCHANGED <<exp, fired, clock>>
    BY <1>4 DEF Begin, runVars
  <2>2. clock[n] = 0 /\ exp[n] \in Exp
    BY <2>1 DEF OnTime, NoTimeline, TypeInv, ValidExp, OnTheSystem
  <2>3. \A i \in DOMAIN Faults[exp[n]] : FaultAt(n, i).at \in Nat
    BY <2>2, FaultFacts DEF FaultAt, Fault
  <2>4. /\ pc'[n] = "schedule" /\ clock'[n] = 0
        /\ \A i \in DOMAIN Faults[exp'[n]] : 0 <= FaultAt(n, i)'.at
    BY <1>0, <2>1, <2>2, <2>3 DEF FaultAt
  <2>5. \A m \in Run \ {n} : pc'[m] = pc[m] /\ clock'[m] = clock[m] /\ Pending(m)' = Pending(m)
    BY <1>0, <2>1 DEF Pending
  <2>6. ASSUME NEW m \in Run
        PROVE  /\ pc'[m] \in NoTimeline => clock'[m] = 0
               /\ pc'[m] = "schedule" => \A i \in DOMAIN Faults[exp'[m]] :
                    <<i, FALSE>> \in Pending(m)' => clock'[m] <= Faults[exp'[m]][i].at
    <3>1. CASE m = n
      BY <2>4, <3>1 DEF NoTimeline, FaultAt
    <3>2. CASE m # n
      BY <2>1, <2>5, <3>2 DEF OnTime, FaultAt
    <3>3. QED
      BY <3>1, <3>2
  <2>7. QED
    BY <2>6 DEF OnTime, FaultAt
<1>5. ASSUME NEW n \in Run, NEW q, q # "schedule", q \in NoTimeline => pc[n] \in NoTimeline,
             pc' = [pc EXCEPT ![n] = q], UNCHANGED <<exp, fired, clock>>
      PROVE  OnTime'
  BY <1>0, <1>5 DEF OnTime, Pending, FaultAt
<1>6. ASSUME NEW n \in Run,
             \/ Busy(n) \/ RejectYaml(n) \/ DryRun(n) \/ Validate(n) \/ Reset(n) \/ Abort(n)
             \/ FinishTimeline(n) \/ Recovery(n) \/ RecordExperiment(n) \/ InsertFails(n)
             \/ Finish(n) \/ Crash(n)
      PROVE  OnTime'
  <2>1. UNCHANGED <<exp, fired, clock>>
    BY <1>6 DEF Busy, RejectYaml, DryRun, Validate, Reset, Abort, FinishTimeline, Recovery,
       RecordExperiment, InsertFails, Finish, Crash, runVars
  <2>2. \E q : /\ q # "schedule" /\ pc' = [pc EXCEPT ![n] = q]
               /\ q \in NoTimeline => pc[n] \in NoTimeline
    <3>1. CASE Busy(n) \/ RejectYaml(n) \/ DryRun(n) \/ Validate(n) \/ Reset(n)
      BY <3>1 DEF Busy, RejectYaml, DryRun, Validate, Reset, Return, NoTimeline
    <3>2. CASE Abort(n) \/ FinishTimeline(n) \/ Recovery(n) \/ RecordExperiment(n)
      BY <3>2 DEF Abort, FinishTimeline, Recovery, RecordExperiment, Return, NoTimeline
    <3>3. CASE InsertFails(n) \/ Finish(n) \/ Crash(n)
      BY <3>3 DEF InsertFails, Finish, Crash, Return, NoTimeline
    <3>4. QED
      BY <1>6, <3>1, <3>2, <3>3
  <2>3. QED
    BY <1>5, <2>1, <2>2
<1>7. ASSUME UNCHANGED <<pc, exp, fired, clock>> PROVE OnTime'
  BY <1>7 DEF OnTime, Pending, FaultAt
<1>8. QED
  BY <1>1, <1>2, <1>3, <1>4, <1>6, <1>7
  DEF Next, Step, Quiescent, Cleanup, RecordFault, StagesEnd, ProxyRestart, vars, runVars

\* A handle appears only when its fault was injected, and then at its at_sec.
LEMMA StepLabels ==
  ASSUME NothingDelays, TypeInv, OnTime, [Next]_vars
  PROVE  [\A n \in Run : \A i \in handles'[n] \ handles[n] :
            FaultAt(n, i).toxic # None => clock'[n] = FaultAt(n, i).at]_vars
<1> SUFFICES ASSUME Next, NEW m \in Run, NEW j \in handles'[m] \ handles[m], FaultAt(m, j).toxic # None
             PROVE  clock'[m] = FaultAt(m, j).at
  OBVIOUS
<1>0. /\ pc \in [Run -> PC]
      /\ handles \in [Run -> SUBSET (1..MaxFaults)]
  BY DEF TypeInv, TypeOK
<1>1. ASSUME NEW n \in Run, NEW i \in 1..MaxFaults, Inject(n, i) PROVE clock'[m] = FaultAt(m, j).at
  <2>1. Due(n, <<i, FALSE>>) /\ UNCHANGED exp
        /\ Elapse(n, <<i, FALSE>>, FaultAt(n, i).blocks)
        /\ fired' = [fired EXCEPT ![n] = @ \cup {<<i, FALSE>>}]
    BY <1>1 DEF Inject
  <2>2. \E q \in {"schedule", "cleanup"} : pc' = [pc EXCEPT ![n] = q]
    BY <1>0, <1>1 DEF Inject, Due
  <2>3. FaultAt(n, i).toxic # None => clock'[n] = FaultAt(n, i).at
    BY <2>1, <2>2, FireKeepsOnTime
  <2>4. m = n /\ j = i
    BY <1>0, <1>1 DEF Inject
  <2>5. QED
    BY <2>3, <2>4
<1>2. ASSUME NEW n \in Run, NEW i \in 1..MaxFaults, Revert(n, i) PROVE handles'[m] \subseteq handles[m]
  BY <1>0, <1>2 DEF Revert
<1>3. ASSUME NEW n \in Run, Cleanup(n) \/ Crash(n) PROVE handles'[m] \subseteq handles[m]
  BY <1>0, <1>3 DEF Cleanup, Crash
<1>4. ASSUME NEW n \in Run,
             \/ Start(n) \/ Busy(n) \/ RejectYaml(n) \/ DryRun(n) \/ Validate(n) \/ Reset(n) \/ Begin(n)
             \/ Abort(n) \/ FinishTimeline(n) \/ Recovery(n) \/ RecordExperiment(n) \/ RecordFault(n)
             \/ InsertFails(n) \/ Finish(n) \/ StagesEnd(n)
      PROVE  UNCHANGED handles
  BY <1>4 DEF Start, Busy, RejectYaml, DryRun, Validate, Reset, Begin, Abort, FinishTimeline, Recovery,
     RecordExperiment, RecordFault, InsertFails, Finish, StagesEnd, runVars
<1>5. ASSUME ProxyRestart \/ Quiescent PROVE UNCHANGED handles
  BY <1>5 DEF ProxyRestart, Quiescent, vars, runVars
<1>6. QED
  BY <1>1, <1>2, <1>3, <1>4, <1>5 DEF Next, Step

\* The labels match the faults (runner.rs:73-75) in every run whose toxiproxy
\* calls take no time and whose pumba faults end before the next fault is due:
\* overlapping, nested and empty windows, reverts that fall together with
\* injections, other runs and a failed call delay nothing.
THEOREM LabelsMatchOnTime == NothingDelays => (Spec => LabelsMatchInjection)
<1> SUFFICES ASSUME NothingDelays PROVE Spec => LabelsMatchInjection
  OBVIOUS
<1>1. Init => OnTime
  BY DEF Init, OnTime
<1>2. TypeInv /\ OnTime /\ [Next]_vars => OnTime'
  BY StepOnTime
<1>3. TypeInv /\ OnTime /\ [Next]_vars =>
        [\A n \in Run : \A i \in handles'[n] \ handles[n] :
           FaultAt(n, i).toxic # None => clock'[n] = FaultAt(n, i).at]_vars
  BY StepLabels
<1>4. QED
  BY <1>1, <1>2, <1>3, TypeInvariant, PTL DEF Spec, LabelsMatchInjection

=============================================================================
