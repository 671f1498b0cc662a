--------------------- MODULE ExperimentRefinement_proofs ---------------------
(* run_file, serialized by its lock file, keeps ExperimentContract.          *)
EXTENDS ExperimentRefinement, SerialRunner_proofs

LEMMA SerialTypes ==
  ASSUME SerialInv
  PROVE  /\ pc \in [Run -> PC] /\ exp \in [Run -> Exp \cup {None}]
         /\ lock \in [Dir -> Run \cup {None}]
         /\ experiments \in [Id -> Row]
         /\ faultRows \in [Id -> [1..MaxFaults -> Run \cup {None}]]
         /\ cursor \in [Run -> 1..(MaxFaults + 1)]
         /\ LockHeld /\ ValidExp /\ RowsOwned /\ TypeInv
  BY DEF SerialInv, ControlInv, TypeInv, TypeOK

LEMMA OwnerType ==
  ASSUME SerialInv, NEW id \in Id
  PROVE  Owner(id) \in Run \cup {None}
  BY SerialTypes DEF Owner, Row

\* a move of one program counter is a move of one call
LEMMA CallMoves ==
  ASSUME SerialInv, NEW n \in Run, NEW p \in PC, pc' = [pc EXCEPT ![n] = p]
  PROVE  Calls' = [Calls EXCEPT ![n] = CallAt(p)]
  BY SerialTypes DEF Calls

LEMMA LabelsStay ==
  ASSUME SerialInv, OwnersRan, UNCHANGED labelVars,
         \A m \in Run : pc[m] # "new" => exp'[m] = exp[m]
  PROVE  UNCHANGED <<Labels, WholeIds>>
<1>1. \A id \in Id : Owner(id)' = Owner(id)
  BY DEF Owner, labelVars
<1>2. \A id \in Id : Owner(id) # None => Owner(id) \in Run /\ exp'[Owner(id)] = exp[Owner(id)]
  BY OwnerType DEF OwnersRan
<1>3. \A id \in Id : IsWhole(id)' <=> IsWhole(id)
  BY <1>1, <1>2 DEF IsWhole, labelVars
<1>4. QED
  BY <1>1, <1>3 DEF Labels, WholeIds

\* only Start gives a run its YAML, and only a new run
LEMMA ExpStays ==
  ASSUME SerialInv, [Next]_vars, NEW m \in Run, pc[m] # "new"
  PROVE  exp'[m] = exp[m]
<1>1. CASE \E n \in Run : Start(n)
  BY <1>1, SerialTypes DEF Start
<1>2. CASE ~\E n \in Run : Start(n)
  BY <1>2, ZenonT(40) DEF Next, Step, Busy, RejectYaml, DryRun, Validate, Reset, Begin, Inject,
       Revert, Cleanup, Abort, FinishTimeline, Recovery, RecordExperiment, RecordFault, InsertFails,
       Finish, Crash, StagesEnd, ProxyRestart, Quiescent, Return, runVars, vars
<1>3. QED
  BY <1>1, <1>2

LEMMA StepOwnersRan == SerialInv /\ OwnersRan /\ [Next]_vars => OwnersRan'
<1>0. SUFFICES ASSUME SerialInv, OwnersRan, [Next]_vars,
                      NEW id \in Id, Owner(id)' # None
               PROVE  pc'[Owner(id)'] \in {"faults", "dberror", "ok", "crashed"}
  BY DEF OwnersRan
<1>1. CASE Owner(id)' = Owner(id)
  <2>1. Owner(id) \in Run /\ pc[Owner(id)] \in {"faults", "dberror", "ok", "crashed"}
    BY <1>0, <1>1, OwnerType DEF OwnersRan
  <2>2. \/ UNCHANGED pc
        \/ \E n \in Run, p \in PC : pc' = [pc EXCEPT ![n] = p] /\ pc[n] \notin {"faults", "dberror", "ok", "crashed"}
        \/ \E n \in Run, p \in {"dberror", "ok", "crashed"} : pc' = [pc EXCEPT ![n] = p]
    <3>1. CASE UNCHANGED pc
      BY <3>1
    <3>2. CASE \E n \in Run : Step(n) \/ StagesEnd(n) \/ Crash(n)
      <4>1. PICK n \in Run : Step(n) \/ StagesEnd(n) \/ Crash(n)
        BY <3>2
      <4>2. CASE InsertFails(n) \/ Finish(n) \/ Crash(n)
        BY <4>2 DEF InsertFails, Finish, Crash, Return
      <4>3. CASE \/ Start(n) \/ Busy(n) \/ RejectYaml(n) \/ DryRun(n) \/ Validate(n) \/ Reset(n)
                 \/ Begin(n) \/ Abort(n) \/ FinishTimeline(n) \/ Recovery(n) \/ RecordExperiment(n)
        BY <4>3 DEF Start, Busy, RejectYaml, DryRun, Validate, Reset, Begin, Abort, FinishTimeline,
           Recovery, RecordExperiment, Return, PC, Underway, Returned
      <4>4. CASE \E i \in 1..MaxFaults : Inject(n, i) \/ Revert(n, i)
        BY <4>4 DEF Inject, Revert, Due, PC, Underway
      <4>5. CASE Cleanup(n) \/ RecordFault(n) \/ StagesEnd(n)
        BY <4>5 DEF Cleanup, RecordFault, StagesEnd
      <4>6. QED
        BY <4>1, <4>2, <4>3, <4>4, <4>5 DEF Step
    <3>3. QED
      BY <1>0, <3>1, <3>2 DEF Next, ProxyRestart, Quiescent, vars
  <2>4. pc'[Owner(id)] \in {"faults", "dberror", "ok", "crashed"}
    BY <2>1, <2>2, SerialTypes, <1>0
  <2>3. QED
    BY <1>1, <2>4
<1>2. CASE Owner(id)' # Owner(id)
  <2>1. PICK n \in Run : RecordExperiment(n)
    BY <1>0, <1>2, ZenonT(40) DEF Next, Step, Start, Busy, RejectYaml, DryRun, Validate, Reset,
       Begin, Inject, Revert, Cleanup, Abort, FinishTimeline, Recovery, RecordFault,
       InsertFails, Finish, Crash, StagesEnd, ProxyRestart, Quiescent, labelVars, vars, Owner
  <2>2. Owner(id)' = n
    BY <1>2, <2>1, SerialTypes, <1>0 DEF RecordExperiment, Owner
  <2>3. QED
    BY <2>1, <2>2, SerialTypes, <1>0 DEF RecordExperiment
<1>3. QED
  BY <1>1, <1>2

LEMMA ImplInv == OneDirectory => (Spec => [](SerialInv /\ OwnersRan))
<1>1. Init => OwnersRan
  BY DEF Init, OwnersRan, Owner, NoRow
<1>2. QED
  BY <1>1, StepOwnersRan, SerialInvariant, PTL DEF Spec

-----------------------------------------------------------------------------
(* Every step of a run is a step of its call, or none.                     *)

\* while one call is open no other is
LEMMA OneOpen ==
  ASSUME OneDirectory, SerialInv, NEW n \in Run, lock[DirOf[n]] = None, NEW m \in Run
  PROVE  Calls[m] \notin {"entered", "observed", "published"}
<1>1. pc[m] \notin Underway
  BY SerialTypes, ConstantsAssumption DEF OneDirectory, LockHeld
<1>2. QED
  BY <1>1, SerialTypes DEF Calls, CallAt, PC, Underway, Returned

\* the steps that leave the labels alone
LEMMA QuietSteps ==
  ASSUME OneDirectory, SerialInv, OwnersRan, [Next]_vars, UNCHANGED labelVars, NEW n \in Run,
         \/ Start(n) \/ Busy(n) \/ RejectYaml(n) \/ DryRun(n) \/ Validate(n) \/ Reset(n) \/ Begin(n)
         \/ Abort(n) \/ FinishTimeline(n) \/ Recovery(n) \/ InsertFails(n) \/ Crash(n)
  PROVE  [Contract!Next]_(Contract!vars)
<1>1. UNCHANGED <<Labels, WholeIds>>
  BY LabelsStay, ExpStays
<1>2. PICK p \in PC : pc' = [pc EXCEPT ![n] = p] /\ Calls' = [Calls EXCEPT ![n] = CallAt(p)]
  BY CallMoves DEF Start, Busy, RejectYaml, DryRun, Validate, Reset, Begin, Abort,
     FinishTimeline, Recovery, InsertFails, Crash, Return, PC, Underway, Returned
<1>3. Calls \in [Run -> {"new", "entered", "observed", "published", "ok", "dry", "failed"}]
  BY SerialTypes DEF Calls, CallAt, PC, Underway, Returned
<1>4. p = pc'[n] /\ Calls[n] = CallAt(pc[n])
  BY <1>2, SerialTypes DEF Calls
<1>5. CASE Start(n)
  <2>1. Contract!Enter(n)
    BY <1>1, <1>2, <1>4, <1>5, OneOpen, SerialTypes
       DEF Start, Lockable, CallAt, Contract!Enter, Contract!Becomes, Contract!Open, Returned
  <2>2. QED
    BY <2>1 DEF Contract!Next
<1>6. CASE \/ Busy(n) \/ RejectYaml(n) \/ Abort(n) \/ InsertFails(n) \/ Crash(n)
  <2>1. Contract!Fail(n)
    BY <1>1, <1>2, <1>4, <1>6, SerialTypes
       DEF Busy, RejectYaml, Abort, InsertFails, Crash, Return, CallAt, Contract!Fail, Contract!Open,
           Returned, Underway
  <2>2. QED
    BY <2>1 DEF Contract!Next
<1>7. CASE DryRun(n)
  <2>1. Contract!Skip(n)
    BY <1>1, <1>2, <1>4, <1>7, SerialTypes
       DEF DryRun, Return, CallAt, Contract!Skip, Contract!Becomes, Returned
  <2>2. QED
    BY <2>1 DEF Contract!Next
<1>8. CASE FinishTimeline(n)
  <2>1. Contract!Observe(n)
    BY <1>1, <1>2, <1>4, <1>8, SerialTypes
       DEF FinishTimeline, CallAt, Contract!Observe, Contract!Becomes, Returned
  <2>2. QED
    BY <2>1 DEF Contract!Next
<1>9. CASE Validate(n) \/ Reset(n) \/ Begin(n) \/ Recovery(n)
  <2>1. CallAt(p) = Calls[n]
    BY <1>2, <1>4, <1>9, SerialTypes DEF Validate, Reset, Begin, Recovery, CallAt, Returned
  <2>2. Calls' = Calls
    BY <1>2, <1>3, <2>1
  <2>3. QED
    BY <1>1, <2>2 DEF Contract!vars
<1>10. QED
  BY <1>5, <1>6, <1>7, <1>8, <1>9

\* the steps of the schedule: the call goes on
LEMMA ScheduleSteps ==
  ASSUME SerialInv, OwnersRan, [Next]_vars, NEW n \in Run,
         \/ \E i \in 1..MaxFaults : Inject(n, i) \/ Revert(n, i)
         \/ Cleanup(n) \/ StagesEnd(n)
  PROVE  [Contract!Next]_(Contract!vars)
<1>1. UNCHANGED labelVars
  BY DEF Inject, Revert, Cleanup, StagesEnd, labelVars
<1>2. UNCHANGED <<Labels, WholeIds>>
  BY <1>1, LabelsStay, ExpStays
<1>3. UNCHANGED Calls
  <2>1. CASE UNCHANGED pc
    BY <2>1 DEF Calls
  <2>2. CASE pc[n] = "schedule" /\ pc' = [pc EXCEPT ![n] = "cleanup"]
    <3>1. Calls' = [Calls EXCEPT ![n] = CallAt("cleanup")]
      BY <2>2, CallMoves DEF PC, Underway
    <3>2. Calls[n] = CallAt("cleanup")
      BY <2>2 DEF Calls, CallAt, Returned
    <3>3. QED
      BY <3>1, <3>2 DEF Calls
  <2>3. QED
    BY <2>1, <2>2 DEF Inject, Revert, Cleanup, StagesEnd, Due
<1>4. QED
  BY <1>2, <1>3 DEF Contract!vars

\* the INSERTs
LEMMA PublishStep ==
  ASSUME SerialInv, OwnersRan, [Next]_vars, NEW n \in Run, RecordExperiment(n)
  PROVE  Contract!Publish(n, IdOf[exp[n]])
<1> DEFINE id == IdOf[exp[n]]
<1>1. id \in Id
  BY SerialTypes, ConstantsAssumption DEF RecordExperiment, ValidExp, OnTheSystem
<1>2. Calls[n] = "observed" /\ Calls' = [Calls EXCEPT ![n] = "published"]
  <2>1. Calls' = [Calls EXCEPT ![n] = CallAt("faults")]
    BY CallMoves DEF RecordExperiment, PC, Underway
  <2>2. QED
    BY <2>1, SerialTypes DEF RecordExperiment, Calls, CallAt, Returned
<1>3. Labels' = [Labels EXCEPT ![id] = n]
  BY <1>1, SerialTypes DEF RecordExperiment, Labels, Owner
<1>4. \A i \in Id \ {id} : IsWhole(i)' <=> IsWhole(i)
  <2>1. TAKE i \in Id \ {id}
  <2>2. Owner(i)' = Owner(i)
    BY <2>1, SerialTypes DEF RecordExperiment, Owner
  <2>3. QED
    BY <2>2 DEF RecordExperiment, IsWhole, runVars
<1>5. WholeIds' \in {WholeIds \ {id}, WholeIds \cup {id}}
  BY <1>1, <1>4 DEF WholeIds
<1>6. QED
  BY <1>2, <1>3, <1>5 DEF Contract!Publish, Contract!Becomes

LEMMA CompleteStep ==
  ASSUME SerialInv, OwnersRan, [Next]_vars, NEW n \in Run, RecordFault(n)
  PROVE  [Contract!Next]_(Contract!vars)
<1> DEFINE id == IdOf[exp[n]]
<1>1. id \in Id /\ Owner(id) = n
  BY SerialTypes, ConstantsAssumption DEF RecordFault, ValidExp, OnTheSystem, RowsOwned, Owner
<1>2. UNCHANGED <<Calls, Labels>> /\ Calls[n] = "published"
  BY SerialTypes DEF RecordFault, Calls, Labels, Owner, CallAt, Returned
<1>3. \A i \in Id : Owner(i)' = Owner(i)
  BY DEF RecordFault, Owner
<1>4. \A i \in Id \ {id} : IsWhole(i)' <=> IsWhole(i)
  BY <1>3, SerialTypes DEF RecordFault, IsWhole
<1>5. IsWhole(id) => IsWhole(id)'
  <2>1. \A s \in 1..MaxFaults : faultRows'[id][s] \in {faultRows[id][s], n}
    BY <1>1, SerialTypes DEF RecordFault
  <2>2. 1..Len(Faults[exp[n]]) \subseteq 1..MaxFaults
    BY SerialTypes, ConstantsAssumption DEF RecordFault, ValidExp, OnTheSystem
  <2>3. exp' = exp
    BY DEF RecordFault
  <2>4. QED
    BY <1>1, <1>3, <2>1, <2>2, <2>3 DEF IsWhole
<1>6. WholeIds' = WholeIds \/ WholeIds' = WholeIds \cup {id}
  <2>1. \A i \in Id \ {id} : i \in WholeIds' <=> i \in WholeIds
    BY <1>4 DEF WholeIds
  <2>2. id \in WholeIds => id \in WholeIds'
    BY <1>1, <1>5 DEF WholeIds, RecordFault
  <2>3. WholeIds \subseteq Id /\ WholeIds' \subseteq Id
    BY DEF WholeIds
  <2>4. QED
    BY <1>1, <2>1, <2>2, <2>3
<1>7. CASE WholeIds' = WholeIds
  BY <1>2, <1>7 DEF Contract!vars
<1>8. CASE WholeIds' = WholeIds \cup {id}
  <2>1. Contract!Complete(n, id)
    BY <1>1, <1>2, <1>8 DEF Contract!Complete, Labels
  <2>2. QED
    BY <1>1, <2>1 DEF Contract!Next
<1>9. QED
  BY <1>6, <1>7, <1>8

LEMMA SucceedStep ==
  ASSUME SerialInv, OwnersRan, [Next]_vars, NEW n \in Run, Finish(n)
  PROVE  Contract!Succeed(n, IdOf[exp[n]])
<1> DEFINE id == IdOf[exp[n]]
<1>1. id \in Id /\ Owner(id) = n
  BY SerialTypes, ConstantsAssumption DEF Finish, ValidExp, OnTheSystem, RowsOwned, Owner
<1>2. Calls[n] = "published" /\ Calls' = [Calls EXCEPT ![n] = "ok"]
  <2>1. Calls' = [Calls EXCEPT ![n] = CallAt("ok")]
    BY CallMoves DEF Finish, Return, PC, Returned
  <2>2. QED
    BY <2>1, SerialTypes DEF Finish, Calls, CallAt, Returned
<1>3. UNCHANGED <<Labels, WholeIds>>
  BY LabelsStay, ExpStays DEF Finish
<1>4. IsWhole(id)
  <2>1. \A s \in 1..(cursor[n] - 1) : faultRows[id][s] = n
    BY <1>1, SerialTypes DEF Finish, RowsOwned, Owner
  <2>2. Len(Faults[exp[n]]) \in Nat /\ cursor[n] > Len(Faults[exp[n]]) /\ cursor[n] \in Int
    BY SerialTypes, ConstantsAssumption DEF Finish, FaultsToRecord, ValidExp, OnTheSystem
  <2>3. n # None
    BY ConstantsAssumption
  <2>4. QED
    BY <1>1, <2>1, <2>2, <2>3 DEF IsWhole
<1>5. QED
  BY <1>1, <1>2, <1>3, <1>4 DEF Contract!Succeed, Contract!Becomes, Labels, WholeIds

LEMMA ContractStep ==
  OneDirectory /\ SerialInv /\ OwnersRan /\ [Next]_vars => [Contract!Next]_(Contract!vars)
<1>1. SUFFICES ASSUME OneDirectory, SerialInv, OwnersRan, [Next]_vars
               PROVE  [Contract!Next]_(Contract!vars)
  OBVIOUS
<1>2. ASSUME NEW n \in Run, RecordExperiment(n) PROVE Contract!Next
  <2>1. IdOf[exp[n]] \in Id
    BY <1>1, <1>2, SerialTypes, ConstantsAssumption DEF RecordExperiment, ValidExp, OnTheSystem
  <2>2. QED
    BY <1>1, <1>2, <2>1, PublishStep DEF Contract!Next
<1>3. ASSUME NEW n \in Run, Finish(n) PROVE Contract!Next
  <2>1. IdOf[exp[n]] \in Id
    BY <1>1, <1>3, SerialTypes, ConstantsAssumption DEF Finish, ValidExp, OnTheSystem
  <2>2. QED
    BY <1>1, <1>3, <2>1, SucceedStep DEF Contract!Next
<1>4. ASSUME NEW n \in Run,
             \/ Start(n) \/ Busy(n) \/ RejectYaml(n) \/ DryRun(n) \/ Validate(n) \/ Reset(n)
             \/ Begin(n) \/ Abort(n) \/ FinishTimeline(n) \/ Recovery(n) \/ InsertFails(n) \/ Crash(n)
      PROVE  [Contract!Next]_(Contract!vars)
  <2>1. UNCHANGED labelVars
    BY <1>4 DEF Start, Busy, RejectYaml, DryRun, Validate, Reset, Begin, Abort, FinishTimeline,
       Recovery, InsertFails, Crash, labelVars
  <2>2. QED
    BY <1>1, <1>4, <2>1, QuietSteps
<1>5. ASSUME NEW n \in Run,
             \/ \E i \in 1..MaxFaults : Inject(n, i) \/ Revert(n, i)
             \/ Cleanup(n) \/ StagesEnd(n)
      PROVE  [Contract!Next]_(Contract!vars)
  BY <1>1, <1>5, ScheduleSteps
<1>6. ASSUME NEW n \in Run, RecordFault(n) PROVE [Contract!Next]_(Contract!vars)
  BY <1>1, <1>6, CompleteStep
<1>7. CASE \E n \in Run : Step(n) \/ StagesEnd(n) \/ Crash(n)
  BY <1>2, <1>3, <1>4, <1>5, <1>6, <1>7 DEF Step
<1>8. CASE ProxyRestart \/ Quiescent \/ UNCHANGED vars
  <2>1. UNCHANGED labelVars /\ UNCHANGED <<pc, exp>>
    BY <1>8 DEF ProxyRestart, Quiescent, vars, runVars, labelVars
  <2>2. UNCHANGED <<Labels, WholeIds>>
    BY <1>1, <2>1, LabelsStay
  <2>3. UNCHANGED Calls
    BY <2>1 DEF Calls
  <2>4. QED
    BY <2>2, <2>3 DEF Contract!vars
<1>9. QED
  BY <1>1, <1>7, <1>8 DEF Next

\* Sharing one lock file, the calls of run_file keep the contract their callers
\* and the readers of labels.db rely on (runner.rs:16-227), for any number of
\* calls, experiments and failures.
THEOREM RunnerKeepsContract == OneDirectory => (Spec => ImplementsContract)
<1>0. SUFFICES ASSUME OneDirectory PROVE Spec => ImplementsContract
  OBVIOUS
<1>1. Init => Contract!Init
  <2>1. SUFFICES ASSUME Init PROVE Contract!Init
    OBVIOUS
  <2>0. CallAt("new") = "new"
    BY DEF CallAt, Returned
  <2>2. Calls = [n \in Run |-> "new"]
    BY <2>0, <2>1 DEF Init, Calls
  <2>3. Labels = [id \in Id |-> None]
    BY <2>1 DEF Init, Labels, Owner, NoRow
  <2>4. WholeIds = {}
    BY <2>1 DEF Init, WholeIds, IsWhole, Owner, NoRow
  <2>5. QED
    BY <2>2, <2>3, <2>4 DEF Contract!Init
<1>2. Spec => [](SerialInv /\ OwnersRan)
  BY <1>0, ImplInv
<1>3. SerialInv /\ OwnersRan /\ [Next]_vars => [Contract!Next]_(Contract!vars)
  BY <1>0, ContractStep
<1>4. QED
  BY <1>1, <1>2, <1>3, PTL DEF Spec, ImplementsContract, Contract!Spec

=============================================================================
