-------------------------- MODULE LoadedBank_proofs --------------------------
(* Theorems about LoadedBank, for any number of requests, accounts, amounts  *)
(* and pooled connections, and every environment failure.                  *)
EXTENDS LoadedBank, Sums_proofs

LEMMA HandleFacts ==
  ASSUME BankTypeOK, NEW t \in Transfer, NEW leg \in Leg,
         NEW from \in Handling, NEW to \in Handling, Handle(t, leg, from, to)
  PROVE  /\ call' \in [Transfer -> [Leg -> Handling]]
         /\ call[t][leg] = from /\ call'[t][leg] = to
         /\ \A u \in Transfer, l \in Leg : u # t \/ l # leg => call'[u][l] = call[u][l]
  BY DEF Handle, BankTypeOK

\* an adjust call only moves its own handling on, and touches no `create`
LEMMA AdjustFacts ==
  ASSUME BankTypeOK, NEW t \in Transfer, NEW leg \in Leg, Adjust(t, leg) \/ Abandon(t, leg)
  PROVE  /\ BankTypeOK' /\ UNCHANGED <<at, mail>>
         /\ call[t][leg] \in {"waiting", "holding"} /\ call'[t][leg] \in {"holding", "applied", "failed"}
         /\ \A u \in Transfer, l \in Leg : u # t \/ l # leg => call'[u][l] = call[u][l]
<1>1. CASE Acquire(t, leg)
  BY <1>1, HandleFacts DEF Acquire, BankTypeOK, Handling
<1>2. CASE AcquireTimeout(t, leg)
  BY <1>2, HandleFacts DEF AcquireTimeout, BankTypeOK, Handling
<1>3. CASE Update(t, leg)
  BY <1>3, HandleFacts DEF Update, BankTypeOK, Handling
<1>4. CASE UpdateFails(t, leg)
  BY <1>4, HandleFacts DEF UpdateFails, BankTypeOK, Handling
<1>5. CASE Abandon(t, leg)
  <2>1. PICK from \in {"waiting", "holding"} : Handle(t, leg, from, "failed")
    BY <1>5 DEF Abandon
  <2>2. QED
    BY <1>5, <2>1, HandleFacts DEF Abandon, BankTypeOK, Handling
<1>6. QED
  BY <1>1, <1>2, <1>3, <1>4, <1>5 DEF Adjust

\* what a step of `create` may do
LEMMA CreateFacts ==
  ASSUME BankTypeOK, InStep, NEW t \in Transfer, Create(t) \/ Arrive(t) \/ Hangup(t)
  PROVE  /\ BankTypeOK' /\ InStep' /\ UNCHANGED balance
         /\ at[t] \notin Answered
         /\ \A u \in Transfer \ {t} : at'[u] = at[u]
         /\ \A u \in Transfer, l \in Leg :
              call'[u][l] # call[u][l] => call'[u][l] = "waiting" /\ call[u][l] = "none"
<1>1. CASE Arrive(t)
  BY <1>1, HandleFacts DEF Arrive, BankTypeOK, InStep, Handling, Position, Answered, Leg, Applied
<1>2. CASE DebitDone(t)
  BY <1>2, HandleFacts DEF DebitDone, Says, BankTypeOK, InStep, Handling, Position, Answered, Leg, Applied
<1>3. CASE CreditDone(t)
  BY <1>3 DEF CreditDone, Says, BankTypeOK, InStep, Position, Answered, Leg, Applied
<1>4. CASE Refuse(t)
  BY <1>4 DEF Refuse, Says, BankTypeOK, InStep, Position, Answered, Leg, Applied
<1>5. CASE SendFails(t)
  BY <1>5 DEF SendFails, BankTypeOK, InStep, Position, Answered, Leg, Applied
<1>6. CASE Notify(t)
  BY <1>6 DEF Notify, Mailed, BankTypeOK, InStep, Position, Answered, Leg, Applied
<1>7. CASE Hangup(t)
  BY <1>7 DEF Hangup, Mailed, BankTypeOK, InStep, Position, Answered, Leg, Applied
<1>8. QED
  BY <1>1, <1>2, <1>3, <1>4, <1>5, <1>6, <1>7 DEF Create

-----------------------------------------------------------------------------
(* The pool *)

LEMMA HeldFinite == IsFiniteSet(Held)
<1>1. IsFiniteSet(Leg)
  <2>1. IsFiniteSet({} \cup {"debit"})
    BY FS_EmptySet, FS_AddElement
  <2>2. IsFiniteSet(({} \cup {"debit"}) \cup {"credit"})
    BY <2>1, FS_AddElement
  <2>3. Leg = ({} \cup {"debit"}) \cup {"credit"}
    BY DEF Leg
  <2>4. QED
    BY <2>2, <2>3
<1>2. IsFiniteSet(Transfer \X Leg)
  BY <1>1, FS_Product, BankAssumption
<1>3. QED
  BY <1>2, FS_Subset DEF Held

LEMMA HeldShrinks ==
  ASSUME PoolBounded, Held' \subseteq Held
  PROVE  PoolBounded'
<1>1. Cardinality(Held') <= Cardinality(Held)
  BY HeldFinite, FS_Subset
<1>2. Cardinality(Held) \in Nat /\ Cardinality(Held') \in Nat
  BY HeldFinite, FS_Subset, FS_CardinalityType
<1>3. QED
  BY <1>1, <1>2, BankAssumption DEF PoolBounded

LEMMA HeldGrows ==
  ASSUME BankTypeOK, PoolBounded, NEW t \in Transfer, NEW leg \in Leg, Acquire(t, leg)
  PROVE  PoolBounded'
<1>1. Held' = Held \cup {<<t, leg>>}
  BY HandleFacts DEF Acquire, Held, Handling
<1>0. Cardinality(Held) \in Nat
  BY HeldFinite, FS_CardinalityType
<1>2. Cardinality(Held \cup {<<t, leg>>}) \in {Cardinality(Held), Cardinality(Held) + 1}
  BY HeldFinite, FS_AddElement
<1>3. QED
  BY <1>0, <1>1, <1>2, BankAssumption DEF Acquire, PoolBounded

LEMMA AdjustKeepsPool ==
  ASSUME BankTypeOK, PoolBounded, NEW t \in Transfer, NEW leg \in Leg, Adjust(t, leg) \/ Abandon(t, leg)
  PROVE  PoolBounded'
<1>1. CASE Acquire(t, leg)
  BY <1>1, HeldGrows
<1>2. CASE ~Acquire(t, leg)
  <2>1. call'[t][leg] # "holding"
    BY <1>2, HandleFacts DEF Adjust, AcquireTimeout, Update, UpdateFails, Abandon, Handling
  <2>2. Held' \subseteq Held
    BY <2>1, AdjustFacts DEF Held
  <2>3. QED
    BY <2>2, HeldShrinks
<1>3. QED
  BY <1>1, <1>2

-----------------------------------------------------------------------------
(* The inductive invariant *)

LEMMA InitLoaded == Init => LoadedInv
<1>1. SUFFICES ASSUME Init PROVE LoadedInv
  OBVIOUS
<1>2. BankTypeOK /\ InStep
  BY <1>1, BankAssumption DEF Init, BankInit, BankTypeOK, InStep, Position, Handling, Leg, Applied
<1>3. LoadTypeOK
  BY <1>1, LoadAssumption DEF Init, LoadInit, LoadTypeOK, Zero, Count
<1>4. PoolBounded
  <2>1. Held = {}
    BY <1>1 DEF Init, BankInit, Held
  <2>2. QED
    BY <2>1, FS_EmptySet, BankAssumption DEF PoolBounded
<1>5. RequestInStep
  BY <1>1, RequestsAreTransfers DEF Init, BankInit, LoadInit, RequestInStep
<1>6. SnapshotAhead
  BY <1>1 DEF Init, LoadInit, SnapshotAhead, Zero, Classes, Class
<1>7. QED
  BY <1>2, <1>3, <1>4, <1>5, <1>6 DEF LoadedInv, TypeOK

LEMMA BankStepKeeps ==
  ASSUME LoadedInv, NEW t \in Transfer, BankStep(t) \/ Arrival(t) \/ Disconnect(t)
  PROVE  LoadedInv'
<1>0. LoadTypeOK' /\ SnapshotAhead' /\ UNCHANGED request
  BY DEF BankStep, Arrival, Disconnect, LoadedInv, TypeOK, LoadTypeOK, SnapshotAhead, loadVars
<1>1. CASE Create(t) \/ Arrival(t) \/ Disconnect(t)
  <2>1. /\ BankTypeOK' /\ InStep' /\ at[t] \notin Answered
        /\ \A u \in Transfer \ {t} : at'[u] = at[u]
    BY <1>1, CreateFacts DEF LoadedInv, TypeOK, Arrival, Disconnect
  <2>2. Held' \subseteq Held
    BY <1>1, CreateFacts DEF LoadedInv, TypeOK, Held, Arrival, Disconnect
  <2>3. PoolBounded'
    BY <2>2, HeldShrinks DEF LoadedInv
  <2>4. RequestInStep'
    <3>1. at[t] # "none" \/ request[t] = "sent"
      BY <1>1 DEF Arrival, Disconnect, Create, Hangup, DebitDone, CreditDone, Refuse, SendFails, Notify, Says, Leg
    <3>2. request[t] \notin {"unsent", "success", "four_xx", "five_xx"}
      BY <2>1, <3>1 DEF LoadedInv, RequestInStep
    <3>3. QED
      BY <1>0, <2>1, <3>2 DEF LoadedInv, RequestInStep
  <2>5. QED
    BY <1>0, <2>1, <2>3, <2>4 DEF LoadedInv, TypeOK
<1>2. CASE \E leg \in Leg : Adjust(t, leg) \/ Abandon(t, leg)
  <2>1. PICK leg \in Leg : Adjust(t, leg) \/ Abandon(t, leg)
    BY <1>2
  <2>2. BankTypeOK' /\ UNCHANGED <<at, mail>> /\ PoolBounded'
    BY <2>1, AdjustFacts, AdjustKeepsPool DEF LoadedInv, TypeOK
  <2>3. InStep'
    BY <2>1, <2>2, AdjustFacts DEF LoadedInv, TypeOK, InStep, Applied, Leg
  <2>4. RequestInStep'
    BY <1>0, <2>2 DEF LoadedInv, RequestInStep
  <2>5. QED
    BY <1>0, <2>2, <2>3, <2>4 DEF LoadedInv, TypeOK
<1>3. QED
  BY <1>1, <1>2 DEF BankStep, Arrival, Disconnect

LEMMA CountKeeps ==
  ASSUME LoadedInv, NEW t \in Transfer, Answer(t) \/ NoAnswer(t)
  PROVE  LoadedInv'
<1>1. UNCHANGED bankVars
  BY DEF Answer, NoAnswer
<1>2. BankTypeOK' /\ InStep' /\ PoolBounded'
  BY <1>1 DEF LoadedInv, TypeOK, BankTypeOK, InStep, Applied, PoolBounded, Held, bankVars
<1>3. PICK c \in Class : /\ CountAnswer(t, c)
                         /\ c # "error" => at[t] \in Answered /\ c = ClassOf(at[t])
  BY DEF Answer, NoAnswer, ClassOf, Class, Answered
<1>4. LoadTypeOK'
  BY <1>3, RequestsAreTransfers DEF LoadedInv, TypeOK, LoadTypeOK, CountAnswer, Class, Count
<1>5. RequestInStep'
  BY <1>1, <1>3, RequestsAreTransfers DEF LoadedInv, TypeOK, LoadTypeOK, RequestInStep, CountAnswer, Class, bankVars
<1>6. SnapshotAhead'
  BY <1>3 DEF LoadedInv, SnapshotAhead, CountAnswer
<1>7. QED
  BY <1>2, <1>4, <1>5, <1>6 DEF LoadedInv, TypeOK

\* snapshot_line comes to a class once a line, and moves what is counted there
LEMMA SwapFacts ==
  ASSUME LoadedInv, SwapCounter
  PROVE  /\ SnapshotAhead'
         /\ \E c \in Class : /\ counter' = [counter EXCEPT ![c] = 0]
                            /\ snapshot[c] = 0 /\ snapshot' = [snapshot EXCEPT ![c] = counter[c]]
<1> DEFINE c == Classes[swapped + 1]
<1>1. swapped \in 0..3 /\ swapped + 1 \in 1..4 /\ c \in Class
  BY DEF SwapCounter, LoadedInv, TypeOK, LoadTypeOK, Classes, Class
<1>2. \A i, j \in 1..4 : Classes[i] = Classes[j] => i = j
  BY DEF Classes
<1>3. /\ counter' = [counter EXCEPT ![c] = 0] /\ snapshot' = [snapshot EXCEPT ![c] = counter[c]]
      /\ swapped' = swapped + 1
  BY DEF SwapCounter
<1>4. \A i \in (swapped + 2)..4 : Classes[i] # c /\ snapshot'[Classes[i]] = 0
  <2> TAKE i \in (swapped + 2)..4
  <2>1. i \in 1..4 /\ i # swapped + 1 /\ i \in (swapped + 1)..4
    BY <1>1
  <2>2. Classes[i] \in Class
    BY <2>1 DEF Classes, Class
  <2>3. snapshot \in [Class -> Nat] /\ snapshot[Classes[i]] = 0
    BY <2>1 DEF LoadedInv, TypeOK, LoadTypeOK, Count, SnapshotAhead
  <2>4. Classes[i] # c
    BY <1>1, <1>2, <2>1
  <2> HIDE DEF c
  <2> QED BY <1>3, <2>2, <2>3, <2>4
<1>5. SnapshotAhead'
  BY <1>1, <1>3, <1>4 DEF SnapshotAhead
<1>6. snapshot[c] = 0
  BY <1>1 DEF LoadedInv, SnapshotAhead
<1> QED BY <1>1, <1>3, <1>5, <1>6

LEMMA LoadStepKeeps == ASSUME LoadedInv, LoadStep PROVE LoadedInv'
<1>1. BankTypeOK' /\ InStep' /\ PoolBounded'
  BY DEF LoadStep, LoadedInv, TypeOK, BankTypeOK, InStep, Applied, PoolBounded, Held, bankVars
<1>2. UNCHANGED at
  BY DEF LoadStep, bankVars
<1>3. CASE \E t \in Transfer : SendRequest(t)
  BY <1>1, <1>2, <1>3, RequestsAreTransfers DEF SendRequest, LoadedInv, TypeOK, LoadTypeOK, RequestInStep, SnapshotAhead, Class
<1>4. CASE StagesOver
  BY <1>1, <1>2, <1>4 DEF StagesOver, LoadedInv, TypeOK, LoadTypeOK, RequestInStep, SnapshotAhead
<1>5. CASE ReturnToOwner
  <2>1. LoadTypeOK'
    BY <1>5 DEF ReturnToOwner, LoadedInv, TypeOK, LoadTypeOK
  <2>2. RequestInStep'
    BY <1>2, <1>5, RequestsAreTransfers DEF ReturnToOwner, LoadedInv, RequestInStep
  <2>3. QED
    BY <1>1, <1>5, <2>1, <2>2 DEF ReturnToOwner, LoadedInv, TypeOK, SnapshotAhead
<1>6. CASE SwapCounter
  <2>1. swapped + 1 \in 1..4 /\ Classes[swapped + 1] \in Class
    BY <1>6 DEF SwapCounter, LoadedInv, TypeOK, LoadTypeOK, Classes, Class
  <2>2. LoadTypeOK'
    BY <1>6, <2>1 DEF SwapCounter, LoadedInv, TypeOK, LoadTypeOK, Count
  <2>3. SnapshotAhead'
    BY <1>6, SwapFacts
  <2>4. QED
    BY <1>1, <1>2, <1>6, <2>2, <2>3 DEF SwapCounter, LoadedInv, TypeOK, RequestInStep
<1>7. CASE WriteLine
  <2>1. LoadTypeOK' /\ RequestInStep'
    BY <1>2, <1>7 DEF WriteLine, LoadedInv, TypeOK, LoadTypeOK, RequestInStep, Count, Zero
  <2>2. SnapshotAhead'
    BY <1>7 DEF WriteLine, SnapshotAhead, Zero, Classes, Class
  <2>3. QED
    BY <1>1, <2>1, <2>2 DEF LoadedInv, TypeOK
<1>8. QED
  BY <1>3, <1>4, <1>5, <1>6, <1>7 DEF LoadStep

LEMMA StepLoaded == LoadedInv /\ [Next]_vars => LoadedInv'
<1>1. SUFFICES ASSUME LoadedInv, [Next]_vars PROVE LoadedInv'
  OBVIOUS
<1>2. CASE UNCHANGED vars
  BY <1>1, <1>2 DEF vars, bankVars, loadVars, LoadedInv, TypeOK, BankTypeOK, LoadTypeOK, InStep, Applied,
     PoolBounded, Held, RequestInStep, SnapshotAhead
<1>3. CASE LoadStep
  BY <1>1, <1>3, LoadStepKeeps
<1>4. CASE \E t \in Transfer : Arrival(t) \/ Answer(t) \/ NoAnswer(t) \/ Disconnect(t) \/ BankStep(t)
  BY <1>1, <1>4, BankStepKeeps, CountKeeps
<1>5. QED
  BY <1>1, <1>2, <1>3, <1>4 DEF Next, Quiescent

\* The handlers of a transfer keep step, whoever is dropped or times out
\* (transactions/src/routes.rs:33-87), a request is only counted a success when
\* its transfer answered 201, and the pool lends no more connections than it has.
THEOREM LoadedInvariant == Spec => []LoadedInv
  BY InitLoaded, StepLoaded, PTL DEF Spec

-----------------------------------------------------------------------------
(* The statistics *)

LEMMA DomainFinite ==
  ASSUME NEW S, NEW q \in Seq(S)
  PROVE  IsFiniteSet(DOMAIN q)
<1>1. DOMAIN q = 1..Len(q) /\ Len(q) \in Nat
  OBVIOUS
<1>2. IsFiniteSet(1..Len(q))
  BY <1>1, FS_Interval
<1>3. QED
  BY <1>1, <1>2

LEMMA ReportedInt == ASSUME LoadTypeOK, NEW c \in Class PROVE Reported(c) \in Int
<1> DEFINE f == [i \in DOMAIN lines |-> lines[i][c]]
<1>1. lines \in Seq(Count) /\ IsFiniteSet(DOMAIN lines)
  BY DomainFinite DEF LoadTypeOK
<1>2. \A i \in DOMAIN lines : f[i] \in Int
  BY <1>1 DEF Count
<1> HIDE DEF f
<1>3. Total(f, DOMAIN lines) \in Int
  BY <1>1, <1>2, TotalInt
<1>4. QED
  BY <1>3 DEF Reported, f

\* a line adds what it says of a class to what the file says of it
LEMMA ReportedGrows ==
  ASSUME LoadTypeOK, NEW c \in Class, lines' = Append(lines, snapshot)
  PROVE  Reported(c)' = Reported(c) + snapshot[c] /\ Reported(c) \in Int
<1> DEFINE d == DOMAIN lines
           e == Len(lines) + 1
           f == [i \in d |-> lines[i][c]]
           g == [i \in DOMAIN lines' |-> lines'[i][c]]
<1>1. /\ lines \in Seq(Count) /\ snapshot \in Count
      /\ \A v \in Count : v[c] \in Nat
  BY DEF LoadTypeOK, Count
<1>2. /\ DOMAIN lines' = d \cup {e} /\ e \notin d
      /\ \A i \in d : lines'[i] = lines[i] /\ lines[i] \in Count
      /\ lines'[e] = snapshot
  BY <1>1
<1>3. IsFiniteSet(d)
  BY <1>1, DomainFinite
<1>4. /\ \A i \in d : g[i] = f[i] /\ f[i] \in Int
      /\ g[e] = snapshot[c] /\ g[e] \in Int
  BY <1>1, <1>2
<1>5. Reported(c)' = Total(g, d \cup {e}) /\ Reported(c) = Total(f, d)
  BY <1>2 DEF Reported
<1> HIDE DEF d, e, f, g
<1>6. Total(g, d \cup {e}) = g[e] + Total(g, d)
  BY <1>2, <1>3, <1>4, TotalAdd
<1>7. Total(g, d) = Total(f, d) /\ Total(f, d) \in Int
  BY <1>3, <1>4, TotalSame, TotalInt
<1>8. QED
  BY <1>1, <1>4, <1>5, <1>6, <1>7

LEMMA ReportedKeeps == ASSUME NEW c, UNCHANGED lines PROVE Reported(c)' = Reported(c)
  BY DEF Reported

LEMMA CountedFinite == \A c : IsFiniteSet(Counted(c)) /\ Cardinality(Counted(c)) \in Nat
<1>1. TAKE c
<1>2. IsFiniteSet(Counted(c))
  BY FS_Subset, BankAssumption, RequestsAreTransfers DEF Counted
<1>3. QED
  BY <1>2, FS_CardinalityType

\* an answer is counted once
LEMMA CountGrows ==
  ASSUME LoadTypeOK, NEW r \in Request, NEW c \in Class, CountAnswer(r, c)
  PROVE  /\ Cardinality(Counted(c)') = Cardinality(Counted(c)) + 1
         /\ counter'[c] = counter[c] + 1
         /\ \A d \in Class \ {c} : Counted(d)' = Counted(d) /\ counter'[d] = counter[d]
         /\ UNCHANGED <<snapshot, lines>>
<1>1. /\ request[r] = "sent" /\ request' = [request EXCEPT ![r] = c]
      /\ counter' = [counter EXCEPT ![c] = @ + 1] /\ UNCHANGED <<snapshot, lines>>
  BY DEF CountAnswer
<1>2. r \notin Counted(c) /\ Counted(c)' = Counted(c) \cup {r}
  BY <1>1 DEF Counted, LoadTypeOK, Class
<1>3. Cardinality(Counted(c)') = Cardinality(Counted(c)) + 1
  BY <1>2, CountedFinite, FS_AddElement
<1>4. \A d \in Class \ {c} : Counted(d)' = Counted(d) /\ counter'[d] = counter[d]
  BY <1>1 DEF Counted, LoadTypeOK, Class, Count
<1>5. QED
  BY <1>1, <1>3, <1>4 DEF LoadTypeOK, Count

LEMMA CountingKeeps ==
  ASSUME LoadedInv, EachCountedOnce, NEW t \in Transfer, Answer(t) \/ NoAnswer(t)
  PROVE  EachCountedOnce'
<1>1. PICK c \in Class : CountAnswer(t, c)
  BY DEF Answer, NoAnswer, ClassOf, Class, Answered
<1>2. LoadTypeOK /\ t \in Request
  BY RequestsAreTransfers DEF LoadedInv, TypeOK
<1>3. SUFFICES ASSUME NEW d \in Class
               PROVE  Cardinality(Counted(d)') = counter'[d] + snapshot'[d] + Reported(d)'
  BY DEF EachCountedOnce
<1>4. Cardinality(Counted(d)) = counter[d] + snapshot[d] + Reported(d)
  BY DEF EachCountedOnce
<1>5. Reported(d)' = Reported(d) /\ snapshot' = snapshot
  BY <1>1, <1>2, CountGrows, ReportedKeeps
<1>6. counter[d] \in Nat /\ snapshot[d] \in Nat /\ Reported(d) \in Int
  <2>1. counter[d] \in Nat /\ snapshot[d] \in Nat
    BY <1>2 DEF LoadTypeOK, Count
  <2>2. Reported(d) \in Int
    BY <1>2, ReportedInt
  <2>3. QED
    BY <2>1, <2>2
<1>7. CASE d = c
  BY <1>1, <1>2, <1>4, <1>5, <1>6, <1>7, CountGrows
<1>8. CASE d # c
  BY <1>1, <1>2, <1>4, <1>5, <1>8, CountGrows
<1>9. QED
  BY <1>7, <1>8

LEMMA WritingKeeps == ASSUME LoadedInv, EachCountedOnce, LoadStep PROVE EachCountedOnce'
<1>1. SUFFICES ASSUME NEW d \in Class
               PROVE  Cardinality(Counted(d)') = counter'[d] + snapshot'[d] + Reported(d)'
  BY DEF EachCountedOnce
<1>2. Cardinality(Counted(d)) = counter[d] + snapshot[d] + Reported(d)
  BY DEF EachCountedOnce
<1>3. LoadTypeOK
  BY DEF LoadedInv, TypeOK
<1>4. counter[d] \in Nat /\ snapshot[d] \in Nat /\ Reported(d) \in Int
  <2>1. counter[d] \in Nat /\ snapshot[d] \in Nat
    BY <1>3 DEF LoadTypeOK, Count
  <2>2. QED
    BY <1>3, <2>1, ReportedInt
<1>5. CASE (\E t \in Transfer : SendRequest(t)) \/ StagesOver \/ ReturnToOwner
  <2>1. UNCHANGED <<counter, snapshot, lines>>
    BY <1>5 DEF SendRequest, StagesOver, ReturnToOwner
  <2>2. Counted(d)' = Counted(d)
    BY <1>3, <1>5 DEF SendRequest, StagesOver, ReturnToOwner, Counted, LoadTypeOK, Class
  <2>3. QED
    BY <1>2, <2>1, <2>2, ReportedKeeps
<1>6. CASE SwapCounter
  <2>1. PICK c \in Class : /\ counter' = [counter EXCEPT ![c] = 0]
                           /\ snapshot[c] = 0 /\ snapshot' = [snapshot EXCEPT ![c] = counter[c]]
    BY <1>6, SwapFacts
  <2>2. UNCHANGED <<request, lines>>
    BY <1>6 DEF SwapCounter
  <2>3. Counted(d)' = Counted(d) /\ Reported(d)' = Reported(d)
    BY <2>2, ReportedKeeps DEF Counted
  <2>4. counter'[d] + snapshot'[d] = counter[d] + snapshot[d]
    BY <1>3, <1>4, <2>1 DEF LoadTypeOK, Count
  <2>5. QED
    BY <1>2, <2>3, <2>4
<1>7. CASE WriteLine
  <2>1. UNCHANGED <<request, counter>> /\ snapshot' = Zero /\ lines' = Append(lines, snapshot)
    BY <1>7 DEF WriteLine
  <2>2. Counted(d)' = Counted(d) /\ snapshot'[d] = 0
    BY <2>1 DEF Counted, Zero
  <2>3. Reported(d)' = Reported(d) + snapshot[d]
    BY <1>3, <2>1, ReportedGrows
  <2>4. QED
    BY <1>2, <1>4, <2>1, <2>2, <2>3
<1>8. QED
  BY <1>5, <1>6, <1>7 DEF LoadStep

LEMMA StepCounts == LoadedInv /\ EachCountedOnce /\ [Next]_vars => EachCountedOnce'
<1>1. SUFFICES ASSUME LoadedInv, EachCountedOnce, [Next]_vars PROVE EachCountedOnce'
  OBVIOUS
<1>2. CASE UNCHANGED loadVars
  BY <1>1, <1>2 DEF EachCountedOnce, Counted, Reported, loadVars
<1>3. QED
  BY <1>1, <1>2, CountingKeeps, WritingKeeps
  DEF Next, Arrival, Disconnect, BankStep, Quiescent, vars

\* However the answers come in while the writer of the stats file reads and
\* clears the counters, every answer is in exactly one place: a counter, the
\* line being made or a line written (bank-loadgen/src/stats.rs:20-31).
THEOREM AnswersCountedOnce == Spec => []EachCountedOnce
<1>1. Init => EachCountedOnce
  <2>1. SUFFICES ASSUME Init, NEW c \in Class
                 PROVE  Cardinality(Counted(c)) = counter[c] + snapshot[c] + Reported(c)
    BY DEF EachCountedOnce
  <2>2. Counted(c) = {} /\ counter[c] = 0 /\ snapshot[c] = 0 /\ DOMAIN lines = {}
    <3>1. Counted(c) = {} /\ counter[c] = 0 /\ snapshot[c] = 0
      BY <2>1 DEF Init, LoadInit, Counted, Zero, Class
    <3>2. lines = <<>>
      BY <2>1 DEF Init, LoadInit
    <3>3. QED
      BY <3>1, <3>2
  <2>3. Reported(c) = 0
    BY <2>2, TotalEmpty DEF Reported
  <2>4. QED
    BY <2>2, <2>3, FS_EmptySet
<1>2. QED
  BY <1>1, LoadedInvariant, StepCounts, PTL DEF Spec

-----------------------------------------------------------------------------
(* The money *)

LEMMA AmountType == \A t \in Transfer : Amount[t] \in Int /\ Negated(Amount[t]) \in Int
  BY BankAssumption DEF Balance, Negated

LEMMA ReachedFinite == \A leg : IsFiniteSet(Reached(leg)) /\ \A t \in Reached(leg) : Asked(leg)[t] \in Int
  BY AmountType, BankAssumption, FS_Subset DEF Reached, Asked

LEMMA MovedInt == \A leg : Moved(leg) \in Int
  BY ReachedFinite, TotalInt DEF Moved

LEMMA MoneyInt == ASSUME NEW f \in [Account -> Balance] PROVE Money(f) \in Int
  BY BankAssumption, TotalInt DEF Money, Balance

\* an UPDATE that finds no row of the id moves nothing, in the table or in the account of it
LEMMA UpdateAccounted ==
  ASSUME BankTypeOK, MoneyAccounted, NEW t \in Transfer, NEW leg \in Leg, Update(t, leg)
  PROVE  Money(balance)' = Money(Opening) + Moved("debit")' + Moved("credit")'
<1> DEFINE a == NameOf(t, leg)
<1>1. /\ call[t][leg] = "holding" /\ call'[t][leg] = "applied"
      /\ \A u \in Transfer, l \in Leg : u # t \/ l # leg => call'[u][l] = call[u][l]
      /\ balance' = Added(t, leg) /\ balance' \in [Account -> Balance]
  BY HandleFacts DEF Update, Handling
<1>2. \A l \in Leg : Reached(l)' = IF l = leg /\ a \in Account THEN Reached(l) \cup {t} ELSE Reached(l)
  BY <1>1 DEF Reached, Applied, NameOf
<1>3. /\ t \notin Reached(leg) /\ Asked(leg)[t] = Delta(t, leg) /\ Delta(t, leg) \in Int
      /\ \A l \in Leg : Asked(l)' = Asked(l)
  BY <1>1, AmountType DEF Reached, Applied, Asked, Delta, Negated
<1>4. \A l \in Leg : Moved(l)' = IF l = leg /\ a \in Account THEN Moved(l) + Delta(t, leg) ELSE Moved(l)
  <2>1. Total(Asked(leg), Reached(leg) \cup {t}) = Delta(t, leg) + Total(Asked(leg), Reached(leg))
    BY <1>3, ReachedFinite, TotalAdd
  <2>2. Moved(leg) \in Int
    BY MovedInt
  <2>3. \A l \in Leg : Moved(l)' = Total(Asked(l), IF l = leg /\ a \in Account THEN Reached(l) \cup {t} ELSE Reached(l))
    BY <1>2, <1>3 DEF Moved
  <2>4. Delta(t, leg) + Moved(leg) = Moved(leg) + Delta(t, leg)
    BY <1>3, <2>2
  <2> HIDE DEF a
  <2>5. QED
    BY <2>1, <2>3, <2>4, Zenon DEF Moved
<1>5. Money(balance)' = Money(balance) + (IF a \in Account THEN Delta(t, leg) ELSE 0)
  <2>1. CASE a \in Account
    <3>1. /\ \A x \in Account : balance[x] \in Int /\ balance'[x] \in Int
          /\ \A x \in Account \ {a} : balance[x] = balance'[x]
          /\ balance'[a] = balance[a] + Delta(t, leg)
      BY <1>1, <2>1 DEF Added, BankTypeOK, Balance
    <3>2. Total(balance', Account) = Total(balance, Account) - balance[a] + balance'[a]
      BY <2>1, <3>1, BankAssumption, TotalChange
    <3>3. Total(balance, Account) \in Int /\ Delta(t, leg) \in Int
      BY <1>3, MoneyInt DEF Money, BankTypeOK
    <3>4. QED
      BY <2>1, <3>1, <3>2, <3>3 DEF Money
  <2>2. CASE a \notin Account
    <3>1. balance' = balance
      BY <1>1, <2>2 DEF Added, BankTypeOK
    <3>2. QED
      BY <2>2, <3>1, MoneyInt DEF Money, BankTypeOK
  <2>3. QED
    BY <2>1, <2>2
<1>6. /\ Money(balance) = Money(Opening) + Moved("debit") + Moved("credit")
      /\ Money(balance) \in Int /\ Money(Opening) \in Int /\ Moved("debit") \in Int /\ Moved("credit") \in Int
  BY MoneyInt, MovedInt, BankAssumption DEF MoneyAccounted, BankTypeOK
<1> HIDE DEF a
<1>7. CASE leg = "debit"
  BY <1>3, <1>4, <1>5, <1>6, <1>7 DEF Leg
<1>8. CASE leg = "credit"
  BY <1>3, <1>4, <1>5, <1>6, <1>8 DEF Leg
<1>9. QED
  BY <1>7, <1>8 DEF Leg

\* a step that executes no UPDATE moves no money
LEMMA NothingMoved ==
  ASSUME MoneyAccounted, UNCHANGED balance,
         \A t \in Transfer, leg \in Leg : Applied(t, leg)' <=> Applied(t, leg)
  PROVE  Money(balance)' = Money(Opening) + Moved("debit")' + Moved("credit")'
<1>1. \A leg \in Leg : Moved(leg)' = Moved(leg)
  BY DEF Moved, Asked, Negated, Reached, NameOf
<1>2. QED
  BY <1>1 DEF MoneyAccounted, Money, Leg

\* a request counts as a success once its transfer answered 201, with both legs done
SuccessMoved ==
  \A t \in Transfer, leg \in Leg :
    request[t] = "success" => t \in Reached(leg) \/ NameOf(t, leg) \notin Account

LEMMA SuccessHasMoved == LoadedInv => SuccessMoved
<1>1. SUFFICES ASSUME LoadedInv, NEW t \in Transfer, NEW leg \in Leg, request[t] = "success"
               PROVE  Applied(t, leg)
  BY DEF SuccessMoved, Reached
<1>2. at[t] \in Answered /\ ClassOf(at[t]) = "success"
  BY <1>1 DEF LoadedInv, RequestInStep
<1>3. at[t] = "201"
  BY <1>2 DEF Answered, ClassOf
<1>4. call[t]["credit"] # "none"
  BY <1>1, <1>3 DEF LoadedInv, InStep, Applied
<1>5. QED
  BY <1>1, <1>3, <1>4 DEF LoadedInv, InStep, Leg

LEMMA StepAccounts == LoadedInv /\ MoneyAccounted /\ [Next]_vars => MoneyAccounted'
<1>1. SUFFICES ASSUME LoadedInv, MoneyAccounted, [Next]_vars PROVE MoneyAccounted'
  OBVIOUS
<1>2. LoadedInv'
  BY <1>1, StepLoaded
<1>3. SuccessMoved'
  BY <1>2, SuccessHasMoved, PTL
<1>4. Money(balance)' = Money(Opening) + Moved("debit")' + Moved("credit")'
  <2>1. BankTypeOK /\ InStep
    BY <1>1 DEF LoadedInv, TypeOK
  <2>2. CASE UNCHANGED bankVars
    BY <1>1, <2>2, NothingMoved DEF bankVars, Applied
  <2>3. CASE \E t \in Transfer : Create(t) \/ Arrive(t) \/ Hangup(t)
    BY <1>1, <2>1, <2>3, CreateFacts, NothingMoved DEF Applied
  <2>4. CASE \E t \in Transfer, leg \in Leg : Adjust(t, leg) \/ Abandon(t, leg)
    <3>1. PICK t \in Transfer, leg \in Leg : Adjust(t, leg) \/ Abandon(t, leg)
      BY <2>4
    <3>2. CASE Update(t, leg)
      BY <1>1, <2>1, <3>2, UpdateAccounted
    <3>3. CASE ~Update(t, leg)
      <4>1. UNCHANGED balance /\ call'[t][leg] # "applied"
        BY <2>1, <3>1, <3>3, HandleFacts DEF Adjust, Acquire, AcquireTimeout, UpdateFails, Abandon, Handling
      <4>2. \A u \in Transfer, l \in Leg : Applied(u, l)' <=> Applied(u, l)
        BY <2>1, <3>1, <4>1, AdjustFacts DEF Applied
      <4>3. QED
        BY <1>1, <4>1, <4>2, NothingMoved
    <3>4. QED
      BY <3>2, <3>3
  <2>5. QED
    BY <1>1, <2>2, <2>3, <2>4
    DEF Next, Arrival, Answer, NoAnswer, Disconnect, BankStep, LoadStep, Quiescent, vars, bankVars
<1>5. QED
  BY <1>3, <1>4 DEF MoneyAccounted, SuccessMoved

\* Whatever is lost, stalls or is killed, and however the UPDATEs of the
\* transfers interleave, the balances differ from the opening ones by exactly
\* the legs executed on existing rows, and the load generator counts a success
\* only if each leg of the transfer moved its money or names no row
\* (transactions/src/routes.rs:26-90, accounts/src/repo.rs:44-51).
THEOREM MoneyIsAccounted == Spec => []MoneyAccounted
<1>1. Init => MoneyAccounted
  <2>1. SUFFICES ASSUME Init PROVE MoneyAccounted
    OBVIOUS
  <2>2. \A leg \in Leg : Reached(leg) = {}
    BY <2>1 DEF Init, BankInit, Reached, Applied
  <2>3. \A leg \in Leg : Moved(leg) = 0
    BY <2>2, TotalEmpty DEF Moved
  <2>4. Money(balance) = Money(Opening) /\ Money(Opening) \in Int
    BY <2>1, MoneyInt, BankAssumption DEF Init, BankInit
  <2>5. LoadedInv
    BY <2>1, InitLoaded
  <2>6. QED
    BY <2>3, <2>4, <2>5, SuccessHasMoved DEF MoneyAccounted, SuccessMoved, Leg
<1>2. QED
  BY <1>1, LoadedInvariant, StepAccounts, PTL DEF Spec

-----------------------------------------------------------------------------
(* The refinement *)

\* a step that executes no UPDATE, answers nobody and sends no receipt
LEMMA NothingSeen ==
  ASSUME UNCHANGED <<balance, mail>>,
         \A t \in Transfer : at'[t] # at[t] => {at[t], at'[t]} \subseteq {"none", "debit", "credit", "notify"},
         \A t \in Transfer, leg \in Leg : Applied(t, leg)' <=> Applied(t, leg)
  PROVE  UNCHANGED Contract!vars
<1>1. Progress' = Progress
  BY DEF Progress, Leg
<1>2. Outcomes' = Outcomes
  <2>1. \A t \in Transfer : at'[t] = "201" <=> at[t] = "201"
    OBVIOUS
  <2>2. \A t \in Transfer : at'[t] \in {"400", "500", "dropped"} <=> at[t] \in {"400", "500", "dropped"}
    OBVIOUS
  <2>3. QED
    BY <2>1, <2>2 DEF Outcomes
<1>3. QED
  BY <1>1, <1>2 DEF Contract!vars

LEMMA UpdateMoves ==
  ASSUME LoadedInv, NEW t \in Transfer, NEW leg \in Leg, Update(t, leg)
  PROVE  Contract!Next
<1>0. BankTypeOK /\ InStep
  BY DEF LoadedInv, TypeOK
<1>1. /\ call[t][leg] = "holding" /\ call'[t][leg] = "applied"
      /\ \A u \in Transfer, l \in Leg : u # t \/ l # leg => call'[u][l] = call[u][l]
  BY <1>0, HandleFacts DEF Update, Handling
<1>2. UNCHANGED <<Outcomes, mail>>
  BY DEF Update, Outcomes
<1>3. CASE leg = "debit"
  <2>1. ~Applied(t, "debit") /\ ~Applied(t, "credit")
    BY <1>0, <1>1, <1>3 DEF InStep, Applied, Leg
  <2>2. Progress[t] = "idle" /\ Progress' = [Progress EXCEPT ![t] = "debited"]
    BY <1>1, <1>3, <2>1 DEF Progress, Applied, Leg
  <2>3. Contract!Add(From[t], Asked("debit")[t])
    BY <1>3 DEF Update, Added, NameOf, Delta, Asked, Contract!Add
  <2>4. QED
    BY <1>2, <2>2, <2>3 DEF Contract!Next, Contract!Debit
<1>4. CASE leg = "credit"
  <2>1. Applied(t, "debit") /\ ~Applied(t, "credit")
    BY <1>0, <1>1, <1>4 DEF InStep, Applied, Leg
  <2>2. Progress[t] = "debited" /\ Progress' = [Progress EXCEPT ![t] = "credited"]
    BY <1>1, <1>4, <2>1 DEF Progress, Applied, Leg
  <2>3. Contract!Add(To[t], Asked("credit")[t])
    BY <1>4 DEF Update, Added, NameOf, Delta, Asked, Contract!Add
  <2>4. QED
    BY <1>2, <2>2, <2>3 DEF Contract!Next, Contract!Credit
<1>5. QED
  BY <1>3, <1>4 DEF Leg

LEMMA AdjustRefines ==
  ASSUME LoadedInv, NEW t \in Transfer, NEW leg \in Leg, Adjust(t, leg) \/ Abandon(t, leg)
  PROVE  [Contract!Next]_(Contract!vars)
<1>0. BankTypeOK
  BY DEF LoadedInv, TypeOK
<1>1. CASE Update(t, leg)
  BY <1>1, UpdateMoves
<1>2. CASE ~Update(t, leg)
  <2>1. UNCHANGED balance /\ call'[t][leg] # "applied"
    BY <1>0, <1>2, HandleFacts DEF Adjust, Acquire, AcquireTimeout, UpdateFails, Abandon, Handling
  <2>2. \A u \in Transfer, l \in Leg : Applied(u, l)' <=> Applied(u, l)
    BY <1>0, <2>1, AdjustFacts DEF Applied
  <2>3. QED
    BY <1>0, <2>1, <2>2, AdjustFacts, NothingSeen
<1>3. QED
  BY <1>1, <1>2

\* an answer, or the end of the connection, with what it did to the mail
LEMMA AnswerRefines ==
  ASSUME LoadedInv, NEW t \in Transfer, UNCHANGED <<balance, call>>,
         at[t] \in {"debit", "credit", "notify"}, NEW p \in {"201", "400", "500", "dropped"},
         at' = [at EXCEPT ![t] = p],
         mail' = mail \/ (at[t] = "notify" /\ mail' = mail \cup {t}), p = "201" => at[t] = "notify"
  PROVE  Contract!Next
<1>0. BankTypeOK /\ InStep
  BY DEF LoadedInv, TypeOK
<1>1. UNCHANGED Progress
  BY DEF Progress, Applied
<1>2. Outcomes[t] = "none" /\ Outcomes' = [Outcomes EXCEPT ![t] = IF p = "201" THEN "confirmed" ELSE "failed"]
  BY <1>0 DEF Outcomes, BankTypeOK
<1>3. CASE at[t] = "notify"
  <2>1. Progress[t] = "credited"
    BY <1>0, <1>3 DEF InStep, Progress
  <2>2. Contract!Finish(t)
    BY <1>1, <1>2, <2>1 DEF Contract!Finish
  <2>3. QED
    BY <2>2 DEF Contract!Next
<1>4. CASE at[t] # "notify"
  <2>1. Contract!Fail(t)
    BY <1>1, <1>2, <1>4 DEF Contract!Fail
  <2>2. QED
    BY <2>1 DEF Contract!Next
<1>5. QED
  BY <1>3, <1>4

LEMMA CreateRefines ==
  ASSUME LoadedInv, NEW t \in Transfer, Create(t) \/ Arrive(t) \/ Hangup(t)
  PROVE  [Contract!Next]_(Contract!vars)
<1>0. BankTypeOK /\ InStep
  BY DEF LoadedInv, TypeOK
<1>1. CASE Arrive(t) \/ DebitDone(t) \/ CreditDone(t)
  <2>1. \A u \in Transfer, leg \in Leg : Applied(u, leg)' <=> Applied(u, leg)
    BY <1>0, <1>1, CreateFacts DEF Applied, Create
  <2>2. UNCHANGED <<balance, mail>>
    BY <1>1 DEF Arrive, DebitDone, CreditDone
  <2>3. \A u \in Transfer : at'[u] # at[u] => {at[u], at'[u]} \subseteq {"none", "debit", "credit", "notify"}
    BY <1>0, <1>1 DEF Arrive, DebitDone, CreditDone, Says, BankTypeOK
  <2>4. QED
    BY <2>1, <2>2, <2>3, NothingSeen
<1>2. CASE Refuse(t)
  BY <1>2, AnswerRefines DEF Refuse, Says, Leg
<1>3. CASE SendFails(t)
  BY <1>3, AnswerRefines DEF SendFails, Leg
<1>4. CASE Notify(t)
  BY <1>4, AnswerRefines DEF Notify, Mailed
<1>5. CASE Hangup(t)
  BY <1>5, AnswerRefines DEF Hangup, Mailed, Leg
<1>6. QED
  BY <1>1, <1>2, <1>3, <1>4, <1>5 DEF Create

LEMMA StepRefines == LoadedInv /\ [Next]_vars => [Contract!Next]_(Contract!vars)
<1>1. SUFFICES ASSUME LoadedInv, [Next]_vars PROVE [Contract!Next]_(Contract!vars)
  OBVIOUS
<1>2. CASE UNCHANGED bankVars
  BY <1>2 DEF bankVars, Contract!vars, Progress, Outcomes, Applied
<1>3. CASE \E t \in Transfer : Arrival(t) \/ Disconnect(t) \/ BankStep(t)
  <2>1. PICK t \in Transfer : Arrival(t) \/ Disconnect(t) \/ BankStep(t)
    BY <1>3
  <2>2. CASE Create(t) \/ Arrive(t) \/ Hangup(t)
    BY <1>1, <2>2, CreateRefines
  <2>3. CASE \E leg \in Leg : Adjust(t, leg) \/ Abandon(t, leg)
    BY <1>1, <2>3, AdjustRefines
  <2>4. QED
    BY <2>1, <2>2, <2>3 DEF Arrival, Disconnect, BankStep
<1>4. QED
  BY <1>1, <1>2, <1>3 DEF Next, Answer, NoAnswer, LoadStep, Quiescent, vars, bankVars

\* Whatever is lost, stalls or is killed, the bank keeps its contract: the debit
\* is executed before the credit, neither twice, and a transfer is confirmed, or
\* its receipt sent, only after both were, each moving money where its id has a
\* row (transactions/src/routes.rs:33-87, accounts/src/repo.rs:44-51).
THEOREM BankKeepsContract == Spec => KeepsTransferContract
<1>1. Init => Contract!Init
  BY DEF Init, BankInit, Contract!Init, Progress, Outcomes, Applied, Leg
<1>2. QED
  BY <1>1, LoadedInvariant, StepRefines, PTL DEF Spec, KeepsTransferContract, Contract!Spec

=============================================================================
