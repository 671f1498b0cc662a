------------------------------ MODULE LoadedBank ------------------------------
(***************************************************************************)
(* The load stages of module LoadStage against the bank of module          *)
(* BankTransfers: every request is one POST /transactions, the answer      *)
(* counts under its status class, and a request that goes with its process *)
(* closes the connection its handler works for.                            *)
(***************************************************************************)
EXTENDS BankTransfers, LoadStage

ASSUME RequestsAreTransfers == Request = Transfer

vars == <<bankVars, loadVars>>

Init == BankInit /\ LoadInit

\* match req.send().await
ClassOf(status) ==
  CASE status = "201" -> "success"
    [] status = "400" -> "four_xx"
    [] status = "500" -> "five_xx"

Arrival(t) == request[t] = "sent" /\ Arrive(t) /\ UNCHANGED loadVars

Answer(t) ==
  /\ at[t] \in Answered
  /\ CountAnswer(t, ClassOf(at[t]))
  /\ UNCHANGED bankVars

\* the connection breaks: the handler was dropped, or the request or its
\* answer is lost on the way
NoAnswer_Uncounted(t) ==
  /\ at[t] = "dropped" \/ "lost" \in BankFailures
  /\ UNCHANGED vars

NoAnswer(t) ==
  /\ at[t] = "dropped" \/ "lost" \in BankFailures
  /\ CountAnswer(t, "error")
  /\ UNCHANGED bankVars

\* the service is killed, or notices that the client is no longer there
Disconnect(t) ==
  /\ request[t] # "sent" \/ "kill" \in BankFailures
  /\ Hangup(t)
  /\ UNCHANGED loadVars

BankStep(t) ==
  /\ Create(t) \/ \E leg \in Leg : Adjust(t, leg) \/ Abandon(t, leg)
  /\ UNCHANGED loadVars

LoadStep ==
  /\ \/ \E t \in Transfer : SendRequest(t)
     \/ StagesOver \/ ReturnToOwner \/ SwapCounter \/ WriteLine
  /\ UNCHANGED bankVars

\* the stages' owner has returned, every handler has come to its end
Quiescent ==
  /\ host = "left"
  /\ \A t \in Transfer :
       /\ at[t] \in {"none", "dropped"} \cup Answered
       /\ request[t] # "sent"
  /\ UNCHANGED vars

Next ==
  \/ \E t \in Transfer : Arrival(t) \/ Answer(t) \/ NoAnswer(t) \/ Disconnect(t) \/ BankStep(t)
  \/ LoadStep
  \/ Quiescent

Spec == Init /\ [][Next]_vars

\* Each request goes on: its handlers are run, a wait for a connection ends
\* (acquire_timeout), a statement ends once the fault that stalls the database
\* is over, and the answer or the end of the connection reaches the client.
Forward(t) ==
  \/ Arrival(t) \/ Answer(t)
  \/ (Create(t) \/ \E leg \in Leg : Adjust(t, leg)) /\ UNCHANGED loadVars
  \/ at[t] = "dropped" /\ NoAnswer(t)

Fairness == \A t \in Transfer : WF_vars(Forward(t))

FairSpec == Spec /\ Fairness

-----------------------------------------------------------------------------
(* Properties. *)

TypeOK == BankTypeOK /\ LoadTypeOK

\* the request and its handler
RequestInStep ==
  \A t \in Transfer :
    /\ request[t] = "unsent" => at[t] = "none"
    /\ request[t] \in {"success", "four_xx", "five_xx"} => at[t] \in Answered /\ request[t] = ClassOf(at[t])

\* the counters that snapshot_line has yet to come to are not in its line
SnapshotAhead == \A i \in (swapped + 1)..4 : snapshot[Classes[i]] = 0

LoadedInv == TypeOK /\ InStep /\ PoolBounded /\ RequestInStep /\ SnapshotAhead

\* Each answer is in exactly one place: a counter, the line being made or a
\* line of the file (stats.rs:20-31), although answers are counted while the
\* counters are read; lines are lost only with the process.
EachCountedOnce ==
  \A c \in Class : Cardinality(Counted(c)) = counter[c] + snapshot[c] + Reported(c)

Money(f) == Total(f, Account)

\* what the legs executed so far have brought to the accounts that exist
Reached(leg) == {t \in Transfer : Applied(t, leg) /\ NameOf(t, leg) \in Account}
Asked(leg)   == [t \in Transfer |-> IF leg = "debit" THEN Negated(Amount[t]) ELSE Amount[t]]
Moved(leg)   == Total(Asked(leg), Reached(leg))

\* Whatever fails, the balances differ from the opening ones by the legs that
\* were executed on a row, no leg twice; and the load generator has counted a
\* success only if both legs moved their money or name no row
\* (transactions/src/routes.rs:26-90).  They may name none: a transfer to an id
\* that does not exist is a success that takes money and brings none, as the
\* UPDATE of zero rows is answered with 204 (accounts/src/repo.rs:44-51).
MoneyAccounted ==
  /\ Money(balance) = Money(Opening) + Moved("debit") + Moved("credit")
  /\ \A t \in Transfer, leg \in Leg :
       request[t] = "success" => t \in Reached(leg) \/ NameOf(t, leg) \notin Account

Progress == [t \in Transfer |-> IF Applied(t, "credit") THEN "credited"
                                ELSE IF Applied(t, "debit") THEN "debited" ELSE "idle"]
Outcomes == [t \in Transfer |-> IF at[t] = "201" THEN "confirmed"
                                ELSE IF at[t] \in {"400", "500", "dropped"} THEN "failed" ELSE "none"]

Contract == INSTANCE TransferContract WITH
  progress <- Progress, outcome <- Outcomes, receipts <- mail,
  Debited <- Asked("debit"), Credited <- Asked("credit")

\* The bank keeps TransferContract towards its clients: the debit is executed
\* before the credit, neither twice, and what is confirmed has had both executed,
\* which moves money where there is a row (transactions/src/routes.rs:33-87).
KeepsTransferContract == Contract!Spec

\* Every request is counted, or gone with its process.
RequestsEnd == \A t \in Transfer : request[t] = "sent" ~> request[t] # "sent"

\* runner.rs:122-126 and 150-152: once run_file has returned, none of its
\* traffic is left to contaminate what runs next.
NoTrafficLeft ==
  owner = "run_file" /\ host = "left" => \A t \in Transfer : request[t] # "sent"

=============================================================================
