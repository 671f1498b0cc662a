------------------------------ MODULE LoadStage ------------------------------
(***************************************************************************)
(* Crate bank-loadgen: run_stage sends requests as detached tasks that add *)
(* to shared counters, and the writer task of the load generator's main    *)
(* turns the counters into a line of the stats file every second.          *)
(* run_stage has two owners: main, whose process ends with the stages, and *)
(* run_file of the experiment runner, which goes on and writes no lines.   *)
(***************************************************************************)
EXTENDS Integers, Sequences, FiniteSets, Sums

CONSTANTS
  Request,  \* the requests the stages can send
  Owners,   \* which owners are considered
  MaxLines  \* bound on the lines written

ASSUME LoadAssumption == Owners \subseteq {"main", "run_file"} /\ MaxLines \in Nat

VARIABLES
  owner,    \* who has spawned the stages
  host,     \* "loading", "ended" (the stages are), "left" (main or run_file has returned)
  request,  \* what has become of each request
  counter,  \* Stats::current
  swapped,  \* how many counters snapshot_line has swapped out
  snapshot, \* the line it is making
  lines     \* the stats file

loadVars == <<owner, host, request, counter, swapped, snapshot, lines>>

Classes == <<"success", "four_xx", "five_xx", "error">>
Class   == {"success", "four_xx", "five_xx", "error"}
Count   == [Class -> Nat]
Zero    == [c \in Class |-> 0]

LoadTypeOK ==
  /\ owner \in {"main", "run_file"}
  /\ host \in {"loading", "ended", "left"}
  /\ request \in [Request -> {"unsent", "sent", "gone"} \cup Class]
  /\ counter \in Count
  /\ swapped \in 0..4
  /\ snapshot \in Count
  /\ lines \in Seq(Count)

LoadInit ==
  /\ owner \in Owners
  /\ host = "loading"
  /\ request = [r \in Request |-> "unsent"]
  /\ counter = Zero
  /\ swapped = 0
  /\ snapshot = Zero
  /\ lines = <<>>

-----------------------------------------------------------------------------
(* run_stage *)

\* one turn of the loop: tokio::spawn of a task that sends the request
SendRequest(r) ==
  /\ host = "loading"
  /\ request[r] = "unsent"
  /\ request' = [request EXCEPT ![r] = "sent"]
  /\ UNCHANGED <<owner, host, counter, swapped, snapshot, lines>>

\* the last stage is past its end, or run_file aborts it: neither waits for
\* the requests
StagesOver ==
  /\ host = "loading"
  /\ host' = "ended"
  /\ UNCHANGED <<owner, request, counter, swapped, snapshot, lines>>

\* the task of a request: it counts the answer under one class
CountAnswer(r, c) ==
  /\ request[r] = "sent"
  /\ request' = [request EXCEPT ![r] = c]
  /\ counter' = [counter EXCEPT ![c] = @ + 1]
  /\ UNCHANGED <<owner, host, swapped, snapshot, lines>>

\* run_file returns: its process, and with it the tasks, live on.  main
\* returns: the process ends, with every task
ReturnToOwner ==
  /\ host = "ended"
  /\ host' = "left"
  /\ request' = [r \in Request |->
       IF owner = "main" /\ request[r] = "sent" THEN "gone" ELSE request[r]]
  /\ UNCHANGED <<owner, counter, swapped, snapshot, lines>>

-----------------------------------------------------------------------------
(* The writer task of main *)

Writing == owner = "main" /\ host # "left"

SwapCounter_LoadsThenClears ==
  /\ Writing
  /\ swapped < 4
  /\ Len(lines) < MaxLines
  /\ LET c == Classes[swapped + 1] IN
     /\ snapshot' = [snapshot EXCEPT ![c] = counter[c]]
     /\ counter' = IF swapped = 3 THEN Zero ELSE counter
  /\ swapped' = swapped + 1
  /\ UNCHANGED <<owner, host, request, lines>>

\* snapshot_line swaps the counters to zero one after the other
SwapCounter ==
  /\ Writing
  /\ swapped < 4
  /\ Len(lines) < MaxLines
  /\ LET c == Classes[swapped + 1] IN
     /\ snapshot' = [snapshot EXCEPT ![c] = counter[c]]
     /\ counter' = [counter EXCEPT ![c] = 0]
  /\ swapped' = swapped + 1
  /\ UNCHANGED <<owner, host, request, lines>>

WriteLine ==
  /\ Writing
  /\ swapped = 4
  /\ lines' = Append(lines, snapshot)
  /\ snapshot' = Zero
  /\ swapped' = 0
  /\ UNCHANGED <<owner, host, request, counter>>

-----------------------------------------------------------------------------
Counted(c) == {r \in Request : request[r] = c}

\* what the stats file says of a class
Reported(c) == Total([i \in DOMAIN lines |-> lines[i][c]], DOMAIN lines)

=============================================================================
