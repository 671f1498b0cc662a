-------------------------- MODULE ExperimentContract --------------------------
(***************************************************************************)
(* What run_file promises to those who call it (the CLI, its `suite`       *)
(* command, the eval harness) and to those who read labels.db: one call is *)
(* under way at a time, a label is written by the call under way once its  *)
(* timeline is over, a call that returns Ok has left a whole label of its  *)
(* own, and one that fails before it publishes has left none.  How the     *)
(* lock, the faults and the INSERTs bring that about is module             *)
(* ExperimentRunner, which implements this one (ExperimentRefinement).     *)
(***************************************************************************)
CONSTANTS
  Run,   \* the calls of run_file
  Id,    \* experiment ids
  None   \* no run

VARIABLES
  call,  \* how far each call is
  label, \* whose label an id has
  whole  \* the ids whose label lacks none of its fault rows

vars == <<call, label, whole>>

Open    == {"entered", "observed", "published"}
Outcome == {"ok", "dry", "failed"}

TypeOK ==
  /\ call \in [Run -> {"new"} \cup Open \cup Outcome]
  /\ label \in [Id -> Run \cup {None}]
  /\ whole \subseteq Id

Init ==
  /\ call = [n \in Run |-> "new"]
  /\ label = [id \in Id |-> None]
  /\ whole = {}

Becomes(n, from, to) ==
  /\ call[n] = from
  /\ call' = [call EXCEPT ![n] = to]

\* the call is let in when no other is under way
Enter(n) ==
  /\ \A m \in Run : call[m] \notin Open
  /\ Becomes(n, "new", "entered")
  /\ UNCHANGED <<label, whole>>

\* dry_run: Ok without a label
Skip(n) == Becomes(n, "entered", "dry") /\ UNCHANGED <<label, whole>>

\* the timeline of faults and load is over
Observe(n) == Becomes(n, "entered", "observed") /\ UNCHANGED <<label, whole>>

\* the label changes hands; it is whole at once if it needs no fault rows
Publish(n, id) ==
  /\ Becomes(n, "observed", "published")
  /\ label' = [label EXCEPT ![id] = n]
  /\ whole' \in {whole \ {id}, whole \cup {id}}

\* the last missing fault row of one's own label
Complete(n, id) ==
  /\ call[n] = "published"
  /\ label[id] = n
  /\ whole' = whole \cup {id}
  /\ UNCHANGED <<call, label>>

Succeed(n, id) ==
  /\ Becomes(n, "published", "ok")
  /\ label[id] = n
  /\ id \in whole
  /\ UNCHANGED <<label, whole>>

Fail(n) ==
  /\ call[n] \in {"new"} \cup Open
  /\ call' = [call EXCEPT ![n] = "failed"]
  /\ UNCHANGED <<label, whole>>

Next ==
  \E n \in Run :
    \/ Enter(n) \/ Skip(n) \/ Observe(n) \/ Fail(n)
    \/ \E id \in Id : Publish(n, id) \/ Complete(n, id) \/ Succeed(n, id)

Spec == Init /\ [][Next]_vars

=============================================================================
