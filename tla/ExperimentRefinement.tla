------------------------ MODULE ExperimentRefinement ------------------------
(***************************************************************************)
(* ExperimentRunner implements ExperimentContract when all calls share one *)
(* temp directory, hence one lock file.                                    *)
(***************************************************************************)
EXTENDS ExperimentRunner

\* what a program counter means to the caller
CallAt(p) ==
  CASE p = "new"                      -> "new"
    [] p \in {"recovery", "record"}   -> "observed"
    [] p = "faults"                   -> "published"
    [] p \in {"ok", "dry"}            -> p
    [] p \in Returned \ {"ok", "dry"} -> "failed"
    [] OTHER                          -> "entered"

Calls == [n \in Run |-> CallAt(pc[n])]

Owner(id) == experiments[id].run
Labels == [id \in Id |-> Owner(id)]

\* every fault the owner's YAML lists has its row
IsWhole(id) ==
  /\ Owner(id) # None
  /\ \A s \in 1..Len(Faults[exp[Owner(id)]]) : faultRows[id][s] = Owner(id)
WholeIds == {id \in Id : IsWhole(id)}

Contract == INSTANCE ExperimentContract WITH
  call <- Calls, label <- Labels, whole <- WholeIds

\* A caller sees no more of a run than the contract allows: two calls never
\* overlap (runner.rs:16-30), the label of an id is only touched by the call
\* under way and after its timeline (runner.rs:203-225), and Ok means that the
\* label is whole and one's own (runner.rs:226-227).
ImplementsContract == Contract!Spec

\* whose YAML IsWhole looks at does not change any more
OwnersRan ==
  \A id \in Id : Owner(id) = None \/ pc[Owner(id)] \in {"faults", "dberror", "ok", "crashed"}

=============================================================================
