-------------------------- MODULE MCExperimentRunner --------------------------
(* Constants for the runs of ExperimentRunner. *)
EXTENDS ExperimentRefinement, TLC

CONSTANTS r1, r2, r3

ToxiFault(k, at, until) == [at |-> at, until |-> until, toxic |-> k, blocks |-> 0]
PumbaFault(at, until, blocks) == [at |-> at, until |-> until, toxic |-> None, blocks |-> blocks]

\* e1 nests a pumba fault in a toxic's window (as combined-cascade-001), its call
\* returns after the toxic was due to go; e2 has
\* two windows apart, listed out of order, one of them empty (at = until); e3
\* wants one toxic twice at a time, which toxiproxy answers with 409; e4 is
\* inverted; e5 has two toxics whose windows overlap.
MCIdOf == [e \in Exp |-> e]
MCFaults == [e \in Exp |->
  CASE e = "e1" -> <<ToxiFault("k1", 1, 3), PumbaFault(2, 2, 2)>>
    [] e = "e2" -> <<ToxiFault("k2", 2, 2), ToxiFault("k1", 0, 1)>>
    [] e = "e3" -> <<ToxiFault("k1", 0, 2), ToxiFault("k1", 1, 3)>>
    [] e = "e4" -> <<ToxiFault("k1", 2, 1)>>
    [] e = "e5" -> <<ToxiFault("k1", 0, 2), ToxiFault("k2", 1, 3)>>]

OneDir == [r \in Run |-> "tmp"]
\* r1 and r3 in the experiment-runner container, r2 in the eval-harness one
TwoDirs == [r \in Run |-> IF r = r2 THEN "tmp2" ELSE "tmp"]

\* a pumba pause that keeps the runner busy past the next fault's at_sec
BlockingFaults == [e \in Exp |-> <<PumbaFault(1, 3, 2), ToxiFault("k1", 2, 4)>>]

Symmetry == Permutations(Run)

=============================================================================
