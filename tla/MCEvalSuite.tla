------------------------------ MODULE MCEvalSuite ------------------------------
(* Constants for the run of EvalSuite. *)
EXTENDS EvalSuite

\* s2's glob finds two files with the same id, one that s1 runs as well
MCFiles == [s \in Suite |-> IF s = "s1" THEN <<"a", "b">> ELSE <<"b", "b">>]

MCLabels == [e \in Experiment |->
  [primary |-> "db", blast |-> {"api", "web"}, clean |-> {"mail", "ads"}, expected |-> {"p99", "up"}]]

\* names the culprit, but third, after two services that are clean, late and with
\* no other evidence; and a quick, complete one that accuses the blast radius
WorstHit ==
  [suspects |-> <<"mail", "ads", "db">>, traces |-> 0, errorLogs |-> 0, anomalies |-> {},
   spans |-> 4, rooted |-> 1, seconds |-> 90]
BestMiss ==
  [suspects |-> <<"api", "web">>, traces |-> 2, errorLogs |-> 5, anomalies |-> {"p99", "up"},
   spans |-> 3, rooted |-> 3, seconds |-> 0]

\* of b the engine never finds anything
MCIncident == [e \in Experiment |-> IF e = "a" THEN {WorstHit, BestMiss} ELSE {}]

=============================================================================
