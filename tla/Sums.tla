-------------------------------- MODULE Sums --------------------------------
(* The sum of a function over a set, which is all the counters, the money  *)
(* and the scores of the other modules add up with.                        *)
EXTENDS Integers, FiniteSets, FiniteSetsExt

Total(f, S) == MapThenSumSet(LAMBDA x : f[x], S)

=============================================================================
