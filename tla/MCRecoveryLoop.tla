---------------------------- MODULE MCRecoveryLoop ----------------------------
(* The runs of RecoveryLoop.  A unit of time is one second, Period = 2 the  *)
(* two seconds of the code; two endpoints stand for the four.              *)
EXTENDS RecoveryLoop

=============================================================================
