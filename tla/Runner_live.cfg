SPECIFICATION FairSpec
CONSTANTS
  r1 = r1
  r2 = r2
  r3 = r3
  None = None
  Run = {r1, r2}
  Dir = {"tmp"}
  DirOf <- OneDir
  Exp = {"e1", "e3"}
  Id = {"e1", "e3"}
  IdOf <- MCIdOf
  Toxic = {"k1", "k2"}
  Faults <- MCFaults
  MaxFaults = 2
  Lag = {0}
  Failures = {"pumba", "restart", "crash", "db"}
INVARIANTS
  FailureLeavesNothing
PROPERTIES
  RunReturns
  LockFreed
