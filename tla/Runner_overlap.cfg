SPECIFICATION Spec
CONSTANTS
  r1 = r1
  r2 = r2
  r3 = r3
  None = None
  Run = {r1, r2}
  Dir = {"tmp", "tmp2"}
  DirOf <- TwoDirs
  Exp = {"e1"}
  Id = {"e1"}
  IdOf <- MCIdOf
  Toxic = {"k1", "k2"}
  Faults <- MCFaults
  MaxFaults = 2
  Lag = {0}
  Failures = {}
INVARIANT NoOverlap
