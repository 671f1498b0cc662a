SPECIFICATION Spec
CONSTANTS
  r1 = r1
  r2 = r2
  r3 = r3
  None = None
  Run = {r1}
  Dir = {"tmp"}
  DirOf <- OneDir
  Exp = {"b"}
  Id = {"b"}
  IdOf <- MCIdOf
  Toxic = {"k1", "k2"}
  Faults <- BlockingFaults
  MaxFaults = 2
  Lag = {0}
  Failures = {}
PROPERTY LabelsMatchInjection
