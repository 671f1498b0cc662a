SPECIFICATION Spec
CONSTANTS
  r1 = r1
  r2 = r2
  r3 = r3
  None = None
  Run = {r1, r2}
  Dir = {"tmp"}
  DirOf <- OneDir
  Exp = {"e1", "e2", "e3", "e4"}
  Id = {"e1", "e2", "e3", "e4"}
  IdOf <- MCIdOf
  Toxic = {"k1", "k2"}
  Faults <- MCFaults
  MaxFaults = 2
  Lag = {0}
  Failures = {"tmp", "refused", "lost", "pumba", "restart", "crash", "db"}
INVARIANTS
  SerialInv
  NoOverlap
  NoBleed
  InterferenceIsLabelled
  OkRowsComplete
PROPERTIES
  RowsOnlyAfterTimeline
  ImplementsContract
SYMMETRY Symmetry
