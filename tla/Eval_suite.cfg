SPECIFICATION Spec
CONSTANTS
  Suite = {"s1", "s2"}
  Experiment = {"a", "b"}
  Files <- MCFiles
  Other = Other
  NoRow = NoRow
  Labels <- MCLabels
  Incident <- MCIncident
  Service = {"db", "api", "web", "mail", "ads"}
  Metric = {"p99", "up"}
INVARIANTS
  TypeOK
  ResultsBacked
  EndedIsComplete
  ScopedToInvocation
  NoOrphans
  CulpritWins
