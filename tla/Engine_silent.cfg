SPECIFICATION Spec
CONSTANTS
  NoParent = NoParent
  Service = {1, 2}
  SpanId = {1, 2, 3, 4, 5, 6}
  MaxDepth = 2
  SlowMs = 200
  K = 3
  MinBaseline = 2
  Queried = 1
  From = 3
  Attempts = 3
  Traces <- FewTraces
  LogSets <- MCLogSets
  Series <- MCSeries
  NoError = NoError
INVARIANTS
  NoSilentLoss
