SPECIFICATION Spec
CONSTANTS
  Transfer = {"t1", "t2"}
  Request = {"t1", "t2"}
  Account = {"a1", "a2"}
  From <- MCFrom
  To <- MCTo
  Amount <- MCAmount
  Opening <- MCOpening
  MaxBalance = 3
  Connections = 1
  BankFailures = {}
  Owners = {"run_file"}
  MaxLines = 1
INVARIANT NoTrafficLeft
