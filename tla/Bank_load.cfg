SPECIFICATION FairSpec
CONSTANTS
  Transfer = {"t1", "t2"}
  Request = {"t1", "t2"}
  Account = {"a1", "a2"}
  From <- MCFrom
  To <- MCTo
  Amount <- MCAmount
  Opening <- MCOpening
  MaxBalance = 3
  Connections = 1
  BankFailures = {"lost", "stall", "kill"}
  Owners = {"main", "run_file"}
  MaxLines = 1
INVARIANTS
  LoadedInv
  EachCountedOnce
  MoneyAccounted
PROPERTIES
  KeepsTransferContract
  RequestsEnd
