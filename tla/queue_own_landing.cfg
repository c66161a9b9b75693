SPECIFICATION Spec
CONSTANTS
  Auths = {p1}
  Fresh = {}
  Tiers = {"T2"}
  Amounts = {1}
  Callers = {m1}
  ReceiptCap = 1
  ExposureCap = 2
  MaxFailed = 2
  SendWindow = 1
  CommitOnResolve = TRUE
  Faults = {"rpcFailure"}
  NULL = NULL
  MaxClock = 1
  MaxDrains = 2
INVARIANT StaleIsNotSettled
CHECK_DEADLOCK FALSE
