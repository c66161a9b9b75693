SPECIFICATION RpcFairSpec
CONSTANTS
  Auths = {p1, p2}
  Fresh = {p2}
  Tiers = {"T1"}
  Amounts = {1}
  Callers = {m1}
  ReceiptCap = 1
  ExposureCap = 1
  MaxFailed = 2
  SendWindow = 1
  CommitOnResolve = TRUE
  Faults = {"rpcFailure", "drop", "crash"}
  NULL = NULL
  MaxClock = 1
  MaxDrains = 2
  Attempts = 3
  Polls = 1
INVARIANTS SettledHasLanded
PROPERTIES T1WasBacked EveryPaymentResolves ImplementsQueue SendEnds
CHECK_DEADLOCK FALSE
