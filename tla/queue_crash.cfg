SPECIFICATION Spec
CONSTANTS
  Auths = {p1, p2}
  Fresh = {}
  Tiers = {"T0", "T2"}
  Amounts = {1}
  Callers = {m1}
  ReceiptCap = 1
  ExposureCap = 1
  MaxFailed = 2
  SendWindow = 1
  CommitOnResolve = TRUE
  Faults = {"crash", "rpcFailure"}
  NULL = NULL
  MaxClock = 1
  MaxDrains = 1
SYMMETRY AuthSymmetry
VIEW WithoutWhatWasTold
INVARIANTS TypeOK ServedOnce SettledHasLanded
PROPERTIES T0HandsOverSettled FinalStaysFinal
CHECK_DEADLOCK FALSE
