SPECIFICATION Spec
CONSTANTS
  Auths = {p1, p2}
  Fresh = {}
  Tiers = {"T1"}
  Amounts = {1}
  Callers = {m1, m2}
  ReceiptCap = 1
  ExposureCap = 1
  MaxFailed = 2
  SendWindow = 1
  CommitOnResolve = TRUE
  Faults = {"crash", "writeFailure", "drop"}
  NULL = NULL
  MaxClock = 1
  MaxDrains = 1
SYMMETRY Symmetry
INVARIANTS ServedOnce AtRiskBounded NothingHandedIsForgotten
CHECK_DEADLOCK FALSE
