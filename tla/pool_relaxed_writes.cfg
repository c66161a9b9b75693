\* store.set resolves before the write is committed.
SPECIFICATION Spec
CONSTANTS
  Slots = {0}
  Merchants = {m1}
  Amounts = {1}
  Callers = {ui}
  SendWindow = 2
  SpendLimit = 2
  SpendWindow = 2
  CommitOnResolve = FALSE
  Faults = {"crash"}
  NULL = NULL
  MaxClock = 1
  MaxNonce = 2
  MaxReservations = 2
INVARIANTS
  NoDoubleSign
CHECK_DEADLOCK FALSE
