\* Two slots: crashes and failing writes at every step.
SPECIFICATION Spec
CONSTANTS
  Slots = {0, 1}
  Merchants = {m1}
  Amounts = {1, 2}
  Callers = {ui}
  SendWindow = 2
  SpendLimit = 2
  SpendWindow = 2
  CommitOnResolve = TRUE
  Faults = {"crash", "writeFailure", "rpcFailure"}
  NULL = NULL
  MaxClock = 2
  MaxNonce = 2
  MaxReservations = 2
INVARIANTS
  TypeOK
  NoDoubleSign
  OutstandingNeverOffered
  SpendBounded
PROPERTIES
  OnlyTimeRefills
  RearmIsEarned
  SignsAsPromised
CHECK_DEADLOCK FALSE
