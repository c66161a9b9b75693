\* One slot over many lives: the stored ledger is lost, recovered, closed,
\* created again; and, once outages end, a spent slot is released.
SPECIFICATION FairSpec
CONSTANTS
  Slots = {0}
  Merchants = {m1}
  Amounts = {1}
  Callers = {ui}
  SendWindow = 2
  SpendLimit = 3
  SpendWindow = 3
  CommitOnResolve = TRUE
  Faults = {"storageLoss", "rpcFailure"}
  NULL = NULL
  MaxClock = 3
  MaxNonce = 3
  MaxReservations = 3
INVARIANTS
  NoDoubleSign
  NoDepositForgotten
PROPERTIES
  RearmIsEarned SpentIsReleased
CHECK_DEADLOCK FALSE
