SPECIFICATION Spec
CONSTANTS
  Merchants = {m1, m2}
  Payers = {p1}
  usd = usd
  eur = eur
  Mints = {usd, eur}
  Amounts = {a1, a2}
  Lifetimes = {"nonce", "fresh"}
  FirstMints <- MCMints
  NULL = NULL
  MaxIssued = 2
  MaxSigned = 1
  MaxChanges = 1
SYMMETRY Symmetry
INVARIANTS TypeOK ConfirmsWhatWasIssued AcceptedWasAgreed AnswerIsAccepted ImmutableVerdictHolds
CHECK_DEADLOCK FALSE
