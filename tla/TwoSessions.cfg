SPECIFICATION Spec
CONSTANTS
  Workers = {w1, w2}
  Operations = { "accept", "checkout", "applyPaid", "cancelCustomer", "sweep" }
  Deposit = 3
  Balance = 5
  PartialRefund <- HalfDeposit
  NeedsLicence = TRUE
  MaxSessions = 2
  MaxDocuments = 1
INVARIANTS
  PartsAddUp
  LedgerMatchesPayment
  OnlySurplusIsDropped
CHECK_DEADLOCK FALSE
