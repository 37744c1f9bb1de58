SPECIFICATION Spec
CONSTANTS
  Workers = {w1}
  Operations <- AllOperations
  Deposit = 3
  Balance = 5
  PartialRefund <- HalfDeposit
  NeedsLicence = TRUE
  MaxSessions = 0
  MaxDocuments = 2
INVARIANT ReadyHasLicence
PROPERTY ClosingReturnsTheBalance
CHECK_DEADLOCK FALSE
