SPECIFICATION Spec
CONSTANTS
  Workers = {w1, w2}
  Operations <- CardOperations
  Deposit = 3
  Balance = 5
  PartialRefund <- HalfDeposit
  NeedsLicence = TRUE
  MaxSessions = 1
  MaxDocuments = 1
INVARIANTS
  TypeOK
  PaidBookingsArePaid
  CapturedMoneyIsKept
  RefundsArePaidFor
PROPERTY PaidIsFinal
CHECK_DEADLOCK FALSE
