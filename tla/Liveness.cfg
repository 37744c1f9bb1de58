SPECIFICATION FairSpec
CONSTANTS
  Workers = {w1}
  Operations <- CardAndDashboard
  Deposit = 3
  Balance = 5
  PartialRefund <- HalfDeposit
  NeedsLicence = TRUE
  MaxSessions = 1
  MaxDocuments = 1
PROPERTIES
  OverdueEnds
  CapturedMoneySettlesOrEnds
  ReturnedChargeEnds
CHECK_DEADLOCK FALSE
