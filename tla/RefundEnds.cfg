SPECIFICATION FairSpec
CONSTANTS
  Refunds = {1}
  Part <- DepositOnly
  Amount <- One
  PaidWith <- TwoCharges
  Captured <- CapturedInTwo
  Clerks = {}
  Faults = {"lost", "dies"}
  MaxStripe = 2
PROPERTIES KeepsPromise StuckRefundsEnd
CHECK_DEADLOCK FALSE
