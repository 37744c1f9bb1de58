SPECIFICATION Spec
CONSTANTS
  Refunds = {1}
  Part <- BalanceOnly
  Amount <- Two
  PaidWith <- TwoCharges
  Captured <- PartlyReturned
  Clerks = {"clerk"}
  Faults = {"lost", "payout", "dashboard"}
  MaxStripe = 3
INVARIANTS TypeOK OneRefundPerCharge NeverMoreThanOwed
CHECK_DEADLOCK FALSE
