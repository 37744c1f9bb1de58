SPECIFICATION FairSpec
CONSTANTS
  Entries = {1, 2, 3}
  Deposits = {1, 3}
  Unpayable = {3}
  Jobs = {p, q}
  NoJob = none
INVARIANTS TypeOK PaidOnce RowAgreesWithStripe
PROPERTY EntriesSettle
CHECK_DEADLOCK FALSE
