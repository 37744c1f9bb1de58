SPECIFICATION StockSpec
CONSTANTS
  Bookings = {1, 2}
  Customers = {"ann", "bob"}
  CustomerOf <- AnnAndBob
  Cars = {x}
  Stock <- OneUnit
  TierPolicy = TRUE
  Limit <- OneEach
  MoveTo = {"PAID", "READY_FOR_PICKUP"}
  Workers = {w}
  NoCar = none
  Nobody = nobody
INVARIANT LastCarGoesOnce
CHECK_DEADLOCK FALSE
