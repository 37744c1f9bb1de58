SPECIFICATION Spec
CONSTANTS
  Requests = {1, 2}
  Keys = {"ka"}
  KeyOf <- OneKey
  Bodies = {a, b}
  Bookings = {1, 2}
  Customers = {"ann"}
  CustomerOf <- BothByAnn
  Cars = {x, y}
  Stock <- OneUnit
  TierPolicy = TRUE
  Limit <- OneEach
  MoveTo = {"PAID", "READY_FOR_PICKUP", "IN_PROGRESS", "CANCELLED", "ALTERNATIVE_SUGGESTED"}
  Workers = {1, 2, s}
  NoCar = none
  Nobody = nobody
SYMMETRY Alike
INVARIANTS TypeOK NeverOverbooked ExposureCap OneBookingPerKey AnswersAgree
CHECK_DEADLOCK FALSE
