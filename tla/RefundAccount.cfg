SPECIFICATION Spec
CONSTANTS
  Amounts <- SomeAmounts
  Terms <- SomeTerms
  MaxAgain = 3
INVARIANTS
  NeverMoreThanPaid
  FollowsPolicy
