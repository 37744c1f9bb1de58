SPECIFICATION FairSpec
CONSTANTS
  Events = {1, 2}
  Poison = {1}
  Passes = {p, q}
  BatchSize = 2
  NoPass = none
INVARIANTS TypeOK ProcessedWasApplied HeldByOne
PROPERTIES ProcessedIsFinal EventsSettle
CHECK_DEADLOCK FALSE
