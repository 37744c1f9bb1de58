SPECIFICATION FairSpec
CONSTANTS
  Jobs = {1, 2}
  Kind <- EventAndMail
  Recipients <- NobodyAndAnn
  Workers = {v, w}
  MaxAttempts = 2
  BatchSize = 2
INVARIANTS TypeOK HeldByOne RunsAreLimited MailedOnce
PROPERTIES KeepsPromise JobsEnd
CHECK_DEADLOCK FALSE
