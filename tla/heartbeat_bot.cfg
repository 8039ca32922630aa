SPECIFICATION Spec
CONSTANTS
  Interval = 5
  SkipIfWithin = 4
  RetryWait = 1
  TxTimeout = 2
  CallTime = 1
  SendCalls = 6
  AlertAfterFailures = 3
  GapThreshold = 30
INVARIANTS
  SilenceWithinBudget
  SilenceIsAnnounced
