SPECIFICATION Spec
CONSTANTS
  Delays = {0}
  ExecutionWindow = 1
  MaxStacks = 1
  MaxFactories = 2
  MaxSafes = 0
  MaxLoans = 2
  MaxTime = 2
  MaxRuns = 2
INVARIANTS
  RedeployGoesThrough
CHECK_DEADLOCK FALSE
