SPECIFICATION Spec
CONSTANTS
  Delays = {0, 1}
  ExecutionWindow = 0
  MaxStacks = 2
  MaxFactories = 3
  MaxSafes = 1
  MaxLoans = 2
  MaxTime = 3
  MaxRuns = 4
INVARIANTS
  FactoryFitsStack
  CompleteMeansMoved
  RecordedFactoryIsWired
  ConfigRestored
  NoLoanLeftBehind
PROPERTIES
  PoolMovesForward
  SafesKept
CHECK_DEADLOCK FALSE
