SPECIFICATION Spec
CONSTANTS
  MinGapThreshold = 1
  MaxRecovery = 3
  MaxExtension = 4
  MinTwapWindow = 1
  MaxTwapWindow = 3
  InitialConfig <- MCInitialConfig
  Settings = {0, 1, 3}
  Deadlines = {1, 2, 4}
  Graces = {0, 2}
  MaxTime = 10
INVARIANTS
  WalkAgrees
  RecoveryCoversTwap
PROPERTIES
  HeartbeatNeverShortens
CHECK_DEADLOCK FALSE
