SPECIFICATION Spec
CONSTANTS
  w1 = w1
  w2 = w2
  k1 = k1
  k2 = k2
  kyc = kyc
  Wallets = {w1, w2}
  Keys = {k1, k2}
  Claims = {kyc}
  ClaimSets = {{kyc}}
  InitialKey = k1
  MaxAttestationValidity = 2
  ManualValidity = 1
  ManualCooldown = 2
  ManualRateLimit = 2
  ManualRateWindow = 3
  ValidFor = {3}
  SubmitFor = {2}
  timelockDelay = 1
  ExecutionWindow = 1
  MaxIssued = 2
  MaxPending = 1
  MaxTime = 4
SYMMETRY Symmetry
INVARIANTS
  SpentStaysSpent
  ManualGrantsRationed
  DelistedProviderFades
PROPERTIES
  NoWayAroundTheTimelock
CHECK_DEADLOCK FALSE
