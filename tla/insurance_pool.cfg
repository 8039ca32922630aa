SPECIFICATION Spec
CONSTANTS
  f1 = f1
  f2 = f2
  v1 = v1
  op = op
  typo = typo
  Nobody = Nobody
  usd = usd
  eur = eur
  treasury = treasury
  Addresses = {op, typo}
  Reachable = {op}
  Assets = {usd, eur}
  Vaults = {v1}
  Factories = {f1, f2}
  Recipients = {treasury}
  Amounts = {2}
  Principals = {10}
  Caps = {2000}
  Shares = {10000}
  InitialCap = 1000
  InitialShare = 5000
  timelockDelay = 2
  ExecutionWindow = 1
  MaxReserve = 4
  MaxGifts = 1
  MaxPending = 2
  MaxTime = 5
INVARIANTS
  ReserveBacked
  OperatorNotLost
PROPERTIES
  NeverDrained
  NoSurprises
CHECK_DEADLOCK FALSE
