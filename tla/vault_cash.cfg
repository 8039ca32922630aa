SPECIFICATION Spec
CONSTANTS
  a1 = a1
  usd = usd
  Assets = {a1}
  Loan = usd
  FeeTiers = {500}
  Terms <- MCTerms
  Fees <- MCFees
  Year = 2
  Hour = 1
  InKindDelay = 5
  InKindLenderPeriod = 1
  Configs <- TwoConfigs
  AssetGrace <- NoGrace
  MaxAssetGrace = 1
  Tiers = {0}
  MaxExposureBps <- FullExposure
  PoolTerms <- MCPoolTerms
  Reserves = {0, 8}
  Quotes <- PriceQuotes
  LongHistory <- AllHistories
  Refusals <- LenderRefused
  Clawable = {}
  OutageLengths = {}
  HeartbeatTimes = {}
  TradeSizes = {6}
  Slip = 1
  MaxGifts = 1
  MaxCash = 16
  MaxTime = 6
INVARIANTS
  InsuranceForPrincipalOnly
  OwedIsBacked
PROPERTIES
  SettlementIsFinal
  KeepsPromise
CHECK_DEADLOCK FALSE
