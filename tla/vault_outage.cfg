SPECIFICATION Spec
CONSTANTS
  a1 = a1
  usd = usd
  Assets = {a1}
  Loan = usd
  FeeTiers = {500}
  Terms <- ShortTerms
  Fees <- MCFees
  Year = 1
  Hour = 1
  InKindDelay = 9
  InKindLenderPeriod = 1
  Configs <- OutageConfigs
  AssetGrace <- OneTickGrace
  MaxAssetGrace = 1
  Tiers = {0}
  MaxExposureBps <- FullExposure
  PoolTerms <- MCPoolTerms
  Reserves = {3}
  Quotes <- ThinQuotes
  LongHistory <- AllHistories
  Refusals <- NoRefusals
  Clawable = {}
  OutageLengths = {3}
  HeartbeatTimes = {2, 4, 6, 8, 10, 12}
  TradeSizes = {6}
  Slip = 0
  MaxGifts = 0
  MaxCash = 13
  MaxTime = 14
PROPERTIES
  GraceNotSpentInOutage
  StalePriceHeldOff
CHECK_DEADLOCK FALSE
