SPECIFICATION Spec
CONSTANTS
  a1 = a1
  a2 = a2
  usd = usd
  Assets = {a1, a2}
  Loan = usd
  FeeTiers = {500}
  Terms <- ShortTerms
  Fees <- MCFees
  Year = 1
  Hour = 1
  InKindDelay = 1
  InKindLenderPeriod = 1
  Configs <- OneConfig
  AssetGrace <- NoGrace
  MaxAssetGrace = 1
  Tiers = {0}
  MaxExposureBps <- FullExposure
  PoolTerms <- MCPoolTerms
  Reserves = {3}
  Quotes <- KindQuotes
  LongHistory <- AllHistories
  Refusals <- FrozenFirst
  Clawable <- FirstAsset
  OutageLengths = {}
  HeartbeatTimes = {}
  TradeSizes = {4}
  Slip = 0
  MaxGifts = 0
  MaxCash = 13
  MaxTime = 5
PROPERTIES
  InKindHandsOver
  InKindLenderFirst
  KeepsPromise
CHECK_DEADLOCK FALSE
