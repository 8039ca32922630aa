SPECIFICATION Spec
CONSTANTS
  a1 = a1
  usd = usd
  Assets = {a1}
  Loan = usd
  FeeTiers = {500, 3000}
  Terms <- ShortTerms
  Fees <- MCFees
  Year = 1
  Hour = 1
  InKindDelay = 5
  InKindLenderPeriod = 1
  Configs <- OneConfig
  AssetGrace <- NoGrace
  MaxAssetGrace = 1
  Tiers = {0, 1}
  MaxExposureBps <- FullExposure
  PoolTerms <- MCPoolTerms
  Reserves = {3}
  Quotes <- MovingQuotes
  LongHistory <- AllHistories
  Refusals <- NoRefusals
  Clawable = {}
  OutageLengths = {}
  HeartbeatTimes = {}
  TradeSizes = {2, 5}
  Slip = 0
  MaxGifts = 1
  MaxCash = 14
  MaxTime = 4
INVARIANTS
  DepositSegregated
  PositionRecorded
PROPERTIES
  TradeKeepsValue

CHECK_DEADLOCK FALSE
