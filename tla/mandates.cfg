SPECIFICATION Spec
CONSTANTS
  ann = ann
  bob = bob
  Anyone = Anyone
  Wallets = {ann, bob}
  Lenders = {ann}
  Borrowers = {bob}
  Offers <- OneOffer
  DirectTerms <- Direct
  Tiers = {0}
  RiskConfigs <- RiskChoices
  Coefficients = {18000}
  SkimRates = {5000, 10000}
  Durations = {1}
  Year = 4
  Day = 1
  RootScale = 10
  Principals = {2, 3}
  Tenors = {3}
  Deposits = {2}
  Limits = {20000}
  Screened <- BobScreened
  Funds <- MCFunds
  Allowances = {6}
  MaxMandates = 1
  MaxVaults = 2
  MaxNonce = 1
  MaxTime = 2
INVARIANTS
  CapacityBoundsAllFills
  PriceSurface
  FloorFollowsRootOfTerm
  PoolIsPaid
PROPERTIES
  WithdrawnStaysWithdrawn
CHECK_DEADLOCK FALSE
