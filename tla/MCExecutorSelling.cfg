SPECIFICATION TradingSpec
CONSTANTS
  Asset = {tsla, nvda}
  Account = {owner}
  FeeAddress = {admin}
  NoFeeAddress = none
  MAX_FEE_BPS = 0
  Guard = guard
  This = executor
  Collector = collector
  Market = market
  Cash = usdg
  Leg <- WeightedLeg
  ExitLeg <- WeightedExitLeg
  Permit <- WeightedPermit
  PoolOut = {2, 3}
  Shortfall = {0}
  InitialCash = 4
  InitialUnits <- WeightedUnits
  MAX_LEGS = 2
  Policy <- WeightedPolicy
  TriggerList <- MCNone
  Fill <- MCNoFill
  Holdings <- MCNoHoldings
  Reading <- WeightedReading
  UnitOf <- MCUnitOf
  CASH_UNIT = 100
  HOUR = 1
  MAX_MAX_AGE = 1
  DEFAULT_MAX_AGE = 1
  MAX_ASSETS = 2
  MAX_TRIGGERS = 1
  MAX_MANDATES = 1
  MAX_VERSION = 1
  MAX_RECEIPTS = 3
  MAX_FILLS = 1
  MAX_TIME = 2
  Want = {200, everything}
  Everything = everything
  Start <- MCStart
  Pools <- MCPools
  GAS_RESERVE = 10
  LEAST_GAS = 5
  TX_GAS = 1
  MaxSwapRuns = 2
  MaxPoolMoves = 1
  TIERS = 2
  Book <- MCBook
  Derived <- MCDerived
  LAST_ID = 2
  Request <- MCRequest
  Observed <- MCObserved
  Terms <- MCTerms
  HELD = 20000
  FEE_BPS = 50
  MAX_AGE = 1
  LIFE = 1
  MaxTime = 3
  MaxMoves = 2
INVARIANTS
  SellingNeverBreachesTheWeights
