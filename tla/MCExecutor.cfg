SPECIFICATION ExecutorSpec
CONSTANTS
  Asset = {tsla}
  Account = {owner}
  FeeAddress = {admin}
  NoFeeAddress = none
  MAX_FEE_BPS = 50
  Guard = guard
  This = executor
  Collector = collector
  Market = market
  Cash = usdg
  Leg <- MCLeg
  ExitLeg <- MCExitLeg
  Permit <- MCPermit
  PoolOut = {2, 180}
  Shortfall = {0, 1}
  InitialCash = 500
  InitialUnits <- MCUnits
  MAX_LEGS = 2
  Policy <- MCPolicy
  TriggerList <- MCNone
  Fill <- MCNoFill
  Holdings <- MCNoHoldings
  Reading <- MCReading
  UnitOf <- MCUnitOf
  CASH_UNIT = 1
  HOUR = 1
  MAX_MAX_AGE = 1
  DEFAULT_MAX_AGE = 1
  MAX_ASSETS = 1
  MAX_TRIGGERS = 1
  MAX_MANDATES = 1
  MAX_VERSION = 1
  MAX_RECEIPTS = 3
  MAX_FILLS = 1
  MAX_TIME = 3
  Want = {200, everything}
  Everything = everything
  Start <- MCStart
  Pools <- MCPools
  GAS_RESERVE = 10
  LEAST_GAS = 5
  TX_GAS = 1
  MaxSwapRuns = 2
  MaxPoolMoves = 1
  TIERS = 2
  Book <- MCBook
  Derived <- MCDerived
  LAST_ID = 2
  Request <- MCRequest
  Observed <- MCObserved
  Terms <- MCTerms
  HELD = 20000
  FEE_BPS = 50
  MAX_AGE = 1
  LIFE = 1
  MaxTime = 3
  MaxMoves = 2
INVARIANTS
  RecordReplaysTheWallet
  PlansKeepTheirTerms
  ResumedRunsAreExact
PROPERTIES
  NothingLeavesUnsigned
CHECK_DEADLOCK FALSE
