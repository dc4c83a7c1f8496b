SPECIFICATION LimitsSpec
CONSTANTS
  Asset = {tsla}
  Account = {owner}
  Guard = guard
  Policy <- MCPolicy
  TriggerList <- MCTriggerList
  Fill <- MCFill
  Holdings <- MCHoldings
  Reading <- MCReading
  UnitOf <- MCUnitOf
  CASH_UNIT = 100
  HOUR = 1
  MAX_MAX_AGE = 9
  DEFAULT_MAX_AGE = 9
  MAX_ASSETS = 1
  MAX_TRIGGERS = 1
  MAX_MANDATES = 1
  MAX_VERSION = 2
  MAX_RECEIPTS = 4
  MAX_FILLS = 2
  MAX_TIME = 5
  Pools <- MCPools
  Legs <- MCLegs
  Report <- MCReport
  Notional = {25}
  Requested = {80, 30}
  Seed = 4
  MaxDrifts = 1
  Worker = {"w", "v"}
  Reader = {"r", "s"}
  NAssets = 2
  Finding <- MCFinding
  Committed <- MCCommitted
  BoardInterval = 1
  Ladder = {1, 4, 12, 20, 40}
  TTL = 2
  FETCH = 1
  MaxBoards = 2
  MaxBoardTime = 3
  Runner = {"site", "dev"}
  Request <- MCRequest
  Owner = {1, 2, 3}
  Threshold = 2
  CEILING = 2
  MaxStarts = 2
  Slot <- MCSlot
  Provided <- MCProvided
  RatioAt <- MCRatioAt
  MIN_TICK <- MCMinTick
  MAX_TICK = 8
  SPACING = 2
  WORD = 2
  WORD_WINDOW = 1
  CHUNK = 2
  PRICE_ONE = 40
  FEE = 3
  PIPS = 1000
  Offered = {2, 37, 90, 4000}
  MaxPoolTurns = 1
CONSTRAINT Effort
INVARIANTS
  SlidingWindowBudget
  SizesFitAndLast
  AllowedLegsPassTheContract
  RungsAgreeWithTheCapacity
  AnswersAreRecent
  ReceiptsObeyTheirVersion
  ConfirmedChangesAreTheRuns
  QuotesAreWhatThePoolPays
  NothingBeatsTheSpot
PROPERTIES
  OnlyBlindWritersUnprice
CHECK_DEADLOCK FALSE
