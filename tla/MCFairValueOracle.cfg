SPECIFICATION ChainSpec
CONSTANTS
  Asset = {tsla}
  Address = {alice}
  NoAddress = nobody
  Value <- MCValue
  GapRisk <- MCGapRisk
  Measure <- MCMeasure
  MAX_JUMP_BPS = 2000
  JUMP_CONFIRM_DELAY = 2
  PENDING_TTL = 4
  ANCHOR_MAX_AGE = 6
  MAX_MAX_AGE = 2
  DEFAULT_MAX_AGE = 1
  MAX_BATCH = 2
  MAX_TIME = 10
  Thesis = {"x"}
  Recordable <- MCRecordable
  MaxReceipts = 3
  MaxSeconds = 2
  CYCLE = 3
  Bundle = {"p", "q"}
  Machine = {"site", "dev"}
  Archiving = {"site", "dev"}
  Writing = {"dev"}
  MaxSpoils = 2
  Held = {x, y}
  MaxGets = 2
  TTL = 2
  SPAN = 1
  FRESH = 1
  GAS_PER_RUN = 2
  RUNWAY_WARN_RUNS = 3
  Purse <- MCPurse
  MaxHealthTime = 3
  MaxTurns = 2
INVARIANTS
  OnlyAdmittedValuesExecute
  ThePageSaysWhatHappened
  KeptBundlesVerify
  ServedAnswersAreRecent
PROPERTIES
  JumpCostsTheDelay
  ImplementsFeed
CHECK_DEADLOCK FALSE
