SPECIFICATION SceneSpec
CONSTANTS
  Asset = {tsla}
  Account = {owner}
  Guard = guard
  Policy <- MCPolicy
  TriggerList <- MCTriggerList
  Fill <- MCFill
  Holdings <- MCHoldings
  Reading <- MCReading
  UnitOf <- MCUnitOf
  CASH_UNIT = 100
  HOUR = 1
  MAX_MAX_AGE = 1
  DEFAULT_MAX_AGE = 1
  MAX_ASSETS = 2
  MAX_TRIGGERS = 2
  MAX_MANDATES = 1
  MAX_VERSION = 2
  MAX_RECEIPTS = 3
  MAX_FILLS = 2
  MAX_TIME = 3
  Symbol = {1}
  Mid = {1}
  MIN_JUMPS = 2
  MaxTapeTime = 5
INVARIANTS
  PositionsReplayFromReceipts
  EveryJumpIsAnOpen
PROPERTIES
  NoEntryPastAFiredTrigger
