CONSTANTS
  Extension = {"e"}
  MaxReloads = 1
  Caller = {"a"}
  Burst = 4
  Cost = 3
  EvictAfter = 4
  MaxInFlight = 2
  MaxRequests = 3
  MaxTime = 3
  GateCaller = {"a", "b"}
  GateTime = 5
  Stages = 2
  Content = {"a", "b"}
  CONFIRMATIONS = 2
  MaxReorg = 1
  MaxLag = 1
  MaxBlocks = 4
  MaxMishaps = 2
  Deployer = deployer
  Key = {k, l}
  MaxRuns = 3
SPECIFICATION Spec
INVARIANTS
  TheSnapshotFollowsItsWallet
  NoCallerOutspendsItsRate
  TheIndexSaysWhatTheChainSays
  HandoversMayBeRepeated
PROPERTIES
  SlotsComeBack
  TheIndexCatchesUp
CHECK_DEADLOCK FALSE
