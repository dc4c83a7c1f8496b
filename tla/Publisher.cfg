\* One asset, admitted and with recorded gaps; a worker that gives up after two failures;
\* time in publish intervals. HEARTBEAT_MAX_AGE is two and a half intervals in the code, so
\* an age of 2 is alive and 3 is not; the oracle's maxAge of 900 s lies between 1 and 2.
CONSTANTS
  Asset = {"AAPL"}
  Admitted = {"AAPL"}
  Measured = {"AAPL"}
  MarketKind = {"good", "shut", "crossed"}
  MAX_CONSECUTIVE_FAILURES = 2
  INTERVAL = 1
  CYCLE_SPAN = 1
  HEARTBEAT_MAX_AGE = 2
  MAX_AGE = 1
  Tears = FALSE
SPECIFICATION Spec
INVARIANTS
  ClosedVerdictIsRecent
  OnlyCheckedValuesLand
PROPERTIES
  FeedRecovers
  ClosedMarketIsNamed
