CONSTANTS
  MaxMandates = 2
  MaxSends = 3
  Rules = {"gap"}
  Symbol = {"A", "B"}
  UNIT = 2
  HOUR = 1
  Theses <- MCTheses
  Expressing <- MCExpressing
  Seen <- MCSeen
SPECIFICATION Spec
INVARIANTS
  AFirstMandateIsNeverAnOlderOne
  TheRulesSayWhatTheThesisSays
PROPERTIES
  UnracedEditsKeepTheRest
  CreatingEnds
CHECK_DEADLOCK FALSE
