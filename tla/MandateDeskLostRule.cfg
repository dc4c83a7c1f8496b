CONSTANTS
  MaxMandates = 2
  MaxSends = 3
  Rules = {"gap"}
SPECIFICATION DeskSpec
PROPERTIES
  AddingARuleKeepsTheOthers
CHECK_DEADLOCK FALSE
