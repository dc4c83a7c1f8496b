CONSTANTS
  Form = {x, y}
  Flow = {f}
  Approved = {"cash"}
  MaxAsks = 2
  MaxPending = 1
  MaxNonce = 1
SPECIFICATION TradeSpec
INVARIANT ThePlanIsTheForms
CHECK_DEADLOCK FALSE
