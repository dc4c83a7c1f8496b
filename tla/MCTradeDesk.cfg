CONSTANTS
  Form = {x, y}
  Flow = {f, g}
  Approved = {"cash"}
  MaxAsks = 3
  MaxPending = 2
  MaxNonce = 1
  x = x
  y = y
  f = f
  g = g
  Hash = {"h", "k"}
  MaxChecks = 2
SYMMETRY Alike
CONSTRAINT Effort
SPECIFICATION Spec
INVARIANTS
  NoOverlappingFills
  UnmeasuredSalesWereAcknowledged
  ReportedThesesAreTheFirst
CHECK_DEADLOCK FALSE
