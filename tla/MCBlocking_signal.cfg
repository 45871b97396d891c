CONSTANTS
  Blocking    = {r1}
  Polling     = {}
  Nonblocking = {}
  Writers     = {w1}
  Signals     = TRUE
  CopyFaults  = FALSE
SPECIFICATION Spec
SYMMETRY Symmetry
INVARIANT
  BlocksUntilCondition
