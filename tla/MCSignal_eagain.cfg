CONSTANTS
  Readers    = {r1, r2}
  Writers    = {w1}
  CopyFaults = FALSE
SPECIFICATION Spec
SYMMETRY Symmetry
INVARIANT
  EagainMeansNoData
