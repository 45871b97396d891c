CONSTANTS
  Files      = {f1, f2}
  MaxMisuses = 1
SPECIFICATION Spec
SYMMETRY Symmetry
INVARIANT
  MutualExclusion
