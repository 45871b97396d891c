CONSTANTS
  Crews       = {{"simple_io"}}
  FaultyCrews = {}
  Nodes       = {}
SPECIFICATION Spec
INVARIANT
  ReleasedOnce
