CONSTANTS
  WireDriver   = "simple_io"
  Temperatures = {864, 1281}
  PulseDelay   = 0
  SampleDelay  = 0
SPECIFICATION WireSpec
INVARIANT
  CommandsHeard
