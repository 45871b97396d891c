CONSTANTS
  WireDriver   = "ds18b20"
  Temperatures = {0, 863, 864, 879, 880, 881, 888, 1281, 2880}
  PulseDelay   = 13
  SampleDelay  = 1
  Clients      = {c1, c2, c3}
  Angles       = {90}
  KeyDrivers   = {"dtb", "irt_work", "irt_irq", "input"}
  Words        = {255, 16143, 34307}
  Garbage      = {0, 255}
  Samples      = {"first", "second"}
SPECIFICATION Spec
INVARIANTS
  TypeOK
  CommandsHeard
  ReadsTemperature
  IdleIsOff
  AloneIsServed
  WorkIsGone
  WorkNeverStops
  ShowsMeasurements
PROPERTIES
  LedFollowsKeys
  HeldKeyShows
  PressShows
  RemovalEnds
