CONSTANTS
  KeyDrivers = {"input"}
SPECIFICATION KeysSpec
INVARIANT
  PressesReported
