CONSTANTS
  Samples = {"first", "second"}
SPECIFICATION MotionSpec
INVARIANT
  ReadsSample
