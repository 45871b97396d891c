CONSTANTS
  Files      = {f1, f2, f3, f4}
  MaxMisuses = 3
SPECIFICATION Spec
INVARIANTS
  TypeOK
  LockUntilMisused
  HoldersBounded
  NeverLockedOut
PROPERTY
  ImplementsLock
