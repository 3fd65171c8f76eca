SPECIFICATION Spec
CONSTANTS
  RbSize = 8
  LowBase = 2
  WordSize = 32
  MaxBytes = 14
  Ahead = 5
INVARIANT IndexStaysInRing
CHECK_DEADLOCK FALSE
