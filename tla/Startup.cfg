CONSTANTS
  MaxInt = 7
  Millisecond = 3
  MaxPort = 6
  DefaultPort = 5
  DefaultTimeout = 2
  DefaultRetries = 2
  Empty = Empty
  Garbage = Garbage
SPECIFICATION Spec
INVARIANTS
  StartsAsDocumented
CHECK_DEADLOCK FALSE
