SPECIFICATION Spec
CONSTANTS
  Items = 2
  Counts <- OneOrFour
  MaxPending = 3
  MaxLong = 4
CHECK_DEADLOCK FALSE
INVARIANTS
  ErrorEndsStream
