SPECIFICATION MCSpec
CONSTANTS
  Keys <- MCKeys
  Calls <- MCCalls
  Capacity = 2
  Ttl = 1
  MaxTime = 1
  Determinate = {"done"}
  Nil = Nil
INVARIANTS
  TypeOK
  CacheBounded
  CompletedExact
  CompletionOrdered
  OneRunPerKey
PROPERTIES
  EarlyDropOnlyUnderPressure
  OverloadedOnlyWhenPinned
  WaiterServed
  ImplementsSingleFlight
CHECK_DEADLOCK FALSE
