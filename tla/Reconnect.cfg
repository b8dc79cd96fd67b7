SPECIFICATION Spec
CONSTANTS
  unary = unary
  stream = stream
  lx = lx
  ly = ly
  None = None
  Conns <- MCConns
  Calls <- MCCalls
  Streams <- MCStreams
  Listeners <- MCListeners
  Plans <- MCPlans
  MaxInFlight = 1
INVARIANTS
  TypeOK
  NeverStranded
  OneConnection
  RetainedHeard
  NoneLeftBehind
PROPERTY
  CallsSettle
CHECK_DEADLOCK FALSE
