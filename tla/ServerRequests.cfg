SPECIFICATION ServingSpec
CONSTANTS
  Conns <- OneConn
  Reqs <- TwoReqs
  Owner <- BothOnOne
  MaxConnections = 1
  MaxInFlight = 1
INVARIANTS
  TypeOK
  AnsweredBeforeGoodbye
  PermitsExact
  NoWorkAfterDrain
PROPERTIES
  DrainCloses
CHECK_DEADLOCK FALSE
