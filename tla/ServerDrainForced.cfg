SPECIFICATION FairSpec
CONSTANTS
  Conns <- TwoConns
  Reqs <- OneReq
  Owner <- OnFirst
  MaxConnections = 2
  MaxInFlight = 1
PROPERTIES
  ForcedDrainCloses
CHECK_DEADLOCK FALSE
