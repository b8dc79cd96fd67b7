SPECIFICATION Spec
CONSTANTS
  Conns <- TwoConns
  Reqs <- OneReq
  Owner <- OnFirst
  MaxConnections = 2
  MaxInFlight = 1
INVARIANTS
  DrainTrueMeansIdle
CHECK_DEADLOCK FALSE
