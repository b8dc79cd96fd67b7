\* Editing, building, locking and serving a contract.
SPECIFICATION Spec
CONSTANTS
  None = None  Error = Error  Unsupported = Unsupported
  Msg = Msg  Kind = Kind  Mode = Mode  Event = Event
  alpha = alpha  beta = beta  gamma = gamma
  Get = Get  Watch = Watch  Clash = Clash
  sig = sig  read = read
  Decls = {Msg, Kind, Mode, Event}
  Enums = {Kind, Mode}
  CodeFirst = {Msg, Kind, Mode}
  EventDecls = {Event}
  Methods = {Get, Watch, Clash}
  FieldNames = {alpha, beta, gamma}
  ValidScopes = {read}
  ProtobufInternal = {3}
  MaxNumber = 6
  Types <- MCTypes
  ValueType <- Plain
  UpperSnake <- MCUpperSnake
  Protos <- MCProtos
  Rpcs <- MCRpcs
  WireId <- MCWireId
  RawRoutes <- MCRawRoutes
  Plans <- MCPlans
INVARIANTS
  TypeOK
  LockRemembers
  NeverReused
  AdditiveEditsPass
  CoverIsExact
  RouterServesContract
CHECK_DEADLOCK FALSE
