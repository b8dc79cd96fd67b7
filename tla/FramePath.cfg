SPECIFICATION Spec
CONSTANTS
  slow = slow
  quick = quick
  Nothing = Nothing
  Conns <- MCConns
  Stalled <- MCStalled
  Scenes <- MCScenes
  Server <- MCServer
  Events <- MCEvents
  ValidNames <- MCNames
  UserKey = 99
  MaxEntries = 2
  MaxValue = 25
  MinPayload = 40
  MinSavings = 24
  MaxRatio = 4
  ErrorLen = 6
  StatusLen = 32
  RequestBytes = 80
  ResponseBytes = 245
  ConnectionBytes = 145
  DecodedBytes = 60
  BatchFrames = 2
  BatchBytes = 110
  HubCapacity = 1
  MaxScript = 3
CHECK_DEADLOCK FALSE
INVARIANTS
  TypeOK
  BytesExact
  PeerAccepts
  MetadataCanonical
  AnsweredOnce
  BatchingHarmless
PROPERTY HealthyServed
