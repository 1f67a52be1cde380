SPECIFICATION Spec
CONSTANTS
  Boundary = 6
  Period = 3
  Threshold = 2
  MaxPlay = 4
  Repair = 2
  MaxFrame = 8
  RecBoundary = 4
  RecPeriod = 2
  MaxRecord = 5
  MaxRecorded = 9
  Size = 2
  MaxConf = 2
  MaxTerm = 2
  MaxNak = 1
  IdMod = 3
  Rejects = TRUE
  MaxNet = 3
  MaxEvents = 3
  MaxFaults = 1
INVARIANTS
  TypeOK
  StreamsSound
  MusicAwake
  LinkExact
PROPERTIES
  NothingTwice
  WaitsEnd
CHECK_DEADLOCK FALSE
