SPECIFICATION Spec
CONSTANTS
  MaxConf = 2
  MaxTerm = 2
  MaxNak = 1
  IdMod = 3
  MaxNet = 3
  MaxEvents = 3
  MaxFaults = 2
  Rejects = FALSE
INVARIANT UpExact
CHECK_DEADLOCK FALSE
