SPECIFICATION FairSpec
CONSTANTS
  a = a
  b = b
  Callers <- MCCallers
  BacklogSize = 2
  SubBuffer = 2
  MaxSeq = 3
  MaxLog = 3
CHECK_DEADLOCK FALSE
INVARIANTS RegistryAgrees NothingSlipsThrough ArrivalsMatchDepartures
PROPERTIES ImplementsBroadcast LeavingCompletes
