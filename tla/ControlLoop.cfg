SPECIFICATION FairControlSpec
CONSTANTS
  NumWorkers = 2
  MaxCacheId = 2
  MaxPasses = 3
  NetTurbo = TRUE
  KilledAt = {"serve", "poll", "running"}
INVARIANTS
  ControlTypeOK
  WholePackets
  WorkersFollow
  LoadsFindTheirRows
PROPERTIES
  ForwardReturns
  WorkersLeave
CHECK_DEADLOCK FALSE
