SPECIFICATION FairSyncSpec
CONSTANTS
  NumNodes = 3
  NumThreads <- MCThreads
  BatchSize = 2
  Syncs <- MCSyncs
  Units = 2
  Capacity = 2
INVARIANTS
  SyncTypeOK
  SocketsPartitioned
  SlicesGathered
  WireIsClean
PROPERTIES
  GathersInOrder
  ForwardEnds
CHECK_DEADLOCK FALSE
