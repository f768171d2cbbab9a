SPECIFICATION FairHandshakeSpec
CONSTANT NumWorkers = 5
INVARIANTS
  HandshakeTypeOK
  RootSocketIsRoot
  FullMesh
  WorkersFindEachOther
PROPERTY
  NetworkComesUp
CHECK_DEADLOCK FALSE
