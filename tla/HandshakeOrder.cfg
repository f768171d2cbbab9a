SPECIFICATION HandshakeSpec
CONSTANT NumWorkers = 3
INVARIANT
  SocketsInOrder
CHECK_DEADLOCK FALSE
