SPECIFICATION FairSpec
CONSTANTS
  Client = {c1, c2}
  Fd = {5, 6}
  NoClient = NoClient
  Threads = 2
  MaxOut = 1
CHECK_DEADLOCK FALSE
INVARIANTS OwnsDescriptor BytesStayHome StopsSoon
PROPERTIES ClosedClientEnds
