SPECIFICATION Spec
CONSTANTS
  rd = rd
  wr = wr
  both = both
  rd2 = rd2
  wr2 = wr2
  NoEvent = NoEvent
  Event = {rd, wr, both, rd2, wr2}
  Fd = {0, 2}
  FdOf <- MCFdOf
  Interest <- MCInterest
  InitNfiles = 1
  InitNevents = 1
  MaxNevents = 2
  Timeval <- MCTimeval
  MsPerSec = 10
  UsecPerMs = 10
  IntHalf = 128
  MaxWait = 40
INVARIANTS NoDangling KernelAgrees InsertedIsHeard WaitReachesDeadline
PROPERTIES OperationFits ImplementsBackend
