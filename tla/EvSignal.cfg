SPECIFICATION FairSpec
CONSTANTS
  p1 = p1
  n1 = n1
  p2 = p2
  Loop = Loop
  Other = Other
  Event = {p1, n1, p2}
  NSig = 2
  SigOf <- MCSigOf
  Persist = {p1, p2}
  Thread = {Loop, Other}
  PipeCap = 2
  MaxCount = 2
  Overlap = FALSE
  Polls = FALSE
INVARIANTS OwedIsOnItsWay NoSleepOnSignal PipeHasByte DispositionsKept
PROPERTIES SignalIsAnswered
