SPECIFICATION BufSpec
CONSTANTS
  EvRead = EvRead
  EvWrite = EvWrite
  pipe = pipe
  NoEvent = NoEvent
  Event = {EvRead, EvWrite, pipe}
  SigPipe = pipe
  Once = {}
  Persist = {pipe}
  Manual = {}
  ByHand = {"WRITE"}
  Interest <- MCInterest
  NPri = 1
  Timeouts = {}
  MaxCalls = 1
  MaxClock = 2
  Marks <- MCMarks
  LowMarks = {1}
  Secs <- MCSecs
  MaxInput = 2
  MaxOutput = 2
INVARIANTS ReadingGoesOn OutputGoesOut
PROPERTIES ImplementsDuplex
