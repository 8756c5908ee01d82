SPECIFICATION FairSpec
CONSTANTS
  sock = sock
  sig = sig
  tmr = tmr
  pipe = pipe
  once = once
  NoEvent = NoEvent
  Event = {sig, pipe, once}
  SigPipe = pipe
  Once = {once}
  Persist = {pipe}
  Manual = {}
  ByHand = {"WRITE"}
  Interest <- MCInterest
  NPri = 2
  Timeouts = {1}
  MaxCalls = 2
  MaxClock = 2
INVARIANTS StopIsPrompt
PROPERTIES ActiveIsServed TimerFires
