SPECIFICATION Spec
CONSTANTS
  sock = sock
  sig = sig
  tmr = tmr
  pipe = pipe
  once = once
  NoEvent = NoEvent
  Event = {sock, sig, pipe}
  SigPipe = pipe
  Once = {}
  Persist = {sig, pipe}
  Manual = {sig}
  ByHand = {"WRITE"}
  Interest <- MCInterest
  NPri = 2
  Timeouts = {0}
  MaxCalls = 2
  MaxClock = 1
INVARIANTS QueueConsistency NoStrayCancel
PROPERTIES NoCallAfterDel
