SPECIFICATION Spec
CONSTANTS
  sock = sock
  sig = sig
  tmr = tmr
  pipe = pipe
  once = once
  NoEvent = NoEvent
  Event = {sock, tmr, pipe}
  SigPipe = pipe
  Once = {}
  Persist = {pipe}
  Manual = {sock}
  ByHand = {"WRITE"}
  Interest <- MCInterest
  NPri = 1
  Timeouts = {0, 1}
  MaxCalls = 1
  MaxClock = 3
INVARIANTS ExpiryIsCurrent SleepsOnlyWhenQuiet
PROPERTIES ArmedIsHeard
