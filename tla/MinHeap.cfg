SPECIFICATION Spec
CONSTANTS
  Event = {e1, e2, e3, e4, e5, e6}
  NoEvent = NoEvent
  Time = {0, 1}
  MinCap = 2
SYMMETRY Symmetry
INVARIANTS TopIsEarliest
PROPERTIES ImplementsTimerSet
