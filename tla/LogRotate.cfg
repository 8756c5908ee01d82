SPECIFICATION LogSpec
CONSTANTS
  Thread = {t1, t2, t3}
  MaxLogNum = 4
  MaxSize = 1
  MaxFiles = 3
CHECK_DEADLOCK FALSE
INVARIANTS NewestFirst FullIsShifted KeepsNewest
