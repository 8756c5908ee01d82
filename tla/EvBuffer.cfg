SPECIFICATION Spec
CONSTANTS
  Byte = {0, 1}
  NoByte = NoByte
  MinLen = 2
  MaxRead = 1
  MaxChunk = 2
  MaxOff = 3
INVARIANTS InsideBlock CallbackIsTold
PROPERTIES ImplementsByteQueue
