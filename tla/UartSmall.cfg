CONSTANTS
  Chars <- TwoChars
  a = a
  b = b
  NUL = NUL
  SIZE = 3
  MaxBurst = 2
SPECIFICATION UartSpec
INVARIANT UartTypeOK
INVARIANT PendingIsEnabled
PROPERTY ImplementsFifo
CHECK_DEADLOCK FALSE
