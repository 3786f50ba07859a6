SPECIFICATION UartSpec
CONSTANTS
  FIFOSZ = 2
  MaxTyped = 1
  MaxWrites = 2
  Iers = {{}}
  Mcrs = {{}}
CHECK_DEADLOCK FALSE
INVARIANT InputWatched
