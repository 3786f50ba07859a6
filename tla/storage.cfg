SPECIFICATION AllSpec
CONSTANTS
  Reqs = {0, 1, 2}
  Elems = {e1, e2, e3}
  MaxOffset = 1
  NoElem = NoElem
CHECK_DEADLOCK FALSE
INVARIANT RequestsKept
PROPERTIES RequestsComplete CancelReturns
