SPECIFICATION Spec
CONSTANTS
  Callouts = {lapic, hpet}
  MaxTime = 3
  Drains = FALSE
  MinDelay = 0
  NoCallout = NoCallout
CHECK_DEADLOCK FALSE
INVARIANT NeverEarly
