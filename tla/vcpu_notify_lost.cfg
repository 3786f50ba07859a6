SPECIFICATION Spec
CONSTANTS
  NCpu = 1
  Exits = {"HLT_ON"}
  Events = {"INTR"}
  Signals = FALSE
  MaxWrites = 0
INVARIANT NotifyWakesSleeper
