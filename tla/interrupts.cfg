SPECIFICATION AllSpec
CONSTANTS
  Vectors = {8, 33, 49}
  Tprs = {0, 32}
  Lvts = {"ERROR", "LINT0"}
  LvtWrites <- MCLvtWrites
  Aps = {1}
  Cpus = {0, 1}
  Pins = {0}
  IoVectors = {33, 49}
  Dests <- MCDests
  Guests = {"any", "masked"}
  MaxAcnt = 1
  Trace = TRUE
  SlotOf <- MCSlotOf
  NPins = 4
  NPirqs = 2
  PciPins = 2
  Irqs = {1, 2, 3}
  Permitted = {2, 3}
  Reserved = {2}
  Lines <- Cascade
  Level = {}
  Features = {"SMM"}
  MaxHeld = 1
CHECK_DEADLOCK FALSE
INVARIANTS
  NoApicAbort SpinsUpOnce
  AssertedNotForgotten RemIrrHasEoi
  NoEventLost EntryLegal
  LinesMatch
PROPERTIES EligibleServed AcceptsByPriority
