SPECIFICATION FairSpec
CONSTANTS
  NCpu = 2
  Exits = {"RESET", "TRIPLEFAULT", "HLT_OFF", "IOAPIC", "SPINUP"}
  Events = {}
  Signals = TRUE
  MaxWrites = 2
INVARIANTS RendezvousComplete AllParked NoLifecycleAbort PauseProtects
PROPERTIES SuspendLeadsToExit RendezvousReturns HaltDetected
