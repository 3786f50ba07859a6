SPECIFICATION TickSpec
CONSTANTS
  NCpu = 2
  Exits = {"RESET", "HLT_ON", "SPINUP", "OTHER"}
  Events = {"INTR"}
  Signals = TRUE
  MaxWrites = 0
PROPERTIES PauseStops HaltWakes
