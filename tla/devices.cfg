SPECIFICATION Spec
CONSTANTS
  Vcpus = {1, 2}
  BarList <- MachineBars
  Limit = 4
  Moves = {1, 2}
  Socks = {s1}
  WriteBuf = 1
  GuestBuf = 1
  Ops <- DialOps
  HostDoes = {"dial", "data"}
  MaxTx = 1
  MaxDesc = 1
  MaxReply = 1
  FIFOSZ = 2
  MaxTyped = 3
  MaxWrites = 4
  Iers <- IerValues
  Mcrs <- McrValues
  MaxToggles = 3
  MaxSignals = 2
  NSlots = 1
  Atapi = FALSE
  Msi = FALSE
  Cmds <- AtaCmds
  Enables <- SomeIrqs
  Drivers = {"careful"}
  QSize = 2
  W = 4
  Kind = "vpnkit"
  Msix = TRUE
  OnEmpty = FALSE
  Resets = TRUE
  Mrg = {TRUE}
  Uses = {"tx"}
  Chains = {0, 1}
CHECK_DEADLOCK FALSE
INVARIANTS
  StringExact InstructionExact
  NoPciAbort DispatchMatchesBars 
  PortConsistent RingsOwned SelectedFdOpen
PROPERTY WalkExact
