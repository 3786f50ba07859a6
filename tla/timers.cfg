SPECIFICATION MCSpec
CONSTANTS
  Callouts = {lapic, hpet}
  MaxTime = 3
  MinDelay = 1
  Drains = TRUE
  NoCallout = NoCallout
  NumTimers = 1
  WC = 4
  Values = {1, 2}
  Configs <- MCConfigs
  MaxNow = 5
  ByteVals = 2
  PitMaxNow = 5
  MaxEarly = 1
  Rates = {0, 1}
  Times <- MCTimes
  RtcMaxNow = 2
CHECK_DEADLOCK FALSE
INVARIANTS
  StoppedNeverFires QueueSound
  LinesMatchIsr MatchNotMissed CalendarExact
PROPERTIES TicksArmed PendingLeadsToDispatch
