SPECIFICATION RtcSpec
CONSTANTS
  Rates = {0}
  Times = {2}
  RtcMaxNow = 3
CHECK_DEADLOCK FALSE
PROPERTY AlarmVisited
