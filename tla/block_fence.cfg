SPECIFICATION FairSpec
CONSTANTS
  QSize = 1
  W = 2
  Msix = TRUE
  Ops = {"rw"}
  Quiet = {TRUE}
CHECK_DEADLOCK FALSE
PROPERTY RequestReturns
