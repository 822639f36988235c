\* A proc sleeps although the buffer has data.
SPECIFICATION FairSpec
CONSTANTS
  Procs = {p}
  Sockets = {s}
  None = None
  Spent = Spent
  MaxItems = 1
  MaxTotal = 2
  RecvLimit = 2
  OneReader = TRUE
CHECK_DEADLOCK FALSE
PROPERTIES
  RecvReturns
