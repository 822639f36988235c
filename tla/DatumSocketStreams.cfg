\* Two procs on two sockets, which may share one.
SPECIFICATION FairSpec
CONSTANTS
  Procs = {p, q}
  Sockets = {s, t}
  None = None
  Spent = Spent
  MaxItems = 2
  MaxTotal = 2
  RecvLimit = 1
  OneReader = FALSE
CHECK_DEADLOCK FALSE
INVARIANTS
  StreamKept
  AwaitersSleep
PROPERTIES
  EndIsNoticed
