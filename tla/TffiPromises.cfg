\* Promises shared, dropped and resolved by two procs, on either platform.
SPECIFICATION FairSpec
CONSTANTS
  Procs = {p, q}
  Datums = {d, e}
  MaxPromises = 2
  None = None
CHECK_DEADLOCK FALSE
INVARIANTS
  NoLostWakeup
  KeptReturnsOwnResult
PROPERTIES
  FirstResolveReturns
  ThreadsEnd
