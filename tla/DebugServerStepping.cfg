\* Stepping and pausing, with breakpoints set at any time.
SPECIFICATION FairSpec
CONSTANTS
  p = p
  q = q
  f1 = f1
  f2 = f2
  Procs <- ProcsPQ
  Offsets = {0, 1, 2}
  Code <- StepCode
  ClientSites <- EntrySites
  ClientMessages <- Steps
  Patient = FALSE
  Blocking = FALSE
  FrameIds = {f1, f2}
  NoFrame = NoFrame
CHECK_DEADLOCK FALSE
INVARIANTS
  OwnInstructions
  BlockedMeansNoAction
PROPERTIES
  OverMakesProgress
  StepLandsWhereAsked
  HandshakeSpec
  PauseStops
