\* Breakpoints edited only while the main thread is stopped.
SPECIFICATION Spec
CONSTANTS
  p = p
  q = q
  f1 = f1
  f2 = f2
  Procs <- ProcsPQ
  Offsets = {0, 1, 2, 3}
  Code <- CallCode
  ClientSites <- CallSites
  ClientMessages <- EditAndStep
  Patient = TRUE
  Blocking = TRUE
  FrameIds = {f1, f2}
  NoFrame = NoFrame
SYMMETRY FrameSymmetry
CHECK_DEADLOCK FALSE
INVARIANTS
  OriginalsKept
  NoStrayOpcode
  HitsAreKnown
