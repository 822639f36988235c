\* Unsetting one breakpoint disarms another.
SPECIFICATION Spec
CONSTANTS
  p = p
  q = q
  f1 = f1
  f2 = f2
  Procs <- ProcsPQ
  Offsets = {0, 1, 2, 3}
  Code <- CallCode
  ClientSites <- CallSites
  ClientMessages <- EditOnly
  Patient = TRUE
  Blocking = TRUE
  FrameIds = {f1, f2}
  NoFrame = NoFrame
CHECK_DEADLOCK FALSE
INVARIANT StaysArmed
