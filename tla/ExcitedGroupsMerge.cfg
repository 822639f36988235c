\* A group meets a smaller one and takes it over.
SPECIFICATION Spec
CONSTANTS
  Turfs = {1, 2, 3}
  Groups = {g, h}
  None = None
  Adjacent <- Corridor3
  Planetary = {3}
  BreakdownCycles = 1
  DismantleCycles = 2
PROPERTIES
  DismantleRemovesTurfs
