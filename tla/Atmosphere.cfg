\* The equalisation of zones of up to seven tiles, neighbours that share, and
\* two datums that register, lose and change gas mixtures.
INIT AtmosphereInit
NEXT AtmosphereNext
CONSTANTS
  Tiles = {1, 2, 3, 4, 5, 6, 7}
  Neighbour <- ThreeByTwo
  Firelocks <- TwoFirelocks
  Layouts <- SomeLayouts
  FullMoles = 360
  PlanetMoles = 120
  TurfLimit = 6
  HardLimit = 20
  Minimum = 6
  RatioToMove = 5
  MaxCycle = 2
  Cells = {1, 2, 3, 4, 5, 6}
  Adjacent <- Crossing
  FirstAirs <- CrossingAirs
  MaxFires = 2
  Datums = {d, e}
  Pointers = {p, q}
  Null = Null
  Turfs = {"tile"}
  Gases = {"o2"}
  MaxMoles = 2
  MaxPointers = 2
SYMMETRY Symmetry
INVARIANTS PlanAddsUp ZoneEndsEven NoOverdraft RegistryIsSound
PROPERTIES BreachEmpties ImmutablesKeep MovesKeepGas
CHECK_DEADLOCK FALSE
