\* Three turfs in a row, the last of them planetary.
SPECIFICATION FairSpec
CONSTANTS
  Turfs = {1, 2, 3}
  Groups = {g, h}
  None = None
  Adjacent <- Corridor3
  Planetary = {3}
  BreakdownCycles = 1
  DismantleCycles = 2
INVARIANTS
  ListedOnce
  ListsAgree
PROPERTIES
  QuietGroupsEnd
