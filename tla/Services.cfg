\* The memory, call and reference profilers and the Lua bridge.
CONSTANTS
  Tables <- AllTables
  Types = {"a", "b"}
  Width = 4
  NoEntity = NoEntity
  Procs = {p, q}
  NoProc = NoProc
  MaxDepth = 3
  MaxId = 2
  Datums = {d, e}
  Lists = {l}
  Names = {n}
  In = in
  Null = Null
  MaxLength = 2
  MaxCount = 2
  LuaProcs = {p, q}
  MaxFunctions = 4
  MaxEntries = 3
  Missing = {m}
  Closures = {f, g}
  NoId = 0
  Dead = Dead
INIT ServicesInit
NEXT ServicesNext
SYMMETRY Symmetry
INVARIANTS
  ReportAddsUp
  RunsRecorded
  NeverForgotten
  TrackedIsReal
  RunsItsFunction
  JumpsHome
CHECK_DEADLOCK FALSE
