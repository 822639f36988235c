\* The debugger hooks Runtime after the core has.
SPECIFICATION CoreServicesSpec
CONSTANTS
  Modules <- SomeModules
  MaxLives = 1
  MaxOpcodes = 4
  Original = Original
  Addresses = {"local", "remote"}
  Localhost = "local"
  Window = 2
  Lists <- BanLists
  Senders = {s, t}
  Messages = {"a", "b", "bad"}
  Garbage = {"bad"}
  Size <- TextSize
  Zero = Zero
  MaxSent = 3
  MaxPiece = 2
  Compiled <- SomeInstructions
  MaxInstructions = 1
  StringIds = {0, 7, 8, 9, 10}
  ProcIds = {0, 7}
CHECK_DEADLOCK FALSE
INVARIANT DebuggerSeesRuntimes
